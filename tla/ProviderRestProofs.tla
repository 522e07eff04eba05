-------------------------- MODULE ProviderRestProofs --------------------------
(***************************************************************************)
(* What the last reconcile has left when nothing starts another one, for   *)
(* every set of storages and of surroundings.                              *)
(***************************************************************************)
EXTENDS ProviderSyncProofs

\* A reconcile got to one of these steps, or to its end, and nothing has
\* happened since it began that would start another.
Past(steps) == ~queued /\ pc \in steps \cup {"idle"}

AfterMonitor == {"scrape", "adopt", "applyScrape", "status"}
AfterProxy == AfterMonitor \cup {"monitor"}
AfterTemplate == AfterProxy \cup {"maxscale"}
AfterApply == AfterTemplate \cup {"template"}

\* Steps of the informers, the operator, the converter and the API server.
Beside == EngineStep \/ TemplateEnvStep \/ ProxyEnvStep \/ MonitoringEnvStep

-----------------------------------------------------------------------------
(* How a reconcile that is not disturbed moves on.                           *)

\* The calls of SyncMariaDB lead no further than to the template, and those
\* of a cleanup nowhere in a Sync.
LEMMA EngineCallsMoveOn ==
    ASSUME MigrateOwnership \/ ApplyMariaDB \/ CleanupEngine \/ ReleaseInstance,
           ~queued', pc' \in SyncSteps \cup {"idle"}
    PROVE  /\ ~queued /\ pc \in {"migrate", "mariadb"}
           /\ UNCHANGED <<syncVars, mdbCache>>
           /\ pc = "migrate" => pc' = "mariadb"
           /\ pc = "mariadb" => pc' = "template" /\ ApplyMariaDB
<1> USE DEF Continue, Retry, SyncSteps
<1>1. CASE MigrateOwnership
  BY <1>1 DEF MigrateOwnership
<1>2. CASE ApplyMariaDB
  BY <1>2 DEF ApplyMariaDB
<1>3. CASE CleanupEngine \/ ReleaseInstance
  BY <1>3 DEF CleanupEngine, ReleaseInstance
<1> QED BY <1>1, <1>2, <1>3

LEMMA TemplateCallMovesOn ==
    ASSUME SyncReplicaTemplate, ~queued'
    PROVE  /\ ~queued /\ pc = "template" /\ pc' = "maxscale"
           /\ UNCHANGED <<syncVars, engineVars>>
  BY DEF Continue, Retry, SyncReplicaTemplate, DropTemplate, SkipTemplate,
     StorageMissing, RecreateTemplate, KeepTemplate, TemplateStep

LEMMA ProxyCallsMoveOn ==
    ASSUME SyncMaxScale \/ ReportStatus \/ CleanupProxy,
           ~queued', pc' \in SyncSteps \cup {"idle"}
    PROVE  /\ ~queued /\ pc \in {"maxscale", "status"}
           /\ UNCHANGED <<syncVars, engineVars, mxsCache>>
           /\ pc = "maxscale" => pc' = "monitor" /\ SyncMaxScale /\ published' = published
           /\ pc = "status" => pc' = "idle" /\ ReportStatus /\ mxs' = mxs
<1> USE DEF Continue, Retry, SyncSteps
<1>1. CASE SyncMaxScale
  BY <1>1 DEF SyncMaxScale, ApplyMaxScale, DisableProxy, TeardownMaxScale
<1>2. CASE ReportStatus
  BY <1>2 DEF ReportStatus
<1>3. CASE CleanupProxy
  BY <1>3 DEF CleanupProxy, TeardownMaxScale
<1> QED BY <1>1, <1>2, <1>3

LEMMA MonitoringCallsMoveOn ==
    ASSUME SyncMonitoring, ~queued'
    PROVE  /\ ~queued /\ pc \in AfterProxy \ {"status"} /\ pc' \in AfterMonitor
           /\ pc = "monitor" => pc' = "scrape"
           /\ UNCHANGED <<syncVars, engineVars, operatorView>>
  BY DEF Continue, Retry, SyncMonitoring, KeepMonitor, DropMonitor, TeardownScrape,
     ReadScrape, AdoptScrape, ApplyScrape, AfterMonitor, AfterProxy, monitoringVars

\* A step of Sync that does not bring the Instance back to the queue leaves
\* the Instance and the caches alone and leads where Sync goes on.
LEMMA CallsMoveOn ==
    ASSUME SyncStep, ~queued', pc' \in SyncSteps \cup {"idle"}
    PROVE  /\ ~queued /\ pc \in SyncSteps
           /\ UNCHANGED <<syncVars, mdbCache, mxsCache>>
           /\ \/ pc = "migrate" /\ pc' = "mariadb"
              \/ pc = "mariadb" /\ pc' = "template" /\ ApplyMariaDB
              \/ pc = "template" /\ pc' = "maxscale" /\ SyncReplicaTemplate
              \/ pc = "maxscale" /\ pc' = "monitor" /\ SyncMaxScale
              \/ pc \in AfterProxy /\ pc' \in AfterMonitor /\ SyncMonitoring
              \/ pc = "status" /\ pc' = "idle" /\ ReportStatus
<1> USE DEF SyncSteps, AfterMonitor, AfterProxy
<1>1. CASE /\ MigrateOwnership \/ ApplyMariaDB \/ CleanupEngine \/ ReleaseInstance
           /\ UNCHANGED proxyVars
  BY <1>1, EngineCallsMoveOn DEF proxyVars
<1>2. CASE SyncReplicaTemplate /\ UNCHANGED proxyVars
  BY <1>2, TemplateCallMovesOn DEF proxyVars, engineVars
<1>3. CASE SyncMaxScale \/ ReportStatus \/ CleanupProxy
  BY <1>3, ProxyCallsMoveOn DEF engineVars
<1>4. CASE SyncMonitoring /\ UNCHANGED proxyVars
  BY <1>4, MonitoringCallsMoveOn DEF proxyVars, engineVars
<1> QED BY <1>1, <1>2, <1>3, <1>4 DEF SyncStep

LEMMA BesideKeeps ==
    ASSUME Beside, ~queued'
    PROVE  UNCHANGED <<syncVars, flow, mdbCache, mxsCache, published>>
<1>1. CASE EngineStep
  BY <1>1 DEF EngineStep, EngineProgresses, FinalizeEngine, EngineEvent, flow, proxyVars
<1>2. CASE TemplateEnvStep \/ MonitoringEnvStep
  BY <1>2 DEF TemplateEnvStep, FinalizeTemplate, TemplateCached, MonitoringEnvStep,
     OperatorReads, OperatorMonitors, FinalizeMonitor, Convert, FinalizeScrape,
     engineVars, proxyVars
<1>3. CASE ProxyEnvStep
  BY <1>3 DEF ProxyEnvStep, ProxyProgresses, FinalizeProxy, ProxyEvent, IssueSecret,
     SecretEvent, flow, engineVars
<1> QED BY <1>1, <1>2, <1>3 DEF Beside

\* An Instance comes to such a point in four ways, and only the first one
\* brings another copy of it.
LEMMA QuietStep ==
    ASSUME [Next]_vars, Past(SyncSteps)'
    PROVE  \/ BeginSync /\ Runtime /\ ~deleted /\ pc' = "migrate"
           \/ /\ Past(SyncSteps) /\ UNCHANGED <<syncVars, mdbCache, mxsCache>>
              /\ \/ SyncStep /\ pc \in SyncSteps
                 \/ Beside /\ UNCHANGED <<pc, published>>
                 \/ UNCHANGED vars
<1> USE DEF Past
<1>1. CASE SyncStep
  BY <1>1, CallsMoveOn
<1>2. CASE Runtime
  BY <1>2 DEF Runtime, UserEdit, UserDelete, BeginSync, SyncFails, SyncSteps
<1>3. CASE Beside
  BY <1>3, BesideKeeps DEF flow
<1>4. CASE UNCHANGED vars
  BY <1>4 DEF vars, flow, engineVars, proxyVars
<1> QED BY <1>1, <1>2, <1>3, <1>4 DEF Next, Beside

LEMMA PastSteps ==
    /\ Past({}) => Past({"status"}) /\ Past(AfterMonitor) /\ Past(AfterProxy)
                   /\ Past(AfterTemplate) /\ Past(AfterApply) /\ Past(SyncSteps)
    /\ Past({"status"}) => Past(AfterMonitor)
    /\ Past(AfterMonitor) => Past(AfterProxy)
    /\ Past(AfterProxy) => Past(AfterTemplate)
    /\ Past(AfterTemplate) => Past(AfterApply)
    /\ Past(AfterApply) => Past(SyncSteps)
  BY DEF Past, AfterMonitor, AfterProxy, AfterTemplate, AfterApply, SyncSteps

-----------------------------------------------------------------------------
(* What each step of Sync leaves, and nothing undoes without an event.       *)

\* The reconcile works on the Instance as it is.
SnapKept == Past(SyncSteps) => snap = spec /\ ~deleted

\* Once the MariaDB was applied, it declares what the reconcile's copy asks.
EngineKept ==
    Past(AfterApply) =>
        /\ mdb # Absent /\ mdb.metrics = MetricsOf(snap)
        /\ mdb.tls = snap.tls /\ mdb.staged = Staged(snap)

\* Once SyncMaxScale is through, a MaxScale that is wanted is there as asked,
\* and one that is not is going; unless the cache has yet to show a change.
\* A deletion under way hides nothing: it began with a MaxScale that was seen.
ProxyKept ==
    /\ Deleting(mxs) => mxsCache # Absent
    /\ Past(AfterProxy) =>
        IF snap.proxy
        THEN IF mxs = Absent THEN mxsCache # Absent ELSE mxs.tls = ProxyTLS(snap)
        ELSE mxs # Absent /\ ~mxs.deleting => mxsCache = Absent \/ mxsCache.deleting

StatusNow ==
    IF mdbCache # Absent /\ mdbCache.ready /\ (snap.proxy => ReadyMaxScale)
    THEN ConnectionDetails ELSE Absent

\* The status is that of what the caches and the Secrets show.  It falls behind
\* when a Secret comes, and then shows nothing, or when a MaxScale goes with
\* its Secret, and then the cache has yet to show it.
StatusKept ==
    Past({}) =>
        \/ published = StatusNow
        \/ published = Absent /\ (news \/ ~env.announces)
        \/ mxs = Absent /\ mxsCache # Absent

TemplateKept ==
    /\ ~env.finalizers => ~Deleting(tpl)
    /\ ~env.lag /\ ~env.finalizers /\ Past(AfterTemplate) =>
        tpl = IF Staged(snap) THEN [storage |-> snap.storage, deleting |-> FALSE]
              ELSE Absent

MonitorKept ==
    /\ ~env.finalizers => monitor # "deleting"
    /\ ~env.finalizers /\ ~env.busy /\ Past(AfterMonitor) /\ MetricsOf(snap) = "unmonitored"
        => monitor = Absent \/ MetricsSeen(mdbCache) # "unmonitored"

ScrapeKept ==
    /\ ~env.finalizers => ~Deleting(scrape)
    /\ pc \in {"adopt", "applyScrape"} => WantsScrape(snap)
    /\ ~env.finalizers /\ Past({"status"}) =>
        IF WantsScrape(snap)
        THEN \/ scrape = [controller |-> "Instance", by |-> "provider", deleting |-> FALSE]
             \/ MetricsSeen(mdbCache) = "off"
        ELSE scrape # Absent => scrape.by = "converter"

-----------------------------------------------------------------------------
(* One part after the other. *)

LEMMA SnapStep ==
    ASSUME SnapKept, [Next]_vars
    PROVE  SnapKept'
<1> SUFFICES ASSUME Past(SyncSteps)' PROVE snap' = spec' /\ ~deleted'
  BY DEF SnapKept
<1>1. CASE BeginSync /\ ~deleted
  BY <1>1 DEF BeginSync
<1>2. CASE Past(SyncSteps) /\ UNCHANGED syncVars
  BY <1>2 DEF SnapKept, syncVars
<1> QED BY <1>1, <1>2, QuietStep

\* What the operator does to a MariaDB that is not deleted.
LEMMA EngineBeside ==
    ASSUME TypeOK, Beside, ~Deleting(mdb), mdb # Absent
    PROVE  /\ mdb' # Absent /\ mdb'.metrics = mdb.metrics
           /\ mdb'.tls = mdb.tls /\ mdb'.staged = mdb.staged
<1>1. CASE EngineProgresses
  <2>1. mdb \in MariaDB
    BY DEF TypeOK, SyncTypeOK
  <2>2. mdb' = [mdb EXCEPT !.ready = TRUE]
    BY <1>1 DEF EngineProgresses
  <2>3. mdb' \in MariaDB
    BY <2>1, <2>2, MariaDBUpdate
  <2> QED BY <2>1, <2>2, <2>3, SyncAssumption DEF MariaDB
<1>2. CASE FinalizeEngine
  BY <1>2 DEF FinalizeEngine, Deleting
<1>3. CASE ~EngineProgresses /\ ~FinalizeEngine
  <2>1. mdb' = mdb
    BY <1>3 DEF Beside, EngineStep, EngineEvent, TemplateEnvStep, FinalizeTemplate,
       TemplateCached, ProxyEnvStep, ProxyProgresses, FinalizeProxy, ProxyEvent,
       IssueSecret, SecretEvent, MonitoringEnvStep, OperatorReads, OperatorMonitors, FinalizeMonitor, Convert,
       FinalizeScrape, engineVars
  <2> QED BY <2>1
<1> QED BY <1>1, <1>2, <1>3

\* In a reconcile that is not disturbed the MariaDB is not being deleted.
LEMMA NotDeleting ==
    ASSUME StopInv, SnapKept, Past(SyncSteps)
    PROVE  ~Deleting(mdb)
  BY DEF StopInv, SnapKept

LEMMA EngineKeptStep ==
    ASSUME TypeOK, StopInv, ReferenceInv, SnapKept, EngineKept, [Next]_vars
    PROVE  EngineKept'
<1> DEFINE Declared(m, s) == /\ m # Absent /\ m.metrics = MetricsOf(s)
                             /\ m.tls = s.tls /\ m.staged = Staged(s)
<1> SUFFICES ASSUME Past(AfterApply)' PROVE Declared(mdb, snap)'
  BY DEF EngineKept
<1>1. Past(SyncSteps)' /\ ~(pc' = "migrate")
  BY DEF Past, AfterApply, AfterTemplate, AfterProxy, AfterMonitor, SyncSteps
<1>2. /\ Past(SyncSteps) /\ UNCHANGED syncVars
      /\ \/ SyncStep /\ pc \in SyncSteps
         \/ Beside /\ UNCHANGED <<pc, published>>
         \/ UNCHANGED vars
  BY <1>1, QuietStep
<1>3. CASE SyncStep /\ pc = "mariadb"
  <2>1. ApplyMariaDB /\ snap' = snap
    BY <1>1, <1>2, <1>3, CallsMoveOn DEF Past, AfterProxy, AfterMonitor, syncVars
  <2>2. ~Legacy(mdb)
    BY <1>3 DEF ReferenceInv
  <2>3. CASE mdb = Absent
    <3>1. mdb' = Created(snap) /\ snap \in Instance
      BY <2>1, <2>3 DEF ApplyMariaDB, TypeOK, SyncTypeOK
    <3>2. mdb' \in MariaDB
      BY <3>1, DeclaredType
    <3>3. mdb' # Absent
      BY <3>2, SyncAssumption
    <3> QED BY <2>1, <3>1, <3>3 DEF Created, MetricsOf, Staged
  <2>4. CASE mdb # Absent
    <3>1. mdb \in MariaDB /\ ~mdb.legacy
      BY <2>2, <2>4 DEF Legacy, TypeOK, SyncTypeOK
    <3> DEFINE k == IF MetricsOf(snap) = "off" /\ mdb.legacy
                    THEN mdb.metrics ELSE MetricsOf(snap)
               b == Staged(snap) \/ (mdb.legacy /\ mdb.staged)
    <3>2. mdb' = [mdb EXCEPT !.tls = snap.tls, !.metrics = k, !.staged = b]
      BY <2>1, <2>4 DEF ApplyMariaDB
    <3>3. k = MetricsOf(snap)
      BY <3>1
    <3>4. b = Staged(snap)
      BY <3>1 DEF Staged
    <3>5. snap.tls \in TLSMode /\ k \in OperatorMetrics /\ b \in BOOLEAN
      BY <3>3, <3>4, DeclaredType DEF TypeOK, SyncTypeOK, Instance
    <3> HIDE DEF k, b
    <3>6. mdb' \in MariaDB
      BY <3>1, <3>2, <3>5, MariaDBDeclared
    <3>7. mdb' # Absent /\ mdb'.tls = snap.tls /\ mdb'.metrics = k /\ mdb'.staged = b
      BY <3>1, <3>2, <3>6, SyncAssumption DEF MariaDB
    <3> QED BY <2>1, <3>3, <3>4, <3>7 DEF MetricsOf, Staged
  <2> QED BY <2>3, <2>4
<1>4. CASE SyncStep /\ pc # "mariadb"
  <2>1. pc \in AfterApply
    BY <1>1, <1>2, <1>4, CallsMoveOn DEF Past, AfterApply, AfterTemplate, AfterProxy,
       AfterMonitor
  <2>2. Declared(mdb, snap)
    BY <1>2, <2>1 DEF EngineKept, Past
  <2>3. mdb' = mdb /\ snap' = snap
    BY <1>2, <1>4, <2>1, StepsBeside DEF SyncStep, MigrateOwnership, ApplyMariaDB, CleanupEngine,
       ReleaseInstance, SyncMaxScale, ApplyMaxScale, DisableProxy, CleanupProxy,
       TeardownMaxScale, ReportStatus, engineVars, syncVars, AfterApply, AfterTemplate,
       AfterProxy, AfterMonitor
  <2> QED BY <2>2, <2>3 DEF MetricsOf, Staged
<1>5. CASE Beside /\ UNCHANGED pc
  <2>1. Past(AfterApply) /\ ~Deleting(mdb) /\ snap' = snap
    BY <1>2, <1>5, NotDeleting DEF Past, syncVars
  <2>2. Declared(mdb, snap)
    BY <2>1 DEF EngineKept
  <2> QED BY <1>5, <2>1, <2>2, EngineBeside DEF MetricsOf, Staged
<1>6. CASE UNCHANGED vars
  <2>1. Past(AfterApply) /\ mdb' = mdb /\ snap' = snap
    BY <1>2, <1>6 DEF Past, vars, flow, engineVars, syncVars
  <2> QED BY <2>1 DEF EngineKept, MetricsOf, Staged
<1> QED BY <1>2, <1>3, <1>4, <1>5, <1>6

\* Only a MaxScale that was seen is asked to go.
LEMMA ProxySeen ==
    ASSUME TypeOK, Deleting(mxs) => mxsCache # Absent, [Next]_vars
    PROVE  (Deleting(mxs) => mxsCache # Absent)'
<1> SUFFICES ASSUME Deleting(mxs)' PROVE mxsCache' # Absent
  OBVIOUS
<1> USE DEF Deleting
<1>0. mxs # Absent => mxs \in MaxScale
  BY DEF TypeOK, ProxyTypeOK
<1>1. CASE ApplyMaxScale
  <2>1. mxsCache' = mxsCache
    BY <1>1 DEF ApplyMaxScale
  <2>2. CASE mxs = Absent
    BY <1>1, <2>2 DEF ApplyMaxScale
  <2>3. CASE mxs # Absent
    <3>1. mxs' = [mxs EXCEPT !.tls = ProxyTLS(snap)]
      BY <1>1, <2>3 DEF ApplyMaxScale
    <3>2. mxs.deleting
      BY <1>0, <2>3, <3>1 DEF MaxScale
    <3> QED BY <2>1, <2>3, <3>2
  <2> QED BY <2>2, <2>3
<1>2. CASE DisableProxy \/ CleanupProxy
  <2>1. PICK next \in {"monitor", "cleanupEngine"} : TeardownMaxScale(next)
    BY <1>2 DEF DisableProxy, CleanupProxy
  <2>2. mxsCache' = mxsCache /\ (mxs' = mxs \/ mxsCache # Absent)
    BY <2>1 DEF TeardownMaxScale
  <2> QED BY <2>2
<1>3. CASE ProxyEnvStep
  <2>1. CASE ProxyProgresses
    <3>1. mxs # Absent /\ ~mxs.deleting /\ mxs' = [mxs EXCEPT !.ready = TRUE]
      BY <2>1 DEF ProxyProgresses
    <3>2. mxs'.deleting = mxs.deleting
      BY <1>0, <3>1 DEF MaxScale
    <3> QED BY <3>1, <3>2
  <2>2. CASE FinalizeProxy
    BY <2>2 DEF FinalizeProxy
  <2>3. CASE ProxyEvent \/ (\E k \in Secret : IssueSecret(k)) \/ SecretEvent
    BY <2>3 DEF ProxyEvent, IssueSecret, SecretEvent
  <2> QED BY <1>3, <2>1, <2>2, <2>3 DEF ProxyEnvStep
<1>4. CASE ~ApplyMaxScale /\ ~DisableProxy /\ ~CleanupProxy /\ ~ProxyEnvStep
  <2>1. mxs' = mxs /\ mxsCache' = mxsCache
    BY <1>4 DEF Next, SyncStep, SyncMaxScale, ReportStatus, Runtime, EngineStep,
       TemplateEnvStep, MonitoringEnvStep, proxyVars, vars
  <2> QED BY <2>1
<1> QED BY <1>1, <1>2, <1>3, <1>4

\* What becomes of a MaxScale beside a reconcile.
LEMMA ProxyBeside ==
    ASSUME TypeOK, Beside, pc # "gone"
    PROVE  \/ mxs' = mxs
           \/ Deleting(mxs) /\ mxs' = Absent
           \/ mxs # Absent /\ mxs' # Absent /\ ~mxs.deleting /\ mxs'.tls = mxs.tls
<1>1. CASE ProxyProgresses
  <2>1. mxs \in MaxScale /\ ~mxs.deleting /\ mxs' = [mxs EXCEPT !.ready = TRUE]
    BY <1>1 DEF ProxyProgresses, TypeOK, ProxyTypeOK
  <2>2. mxs' \in MaxScale /\ mxs'.tls = mxs.tls
    BY <2>1 DEF MaxScale
  <2> QED BY <2>1, <2>2, ProxyAssumption
<1>2. CASE FinalizeProxy
  BY <1>2 DEF FinalizeProxy, Deleting
<1>3. CASE ~ProxyProgresses /\ ~FinalizeProxy
  BY <1>3 DEF Beside, EngineStep, TemplateEnvStep, ProxyEnvStep, ProxyEvent,
     IssueSecret, SecretEvent, MonitoringEnvStep, proxyVars
<1> QED BY <1>1, <1>2, <1>3

\* What SyncMaxScale leaves when it does not have to be called again.
LEMMA ProxyApplied ==
    ASSUME TypeOK, SyncMaxScale, ~queued'
    PROVE  IF snap.proxy THEN mxs' # Absent /\ mxs'.tls = ProxyTLS(snap)
           ELSE mxs' # Absent /\ ~mxs'.deleting => mxsCache = Absent \/ mxsCache.deleting
<1>1. CASE ApplyMaxScale
  <2>1. ProxyTLS(snap) \in BOOLEAN
    BY DEF ProxyTLS
  <2>2. CASE mxs = Absent
    <3>1. mxs' = [tls |-> ProxyTLS(snap), ready |-> FALSE, deleting |-> FALSE]
      BY <1>1, <2>2 DEF ApplyMaxScale
    <3>2. mxs' \in MaxScale /\ mxs'.tls = ProxyTLS(snap)
      BY <2>1, <3>1 DEF MaxScale
    <3> QED BY <1>1, <3>2, ProxyAssumption DEF ApplyMaxScale
  <2>3. CASE mxs # Absent
    <3>1. mxs \in MaxScale /\ mxs' = [mxs EXCEPT !.tls = ProxyTLS(snap)]
      BY <1>1, <2>3 DEF ApplyMaxScale, TypeOK, ProxyTypeOK
    <3>2. mxs' \in MaxScale /\ mxs'.tls = ProxyTLS(snap)
      BY <2>1, <3>1 DEF MaxScale
    <3> QED BY <1>1, <3>2, ProxyAssumption DEF ApplyMaxScale
  <2> QED BY <2>2, <2>3
<1>2. CASE DisableProxy
  <2> SUFFICES ASSUME mxs' # Absent, ~mxs'.deleting
               PROVE  mxsCache = Absent \/ mxsCache.deleting
    BY <1>2 DEF DisableProxy
  <2>1. CASE mxsCache # Absent /\ ~mxsCache.deleting
    <3>1. mxs # Absent /\ mxs' = AfterDelete(mxs)
      BY <1>2, <2>1 DEF DisableProxy, TeardownMaxScale, Retry
    <3>2. mxs' = [mxs EXCEPT !.deleting = TRUE] /\ mxs \in MaxScale
      BY <3>1 DEF AfterDelete, TypeOK, ProxyTypeOK
    <3> QED BY <3>2 DEF MaxScale
  <2> QED BY <2>1
<1> QED BY <1>1, <1>2 DEF SyncMaxScale

LEMMA ProxyKeptStep ==
    ASSUME TypeOK, ProxyKept, [Next]_vars
    PROVE  ProxyKept'
<1> DEFINE AsAsked(m, s, c) ==
        IF s.proxy THEN IF m = Absent THEN c # Absent ELSE m.tls = ProxyTLS(s)
        ELSE m # Absent /\ ~m.deleting => c = Absent \/ c.deleting
<1>1. (Deleting(mxs) => mxsCache # Absent)'
  BY ProxySeen DEF ProxyKept
<1> SUFFICES ASSUME Past(AfterProxy)' PROVE AsAsked(mxs, snap, mxsCache)'
  BY <1>1 DEF ProxyKept
<1>2. Past(SyncSteps)' /\ pc' # "migrate"
  BY DEF Past, AfterProxy, AfterMonitor, SyncSteps
<1>3. /\ Past(SyncSteps) /\ UNCHANGED <<snap, mxsCache>>
      /\ \/ SyncStep /\ pc \in SyncSteps
         \/ Beside /\ UNCHANGED <<pc, published>>
         \/ UNCHANGED vars
  BY <1>2, QuietStep DEF syncVars
<1>4. Past(AfterProxy) => AsAsked(mxs, snap, mxsCache)
  BY DEF ProxyKept
<1>5. CASE SyncStep /\ pc = "maxscale"
  <2>1. SyncMaxScale
    BY <1>2, <1>5, CallsMoveOn DEF Past, AfterProxy, AfterMonitor
  <2>2. ~queued'
    BY DEF Past
  <2> QED BY <1>3, <2>1, <2>2, ProxyApplied DEF ProxyTLS
<1>6. CASE SyncStep /\ pc # "maxscale"
  <2>1. Past(AfterProxy)
    BY <1>2, <1>3, <1>6, CallsMoveOn DEF Past, AfterProxy, AfterMonitor
  <2>2. pc # "cleanupProxy"
    BY <2>1 DEF Past, AfterProxy, AfterMonitor
  <2>3. mxs' = mxs
    BY <1>6, <2>2 DEF SyncStep, SyncMaxScale, ApplyMaxScale, DisableProxy,
       CleanupProxy, ReportStatus, proxyVars
  <2> QED BY <1>3, <1>4, <2>1, <2>3 DEF ProxyTLS
<1>7. CASE Beside /\ UNCHANGED pc
  <2>1. Past(AfterProxy)
    BY <1>3, <1>7 DEF Past
  <2>2. pc # "gone"
    BY <2>1 DEF Past, AfterProxy, AfterMonitor
  <2>3. CASE mxs' = mxs
    BY <1>3, <1>4, <2>1, <2>3 DEF ProxyTLS
  <2>4. CASE Deleting(mxs) /\ mxs' = Absent
    BY <1>3, <2>4 DEF ProxyKept
  <2>5. CASE mxs # Absent /\ mxs' # Absent /\ ~mxs.deleting /\ mxs'.tls = mxs.tls
    BY <1>3, <1>4, <2>1, <2>5 DEF ProxyTLS
  <2> QED BY <1>7, <2>2, <2>3, <2>4, <2>5, ProxyBeside
<1>8. CASE UNCHANGED vars
  BY <1>3, <1>4, <1>8 DEF vars, proxyVars, flow, Past, ProxyTLS
<1> QED BY <1>3, <1>5, <1>6, <1>7, <1>8

\* What a Secret that comes does to a status that was right.
LEMMA SecretArrives ==
    ASSUME published = StatusNow, NEW k \in Secret, IssueSecret(k)
    PROVE  published = StatusNow' \/ published = Absent
<1>1. NeededSecrets' = NeededSecrets /\ ClientTLS' = ClientTLS /\ secrets \subseteq secrets'
  BY DEF IssueSecret, NeededSecrets, ClientTLS, syncVars, engineVars
<1>2. ConnectionDetails' = ConnectionDetails \/ ConnectionDetails = Absent
  BY <1>1 DEF ConnectionDetails, IssueSecret, syncVars
<1> QED BY <1>2 DEF StatusNow, ReadyMaxScale, IssueSecret, syncVars, engineVars

LEMMA StatusKeptStep ==
    ASSUME TypeOK, ProxyKept, StatusKept, [Next]_vars
    PROVE  StatusKept'
<1> SUFFICES ASSUME Past({})' PROVE StatusKept'
  BY DEF StatusKept
<1> DEFINE Behind == \/ published = Absent /\ (news \/ ~env.announces)
                     \/ mxs = Absent /\ mxsCache # Absent
<1>1. Past(SyncSteps)' /\ pc' = "idle"
  BY DEF Past
<1>2. /\ Past(SyncSteps) /\ UNCHANGED <<env, snap, mdbCache, mxsCache>>
      /\ \/ SyncStep /\ pc \in SyncSteps
         \/ Beside /\ UNCHANGED <<pc, published>>
         \/ UNCHANGED vars
  BY <1>1, QuietStep DEF syncVars
<1>3. CASE SyncStep
  <2>1. ReportStatus
    BY <1>1, <1>3, CallsMoveOn DEF Past, AfterMonitor
  <2>2. published' = StatusNow /\ secrets' = secrets
    BY <2>1 DEF ReportStatus, StatusNow, secretVars
  <2>3. StatusNow' = StatusNow
    BY <1>2, <2>2 DEF StatusNow, ConnectionDetails, NeededSecrets, ClientTLS, ReadyMaxScale
  <2> QED BY <2>2, <2>3 DEF StatusKept
<1>4. CASE UNCHANGED <<pc, published>> /\ (Beside \/ UNCHANGED vars)
  <2>1. Past({}) /\ ~queued' /\ pc # "gone" /\ (published = StatusNow \/ Behind)
    BY <1>1, <1>2, <1>4 DEF Past, StatusKept
  <2>2. UNCHANGED secrets => StatusNow' = StatusNow
    BY <1>2 DEF StatusNow, ConnectionDetails, NeededSecrets, ClientTLS, ReadyMaxScale
  <2>3. CASE \E k \in Secret : IssueSecret(k)
    <3>1. PICK k \in Secret : IssueSecret(k)
      BY <2>3
    <3>2. news' = (news \/ env.announces) /\ mxs' = mxs
      BY <3>1 DEF IssueSecret
    <3>3. CASE published = StatusNow
      <4>1. published' = StatusNow' \/ published' = Absent
        BY <1>4, <3>1, <3>3, SecretArrives
      <4> QED BY <1>2, <3>2, <4>1 DEF StatusKept
    <3>4. CASE Behind
      BY <1>2, <1>4, <3>2, <3>4 DEF StatusKept
    <3> QED BY <2>1, <3>3, <3>4
  <2>4. CASE FinalizeProxy
    <3>1. mxs' = Absent /\ mxsCache # Absent
      BY <2>1, <2>4 DEF FinalizeProxy, ProxyKept, Deleting
    <3> QED BY <1>2, <3>1 DEF StatusKept
  <2>5. CASE ~FinalizeProxy /\ ~(\E k \in Secret : IssueSecret(k))
    <3>1. UNCHANGED <<secrets, news>> /\ (mxs = Absent => mxs' = Absent)
      BY <1>4, <2>1, <2>5 DEF Beside, EngineStep, TemplateEnvStep, ProxyEnvStep,
         ProxyProgresses, ProxyEvent, SecretEvent, MonitoringEnvStep, proxyVars,
         secretVars, vars
    <3> QED BY <1>2, <1>4, <2>1, <2>2, <3>1 DEF StatusKept
  <2> QED BY <2>3, <2>4, <2>5
<1> QED BY <1>2, <1>3, <1>4 DEF vars, flow, proxyVars

\* The surroundings do not change.
LEMMA EnvFixed ==
    ASSUME [Next]_vars PROVE env' = env
<1>1. CASE SyncStep
  BY <1>1, StepsBeside DEF SyncStep, MigrateOwnership, ApplyMariaDB, CleanupEngine,
     ReleaseInstance, SyncMaxScale, ApplyMaxScale, DisableProxy, CleanupProxy,
     TeardownMaxScale, ReportStatus, syncVars
<1>2. CASE Runtime
  BY <1>2 DEF Runtime, UserEdit, UserDelete, BeginSync, SyncFails, syncVars
<1>3. CASE Beside
  BY <1>3 DEF Beside, EngineStep, EngineProgresses, FinalizeEngine, EngineEvent,
     TemplateEnvStep, FinalizeTemplate, TemplateCached, ProxyEnvStep,
     ProxyProgresses, FinalizeProxy, ProxyEvent, IssueSecret, SecretEvent,
     MonitoringEnvStep, OperatorReads, OperatorMonitors, FinalizeMonitor, Convert, FinalizeScrape, syncVars
<1> QED BY <1>1, <1>2, <1>3 DEF Next, Beside, vars, syncVars

\* What beside a reconcile happens to a template.
LEMMA TemplateBeside ==
    ASSUME Beside
    PROVE  tpl' = tpl \/ (tpl' = Absent /\ (Deleting(tpl) \/ mdb = Absent))
  BY DEF Beside, EngineStep, TemplateEnvStep, FinalizeTemplate, TemplateCached,
     ProxyEnvStep, MonitoringEnvStep, templateVars, Deleting

\* Without finalizers no template is ever on its way out.
LEMMA TemplateWhole ==
    ASSUME TypeOK, ~env.finalizers => ~Deleting(tpl), [Next]_vars
    PROVE  (~env.finalizers => ~Deleting(tpl))'
<1> USE DEF Deleting
<1>0. env' = env
  BY EnvFixed
<1>1. CASE SyncReplicaTemplate
  <2>1. \/ tpl' = tpl
        \/ tpl # Absent /\ tpl' = AfterDelete(tpl)
        \/ tpl' = [storage |-> snap.storage, deleting |-> FALSE]
        \/ tpl' = Absent
    BY <1>1 DEF SyncReplicaTemplate, DropTemplate, SkipTemplate, StorageMissing,
       RecreateTemplate, KeepTemplate, TemplateStep, templateVars
  <2> QED BY <1>0, <2>1 DEF AfterDelete
<1>2. CASE ~SyncReplicaTemplate
  <2>1. tpl' = tpl \/ tpl' = Absent
    BY <1>2, TemplateBeside DEF Next, SyncStep, Runtime, Beside, templateVars, vars
  <2> QED BY <1>0, <2>1
<1> QED BY <1>1, <1>2

\* What SyncReplicaTemplate leaves when it does not have to be called again.
LEMMA TemplateApplied ==
    ASSUME TypeOK, SyncReplicaTemplate, ~queued', mdb # Absent, ~env.lag,
           ~env.finalizers, ~Deleting(tpl)
    PROVE  tpl' = IF Staged(snap) THEN [storage |-> snap.storage, deleting |-> FALSE]
                  ELSE Absent
<1>1. CASE DropTemplate
  BY <1>1 DEF DropTemplate, AfterDelete, Staged
<1>2. CASE SkipTemplate
  BY <1>2 DEF SkipTemplate, Fresh
<1>3. CASE StorageMissing \/ RecreateTemplate
  BY <1>3 DEF StorageMissing, RecreateTemplate, Retry
<1>4. CASE KeepTemplate
  <2>1. Staged(snap) /\ tplCache = tpl
    BY <1>4 DEF KeepTemplate, TemplateStep, Fresh, Staged
  <2>2. CASE tpl = Absent
    BY <1>4, <2>1, <2>2 DEF KeepTemplate
  <2>3. CASE tpl # Absent
    <3>1. tpl' = tpl /\ tpl.storage = snap.storage /\ tpl \in Template
      BY <1>4, <2>1, <2>3 DEF KeepTemplate, TypeOK, TemplateTypeOK
    <3>2. tpl = [storage |-> snap.storage, deleting |-> FALSE]
      BY <2>3, <3>1 DEF Template, Deleting
    <3> QED BY <2>1, <3>1, <3>2
  <2> QED BY <2>2, <2>3
<1> QED BY <1>1, <1>2, <1>3, <1>4 DEF SyncReplicaTemplate

LEMMA TemplateKeptStep ==
    ASSUME TypeOK, EngineKept, TemplateKept, [Next]_vars
    PROVE  TemplateKept'
<1> DEFINE AsAsked(t, s) ==
        t = IF Staged(s) THEN [storage |-> s.storage, deleting |-> FALSE] ELSE Absent
<1>1. (~env.finalizers => ~Deleting(tpl))'
  BY TemplateWhole DEF TemplateKept
<1> SUFFICES ASSUME ~env'.lag, ~env'.finalizers, Past(AfterTemplate)'
             PROVE  AsAsked(tpl, snap)'
  BY <1>1 DEF TemplateKept
<1>2. Past(SyncSteps)' /\ pc' # "migrate"
  BY DEF Past, AfterTemplate, AfterProxy, AfterMonitor, SyncSteps
<1>3. /\ Past(SyncSteps) /\ UNCHANGED <<env, snap>>
      /\ \/ SyncStep /\ pc \in SyncSteps
         \/ Beside /\ UNCHANGED <<pc, published>>
         \/ UNCHANGED vars
  BY <1>2, QuietStep DEF syncVars
<1>4. ~env.lag /\ ~env.finalizers /\ ~Deleting(tpl)
  BY <1>3 DEF TemplateKept
<1>5. Past(AfterTemplate) => AsAsked(tpl, snap) /\ mdb # Absent
  BY <1>4, PastSteps DEF TemplateKept, EngineKept
<1>6. CASE SyncStep /\ pc = "template"
  <2>1. SyncReplicaTemplate /\ ~queued'
    BY <1>2, <1>6, CallsMoveOn DEF Past, AfterProxy, AfterMonitor
  <2>2. mdb # Absent
    BY <1>3, <1>6 DEF EngineKept, Past, AfterApply
  <2> QED BY <1>3, <1>4, <2>1, <2>2, TemplateApplied DEF Staged
<1>7. CASE SyncStep /\ pc # "template"
  <2>1. Past(AfterTemplate) /\ ~SyncReplicaTemplate
    BY <1>2, <1>3, <1>7, CallsMoveOn, TemplateCallMovesOn
       DEF Past, AfterTemplate, AfterProxy, AfterMonitor
  <2>2. tpl' = tpl
    BY <1>7, <2>1 DEF SyncStep, templateVars
  <2> QED BY <1>3, <1>5, <2>1, <2>2 DEF Staged
<1>8. CASE Beside /\ UNCHANGED pc
  <2>1. Past(AfterTemplate)
    BY <1>3, <1>8 DEF Past
  <2>2. tpl' = tpl
    BY <1>4, <1>5, <1>8, <2>1, TemplateBeside
  <2> QED BY <1>3, <1>5, <2>1, <2>2 DEF Staged
<1>9. CASE UNCHANGED vars
  BY <1>3, <1>5, <1>9 DEF vars, templateVars, flow, Past, Staged
<1> QED BY <1>3, <1>6, <1>7, <1>8, <1>9

\* What the operator and the API server do to a ServiceMonitor.
LEMMA MonitorBeside ==
    ASSUME Beside
    PROVE  \/ monitor' = monitor \/ monitor' = Absent
           \/ /\ monitor' = "live" /\ operatorView = "monitored"
              /\ env.busy \/ operatorView \in {MetricsSeen(mdb), MetricsSeen(mdbCache)}
  BY DEF Beside, EngineStep, TemplateEnvStep, ProxyEnvStep, MonitoringEnvStep,
     OperatorReads, OperatorMonitors, FinalizeMonitor, Convert, FinalizeScrape,
     monitoringVars

LEMMA MonitorWhole ==
    ASSUME ~env.finalizers => monitor # "deleting", [Next]_vars
    PROVE  (~env.finalizers => monitor # "deleting")'
<1>0. env' = env /\ Absent # "deleting"
  BY EnvFixed, MonitoringAssumption
<1>1. CASE SyncMonitoring
  BY <1>0, <1>1 DEF SyncMonitoring, KeepMonitor, DropMonitor, TeardownScrape, ReadScrape,
     AdoptScrape, ApplyScrape, monitoringVars
<1>2. CASE ~SyncMonitoring
  <2>1. monitor' \in {monitor, Absent, "live"}
    BY <1>2, MonitorBeside DEF Next, SyncStep, Runtime, Beside, monitoringVars, vars
  <2> QED BY <1>0, <2>1
<1> QED BY <1>1, <1>2

\* SyncServiceMonitor leaves none that the MariaDB it saw did not ask for.
LEMMA MonitorDropped ==
    ASSUME TypeOK, SyncMonitoring, pc = "monitor", ~queued', ~env.finalizers,
           monitor # "deleting", MetricsOf(snap) = "unmonitored"
    PROVE  monitor' = Absent \/ MetricsSeen(mdbCache) # "unmonitored"
<1>1. DropMonitor
  BY DEF SyncMonitoring, KeepMonitor, TeardownScrape, ReadScrape, AdoptScrape, ApplyScrape
<1> QED BY <1>1 DEF DropMonitor, MetricsSeen, Retry, TypeOK, MonitoringTypeOK

LEMMA MonitorKeptStep ==
    ASSUME TypeOK, EngineKept, MonitorKept, [Next]_vars
    PROVE  MonitorKept'
<1> DEFINE Gone(m, c) == m = Absent \/ MetricsSeen(c) # "unmonitored"
<1>1. (~env.finalizers => monitor # "deleting")'
  BY MonitorWhole DEF MonitorKept
<1> SUFFICES ASSUME ~env'.finalizers, ~env'.busy, Past(AfterMonitor)',
                    MetricsOf(snap') = "unmonitored"
             PROVE  Gone(monitor, mdbCache)'
  BY <1>1 DEF MonitorKept, MetricsOf
<1>2. Past(SyncSteps)' /\ pc' # "migrate"
  BY DEF Past, AfterMonitor, SyncSteps
<1>3. /\ Past(SyncSteps) /\ UNCHANGED <<env, snap, mdbCache>>
      /\ \/ SyncStep /\ pc \in SyncSteps
         \/ Beside /\ UNCHANGED <<pc, published>>
         \/ UNCHANGED vars
  BY <1>2, QuietStep DEF syncVars
<1>4. /\ ~env.busy /\ ~env.finalizers /\ monitor # "deleting"
      /\ MetricsOf(snap) = "unmonitored"
  BY <1>3 DEF MonitorKept
<1>5. Past(AfterMonitor) => Gone(monitor, mdbCache)
  BY <1>4 DEF MonitorKept
<1>6. CASE SyncStep /\ pc = "monitor"
  <2>1. SyncMonitoring /\ ~queued'
    BY <1>2, <1>6, CallsMoveOn DEF Past
  <2> QED BY <1>3, <1>4, <1>6, <2>1, MonitorDropped DEF MetricsSeen
<1>7. CASE SyncStep /\ pc # "monitor"
  <2>1. Past(AfterMonitor)
    BY <1>2, <1>3, <1>7, CallsMoveOn DEF Past, AfterProxy, AfterMonitor
  <2>2. monitor' = monitor
    BY <1>7 DEF SyncStep, SyncMonitoring, KeepMonitor, DropMonitor, TeardownScrape,
       ReadScrape, AdoptScrape, ApplyScrape, monitoringVars
  <2> QED BY <1>3, <1>5, <2>1, <2>2 DEF MetricsSeen
<1>8. CASE Beside /\ UNCHANGED pc
  <2>1. Past(AfterMonitor) /\ Gone(monitor, mdbCache)
    BY <1>3, <1>5, <1>8 DEF Past
  <2>2. MetricsSeen(mdb) = "unmonitored"
    BY <1>4, <2>1, PastSteps DEF EngineKept, MetricsSeen
  <2>3. monitor' = monitor \/ monitor' = Absent \/ MetricsSeen(mdbCache) = "monitored"
    BY <1>4, <1>8, <2>2, MonitorBeside
  <2> QED BY <1>3, <2>1, <2>3 DEF MetricsSeen
<1>9. CASE UNCHANGED vars
  BY <1>3, <1>5, <1>9 DEF vars, monitoringVars, flow, Past, MetricsSeen
<1> QED BY <1>3, <1>6, <1>7, <1>8, <1>9

\* What beside a reconcile happens to a scrape.
LEMMA ScrapeBeside ==
    ASSUME Beside, pc # "gone"
    PROVE  \/ scrape' = scrape
           \/ /\ scrape' = Absent
              /\ Deleting(scrape) \/ (scrape # Absent /\ scrape.controller = "monitor")
           \/ /\ scrape # Absent => scrape.by = "converter"
              /\ scrape' # Absent /\ scrape'.by = "converter" /\ ~scrape'.deleting
<1>1. CASE Convert
  <2>1. scrape' \in Scrape /\ scrape'.by = "converter" /\ ~scrape'.deleting
    BY <1>1 DEF Convert, Scrape
  <2> QED BY <1>1, <2>1, MonitoringAssumption DEF Convert
<1>2. CASE FinalizeScrape
  BY <1>2 DEF FinalizeScrape, Deleting
<1>3. CASE ~Convert /\ ~FinalizeScrape
  BY <1>3 DEF Beside, EngineStep, TemplateEnvStep, ProxyEnvStep, MonitoringEnvStep,
     OperatorReads, OperatorMonitors, FinalizeMonitor, monitoringVars
<1> QED BY <1>1, <1>2, <1>3

\* Without finalizers no scrape is ever on its way out.
LEMMA ScrapeWhole ==
    ASSUME TypeOK, ~env.finalizers => ~Deleting(scrape), [Next]_vars
    PROVE  (~env.finalizers => ~Deleting(scrape))'
<1> SUFFICES ASSUME ~env.finalizers, ~Deleting(scrape) PROVE ~Deleting(scrape)'
  BY EnvFixed
<1> USE DEF Deleting
<1>0. scrape # Absent => scrape \in Scrape
  BY DEF TypeOK, MonitoringTypeOK
<1>1. CASE TeardownScrape
  BY <1>1 DEF TeardownScrape, AfterDelete
<1>2. CASE AdoptScrape
  BY <1>0, <1>2 DEF AdoptScrape, Scrape
<1>3. CASE ApplyScrape
  <2> DEFINE d == scrape # Absent /\ scrape.deleting
  <2>1. \/ scrape' = scrape
        \/ scrape' = [controller |-> "Instance", by |-> "provider", deleting |-> d]
    BY <1>3 DEF ApplyScrape
  <2>2. ~d
    OBVIOUS
  <2> HIDE DEF d
  <2> QED BY <2>1, <2>2
<1>4. CASE KeepMonitor \/ DropMonitor \/ ReadScrape
  BY <1>4 DEF KeepMonitor, DropMonitor, ReadScrape, monitoringVars
<1>5. CASE MonitoringEnvStep
  BY <1>5 DEF MonitoringEnvStep, OperatorReads, OperatorMonitors, FinalizeMonitor,
     Convert, FinalizeScrape
<1>6. CASE ~SyncMonitoring /\ ~MonitoringEnvStep
  <2>1. scrape' = scrape
    BY <1>6 DEF Next, SyncStep, Runtime, EngineStep, TemplateEnvStep, ProxyEnvStep,
       monitoringVars, vars
  <2> QED BY <2>1
<1> QED BY <1>1, <1>2, <1>3, <1>4, <1>5, <1>6 DEF SyncMonitoring

\* Only a reconcile that wants the scrape comes to the calls that take it.
LEMMA ScrapeWanted ==
    ASSUME pc \in {"adopt", "applyScrape"} => WantsScrape(snap), [Next]_vars
    PROVE  (pc \in {"adopt", "applyScrape"} => WantsScrape(snap))'
<1> SUFFICES ASSUME pc' \in {"adopt", "applyScrape"} PROVE WantsScrape(snap')
  BY DEF WantsScrape
<1>1. snap' = snap /\ (WantsScrape(snap) \/ pc' = pc)
  <2>1. CASE SyncMonitoring
    BY <2>1 DEF SyncMonitoring, KeepMonitor, DropMonitor, TeardownScrape, ReadScrape,
       AdoptScrape, ApplyScrape, Continue, Retry, syncVars
  <2>2. CASE SyncStep /\ ~SyncMonitoring
    BY <2>2 DEF SyncStep, Continue, Retry, MigrateOwnership, ApplyMariaDB, CleanupEngine,
       ReleaseInstance, SyncReplicaTemplate, DropTemplate, SkipTemplate, StorageMissing,
       RecreateTemplate, KeepTemplate, TemplateStep, SyncMaxScale, ApplyMaxScale,
       DisableProxy, CleanupProxy, TeardownMaxScale, ReportStatus
  <2>3. CASE Runtime
    BY <2>3 DEF Runtime, UserEdit, UserDelete, BeginSync, SyncFails, syncVars
  <2>4. CASE Beside
    BY <2>4 DEF Beside, EngineStep, EngineProgresses, FinalizeEngine, EngineEvent,
       TemplateEnvStep, FinalizeTemplate, TemplateCached, ProxyEnvStep,
       ProxyProgresses, FinalizeProxy, ProxyEvent, IssueSecret, SecretEvent,
       MonitoringEnvStep, OperatorReads, OperatorMonitors, FinalizeMonitor, Convert, FinalizeScrape, syncVars, flow
  <2> QED BY <2>1, <2>2, <2>3, <2>4 DEF Next, Beside, vars, syncVars, flow
<1> QED BY <1>1

\* What the last call of SyncMonitoring leaves.
LEMMA ScrapeApplied ==
    ASSUME TypeOK, ScrapeInv, ScrapeKept, SyncMonitoring, ~queued', pc' = "status",
           ~env.finalizers
    PROVE  IF WantsScrape(snap)
           THEN \/ scrape' = [controller |-> "Instance", by |-> "provider",
                              deleting |-> FALSE]
                \/ MetricsSeen(mdbCache) = "off"
           ELSE scrape' # Absent => scrape'.by = "converter"
<1>0. ~Deleting(scrape)
  BY DEF ScrapeKept
<1>1. CASE TeardownScrape
  BY <1>0, <1>1 DEF TeardownScrape, AfterDelete, Controlled, ScrapeInv, Deleting,
     TypeOK, MonitoringTypeOK, Scrape
<1>2. CASE ReadScrape
  BY <1>2 DEF ReadScrape, Retry, Continue, MetricsSeen
<1>3. CASE ApplyScrape
  <2>1. WantsScrape(snap)
    BY <1>3 DEF ApplyScrape, ScrapeKept
  <2>2. scrape' = [controller |-> "Instance", by |-> "provider",
                   deleting |-> scrape # Absent /\ scrape.deleting]
    BY <1>3 DEF ApplyScrape, Retry
  <2>3. (scrape # Absent /\ scrape.deleting) = FALSE
    BY <1>0 DEF Deleting
  <2> QED BY <2>1, <2>2, <2>3
<1>4. CASE KeepMonitor \/ DropMonitor \/ AdoptScrape
  BY <1>4 DEF KeepMonitor, DropMonitor, AdoptScrape, Continue, Retry
<1> QED BY <1>1, <1>2, <1>3, <1>4 DEF SyncMonitoring

LEMMA ScrapeKeptStep ==
    ASSUME TypeOK, ScrapeInv, ScrapeKept, [Next]_vars
    PROVE  ScrapeKept'
<1> DEFINE AsAsked(s, x, c) ==
        IF WantsScrape(s)
        THEN \/ x = [controller |-> "Instance", by |-> "provider", deleting |-> FALSE]
             \/ MetricsSeen(c) = "off"
        ELSE x # Absent => x.by = "converter"
<1>1. (~env.finalizers => ~Deleting(scrape))'
      /\ (pc \in {"adopt", "applyScrape"} => WantsScrape(snap))'
  BY ScrapeWhole, ScrapeWanted DEF ScrapeKept
<1> SUFFICES ASSUME ~env'.finalizers, Past({"status"})' PROVE AsAsked(snap, scrape, mdbCache)'
  BY <1>1 DEF ScrapeKept
<1>2. Past(SyncSteps)' /\ pc' # "migrate"
  BY DEF Past, SyncSteps
<1>3. /\ Past(SyncSteps) /\ UNCHANGED <<env, snap, mdbCache>>
      /\ \/ SyncStep /\ pc \in SyncSteps
         \/ Beside /\ UNCHANGED <<pc, published>>
         \/ UNCHANGED vars
  BY <1>2, QuietStep DEF syncVars
<1>4. ~env.finalizers /\ ~Deleting(scrape)
  BY <1>3 DEF ScrapeKept
<1>5. Past({"status"}) => AsAsked(snap, scrape, mdbCache)
  BY <1>4 DEF ScrapeKept
<1>6. CASE SyncStep /\ pc # "status"
  <2>1. SyncMonitoring /\ ~queued' /\ pc' = "status"
    BY <1>2, <1>6, CallsMoveOn DEF Past, AfterMonitor, SyncSteps
  <2> QED BY <1>3, <1>4, <2>1, ScrapeApplied DEF WantsScrape, MetricsSeen
<1>7. CASE SyncStep /\ pc = "status"
  <2>1. scrape' = scrape
    BY <1>7 DEF SyncStep, SyncMonitoring, KeepMonitor, DropMonitor, TeardownScrape,
       ReadScrape, AdoptScrape, ApplyScrape, monitoringVars
  <2> QED BY <1>3, <1>5, <1>7, <2>1 DEF Past, WantsScrape, MetricsSeen
<1>8. CASE Beside /\ UNCHANGED pc
  <2>1. Past({"status"}) /\ AsAsked(snap, scrape, mdbCache) /\ pc # "gone"
    BY <1>3, <1>5, <1>8 DEF Past
  <2>2. CASE scrape' = scrape
    BY <1>3, <2>1, <2>2 DEF WantsScrape, MetricsSeen
  <2>3. CASE scrape' = Absent /\ (Deleting(scrape)
                                  \/ (scrape # Absent /\ scrape.controller = "monitor"))
    BY <1>3, <1>4, <2>1, <2>3 DEF WantsScrape, MetricsSeen
  <2>4. CASE /\ scrape # Absent => scrape.by = "converter"
             /\ scrape' # Absent /\ scrape'.by = "converter" /\ ~scrape'.deleting
    <3>1. CASE WantsScrape(snap) /\ MetricsSeen(mdbCache) # "off"
      <4>1. scrape = [controller |-> "Instance", by |-> "provider", deleting |-> FALSE]
        BY <2>1, <3>1
      <4>2. scrape \in Scrape /\ scrape.by = "provider"
        BY <4>1 DEF Scrape
      <4> QED BY <2>4, <4>2, MonitoringAssumption
    <3>2. CASE ~WantsScrape(snap) \/ MetricsSeen(mdbCache) = "off"
      BY <1>3, <2>4, <3>2 DEF WantsScrape, MetricsSeen
    <3> QED BY <3>1, <3>2
  <2> QED BY <1>8, <2>1, <2>2, <2>3, <2>4, ScrapeBeside
<1>9. CASE UNCHANGED vars
  BY <1>3, <1>5, <1>9 DEF vars, monitoringVars, flow, Past, WantsScrape, MetricsSeen
<1> QED BY <1>3, <1>6, <1>7, <1>8, <1>9

-----------------------------------------------------------------------------
(* The Instance at rest. *)

LEMMA RestInvariant == SafetySpec => [](SnapKept /\ EngineKept)
<1>1. Init => SnapKept /\ EngineKept
  BY DEF Init, SyncInit, SnapKept, EngineKept, Past
<1>2. /\ TypeOK /\ StopInv /\ ReferenceInv /\ SnapKept /\ EngineKept /\ [Next]_vars
      => (SnapKept /\ EngineKept)'
  BY SnapStep, EngineKeptStep
<1> QED BY <1>1, <1>2, TypeCorrect, StopInvariant, ReferenceInvariant, PTL DEF SafetySpec

\* At rest, the Instance asks for what the last reconcile worked on.
LEMMA AtRestSettled ==
    ASSUME AtRest, SnapKept, EngineKept
    PROVE  Past({}) /\ snap = spec /\ EngineSettled
<1>1. Past({})
  BY DEF AtRest, Past
<1> QED BY <1>1, PastSteps DEF SnapKept, EngineKept, EngineSettled

\* No order in which servers, proxy, credentials and CA bundles come leaves
\* clients with the connection details of an earlier moment.
LEMMA EndpointNotForgotten == SafetySpec => []EndpointAtRest
<1>1. Init => ProxyKept /\ StatusKept
  BY DEF Init, SyncInit, ProxyInit, ProxyKept, StatusKept, Past, Deleting
<1>2. TypeOK /\ ProxyKept /\ StatusKept /\ [Next]_vars => (ProxyKept /\ StatusKept)'
  BY ProxyKeptStep, StatusKeptStep
<1>3. TypeOK /\ StopInv /\ SnapKept /\ EngineKept /\ ProxyKept /\ StatusKept
        => EndpointAtRest
  <2> SUFFICES ASSUME TypeOK, StopInv, SnapKept, EngineKept, ProxyKept, StatusKept,
                      AtRest, OperatorDone
               PROVE  EndpointSettled
    BY DEF EndpointAtRest
  <2>1. Past({}) /\ Past(AfterProxy) /\ snap = spec /\ EngineSettled
    BY AtRestSettled, PastSteps
  <2>2. /\ mdb # Absent /\ mdbCache = mdb /\ mxsCache = mxs /\ mdb.ready
        /\ mdb.tls = spec.tls /\ ~Deleting(mdb)
    BY <2>1, NotDeleting, PastSteps DEF EngineSettled, AtRest, OperatorDone
  <2>3. \/ published = StatusNow
        \/ published = Absent /\ ~env.announces
    BY <2>1, <2>2 DEF StatusKept, OperatorDone
  <2>4. IF spec.proxy
        THEN mxs # Absent /\ mxs.tls = ProxyTLS(spec) /\ mxs.ready /\ ~mxs.deleting
        ELSE mxs = Absent
    BY <2>1, <2>2 DEF ProxyKept, OperatorDone
  <2>5. ClientTLS = Wanted(spec).tls
    BY <2>1, <2>2, <2>4 DEF ClientTLS, Wanted
  <2>6. NeededSecrets \subseteq secrets
    <3>1. "credentials" \in secrets
      BY <2>2 DEF OperatorDone, Due, Secret, Deleting
    <3>2. ~spec.proxy /\ ClientTLS => "engineCA" \in secrets
      BY <2>1, <2>2 DEF OperatorDone, Due, Secret, Deleting, ClientTLS
    <3>3. spec.proxy /\ ClientTLS => "proxyCA" \in secrets
      BY <2>1, <2>2, <2>4 DEF OperatorDone, Due, Secret, ClientTLS
    <3> QED BY <2>1, <3>1, <3>2, <3>3 DEF NeededSecrets
  <2>7. StatusNow = Wanted(spec)
    BY <2>1, <2>2, <2>4, <2>5, <2>6
       DEF StatusNow, ReadyMaxScale, ConnectionDetails, Wanted
  <2> QED BY <2>3, <2>4, <2>7 DEF EndpointSettled
<1> QED BY <1>1, <1>2, <1>3, TypeCorrect, StopInvariant, RestInvariant, PTL
        DEF SafetySpec

\* The operator never rests on a reference to a template that is not there or
\* holds another storage.
LEMMA TemplateNotForgotten == SafetySpec => []TemplateAtRest
<1>1. Init => TemplateKept
  BY DEF Init, SyncInit, TemplateInit, TemplateKept, Past, Deleting
<1>2. TypeOK /\ EngineKept /\ TemplateKept /\ [Next]_vars => TemplateKept'
  BY TemplateKeptStep
<1>3. SnapKept /\ EngineKept /\ TemplateKept => TemplateAtRest
  <2> SUFFICES ASSUME SnapKept, EngineKept, TemplateKept, AtRest, ~env.lag,
                      ~env.finalizers
               PROVE  TemplateSettled
    BY DEF TemplateAtRest
  <2>1. Past(AfterTemplate) /\ snap = spec /\ EngineSettled
    BY AtRestSettled, PastSteps
  <2> QED BY <2>1 DEF TemplateKept, TemplateSettled
<1> QED BY <1>1, <1>2, <1>3, TypeCorrect, RestInvariant, PTL DEF SafetySpec

\* With three programs at work on them, the objects of an Instance at rest
\* are those it asks for.
LEMMA MonitoringNotForgotten == SafetySpec => []MonitoringAtRest
<1>1. Init => MonitorKept /\ ScrapeKept
  BY MonitoringAssumption DEF Init, SyncInit, MonitoringInit, MonitorKept, ScrapeKept,
     Past, Deleting
<1>2. TypeOK /\ ScrapeInv /\ EngineKept /\ MonitorKept /\ ScrapeKept /\ [Next]_vars
      => (MonitorKept /\ ScrapeKept)'
  BY MonitorKeptStep, ScrapeKeptStep
<1>3. TypeOK /\ SnapKept /\ EngineKept /\ MonitorKept /\ ScrapeKept => MonitoringAtRest
  <2> SUFFICES ASSUME TypeOK, SnapKept, EngineKept, MonitorKept, ScrapeKept, AtRest,
                      MonitoringDone, ~env.busy, ~env.finalizers
               PROVE  MonitoringSettled
    BY DEF MonitoringAtRest
  <2>1. /\ Past(AfterMonitor) /\ Past({"status"}) /\ snap = spec /\ EngineSettled
        /\ mdbCache = mdb /\ MetricsSeen(mdb) = MetricsOf(spec)
    BY AtRestSettled, PastSteps DEF AtRest, EngineSettled, MetricsSeen
  <2>2. MetricsOf(spec) = "unmonitored" => monitor = Absent
    BY <2>1 DEF MonitorKept
  <2>3. MetricsOf(spec) = "monitored" => monitor = "live"
    BY <2>1 DEF MonitorKept, MonitoringDone, TypeOK, MonitoringTypeOK
  <2>4. WantsScrape(spec) => MetricsOf(spec) # "off"
    BY DEF WantsScrape, MetricsOf
  <2>5. IF WantsScrape(spec)
        THEN scrape = [controller |-> "Instance", by |-> "provider", deleting |-> FALSE]
        ELSE scrape # Absent => scrape.by = "converter"
    BY <2>1, <2>4 DEF ScrapeKept
  <2> QED BY <2>1, <2>2, <2>3, <2>5 DEF MonitoringSettled
<1> QED BY <1>1, <1>2, <1>3, TypeCorrect, ScrapeInvariant, RestInvariant, PTL
        DEF SafetySpec

\* An Instance no reconcile will look at again has what it asks for, after any
\* history of edits, failures, and steps of the operator and the converter, as
\* far as the surroundings allow: an endpoint once the operator is done, if its
\* Secrets are announced (else that endpoint or none); the template if caches
\* are current and deletions immediate; the scrapes if deletions are immediate
\* and the operator is done and not busy.
THEOREM NothingForgotten == SafetySpec => []SettledAtRest
<1>1. EndpointAtRest /\ TemplateAtRest /\ MonitoringAtRest => SettledAtRest
  BY DEF SettledAtRest
<1> QED BY <1>1, EndpointNotForgotten, TemplateNotForgotten,
           MonitoringNotForgotten, PTL
=============================================================================
