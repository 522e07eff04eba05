-------------------------- MODULE ProviderSyncProofs --------------------------
(***************************************************************************)
(* Type correctness and safety of one reconcile and what runs beside it,   *)
(* for every set of storages and of surroundings.                          *)
(***************************************************************************)
EXTENDS ProviderSync, TLAPS

\* What the steps put into the API server is of the type they declare.
LEMMA DeclaredType ==
    ASSUME NEW s \in Instance
    PROVE  /\ MetricsOf(s) \in OperatorMetrics /\ Staged(s) \in BOOLEAN
           /\ Created(s) \in MariaDB /\ ProxyTLS(s) \in BOOLEAN
<1>1. MetricsOf(s) \in OperatorMetrics
  <2>1. s.metrics \in Metrics
    BY DEF Instance
  <2> QED BY <2>1 DEF MetricsOf, OperatorMetrics, Metrics
<1>2. s.tls \in TLSMode
  BY DEF Instance
<1> QED BY <1>1, <1>2 DEF Created, MariaDB, Staged, ProxyTLS

LEMMA OffersInstances ==
    ASSUME NEW e \in Scenario
    PROVE  /\ e.offer \subseteq Instance /\ e.finalizers \in BOOLEAN
           /\ e.lag \in BOOLEAN /\ e.announces \in BOOLEAN
  BY SyncAssumption DEF Surroundings

\* A MariaDB resource with other values in some of its fields.
LEMMA MariaDBUpdate ==
    ASSUME NEW m \in MariaDB, NEW b \in BOOLEAN
    PROVE  /\ [m EXCEPT !.legacy = b] \in MariaDB
           /\ [m EXCEPT !.ready = b] \in MariaDB
           /\ [m EXCEPT !.deleting = b] \in MariaDB
  BY DEF MariaDB

LEMMA MariaDBDeclared ==
    ASSUME NEW m \in MariaDB, NEW t \in TLSMode, NEW k \in OperatorMetrics,
           NEW b \in BOOLEAN
    PROVE  [m EXCEPT !.tls = t, !.metrics = k, !.staged = b] \in MariaDB
  BY DEF MariaDB

-----------------------------------------------------------------------------
(* Types, one module after the other. *)

LEMMA SyncInitType == SyncInit => SyncTypeOK
<1> SUFFICES ASSUME SyncInit PROVE SyncTypeOK
  OBVIOUS
<1>1. env \in Scenario /\ spec \in Instance /\ snap \in Instance
  BY OffersInstances DEF SyncInit
<1>2. mdb \in MariaDB \cup {Absent}
  <2>1. CASE ~env.legacy
    BY <2>1 DEF SyncInit
  <2>2. CASE env.legacy
    <3>1. PICK s \in env.offer : mdb = [Created(s) EXCEPT !.legacy = TRUE, !.ready = TRUE]
      BY <2>2 DEF SyncInit
    <3>2. Created(s) \in MariaDB
      BY <1>1, OffersInstances, DeclaredType
    <3> QED BY <3>1, <3>2 DEF MariaDB
  <2> QED BY <2>1, <2>2
<1> QED BY <1>1, <1>2 DEF SyncInit, SyncTypeOK, SyncSteps

\* The calls of SyncMariaDB and of the end of Cleanup.
LEMMA EngineStepsType ==
    SyncTypeOK /\ (MigrateOwnership \/ ApplyMariaDB \/ CleanupEngine \/ ReleaseInstance)
        => SyncTypeOK'
<1> SUFFICES ASSUME SyncTypeOK,
                    MigrateOwnership \/ ApplyMariaDB \/ CleanupEngine \/ ReleaseInstance
             PROVE  SyncTypeOK'
  OBVIOUS
<1> USE DEF SyncTypeOK, syncVars, Continue, Retry, SyncSteps, CleanupSteps
<1>1. CASE MigrateOwnership
  <2>1. mdb' \in MariaDB \cup {Absent}
    <3>1. mdb' = mdb \/ (mdb # Absent /\ mdb' = [mdb EXCEPT !.legacy = FALSE])
      BY <1>1 DEF MigrateOwnership, Legacy
    <3> QED BY <3>1, MariaDBUpdate
  <2> QED BY <1>1, <2>1 DEF MigrateOwnership
<1>2. CASE ApplyMariaDB
  <2>1. CASE mdb = Absent
    BY <1>2, <2>1, DeclaredType DEF ApplyMariaDB
  <2>2. CASE mdb # Absent
    <3>1. mdb \in MariaDB /\ snap.tls \in TLSMode
      BY <2>2 DEF Instance
    <3>2. mdb.metrics \in OperatorMetrics /\ mdb.legacy \in BOOLEAN /\ mdb.staged \in BOOLEAN
      BY <3>1 DEF MariaDB
    <3> DEFINE k == IF MetricsOf(snap) = "off" /\ mdb.legacy
                    THEN mdb.metrics ELSE MetricsOf(snap)
               b == Staged(snap) \/ (mdb.legacy /\ mdb.staged)
    <3>3. k \in OperatorMetrics /\ b \in BOOLEAN
      BY <3>2, DeclaredType
    <3>4. mdb' = [mdb EXCEPT !.tls = snap.tls, !.metrics = k, !.staged = b]
      BY <1>2, <2>2 DEF ApplyMariaDB
    <3>5. mdb' \in MariaDB
      BY <3>1, <3>3, <3>4, MariaDBDeclared
    <3> QED BY <1>2, <3>5 DEF ApplyMariaDB
  <2> QED BY <2>1, <2>2
<1>3. CASE CleanupEngine
  <2>1. mdb' \in MariaDB \cup {Absent}
    <3>1. \/ mdb' = Absent
          \/ mdb # Absent /\ mdb' = [mdb EXCEPT !.deleting = TRUE]
      BY <1>3 DEF CleanupEngine, AfterDelete
    <3> QED BY <3>1, MariaDBUpdate
  <2> QED BY <1>3, <2>1 DEF CleanupEngine
<1>4. CASE ReleaseInstance
  BY <1>4 DEF ReleaseInstance, engineVars
<1> QED BY <1>1, <1>2, <1>3, <1>4

\* The operator's work on the MariaDB resource, and its informer.
LEMMA EngineEnvType ==
    SyncTypeOK /\ (EngineProgresses \/ FinalizeEngine \/ EngineEvent) => SyncTypeOK'
<1> SUFFICES ASSUME SyncTypeOK, EngineProgresses \/ FinalizeEngine \/ EngineEvent
             PROVE  SyncTypeOK'
  OBVIOUS
<1> USE DEF SyncTypeOK, syncVars, flow
<1>1. CASE EngineProgresses
  <2>1. mdb' \in MariaDB
    <3>1. mdb \in MariaDB
      BY <1>1 DEF EngineProgresses
    <3>2. mdb' = [mdb EXCEPT !.ready = TRUE]
      BY <1>1 DEF EngineProgresses
    <3> QED BY <3>1, <3>2, MariaDBUpdate
  <2> QED BY <1>1, <2>1 DEF EngineProgresses
<1>2. CASE FinalizeEngine
  BY <1>2 DEF FinalizeEngine
<1>3. CASE EngineEvent
  BY <1>3 DEF EngineEvent
<1> QED BY <1>1, <1>2, <1>3

LEMMA RuntimeType ==
    ASSUME SyncTypeOK, Runtime PROVE SyncTypeOK'
<1> USE DEF SyncTypeOK, syncVars, engineVars, SyncSteps, CleanupSteps
<1>1. CASE \E s \in Instance : UserEdit(s)
  BY <1>1 DEF UserEdit
<1>2. CASE UserDelete
  BY <1>2 DEF UserDelete
<1>3. CASE BeginSync
  BY <1>3 DEF BeginSync
<1>4. CASE SyncFails
  BY <1>4 DEF SyncFails
<1> QED BY <1>1, <1>2, <1>3, <1>4 DEF Runtime

\* A step of another module moves the reconcile on and nothing else.
LEMMA FlowType ==
    ASSUME SyncTypeOK, UNCHANGED <<syncVars, engineVars>>,
           (\E step \in SyncSteps \cup CleanupSteps \cup {"idle"} : Continue(step)) \/ Retry
    PROVE  SyncTypeOK'
  BY DEF SyncTypeOK, syncVars, engineVars, Continue, Retry

LEMMA TemplateStepsType ==
    ASSUME SyncTypeOK, TemplateTypeOK, SyncReplicaTemplate
    PROVE  SyncTypeOK' /\ TemplateTypeOK'
<1>1. UNCHANGED <<syncVars, engineVars>> /\ (Continue("maxscale") \/ Retry)
  BY DEF SyncReplicaTemplate, DropTemplate, SkipTemplate, StorageMissing,
     RecreateTemplate, KeepTemplate, TemplateStep
<1>2. SyncTypeOK'
  BY <1>1, FlowType DEF SyncSteps
<1>3. tplCache' = tplCache
  BY DEF SyncReplicaTemplate, DropTemplate, SkipTemplate, StorageMissing,
     RecreateTemplate, KeepTemplate, TemplateStep, templateVars
<1>4. tpl' \in Template \cup {Absent}
  <2> USE DEF TemplateTypeOK, Template, AfterDelete
  <2>1. CASE DropTemplate
    BY <2>1 DEF DropTemplate
  <2>2. CASE SkipTemplate
    BY <2>2 DEF SkipTemplate, templateVars
  <2>3. CASE StorageMissing
    BY <2>3 DEF StorageMissing
  <2>4. CASE RecreateTemplate
    BY <2>4 DEF RecreateTemplate
  <2>5. CASE KeepTemplate
    <3>1. snap.storage \in Storage
      BY <2>5 DEF KeepTemplate, TemplateStep, SyncTypeOK, Instance
    <3>2. \/ tpl' = [storage |-> snap.storage, deleting |-> FALSE]
          \/ tpl' = tpl
      BY <2>5 DEF KeepTemplate, Retry, Continue
    <3>3. [storage |-> snap.storage, deleting |-> FALSE] \in Template
      BY <3>1
    <3>4. tpl \in Template \cup {Absent}
      OBVIOUS
    <3> HIDE DEF Template
    <3> QED BY <3>2, <3>3, <3>4
  <2> QED BY <2>1, <2>2, <2>3, <2>4, <2>5 DEF SyncReplicaTemplate
<1> QED BY <1>2, <1>3, <1>4 DEF TemplateTypeOK

LEMMA TemplateEnvType ==
    ASSUME SyncTypeOK, TemplateTypeOK, FinalizeTemplate \/ TemplateCached
    PROVE  SyncTypeOK' /\ TemplateTypeOK'
<1>1. UNCHANGED <<syncVars, flow, engineVars>>
  BY DEF FinalizeTemplate, TemplateCached
<1> QED BY <1>1 DEF SyncTypeOK, TemplateTypeOK, syncVars, flow, engineVars,
        FinalizeTemplate, TemplateCached

\* What a request to delete does to a MaxScale.
LEMMA TeardownResult ==
    ASSUME NEW next, TeardownMaxScale(next)
    PROVE  \/ mxs' = mxs
           \/ mxs' = Absent
           \/ mxs # Absent /\ mxs' = [mxs EXCEPT !.deleting = TRUE]
  BY DEF TeardownMaxScale, AfterDelete

LEMMA ProxyStepsType ==
    ASSUME SyncTypeOK, ProxyTypeOK, SyncMaxScale \/ ReportStatus \/ CleanupProxy
    PROVE  SyncTypeOK' /\ ProxyTypeOK'
<1> USE DEF ProxyTypeOK, secretVars, ProxySecrets
<1>1. CASE ApplyMaxScale
  <2>1. SyncTypeOK'
    BY <1>1, FlowType DEF ApplyMaxScale, SyncSteps
  <2>2. ProxyTLS(snap) \in BOOLEAN
    BY DEF ProxyTLS
  <2>3. mxs' \in MaxScale
    BY <1>1, <2>2 DEF ApplyMaxScale, MaxScale
  <2> QED BY <1>1, <2>1, <2>3 DEF ApplyMaxScale
<1>2. CASE DisableProxy \/ CleanupProxy
  <2>1. PICK next \in {"monitor", "cleanupEngine"} : TeardownMaxScale(next)
    BY <1>2 DEF DisableProxy, CleanupProxy
  <2>2. UNCHANGED <<syncVars, engineVars>> /\ (Continue(next) \/ Retry)
    BY <2>1 DEF TeardownMaxScale
  <2>3. SyncTypeOK'
    BY <2>2, FlowType DEF SyncSteps, CleanupSteps
  <2>4. mxs' \in MaxScale \cup {Absent}
    BY <2>1, TeardownResult DEF MaxScale
  <2> QED BY <2>1, <2>3, <2>4 DEF TeardownMaxScale
<1>3. CASE ReportStatus
  <2>1. SyncTypeOK'
    BY <1>3, FlowType DEF ReportStatus
  <2>2. snap.proxy => mxsCache # Absent \/ published' = Absent
    BY <1>3 DEF ReportStatus, ReadyMaxScale
  <2>3. mxsCache # Absent \/ ~snap.proxy => ConnectionDetails \in Details \cup {Absent}
    <3> SUFFICES ASSUME mxsCache # Absent \/ ~snap.proxy
                 PROVE  ConnectionDetails \in Details \cup {Absent}
      OBVIOUS
    <3>1. ClientTLS \in BOOLEAN
      BY DEF ClientTLS, MaxScale
    <3> QED BY <3>1 DEF ConnectionDetails, Details
  <2>4. published' \in Details \cup {Absent}
    BY <1>3, <2>2, <2>3 DEF ReportStatus
  <2> QED BY <1>3, <2>1, <2>4 DEF ReportStatus
<1> QED BY <1>1, <1>2, <1>3 DEF SyncMaxScale

LEMMA ProxyEnvType ==
    ASSUME SyncTypeOK, ProxyTypeOK, ProxyProgresses \/ FinalizeProxy \/ ProxyEvent
               \/ (\E k \in Secret : IssueSecret(k)) \/ SecretEvent
    PROVE  SyncTypeOK' /\ ProxyTypeOK'
<1>1. SyncTypeOK'
  BY DEF SyncTypeOK, syncVars, flow, engineVars, ProxyProgresses, FinalizeProxy,
     ProxyEvent, IssueSecret, SecretEvent
<1> USE DEF ProxyTypeOK, secretVars, ProxySecrets
<1>2. CASE ProxyProgresses
  BY <1>1, <1>2 DEF ProxyProgresses, MaxScale
<1>3. CASE FinalizeProxy \/ ProxyEvent
  BY <1>1, <1>3 DEF FinalizeProxy, ProxyEvent
<1>4. CASE \E k \in Secret : IssueSecret(k)
  <2>1. env.announces \in BOOLEAN
    BY OffersInstances DEF SyncTypeOK
  <2> QED BY <1>1, <1>4, <2>1 DEF IssueSecret
<1>5. CASE SecretEvent
  BY <1>1, <1>5 DEF SecretEvent
<1> QED BY <1>2, <1>3, <1>4, <1>5

LEMMA MonitoringStepsType ==
    ASSUME SyncTypeOK, MonitoringTypeOK, SyncMonitoring
    PROVE  SyncTypeOK' /\ MonitoringTypeOK'
<1>1. /\ UNCHANGED <<syncVars, engineVars, operatorView>>
      /\ \/ Continue("scrape") \/ Continue("status") \/ Continue("adopt")
         \/ Continue("applyScrape") \/ Retry
  BY DEF SyncMonitoring, KeepMonitor, DropMonitor, TeardownScrape, ReadScrape,
     AdoptScrape, ApplyScrape, monitoringVars
<1>2. SyncTypeOK'
  BY <1>1, FlowType DEF SyncSteps
<1>3. monitor' \in {monitor, "deleting", Absent}
  BY DEF SyncMonitoring, KeepMonitor, DropMonitor, TeardownScrape, ReadScrape,
     AdoptScrape, ApplyScrape, monitoringVars
<1>4. scrape' \in Scrape \cup {Absent}
  <2> USE DEF MonitoringTypeOK
  <2>1. CASE KeepMonitor \/ DropMonitor \/ ReadScrape
    BY <2>1 DEF KeepMonitor, DropMonitor, ReadScrape, monitoringVars
  <2>2. CASE TeardownScrape
    <3>1. \/ scrape' = scrape \/ scrape' = Absent
          \/ scrape # Absent /\ scrape' = [scrape EXCEPT !.deleting = TRUE]
      BY <2>2 DEF TeardownScrape, AfterDelete, Controlled
    <3> QED BY <3>1 DEF Scrape
  <2>3. CASE AdoptScrape
    <3>1. \/ scrape' = scrape
          \/ scrape # Absent /\ scrape' = [scrape EXCEPT !.controller = "none"]
      BY <2>3 DEF AdoptScrape
    <3> QED BY <3>1 DEF Scrape
  <2>4. CASE ApplyScrape
    <3>1. scrape # Absent => scrape.deleting \in BOOLEAN
      BY DEF Scrape
    <3> DEFINE d == scrape # Absent /\ scrape.deleting
    <3>2. d \in BOOLEAN
      BY <3>1
    <3>3. \/ scrape' = scrape
          \/ scrape' = [controller |-> "Instance", by |-> "provider", deleting |-> d]
      BY <2>4 DEF ApplyScrape
    <3> HIDE DEF d
    <3> QED BY <3>2, <3>3 DEF Scrape
  <2> QED BY <2>1, <2>2, <2>3, <2>4 DEF SyncMonitoring
<1> QED BY <1>1, <1>2, <1>3, <1>4 DEF MonitoringTypeOK

LEMMA MonitoringEnvType ==
    ASSUME SyncTypeOK, MonitoringTypeOK,
           OperatorReads \/ OperatorMonitors \/ FinalizeMonitor \/ Convert \/ FinalizeScrape
    PROVE  SyncTypeOK' /\ MonitoringTypeOK'
<1>1. SyncTypeOK'
  BY DEF SyncTypeOK, syncVars, flow, engineVars, OperatorReads, OperatorMonitors,
     FinalizeMonitor, Convert, FinalizeScrape
<1> USE DEF MonitoringTypeOK
<1>2. CASE OperatorReads
  BY <1>1, <1>2 DEF OperatorReads, MetricsSeen, SyncTypeOK, MariaDB, OperatorMetrics
<1>3. CASE OperatorMonitors \/ FinalizeMonitor \/ FinalizeScrape
  BY <1>1, <1>3 DEF OperatorMonitors, FinalizeMonitor, FinalizeScrape
<1>4. CASE Convert
  BY <1>1, <1>4 DEF Convert, Scrape
<1> QED BY <1>2, <1>3, <1>4

\* Every variable keeps its type: no step writes into another module's state
\* what that module does not know.
THEOREM TypeCorrect == SafetySpec => []TypeOK
<1>1. Init => TypeOK
  BY SyncInitType DEF Init, TypeOK, TemplateInit, TemplateTypeOK, ProxyInit,
     ProxyTypeOK, Secret, MonitoringInit, MonitoringTypeOK, OperatorMetrics
<1>2. TypeOK /\ [Next]_vars => TypeOK'
  <2> SUFFICES ASSUME TypeOK, [Next]_vars PROVE TypeOK'
    OBVIOUS
  <2> USE DEF TypeOK
  <2>1. UNCHANGED templateVars => TemplateTypeOK'
    BY DEF templateVars, TemplateTypeOK
  <2>2. UNCHANGED proxyVars => ProxyTypeOK'
    BY DEF proxyVars, secretVars, ProxyTypeOK
  <2>3. UNCHANGED monitoringVars => MonitoringTypeOK'
    BY DEF monitoringVars, MonitoringTypeOK
  <2>4. CASE SyncStep
    BY <2>1, <2>2, <2>3, <2>4, EngineStepsType, TemplateStepsType, ProxyStepsType,
       MonitoringStepsType DEF SyncStep
  <2>5. CASE Runtime
    BY <2>1, <2>2, <2>3, <2>5, RuntimeType DEF Runtime
  <2>6. CASE EngineStep
    BY <2>1, <2>2, <2>3, <2>6, EngineEnvType DEF EngineStep
  <2>7. CASE TemplateEnvStep
    BY <2>2, <2>3, <2>7, TemplateEnvType DEF TemplateEnvStep
  <2>8. CASE ProxyEnvStep
    BY <2>1, <2>3, <2>8, ProxyEnvType DEF ProxyEnvStep
  <2>9. CASE MonitoringEnvStep
    BY <2>1, <2>2, <2>9, MonitoringEnvType DEF MonitoringEnvStep
  <2>10. CASE UNCHANGED vars
    BY <2>1, <2>2, <2>3, <2>10 DEF vars, syncVars, flow, engineVars, SyncTypeOK
  <2> QED BY <2>4, <2>5, <2>6, <2>7, <2>8, <2>9, <2>10 DEF Next
<1> QED BY <1>1, <1>2, PTL DEF SafetySpec

-----------------------------------------------------------------------------
(* The order of a cleanup. *)

Deleting(r) == r # Absent /\ r.deleting

\* Cleanup only runs for a deleted Instance and no Sync begins after it, so
\* nothing creates a MaxScale again between the two requests.
StopInv ==
    /\ pc \in CleanupSteps \cup {"gone"} => deleted
    /\ Deleting(mdb) => deleted /\ pc \notin SyncSteps
    /\ ~env.lag /\ (pc \in {"cleanupEngine", "release", "gone"} \/ Deleting(mdb))
         => (mxs # Absent => mxs.deleting)

\* The steps of Sync that leave the MariaDB and the MaxScale alone.
LEMMA StepsBeside ==
    ASSUME SyncReplicaTemplate \/ SyncMonitoring
    PROVE  /\ pc \in SyncSteps /\ pc' \in SyncSteps \cup {"idle"}
           /\ UNCHANGED <<syncVars, engineVars>>
<1>1. CASE SyncReplicaTemplate
  BY <1>1 DEF SyncReplicaTemplate, DropTemplate, SkipTemplate, StorageMissing,
     RecreateTemplate, KeepTemplate, TemplateStep, Continue, Retry, SyncSteps
<1>2. CASE SyncMonitoring
  BY <1>2 DEF SyncMonitoring, KeepMonitor, DropMonitor, TeardownScrape, ReadScrape,
     AdoptScrape, ApplyScrape, Continue, Retry, SyncSteps
<1> QED BY <1>1, <1>2

\* No step of Sync asks for the deletion of the MariaDB.
LEMMA SyncKeepsEngine ==
    ASSUME TypeOK, SyncStep, pc \in SyncSteps
    PROVE  /\ UNCHANGED syncVars /\ pc' \in SyncSteps \cup {"idle"}
           /\ Deleting(mdb') => Deleting(mdb)
<1> USE DEF SyncSteps, Continue, Retry
<1>1. CASE MigrateOwnership
  <2>1. mdb' = mdb \/ (mdb # Absent /\ mdb' = [mdb EXCEPT !.legacy = FALSE])
    BY <1>1 DEF MigrateOwnership, Legacy
  <2>2. Deleting(mdb') => Deleting(mdb)
    BY <2>1 DEF Deleting, TypeOK, SyncTypeOK, MariaDB
  <2> QED BY <1>1, <2>2 DEF MigrateOwnership
<1>2. CASE ApplyMariaDB
  <2>1. Deleting(mdb') => Deleting(mdb)
    BY <1>2 DEF ApplyMariaDB, Created, Deleting, TypeOK, SyncTypeOK, MariaDB
  <2> QED BY <1>2, <2>1 DEF ApplyMariaDB
<1>3. CASE SyncMaxScale \/ ReportStatus
  BY <1>3 DEF SyncMaxScale, ApplyMaxScale, DisableProxy, TeardownMaxScale,
     ReportStatus, engineVars
<1>4. CASE SyncReplicaTemplate \/ SyncMonitoring
  BY <1>4, StepsBeside DEF engineVars
<1>5. ~CleanupEngine /\ ~ReleaseInstance /\ ~CleanupProxy
  BY DEF CleanupEngine, ReleaseInstance, CleanupProxy
<1> QED BY <1>1, <1>2, <1>3, <1>4, <1>5 DEF SyncStep

LEMMA StopStep == TypeOK /\ StopInv /\ [Next]_vars => StopInv'
<1> SUFFICES ASSUME TypeOK, StopInv, [Next]_vars PROVE StopInv'
  OBVIOUS
<1> USE DEF StopInv
<1>1. CASE SyncStep /\ pc \in SyncSteps
  <2>1. /\ UNCHANGED syncVars /\ pc' \in SyncSteps \cup {"idle"}
        /\ ~Deleting(mdb) /\ (Deleting(mdb') => Deleting(mdb))
    BY <1>1, SyncKeepsEngine
  <2> QED BY <2>1 DEF SyncSteps, CleanupSteps, Deleting
<1>2. CASE SyncStep /\ pc \notin SyncSteps
  <2>1. CleanupProxy \/ CleanupEngine \/ ReleaseInstance
    BY <1>2, StepsBeside DEF SyncStep, SyncSteps, MigrateOwnership, ApplyMariaDB,
       SyncMaxScale, ApplyMaxScale, DisableProxy, ReportStatus
  <2>2. CASE CleanupProxy
    <3> USE <2>2 DEF CleanupProxy, TeardownMaxScale, Continue, Retry
    <3>1. /\ UNCHANGED <<env, deleted, mdb>> /\ pc' \in {"cleanupEngine", "idle"}
          /\ deleted
      BY DEF syncVars, engineVars, CleanupSteps
    <3>2. CASE mxs' = mxs /\ pc' = "cleanupEngine"
      <4>1. ~env.lag => mxs = Absent \/ mxs.deleting
        <5> SUFFICES ASSUME ~env.lag, mxs # Absent PROVE mxs.deleting
          OBVIOUS
        <5>1. mxsCache = mxs
          BY DEF Fresh
        <5>2. CASE ~mxsCache.deleting
          <6>1. mxs' = AfterDelete(mxs)
            BY <5>1, <5>2
          <6>2. AfterDelete(mxs) = Absent \/ AfterDelete(mxs).deleting
            BY DEF AfterDelete, TypeOK, ProxyTypeOK, MaxScale
          <6> QED BY <3>2, <6>1, <6>2
        <5> QED BY <5>1, <5>2
      <4> QED BY <3>1, <3>2, <4>1 DEF SyncSteps, CleanupSteps
    <3>3. CASE mxs' = mxs /\ pc' = "idle"
      BY <3>1, <3>3 DEF SyncSteps, CleanupSteps
    <3>4. CASE mxs' # mxs
      <4>1. mxs' = AfterDelete(mxs) /\ mxs # Absent
        BY <3>4
      <4>2. mxs' # Absent => mxs'.deleting
        BY <3>4, <4>1 DEF AfterDelete, TypeOK, ProxyTypeOK, MaxScale
      <4> QED BY <3>1, <4>2 DEF SyncSteps, CleanupSteps
    <3> QED BY <3>1, <3>2, <3>3, <3>4
  <2>3. CASE CleanupEngine
    <3>1. UNCHANGED <<env, deleted, mxs>> /\ pc = "cleanupEngine" /\ pc' = "release"
      BY <1>2, <2>3 DEF CleanupEngine, Continue, syncVars, SyncStep, proxyVars,
         SyncMaxScale, ApplyMaxScale, DisableProxy, TeardownMaxScale, ReportStatus,
         CleanupProxy, SyncReplicaTemplate, DropTemplate, SkipTemplate,
         StorageMissing, RecreateTemplate, KeepTemplate, TemplateStep
    <3> QED BY <3>1 DEF SyncSteps, CleanupSteps
  <2>4. CASE ReleaseInstance
    <3>1. UNCHANGED <<env, deleted, mxs, mdb>> /\ pc = "release" /\ pc' = "gone"
      BY <1>2, <2>4 DEF ReleaseInstance, Continue, syncVars, engineVars, SyncStep,
         proxyVars, SyncMaxScale, ApplyMaxScale, DisableProxy, TeardownMaxScale,
         ReportStatus, CleanupProxy
    <3> QED BY <3>1 DEF SyncSteps, CleanupSteps
  <2> QED BY <2>1, <2>2, <2>3, <2>4
<1>3. CASE Runtime
  <2>1. UNCHANGED <<env, mdb, mxs>>
    BY <1>3 DEF Runtime, UserEdit, UserDelete, BeginSync, SyncFails, syncVars,
       engineVars, proxyVars
  <2>2. CASE (\E s \in Instance : UserEdit(s)) \/ UserDelete
    BY <2>1, <2>2 DEF UserEdit, UserDelete
  <2>3. CASE BeginSync
    BY <2>1, <2>3 DEF BeginSync, CleanupSteps, SyncSteps
  <2>4. CASE SyncFails
    BY <2>1, <2>4 DEF SyncFails, CleanupSteps, SyncSteps, syncVars
  <2> QED BY <1>3, <2>2, <2>3, <2>4 DEF Runtime
<1>4. CASE EngineStep
  <2>1. UNCHANGED <<env, deleted, pc, mxs>>
    BY <1>4 DEF EngineStep, EngineProgresses, FinalizeEngine, EngineEvent, syncVars,
       flow, proxyVars
  <2>2. Deleting(mdb') => Deleting(mdb)
    BY <1>4 DEF EngineStep, EngineProgresses, FinalizeEngine, EngineEvent, Deleting,
       TypeOK, SyncTypeOK, MariaDB
  <2> QED BY <2>1, <2>2
<1>5. CASE TemplateEnvStep \/ MonitoringEnvStep
  <2>1. UNCHANGED <<env, deleted, pc, mdb, mxs>>
    BY <1>5 DEF TemplateEnvStep, MonitoringEnvStep, FinalizeTemplate, TemplateCached,
       OperatorReads, OperatorMonitors, FinalizeMonitor, Convert, FinalizeScrape,
       syncVars, flow, engineVars, proxyVars
  <2> QED BY <2>1
<1>6. CASE ProxyEnvStep
  <2>1. UNCHANGED <<env, deleted, pc, mdb>>
    BY <1>6 DEF ProxyEnvStep, ProxyProgresses, FinalizeProxy, ProxyEvent, IssueSecret,
       SecretEvent, syncVars, flow, engineVars
  <2>2. mxs' # Absent /\ ~mxs'.deleting => mxs # Absent /\ ~mxs.deleting
    BY <1>6 DEF ProxyEnvStep, ProxyProgresses, FinalizeProxy, ProxyEvent, IssueSecret,
       SecretEvent, TypeOK, ProxyTypeOK, MaxScale
  <2> QED BY <2>1, <2>2
<1>7. CASE UNCHANGED vars
  BY <1>7 DEF vars, syncVars, flow, engineVars, proxyVars
<1> QED BY <1>1, <1>2, <1>3, <1>4, <1>5, <1>6, <1>7 DEF Next

LEMMA StopInvariant == SafetySpec => []StopInv
<1>1. Init => StopInv
  <2> SUFFICES ASSUME Init PROVE StopInv
    OBVIOUS
  <2>1. pc = "idle" /\ mxs = Absent
    BY DEF Init, SyncInit, ProxyInit
  <2>2. ~Deleting(mdb)
    <3>1. CASE ~env.legacy
      BY <3>1 DEF Init, SyncInit, Deleting
    <3>2. CASE env.legacy
      BY <3>2 DEF Init, SyncInit, Deleting, Created
    <3> QED BY <3>1, <3>2
  <2> QED BY <2>1, <2>2 DEF StopInv, CleanupSteps
<1> QED BY <1>1, StopStep, TypeCorrect, PTL DEF SafetySpec

\* However a cleanup is interrupted and repeated, the servers are only asked
\* to go after the MaxScale was.
THEOREM ProxyAlwaysStopsFirst == SafetySpec => []ProxyStopsFirst
<1>1. StopInv => ProxyStopsFirst
  BY DEF StopInv, ProxyStopsFirst, Deleting
<1> QED BY <1>1, StopInvariant, PTL

-----------------------------------------------------------------------------
(* Whose VMServiceScrape it is. *)

\* Control and contents go together: the Instance controls exactly what it
\* applied, and what is about to be adopted was not applied by it.
ScrapeInv ==
    /\ scrape # Absent /\ scrape.by = "provider" => scrape.controller = "Instance"
    /\ scrape # Absent /\ scrape.by = "converter"
         => scrape.controller # "Instance" /\ ~scrape.deleting
    /\ pc = "adopt" /\ scrape # Absent => scrape.by = "converter"

\* Steps that neither touch the scrape nor lead to its adoption.
LEMMA ScrapeUntouched ==
    ASSUME [Next]_vars,
           ~(SyncMonitoring /\ SyncStep), ~(Convert /\ MonitoringEnvStep),
           ~(FinalizeScrape /\ MonitoringEnvStep)
    PROVE  scrape' = scrape /\ (pc' = "adopt" => pc = "adopt")
<1>1. CASE SyncStep
  <2>1. scrape' = scrape
    BY <1>1 DEF SyncStep, monitoringVars
  <2>2. pc' # "adopt"
    BY <1>1 DEF SyncStep, Continue, Retry, MigrateOwnership, ApplyMariaDB, CleanupEngine,
       ReleaseInstance, SyncReplicaTemplate, DropTemplate, SkipTemplate, StorageMissing,
       RecreateTemplate, KeepTemplate, TemplateStep, SyncMaxScale, ApplyMaxScale,
       DisableProxy, CleanupProxy, TeardownMaxScale, ReportStatus
  <2> QED BY <2>1, <2>2
<1>2. CASE Runtime
  BY <1>2 DEF Runtime, UserEdit, UserDelete, BeginSync, SyncFails, monitoringVars
<1>3. CASE EngineStep
  BY <1>3 DEF EngineStep, EngineProgresses, FinalizeEngine, EngineEvent, flow,
     monitoringVars
<1>4. CASE TemplateEnvStep \/ ProxyEnvStep
  BY <1>4 DEF TemplateEnvStep, FinalizeTemplate, TemplateCached, ProxyEnvStep,
     ProxyProgresses, FinalizeProxy, ProxyEvent, IssueSecret, SecretEvent, flow,
     monitoringVars
<1>5. CASE MonitoringEnvStep
  BY <1>5 DEF MonitoringEnvStep, OperatorReads, OperatorMonitors, FinalizeMonitor, flow
<1>6. CASE UNCHANGED vars
  BY <1>6 DEF vars, flow, monitoringVars
<1> QED BY <1>1, <1>2, <1>3, <1>4, <1>5, <1>6 DEF Next

\* What the three programs do to the scrape.
LEMMA ScrapeStep ==
    ASSUME TypeOK, ScrapeInv, [Next]_vars
    PROVE  /\ ScrapeInv'
           /\ scrape # Absent /\ scrape.by = "converter"
                /\ (scrape' = Absent \/ scrape'.deleting)
                => scrape.controller = "monitor" /\ monitor = Absent
           /\ scrape # Absent /\ scrape.by = "provider" /\ ~scrape.deleting
                /\ scrape' # scrape
                => pc = "gone" \/ (pc = "scrape" /\ ~WantsScrape(snap))
<1> USE DEF ScrapeInv, Continue, Retry
<1>0. scrape # Absent => scrape \in Scrape
  BY DEF TypeOK, MonitoringTypeOK
<1>1. CASE KeepMonitor \/ DropMonitor
  BY <1>1 DEF KeepMonitor, DropMonitor, monitoringVars
<1>2. CASE TeardownScrape
  <2>1. \/ scrape' = scrape
        \/ scrape # Absent /\ scrape.controller = "Instance" /\ ~scrape.deleting
           /\ (scrape' = Absent \/ scrape' = [scrape EXCEPT !.deleting = TRUE])
    BY <1>2 DEF TeardownScrape, Controlled, AfterDelete
  <2>2. pc = "scrape" /\ ~WantsScrape(snap) /\ pc' = "status"
    BY <1>2 DEF TeardownScrape
  <2> QED BY <1>0, <2>1, <2>2 DEF Scrape
<1>3. CASE ReadScrape
  <2>1. scrape' = scrape
    BY <1>3 DEF ReadScrape, monitoringVars
  <2>2. pc' = "adopt" => scrape # Absent /\ scrape.controller = "monitor"
    BY <1>3 DEF ReadScrape
  <2> QED BY <1>0, <2>1, <2>2 DEF Scrape
<1>4. CASE AdoptScrape
  <2>1. \/ scrape' = scrape
        \/ scrape # Absent /\ scrape' = [scrape EXCEPT !.controller = "none"]
    BY <1>4 DEF AdoptScrape
  <2>2. pc = "adopt" /\ pc' # "adopt"
    BY <1>4 DEF AdoptScrape
  <2>3. CASE scrape' = scrape
    BY <2>2, <2>3
  <2>4. CASE scrape # Absent /\ scrape' = [scrape EXCEPT !.controller = "none"]
    <3>1. scrape.by = "converter" /\ ~scrape.deleting
      BY <2>2, <2>4
    <3>2. scrape' \in Scrape /\ scrape'.by = "converter" /\ ~scrape'.deleting
          /\ scrape'.controller = "none"
      BY <1>0, <2>4, <3>1 DEF Scrape
    <3> QED BY <2>2, <2>4, <3>1, <3>2, MonitoringAssumption
  <2> QED BY <2>1, <2>3, <2>4
<1>5. CASE ApplyScrape
  <2> DEFINE d == scrape # Absent /\ scrape.deleting
  <2>1. \/ scrape' = scrape
        \/ scrape' = [controller |-> "Instance", by |-> "provider", deleting |-> d]
    BY <1>5 DEF ApplyScrape
  <2>2. pc' # "adopt"
    BY <1>5 DEF ApplyScrape
  <2>3. d \in BOOLEAN
    BY <1>0 DEF Scrape
  <2>4. CASE scrape' = scrape
    BY <2>2, <2>4
  <2>5. CASE scrape' = [controller |-> "Instance", by |-> "provider", deleting |-> d]
    <3>1. scrape' \in Scrape
      BY <2>3, <2>5 DEF Scrape
    <3>2. scrape # Absent /\ scrape.by = "converter" => ~scrape'.deleting
      BY <2>5
    <3>3. scrape # Absent /\ scrape.by = "provider" /\ ~scrape.deleting => scrape' = scrape
      BY <1>0, <2>5 DEF Scrape
    <3>4. scrape' # Absent
      BY <3>1, MonitoringAssumption
    <3> QED BY <2>2, <2>5, <3>2, <3>3, <3>4
  <2> QED BY <2>1, <2>4, <2>5
<1>6. CASE Convert
  <2>1. scrape # Absent => scrape.by = "converter" /\ ~scrape.deleting
    BY <1>6 DEF Convert
  <2>2. scrape' \in Scrape /\ scrape'.by = "converter" /\ ~scrape'.deleting
        /\ scrape'.controller \in {"monitor", "none"}
    BY <1>6 DEF Convert, Scrape
  <2>3. pc' = pc
    BY <1>6 DEF Convert, flow
  <2> QED BY <1>0, <2>1, <2>2, <2>3, MonitoringAssumption DEF Scrape
<1>7. CASE FinalizeScrape
  BY <1>7 DEF FinalizeScrape, flow
<1>8. CASE ~SyncMonitoring /\ ~Convert /\ ~FinalizeScrape
  <2>1. scrape' = scrape /\ (pc' = "adopt" => pc = "adopt")
    BY <1>8, ScrapeUntouched
  <2> QED BY <2>1
<1> QED BY <1>1, <1>2, <1>3, <1>4, <1>5, <1>6, <1>7, <1>8 DEF SyncMonitoring

LEMMA ScrapeInvariant == SafetySpec => []ScrapeInv
<1>1. Init => ScrapeInv
  BY DEF Init, MonitoringInit, SyncInit, ScrapeInv
<1>2. TypeOK /\ ScrapeInv /\ [Next]_vars => ScrapeInv'
  BY ScrapeStep
<1> QED BY <1>1, <1>2, TypeCorrect, PTL DEF SafetySpec

\* The provider never deletes a scrape the converter made.
THEOREM ForeignScrapeAlwaysKept == SafetySpec => ForeignScrapeKept
<1>1. TypeOK /\ ScrapeInv /\ [Next]_vars
        => [scrape # Absent /\ scrape.by = "converter"
            /\ (scrape' = Absent \/ scrape'.deleting)
            => scrape.controller = "monitor" /\ monitor = Absent]_scrape
  BY ScrapeStep
<1> QED BY <1>1, TypeCorrect, ScrapeInvariant, PTL DEF SafetySpec, ForeignScrapeKept

\* What was taken over is neither taken back nor lost.
THEOREM AdoptedScrapeAlwaysKept == SafetySpec => AdoptedScrapeKept
<1>1. TypeOK /\ ScrapeInv /\ [Next]_vars
        => [scrape # Absent /\ scrape.by = "provider" /\ ~scrape.deleting
            /\ scrape' # scrape
            => pc = "gone" \/ (pc = "scrape" /\ ~WantsScrape(snap))]_scrape
  BY ScrapeStep
<1> QED BY <1>1, TypeCorrect, ScrapeInvariant, PTL DEF SafetySpec, AdoptedScrapeKept

-----------------------------------------------------------------------------
(* The template and the MariaDB that refers to it. *)

\* No cache is old enough to hide a legacy manager that is still there, so
\* none is left when the apply runs, and the apply removes the reference.
ReferenceInv ==
    /\ Legacy(mdb) => Legacy(mdbCache)
    /\ pc = "mariadb" => ~Legacy(mdb)
    /\ pc = "template" /\ mdb # Absent => mdb.staged = Staged(snap)

\* Steps that leave the reference, its owner and the reconcile's copy alone.
LEMMA ReferenceUntouched ==
    ASSUME TypeOK, [Next]_vars, ~MigrateOwnership, ~ApplyMariaDB, ~CleanupEngine
    PROVE  /\ Legacy(mdb') => Legacy(mdb)
           /\ mdbCache' = mdbCache \/ mdbCache' = mdb'
           /\ mdb' # Absent => mdb # Absent /\ mdb'.staged = mdb.staged
           /\ pc' # pc => pc' \notin {"mariadb", "template"}
           /\ pc' = "template" => snap' = snap
<1>1. CASE SyncStep
  <2>1. UNCHANGED <<syncVars, engineVars>>
    BY <1>1, StepsBeside DEF SyncStep, ReleaseInstance, SyncMaxScale, ApplyMaxScale,
       DisableProxy, CleanupProxy, TeardownMaxScale, ReportStatus
  <2>2. pc' \notin {"mariadb", "template"}
    <3>1. CASE SyncReplicaTemplate
      BY <3>1 DEF SyncReplicaTemplate, DropTemplate, SkipTemplate, StorageMissing,
         RecreateTemplate, KeepTemplate, TemplateStep, Continue, Retry
    <3>2. CASE SyncMonitoring
      BY <3>2 DEF SyncMonitoring, KeepMonitor, DropMonitor, TeardownScrape, ReadScrape,
         AdoptScrape, ApplyScrape, Continue, Retry
    <3>3. CASE ReleaseInstance \/ SyncMaxScale \/ ReportStatus \/ CleanupProxy
      BY <3>3 DEF ReleaseInstance, SyncMaxScale, ApplyMaxScale, DisableProxy,
         CleanupProxy, TeardownMaxScale, ReportStatus, Continue, Retry
    <3> QED BY <1>1, <3>1, <3>2, <3>3 DEF SyncStep
  <2> QED BY <2>1, <2>2 DEF syncVars, engineVars
<1>2. CASE Runtime
  <2>1. UNCHANGED engineVars /\ (pc' # pc => pc' \notin {"mariadb", "template"})
    BY <1>2 DEF Runtime, UserEdit, UserDelete, BeginSync, SyncFails
  <2>2. pc' = "template" => snap' = snap
    BY <1>2 DEF Runtime, UserEdit, UserDelete, BeginSync, SyncFails, syncVars
  <2> QED BY <2>1, <2>2 DEF engineVars
<1>3. CASE EngineStep
  <2>1. UNCHANGED <<pc, snap>> /\ (mdbCache' = mdbCache \/ mdbCache' = mdb')
    BY <1>3 DEF EngineStep, EngineProgresses, FinalizeEngine, EngineEvent, syncVars, flow
  <2>2. CASE EngineProgresses
    <3>1. mdb \in MariaDB /\ mdb # Absent
      BY <2>2 DEF EngineProgresses, TypeOK, SyncTypeOK
    <3>2. mdb' = [mdb EXCEPT !.ready = TRUE]
      BY <2>2 DEF EngineProgresses
    <3>3. mdb'.legacy = mdb.legacy /\ mdb'.staged = mdb.staged
      BY <3>1, <3>2 DEF MariaDB
    <3> QED BY <2>1, <3>1, <3>3 DEF Legacy
  <2>3. CASE FinalizeEngine \/ EngineEvent
    BY <2>1, <2>3 DEF FinalizeEngine, EngineEvent, Legacy
  <2> QED BY <1>3, <2>2, <2>3 DEF EngineStep
<1>4. CASE TemplateEnvStep \/ ProxyEnvStep \/ MonitoringEnvStep
  <2>1. UNCHANGED <<snap, mdb, mdbCache>> /\ (pc' = pc)
    BY <1>4 DEF TemplateEnvStep, FinalizeTemplate, TemplateCached, ProxyEnvStep,
       ProxyProgresses, FinalizeProxy, ProxyEvent, IssueSecret, SecretEvent,
       MonitoringEnvStep, OperatorReads, OperatorMonitors, FinalizeMonitor, Convert,
       FinalizeScrape, flow, syncVars, engineVars
  <2> QED BY <2>1
<1>5. CASE UNCHANGED vars
  BY <1>5 DEF vars, syncVars, flow, engineVars
<1> QED BY <1>1, <1>2, <1>3, <1>4, <1>5 DEF Next

LEMMA ReferenceStep == TypeOK /\ ReferenceInv /\ [Next]_vars => ReferenceInv'
<1> SUFFICES ASSUME TypeOK, ReferenceInv, [Next]_vars PROVE ReferenceInv'
  OBVIOUS
<1> USE DEF ReferenceInv, Continue, Retry
<1>0. mdb # Absent => mdb \in MariaDB
  BY DEF TypeOK, SyncTypeOK
<1>1. CASE MigrateOwnership
  <2>1. ~Legacy(mdbCache) => ~Legacy(mdb)
    OBVIOUS
  <2>2. pc' # "template" /\ mdbCache' = mdbCache
    BY <1>1 DEF MigrateOwnership
  <2>3. CASE ~Legacy(mdbCache)
    BY <1>1, <2>1, <2>2, <2>3 DEF MigrateOwnership
  <2>4. CASE Legacy(mdbCache) /\ mdbCache = mdb
    <3>1. mdb' = [mdb EXCEPT !.legacy = FALSE] /\ mdb \in MariaDB
      BY <1>0, <1>1, <2>4 DEF MigrateOwnership, Legacy
    <3>2. ~Legacy(mdb')
      BY <3>1 DEF Legacy, MariaDB
    <3> QED BY <2>2, <3>2
  <2>5. CASE Legacy(mdbCache) /\ mdbCache # mdb
    <3>1. mdb' = mdb /\ pc' = "idle"
      BY <1>1, <2>5 DEF MigrateOwnership
    <3> QED BY <2>2, <3>1
  <2> QED BY <2>3, <2>4, <2>5
<1>2. CASE ApplyMariaDB
  <2>1. ~Legacy(mdb) /\ pc' = "template" /\ snap' = snap
    BY <1>2 DEF ApplyMariaDB, syncVars
  <2>2. CASE mdb = Absent
    <3>1. mdb' = Created(snap)
      BY <1>2, <2>2 DEF ApplyMariaDB
    <3> QED BY <2>1, <3>1 DEF Created, Legacy
  <2>3. CASE mdb # Absent
    <3>1. mdb \in MariaDB /\ ~mdb.legacy
      BY <1>0, <2>1, <2>3 DEF Legacy
    <3>2. mdb'.legacy = mdb.legacy /\ mdb'.staged = (Staged(snap) \/ (mdb.legacy /\ mdb.staged))
      BY <1>2, <2>3, <3>1 DEF ApplyMariaDB, MariaDB
    <3>3. mdb'.staged = Staged(snap)
      BY <3>1, <3>2 DEF Staged
    <3> QED BY <2>1, <3>1, <3>2, <3>3 DEF Legacy, Staged
  <2> QED BY <2>2, <2>3
<1>3. CASE CleanupEngine
  <2>1. mdb' = Absent \/ (mdb # Absent /\ mdb' = [mdb EXCEPT !.deleting = TRUE])
    BY <1>3 DEF CleanupEngine, AfterDelete
  <2>2. Legacy(mdb') => Legacy(mdb)
    BY <1>0, <2>1 DEF Legacy, MariaDB
  <2>3. pc' = "release" /\ mdbCache' = mdbCache
    BY <1>3 DEF CleanupEngine
  <2> QED BY <2>2, <2>3
<1>4. CASE ~MigrateOwnership /\ ~ApplyMariaDB /\ ~CleanupEngine
  <2>1. /\ Legacy(mdb') => Legacy(mdb)
        /\ mdbCache' = mdbCache \/ mdbCache' = mdb'
        /\ mdb' # Absent => mdb # Absent /\ mdb'.staged = mdb.staged
        /\ pc' # pc => pc' \notin {"mariadb", "template"}
        /\ pc' = "template" => snap' = snap
    BY <1>4, ReferenceUntouched
  <2> QED BY <2>1 DEF Staged
<1> QED BY <1>1, <1>2, <1>3, <1>4

LEMMA ReferenceInvariant == SafetySpec => []ReferenceInv
<1>1. Init => ReferenceInv
  BY DEF Init, SyncInit, ReferenceInv
<1> QED BY <1>1, ReferenceStep, TypeCorrect, PTL DEF SafetySpec

\* A template is only taken away from an operator that no longer uses it.
THEOREM TemplateAlwaysOutlives == SafetySpec => TemplateOutlivesReference
<1>1. TypeOK /\ ReferenceInv
        => [pc = "template" /\ snap.storage = NoStorage /\ tpl # Absent /\ tpl' # tpl
            => mdb = Absent \/ ~mdb.staged]_tpl
  BY DEF ReferenceInv, Staged
<1> QED BY <1>1, ReferenceInvariant, TypeCorrect, PTL
        DEF SafetySpec, TemplateOutlivesReference
=============================================================================
