------------------------------ MODULE Seeding ------------------------------
(***************************************************************************)
(* Creating an Instance from spec.dataSource (datasource.go and the        *)
(* creation path of SyncMariaDB): the source is resolved, the source       *)
(* Instance's two credential Secrets are copied, the MariaDB resource is   *)
(* applied with bootstrapFrom, the operator restores, and Sync and Status  *)
(* together decide which phase the owner sees.                             *)
(*                                                                         *)
(* One reconcile is a sequence of calls; it may fail between any two, and  *)
(* the operator works meanwhile.  What the operator does is modelled from  *)
(* the comments and status helpers datasource.go relies on.                *)
(*                                                                         *)
(* Only a queued Instance is reconciled.  The MariaDB is watched; the      *)
(* operator Restore that applies a logical backup, and from which its      *)
(* failure is read, is not.                                                *)
(***************************************************************************)
EXTENDS Integers

CONSTANTS
    DataSources,   \* which values of spec.dataSource are considered
    Absent,        \* no such object
    Scenario,      \* the surroundings that are considered
    MaxRestarts    \* how often the MariaDB may lose readiness

Keys == {"root", "user"}
BootstrapType == {"none", "physical", "logical", "pointInTime"}
Progress == {"none", "restored", "baseFailed", "base", "replaying",
             "replayed", "skipped", "replayError"}

\* progress is the data on the volumes, and what the status says of a replay.
MariaDB == [bootstrap : BootstrapType, ready : BOOLEAN, progress : Progress]

\* lag: the MariaDB resource may be read from an old cache; leftovers: Secrets
\* of a deleted Instance of the same name may exist; announces: the Instance is
\* queued once a logical restore has failed.
Surroundings == [lag : BOOLEAN, leftovers : BOOLEAN, announces : BOOLEAN]

ASSUME SeedingAssumption ==
    /\ DataSources \subseteq BootstrapType
    /\ Absent \notin MariaDB
    /\ Absent \notin {"source", "generated", "old"}
    /\ Scenario \subseteq Surroundings
    /\ MaxRestarts \in Nat

VARIABLES
    env,          \* the surroundings of this Instance; they do not change
    dataSource,   \* spec.dataSource.type and the kind of backup; immutable
    source,       \* the source Backup or PITR resource
    sourceAlive,  \* the source Instance's Secrets still exist
    secret,       \* the new Instance's Secrets and whose password they hold
    mdb, cache,   \* the MariaDB resource, and as the informer shows it
    restoreFailed, \* the operator Restore of a logical backup has failed
    restarts,     \* how often readiness was lost
    queued,       \* the Instance is in the work queue
    news,         \* that the Restore failed is still to be announced
    pc,           \* the next call of the running reconcile
    boot,         \* the bootstrapFrom it will declare
    staged,       \* SetDataSourceStatus of this reconcile
    seeded,       \* the runtime has recorded success
    phase         \* the phase the owner sees

spec == <<env, dataSource, source, sourceAlive>>
operator == <<mdb, secret, restoreFailed, restarts>>
work == <<queued, news>>
reconcile == <<boot, staged, seeded, phase>>
vars == <<spec, operator, cache, work, pc, reconcile>>

TypeOK ==
    /\ env \in Scenario
    /\ dataSource \in DataSources
    /\ source \in {"absent", "pending", "succeeded", "failed"}
    /\ sourceAlive \in BOOLEAN
    /\ secret \in [Keys -> {Absent, "source", "generated", "old"}]
    /\ mdb \in MariaDB \cup {Absent} /\ cache \in MariaDB \cup {Absent}
    /\ restoreFailed \in BOOLEAN /\ restarts \in 0..MaxRestarts
    /\ queued \in BOOLEAN /\ news \in BOOLEAN
    /\ pc \in {"idle", "read", "resolve", "copyRoot", "copyUser", "apply",
               "stage", "status"}
    /\ pc \in {"resolve", "copyRoot", "copyUser"} => dataSource # "none"
    /\ boot \in BootstrapType
    /\ staged \in {"none", "restoring", "failed", "succeeded"}
    /\ seeded \in BOOLEAN
    /\ phase \in {"none", "Provisioning", "Restoring", "Failed", "Ready"}

Init ==
    /\ env \in Scenario
    /\ dataSource \in DataSources
    /\ source = "absent" /\ sourceAlive = TRUE
    /\ secret \in [Keys -> IF env.leftovers THEN {Absent, "old"} ELSE {Absent}]
    /\ mdb = Absent /\ cache = Absent /\ restoreFailed = FALSE /\ restarts = 0
    /\ queued = TRUE /\ news = FALSE
    /\ pc = "idle" /\ boot = "none" /\ staged = "none"
    /\ seeded = FALSE /\ phase = "none"

DataInPlace(m) == m.progress \in {"restored", "replayed", "skipped"}

\* Data of the source is on the volumes, and with it the source's users.
HoldsSourceUsers(m) == m.progress \notin {"none", "baseFailed"}

Fresh == env.lag \/ cache = mdb

-----------------------------------------------------------------------------
(* The source and the leftovers of an earlier Instance. *)

\* A Backup is created and ends; a PITR resource just appears.
SourceChanges(s) ==
    /\ \/ source = "absent" /\ s \in {"pending", "succeeded"}
       \/ source = "pending" /\ s \in {"succeeded", "failed"}
    /\ dataSource = "pointInTime" => s = "succeeded"
    /\ source' = s
    /\ UNCHANGED <<env, dataSource, sourceAlive, operator, cache, work, pc, reconcile>>

\* The source Instance is deleted; its backups stay.
SourceDeleted ==
    /\ sourceAlive
    /\ sourceAlive' = FALSE
    /\ UNCHANGED <<env, dataSource, source, operator, cache, work, pc, reconcile>>

\* Secrets owned by the deleted Instance are garbage-collected.
LeftoverCollected(k) ==
    /\ secret[k] = "old"
    /\ secret' = [secret EXCEPT ![k] = Absent]
    /\ UNCHANGED <<spec, mdb, restoreFailed, restarts, cache, work, pc, reconcile>>

-----------------------------------------------------------------------------
(* The operator. *)

\* A password Secret that does not exist is generated.
GenerateSecret(k) ==
    /\ mdb # Absent /\ secret[k] = Absent
    /\ secret' = [secret EXCEPT ![k] = "generated"]
    /\ UNCHANGED <<spec, mdb, restoreFailed, restarts, cache, work, pc, reconcile>>

\* Physical data is restored before the server starts, a logical backup into
\* a server that is up, binary logs once every Pod is ready.  The restore of
\* physical data may fail, and the provider has no eye for that.
CanMove(m, to) ==
    \/ /\ m.bootstrap = "physical" /\ m.progress = "none"
       /\ to \in {"restored", "baseFailed"}
    \/ /\ m.bootstrap = "logical" /\ m.progress = "none" /\ m.ready
       /\ ~restoreFailed /\ to = "restored"
    \/ m.bootstrap = "pointInTime"
       /\ \/ m.progress = "none" /\ to \in {"base", "baseFailed"}
          \/ m.progress = "base" /\ m.ready /\ to \in {"replaying", "skipped"}
          \/ m.progress = "replaying" /\ to \in {"replayed", "replayError"}

Restores(to) ==
    /\ mdb # Absent /\ CanMove(mdb, to)
    /\ mdb' = [mdb EXCEPT !.progress = to]
    /\ UNCHANGED <<spec, secret, restoreFailed, restarts, cache, work, pc, reconcile>>

\* A logical restore ends in its own resource, not in the MariaDB.
RestoreFails ==
    /\ mdb # Absent /\ mdb.bootstrap = "logical" /\ CanMove(mdb, "restored")
    /\ restoreFailed' = TRUE /\ news' = env.announces
    /\ UNCHANGED <<spec, mdb, secret, restarts, cache, queued, pc, reconcile>>

\* The probes log in as root: they fail on data whose users have other
\* passwords than the Secrets.
CanBeReady(m) ==
    /\ m.bootstrap \in {"physical", "pointInTime"}
         => m.progress \notin {"none", "baseFailed"}
    /\ \A k \in Keys : secret[k] # Absent
    /\ HoldsSourceUsers(m) => \A k \in Keys : secret[k] = "source"

BecomesReady ==
    /\ mdb # Absent /\ ~mdb.ready /\ CanBeReady(mdb)
    /\ mdb' = [mdb EXCEPT !.ready = TRUE]
    /\ UNCHANGED <<spec, secret, restoreFailed, restarts, cache, work, pc, reconcile>>

LosesReady ==
    /\ mdb # Absent /\ mdb.ready /\ restarts < MaxRestarts
    /\ mdb' = [mdb EXCEPT !.ready = FALSE]
    /\ restarts' = restarts + 1
    /\ UNCHANGED <<spec, secret, restoreFailed, cache, work, pc, reconcile>>

\* variant: the MariaDB is not watched
CacheCatchesUpUnwatched ==
    /\ cache # mdb
    /\ cache' = mdb
    /\ UNCHANGED <<spec, operator, work, pc, reconcile>>

\* WatchOwned(MariaDB).
CacheCatchesUp ==
    /\ cache # mdb
    /\ cache' = mdb /\ queued' = TRUE
    /\ UNCHANGED <<spec, operator, news, pc, reconcile>>

\* The operator changes the status of the MariaDB for the failed Restore too,
\* or the runtime asks again.
FailureAnnounced ==
    /\ news
    /\ news' = FALSE /\ queued' = TRUE
    /\ UNCHANGED <<spec, operator, cache, pc, reconcile>>

\* An edit, an event of another watched resource, or the runtime.
Woken ==
    /\ ~queued
    /\ queued' = TRUE
    /\ UNCHANGED <<spec, operator, cache, news, pc, reconcile>>

-----------------------------------------------------------------------------
(* One reconcile: Sync, then Status. *)

BeginSync ==
    /\ pc = "idle" /\ queued
    /\ queued' = FALSE
    /\ pc' = "read" /\ staged' = "none" /\ boot' = "none"
    /\ UNCHANGED <<spec, operator, cache, news, seeded, phase>>

\* An error or a WaitFor brings the Instance back to the queue.
Retry == pc' = "idle" /\ queued' = TRUE /\ UNCHANGED news

\* variant: an update does not declare bootstrapFrom
KeptBootstrapDropped(m) == "none"

\* An existing MariaDB keeps the bootstrapFrom it was created with.
KeptBootstrap(m) == m.bootstrap

\* Seeding is only resolved while no MariaDB resource is seen.
ReadExisting ==
    /\ pc = "read" /\ Fresh
    /\ IF cache = Absent
       THEN /\ pc' = IF dataSource = "none" THEN "apply" ELSE "resolve"
            /\ UNCHANGED boot
       ELSE pc' = "apply" /\ boot' = KeptBootstrap(cache)
    /\ UNCHANGED <<spec, operator, cache, work, staged, seeded, phase>>

\* resolveBootstrapFrom: wait for the source, or give up on a failed one.
AwaitSource ==
    /\ pc = "resolve" /\ source \in {"absent", "pending"}
    /\ Retry
    /\ UNCHANGED <<spec, operator, cache, reconcile>>

\* A DataSourceConfigError is terminal: nobody has to ask again.
SourceFailed ==
    /\ pc = "resolve" /\ source = "failed"
    /\ pc' = "idle" /\ phase' = "Failed"
    /\ UNCHANGED <<spec, operator, cache, work, boot, staged, seeded>>

SourceResolved ==
    /\ pc = "resolve" /\ source = "succeeded"
    /\ boot' = dataSource
    /\ pc' = "copyRoot"
    /\ UNCHANGED <<spec, operator, cache, work, staged, seeded, phase>>

\* copyInstanceSecret: an existing Secret is left as it is, a missing source
\* is a terminal error.
CopySecret(step, k, next) ==
    /\ pc = step
    /\ \/ /\ secret[k] # Absent
          /\ pc' = next /\ UNCHANGED <<secret, phase>>
       \/ /\ secret[k] = Absent /\ sourceAlive
          /\ secret' = [secret EXCEPT ![k] = "source"]
          /\ pc' = next /\ UNCHANGED phase
       \/ /\ secret[k] = Absent /\ ~sourceAlive
          /\ pc' = "idle" /\ phase' = "Failed" /\ UNCHANGED secret
    /\ UNCHANGED <<spec, mdb, restoreFailed, restarts, cache, work, boot, staged, seeded>>

CopyRootSecret == CopySecret("copyRoot", "root", "copyUser")

\* variant: only the root Secret is copied
SkipUserSecret ==
    /\ pc = "copyUser" /\ pc' = "apply"
    /\ UNCHANGED <<spec, operator, cache, work, reconcile>>

CopyUserSecret == CopySecret("copyUser", "user", "apply")

ApplyMariaDB ==
    /\ pc = "apply"
    /\ mdb' = IF mdb = Absent
              THEN [bootstrap |-> boot, ready |-> FALSE, progress |-> "none"]
              ELSE [mdb EXCEPT !.bootstrap = boot]
    /\ pc' = "stage"
    /\ UNCHANGED <<spec, secret, restoreFailed, restarts, cache, work, reconcile>>

\* variant: a failed replay is not looked at
DataSourceStatusNoFailure(m) ==
    IF m.bootstrap = "none" THEN "none"
    ELSE IF m.ready /\ DataInPlace(m) THEN "succeeded" ELSE "restoring"

\* What syncDataSourceStatus makes of the MariaDB it sees.
DataSourceStatus(m) ==
    CASE m.bootstrap = "none" -> "none"
      [] m.bootstrap = "physical" -> IF m.ready THEN "succeeded" ELSE "restoring"
      [] m.bootstrap = "logical" ->
            IF m.progress = "restored" /\ m.ready THEN "succeeded"
            ELSE IF restoreFailed THEN "failed" ELSE "restoring"
      [] m.bootstrap = "pointInTime" ->
            CASE m.progress = "replayError" -> "failed"
              [] m.progress \in {"skipped", "replayed"} /\ m.ready -> "succeeded"
              [] OTHER -> "restoring"

\* The runtime keeps a success it has recorded.
StageDataSourceStatus ==
    /\ pc = "stage" /\ Fresh
    /\ LET status == IF dataSource = "none" \/ cache = Absent
                     THEN "none" ELSE DataSourceStatus(cache)
       IN  /\ staged' = IF seeded THEN "succeeded" ELSE status
           /\ seeded' = (seeded \/ status = "succeeded")
    /\ pc' = "status"
    /\ UNCHANGED <<spec, operator, cache, work, boot, phase>>

\* StatusMariaDB: seeding owns the phase until it ends.
Phase(m) ==
    CASE m = Absent -> "Provisioning"
      [] m # Absent /\ staged = "failed" -> "Failed"
      [] m # Absent /\ staged = "restoring" -> "Restoring"
      [] OTHER -> IF m.ready /\ secret["user"] # Absent THEN "Ready"
                  ELSE "Provisioning"

ReportStatus ==
    /\ pc = "status" /\ Fresh
    /\ phase' = Phase(cache)
    /\ pc' = "idle"
    /\ UNCHANGED <<spec, operator, cache, work, boot, staged, seeded>>

\* A call fails, another part of Sync fails, or the provider restarts.
SyncFails ==
    /\ pc # "idle"
    /\ Retry
    /\ UNCHANGED <<spec, operator, cache, reconcile>>

SyncStep ==
    \/ ReadExisting \/ AwaitSource \/ SourceFailed \/ SourceResolved
    \/ CopyRootSecret \/ CopyUserSecret \/ ApplyMariaDB
    \/ StageDataSourceStatus \/ ReportStatus

Next ==
    \/ \E s \in {"pending", "succeeded", "failed"} : SourceChanges(s)
    \/ SourceDeleted
    \/ \E k \in Keys : LeftoverCollected(k) \/ GenerateSecret(k)
    \/ \E to \in Progress : Restores(to)
    \/ RestoreFails \/ BecomesReady \/ LosesReady
    \/ CacheCatchesUp \/ FailureAnnounced \/ Woken
    \/ BeginSync \/ SyncStep \/ SyncFails

\* A queued Instance is reconciled, not every Sync of those that never end
\* fails in one of its calls, though some may for ever, informers deliver, and
\* the operator does its work, well or not.
\* Nobody has to wake an Instance that is not queued.
Fairness ==
    /\ WF_vars(BeginSync) /\ WF_vars(CacheCatchesUp) /\ WF_vars(FailureAnnounced)
    /\ WF_vars(SyncStep)
    /\ []<>(pc = "read") => []<><<SyncStep /\ pc' = "idle">>_vars
    /\ WF_vars(BecomesReady)
    /\ \A k \in Keys : WF_vars(GenerateSecret(k)) /\ WF_vars(LeftoverCollected(k))
    /\ SF_vars((\E to \in Progress : Restores(to)) \/ RestoreFails)

SafetySpec == Init /\ [][Next]_vars

Spec == SafetySpec /\ Fairness

-----------------------------------------------------------------------------
\* A cluster that holds the source's data holds the source's passwords, so
\* that its probes and its users can log in: however old the copies are that
\* a reconcile reads, unless an earlier Instance left Secrets behind.
CredentialsMatch ==
    ~env.leftovers /\ mdb # Absent /\ HoldsSourceUsers(mdb)
        => \A k \in Keys : secret[k] = "source"

\* The owner of a seeded Instance never sees Ready, and with it connection
\* details, before the data is in place: not while a logical restore runs on
\* a ready server, nor after a replay or a restore has failed.  Sync and
\* Status each read the MariaDB resource: they have to see the same.
NoEarlyReady ==
    ~env.lag /\ phase = "Ready" /\ dataSource # "none"
        => mdb # Absent /\ DataInPlace(mdb)

Seeded == mdb # Absent /\ DataInPlace(mdb)

\* A seeded Instance whose reconciles read what earlier ones wrote.
Promised == ~env.lag /\ dataSource # "none"

Contract == INSTANCE SeedingContract WITH
    data <- IF Promised /\ Seeded THEN "inPlace" ELSE "missing",
    recorded <- Promised /\ seeded,
    shown <- IF Promised THEN phase ELSE "none"

\* Sync, Status and the operator together keep the promise made to the owner:
\* no restart, failed call, lost source or left Secret shows Ready or
\* Provisioning before the data is in place, Restoring or Failed after the
\* success, or anything but Failed after a failure.
SeedingPromise == Contract!Spec

\* Two ends the owner is not told of: the restore of physical data has failed,
\* for which syncDataSourceStatus has no case, and the phase stays Restoring;
\* or a logical restore has failed and nothing queues the Instance after it,
\* for the operator Restore it is read from is not watched.
EndsUnseen ==
    \/ mdb # Absent /\ mdb.progress = "baseFailed"
    \/ restoreFailed /\ ~env.announces

\* Once the source is decided, seeding ends one way or the other, for an
\* Instance that is only reconciled when an error, a wait or the watch of the
\* MariaDB asks for it.
SeedingEnds ==
    ~env.leftovers /\ source \in {"succeeded", "failed"}
        ~> phase \in {"Ready", "Failed"} \/ EndsUnseen
=============================================================================
