---------------------------- MODULE InstanceSync ----------------------------
(***************************************************************************)
(* What the steps of one Sync share: the Instance, its MariaDB resource,   *)
(* and the reconcile that hands a copy of the Instance from step to step   *)
(* (Sync, Cleanup and the watches of provider.go; SyncMariaDB and          *)
(* migrateFieldOwnership up to the apply).                                 *)
(*                                                                         *)
(* ReplicaTemplate, Proxy and Monitoring extend this module with the state *)
(* and the actions of one step each; ProviderSync puts them together.      *)
(***************************************************************************)
CONSTANTS
    Storage,     \* names of backup storages
    NoStorage,   \* spec.backup offers no storage
    Absent,      \* no such object
    Scenario     \* the surroundings that are considered

TLSMode == {"off", "optional", "required"}
Metrics == {"off", "exporter", "prometheus", "victoria", "both"}

\* The fields of an Instance of replication topology that these steps read.
\* storage is replicaTemplateStorage; metrics says who is to scrape.
Instance == [storage : Storage \cup {NoStorage}, proxy : BOOLEAN,
             tls : TLSMode, metrics : Metrics]

\* spec.metrics of the MariaDB: not there, there without, with a ServiceMonitor.
OperatorMetrics == {"off", "unmonitored", "monitored"}

\* staged is replicaBootstrapFrom, legacy whether the provider wrote fields
\* before server-side apply.  Its Secrets are objects of their own (Proxy).
MariaDB == [tls : TLSMode, metrics : OperatorMetrics, staged : BOOLEAN,
            legacy : BOOLEAN, ready : BOOLEAN, deleting : BOOLEAN]

\* offer: the Instances the owner may ask for; missing: storages without a
\* BackupStorage; lag: caches may be old; finalizers: deletions take time;
\* busy: the operator may act on a MariaDB it read before; converter: the
\* VictoriaMetrics converter is off, or runs with or without owner references;
\* legacy: the MariaDB was written by a provider before server-side apply;
\* announces: once a Secret was written the Instance is reconciled again, for
\* a change of a watched status or by the runtime.  No watch makes sure of it.
Surroundings ==
    [offer : SUBSET Instance, missing : SUBSET Storage, lag : BOOLEAN,
     finalizers : BOOLEAN, busy : BOOLEAN,
     converter : {"off", "plain", "owning"}, legacy : BOOLEAN,
     announces : BOOLEAN]

ASSUME SyncAssumption ==
    /\ NoStorage \notin Storage
    /\ Absent \notin MariaDB
    /\ Scenario \subseteq Surroundings

VARIABLES
    env,        \* the surroundings of this Instance; they do not change
    spec,       \* the Instance as persisted by the API server
    deleted,    \* its deletion was requested
    snap,       \* the copy the running reconcile was given
    pc,         \* the next call of the running reconcile; failed: the last
                \* one did not get through; gone: the Instance is
    queued,     \* the Instance is in the work queue
    mdb,        \* the MariaDB resource
    mdbCache    \* and as the informer shows it

engineVars == <<mdb, mdbCache>>
syncVars == <<env, spec, deleted, snap>>
flow == <<pc, queued>>

SyncSteps == {"migrate", "mariadb", "template", "maxscale", "monitor",
              "scrape", "adopt", "applyScrape", "status"}
CleanupSteps == {"cleanupProxy", "cleanupEngine", "release"}

\* hasLegacyUpdateManager
Legacy(m) == m # Absent /\ m.legacy

\* What SyncMariaDB declares of an Instance.
MetricsOf(s) ==
    CASE s.metrics = "off" -> "off"
      [] s.metrics \in {"exporter", "victoria"} -> "unmonitored"
      [] s.metrics \in {"prometheus", "both"} -> "monitored"

Staged(s) == s.storage # NoStorage

Created(s) ==
    [tls |-> s.tls, metrics |-> MetricsOf(s), staged |-> Staged(s),
     legacy |-> FALSE, ready |-> FALSE, deleting |-> FALSE]

SyncTypeOK ==
    /\ env \in Scenario
    /\ spec \in Instance /\ snap \in Instance
    /\ deleted \in BOOLEAN /\ queued \in BOOLEAN
    /\ pc \in {"idle", "failed", "gone"} \cup SyncSteps \cup CleanupSteps
    /\ mdb \in MariaDB \cup {Absent} /\ mdbCache \in MariaDB \cup {Absent}

\* A new Instance, or one whose MariaDB an older provider has written.
SyncInit ==
    /\ env \in Scenario
    /\ spec \in env.offer /\ snap = spec
    /\ deleted = FALSE /\ pc = "idle" /\ queued = TRUE
    /\ IF env.legacy
       THEN \E s \in env.offer :
                mdb = [Created(s) EXCEPT !.legacy = TRUE, !.ready = TRUE]
       ELSE mdb = Absent
    /\ mdbCache = mdb

\* A read of a cached resource: from an old cache only where that is allowed.
Fresh(cached, current) == env.lag \/ cached = current

\* A request to delete an object: it goes at once or waits for finalizers.
AfterDelete(r) == IF env.finalizers THEN [r EXCEPT !.deleting = TRUE] ELSE Absent

Continue(step) == pc' = step /\ UNCHANGED queued

\* An error or a WaitFor brings the Instance back to the queue.
Retry == pc' = "idle" /\ queued' = TRUE

-----------------------------------------------------------------------------
(* The owner and the runtime. *)

UserEdit(s) ==
    /\ s \in env.offer /\ s # spec /\ ~deleted
    /\ spec' = s /\ queued' = TRUE
    /\ UNCHANGED <<env, deleted, snap, pc, engineVars>>

UserDelete ==
    /\ ~deleted
    /\ deleted' = TRUE /\ queued' = TRUE
    /\ UNCHANGED <<env, spec, snap, pc, engineVars>>

BeginSync ==
    /\ pc \in {"idle", "failed"} /\ queued
    /\ queued' = FALSE /\ snap' = spec
    /\ pc' = IF deleted THEN "cleanupProxy" ELSE "migrate"
    /\ UNCHANGED <<env, spec, deleted, engineVars>>

\* A call fails, a later step of Sync fails, or the provider restarts.
SyncFails ==
    /\ pc \in SyncSteps \cup CleanupSteps
    /\ pc' = "failed" /\ queued' = TRUE
    /\ UNCHANGED <<syncVars, engineVars>>

-----------------------------------------------------------------------------
(* SyncMariaDB. *)

\* variant: ownership is not migrated
MigrateOwnershipSkipped ==
    /\ pc = "migrate" /\ Fresh(mdbCache, mdb)
    /\ Continue("mariadb")
    /\ UNCHANGED <<syncVars, engineVars>>

\* migrateFieldOwnership is an Update of the resource as it was read: refused
\* when that is not the current one.
MigrateOwnership ==
    /\ pc = "migrate" /\ Fresh(mdbCache, mdb)
    /\ \/ /\ ~Legacy(mdbCache)
          /\ Continue("mariadb") /\ UNCHANGED mdb
       \/ /\ Legacy(mdbCache) /\ mdbCache = mdb
          /\ mdb' = [mdb EXCEPT !.legacy = FALSE]
          /\ Continue("mariadb")
       \/ /\ Legacy(mdbCache) /\ mdbCache # mdb
          /\ Retry /\ UNCHANGED mdb
    /\ UNCHANGED <<syncVars, mdbCache>>

\* A field that is no longer declared stays while the legacy manager owns it.
ApplyMariaDB ==
    /\ pc = "mariadb"
    /\ mdb' = IF mdb = Absent THEN Created(snap)
              ELSE [mdb EXCEPT
                      !.tls = snap.tls,
                      !.metrics = IF MetricsOf(snap) = "off" /\ mdb.legacy
                                  THEN @ ELSE MetricsOf(snap),
                      !.staged = Staged(snap) \/ (mdb.legacy /\ @)]
    /\ Continue("template")
    /\ UNCHANGED <<syncVars, mdbCache>>

\* variant: a resource that is gone is an error
CleanupEngineStrict ==
    /\ pc = "cleanupEngine"
    /\ mdb' = IF mdb = Absent THEN Absent ELSE AfterDelete(mdb)
    /\ IF mdb = Absent THEN Retry ELSE Continue("release")
    /\ UNCHANGED <<syncVars, mdbCache>>

\* The end of CleanupMariaDB: a resource that is gone is not an error.
CleanupEngine ==
    /\ pc = "cleanupEngine"
    /\ mdb' = IF mdb = Absent THEN Absent ELSE AfterDelete(mdb)
    /\ Continue("release")
    /\ UNCHANGED <<syncVars, mdbCache>>

\* Cleanup returned: the runtime takes its finalizer off the Instance.
ReleaseInstance ==
    /\ pc = "release"
    /\ Continue("gone")
    /\ UNCHANGED <<syncVars, engineVars>>

-----------------------------------------------------------------------------
(* The operator and the API machinery. *)

EngineProgresses ==
    /\ mdb # Absent /\ ~mdb.deleting /\ ~mdb.ready
    /\ mdb' = [mdb EXCEPT !.ready = TRUE]
    /\ UNCHANGED <<syncVars, flow, mdbCache>>

FinalizeEngine ==
    /\ mdb # Absent /\ mdb.deleting
    /\ mdb' = Absent
    /\ UNCHANGED <<syncVars, flow, mdbCache>>

\* WatchOwned(MariaDB): what the cache learns enqueues the Instance.
EngineEvent ==
    /\ mdbCache # mdb
    /\ mdbCache' = mdb /\ queued' = TRUE
    /\ UNCHANGED <<syncVars, pc, mdb>>
=============================================================================
