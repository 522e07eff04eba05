------------------------------ MODULE PitrSync ------------------------------
(***************************************************************************)
(* Point-in-time recovery of one Instance (pitr.go): the reference in the  *)
(* MariaDB resource that turns binary log archival on, the                 *)
(* PointInTimeRecovery (PITR) resource that says where the logs go, and    *)
(* the PhysicalBackup they are replayed on (the base).  SyncMariaDB        *)
(* applies the reference, SyncPITR reconciles the other two, one call to   *)
(* the API server at a time; edits, deletions that take time, failures and *)
(* the informer cache interleave with those calls.                         *)
(*                                                                         *)
(* The reconcile is driven by events: an edit of the Instance, a change of *)
(* its MariaDB or PITR resource (WatchOwned), or an error.  The base       *)
(* belongs to the MariaDB resource and no event of it reaches the          *)
(* Instance.                                                               *)
(***************************************************************************)

CONSTANTS
    Storage,      \* backup storages that may have PITR enabled
    Off,          \* no storage has PITR enabled
    Absent,       \* the resource does not exist
    CacheLag,     \* may a reconcile read an outdated cache?
    Finalizers    \* may a deleted resource stay, terminating, for a while?

ASSUME PitrAssumption ==
    /\ Off \notin Storage
    /\ CacheLag \subseteq BOOLEAN /\ Finalizers \subseteq BOOLEAN
    /\ Absent \notin [storage : Storage, terminating : BOOLEAN]
    /\ Absent \notin [ref : BOOLEAN]

VARIABLES
    env,                             \* the surroundings; they do not change
    config,                          \* the PITR storage of the Instance spec
    mdb, pitr, base,                 \* the resources in the API server
    mdbCache, pitrCache, baseCache,  \* the same in the informer cache
    queued,                          \* the Instance waits in the work queue
    pc,                              \* the next call of the running Sync
    snap,                            \* the Instance the running Sync was given
    wantRef                          \* the reference it is about to declare

vars == <<env, config, mdb, pitr, base, mdbCache, pitrCache, baseCache,
          queued, pc, snap, wantRef>>

resources == <<mdb, pitr, base>>
caches == <<mdbCache, pitrCache, baseCache>>

MariaDB == [ref : BOOLEAN]
Resource == [storage : Storage, terminating : BOOLEAN]

Environment == [lag : CacheLag, finalizers : Finalizers]

TypeOK ==
    /\ env \in Environment
    /\ config \in Storage \cup {Off}
    /\ mdb \in MariaDB \cup {Absent} /\ mdbCache \in MariaDB \cup {Absent}
    /\ {pitr, base, pitrCache, baseCache} \subseteq Resource \cup {Absent}
    /\ queued \in BOOLEAN
    /\ pc \in {"idle", "resolveRef", "applyMariaDB", "waitMariaDB", "base",
               "pitr", "deletePitr", "deleteBase"}
    /\ snap \in Storage \cup {Off}
    /\ wantRef \in BOOLEAN
    /\ pc \in {"waitMariaDB", "base", "pitr"} => snap # Off
    /\ pc \in {"deletePitr", "deleteBase"} => snap = Off

Init ==
    /\ env \in Environment
    /\ config = Off /\ snap = Off /\ wantRef = FALSE
    /\ mdb = Absent /\ pitr = Absent /\ base = Absent
    /\ mdbCache = Absent /\ pitrCache = Absent /\ baseCache = Absent
    /\ queued = TRUE /\ pc = "idle"

-----------------------------------------------------------------------------
(* Reading and deleting. *)

\* Without lag every read sees the API server's state.
Fresh == env.lag \/ (mdbCache = mdb /\ pitrCache = pitr /\ baseCache = base)

Live(r) == r # Absent /\ ~r.terminating

Deleted(r) == IF env.finalizers THEN [r EXCEPT !.terminating = TRUE] ELSE Absent

Created(s) == [storage |-> s, terminating |-> FALSE]

\* Sync returns an error or a WaitFor: the runtime tries again later.
Retry == pc' = "idle" /\ queued' = TRUE

Continue(step) == pc' = step /\ UNCHANGED queued

-----------------------------------------------------------------------------
(* The owner, the runtime, the API server and the informer. *)

\* The owner turns PITR on or off, or moves it to another storage.
EditConfig(s) ==
    /\ s # config
    /\ config' = s
    /\ queued' = TRUE
    /\ UNCHANGED <<env, resources, caches, pc, snap, wantRef>>

\* The runtime takes the Instance from the queue.
BeginSync ==
    /\ pc = "idle" /\ queued
    /\ snap' = config
    /\ pc' = "resolveRef" /\ queued' = FALSE
    /\ UNCHANGED <<env, config, resources, caches, wantRef>>

\* A call fails, an earlier part of Sync fails, or the provider restarts.
SyncFails ==
    /\ pc # "idle"
    /\ Retry
    /\ UNCHANGED <<env, config, resources, caches, snap>> /\ wantRef' = FALSE

\* The last finalizer of a terminating resource is removed.
FinalizePITR ==
    /\ pitr # Absent /\ pitr.terminating
    /\ pitr' = Absent
    /\ UNCHANGED <<env, config, mdb, base, caches, queued, pc, snap, wantRef>>

FinalizeBase ==
    /\ base # Absent /\ base.terminating
    /\ base' = Absent
    /\ UNCHANGED <<env, config, mdb, pitr, caches, queued, pc, snap, wantRef>>

\* The informer delivers a change; owned resources enqueue the Instance.
MariaDBEvent ==
    /\ mdbCache # mdb
    /\ mdbCache' = mdb /\ queued' = TRUE
    /\ UNCHANGED <<env, config, resources, pitrCache, baseCache, pc, snap, wantRef>>

\* variant: the PITR resource is not watched
PITREventUnwatched ==
    /\ pitrCache # pitr
    /\ pitrCache' = pitr
    /\ UNCHANGED <<env, config, resources, mdbCache, baseCache, queued, pc, snap, wantRef>>

PITREvent ==
    /\ pitrCache # pitr
    /\ pitrCache' = pitr /\ queued' = TRUE
    /\ UNCHANGED <<env, config, resources, mdbCache, baseCache, pc, snap, wantRef>>

BaseEvent ==
    /\ baseCache # base
    /\ baseCache' = base
    /\ UNCHANGED <<env, config, resources, mdbCache, pitrCache, queued, pc, snap, wantRef>>

-----------------------------------------------------------------------------
(* The calls of one Sync, in order. *)

\* variant: the reference is declared without looking for the PITR resource
DesiredPITRRefUngated == snap # Off

\* The reference is only declared once the PITR resource exists.
DesiredPITRRef == snap # Off /\ pitrCache # Absent

ResolveRef ==
    /\ pc = "resolveRef" /\ Fresh
    /\ wantRef' = DesiredPITRRef
    /\ Continue("applyMariaDB")
    /\ UNCHANGED <<env, config, resources, caches, snap>>

ApplyMariaDB ==
    /\ pc = "applyMariaDB"
    /\ mdb' = [ref |-> wantRef]
    /\ Continue(IF snap = Off THEN "deletePitr" ELSE "waitMariaDB")
    /\ UNCHANGED <<env, config, pitr, base, caches, snap>> /\ wantRef' = FALSE

\* SyncPITR waits until it can see the MariaDB resource.
AwaitMariaDB ==
    /\ pc = "waitMariaDB" /\ Fresh
    /\ IF mdbCache = Absent THEN Retry ELSE Continue("base")
    /\ UNCHANGED <<env, config, resources, caches, snap, wantRef>>

\* CreateOrUpdate of the base: its storage is only set on creation, so a
\* base that is seen is left as it is.
CreateBase ==
    /\ pc = "base" /\ Fresh /\ baseCache = Absent
    /\ IF base = Absent
       THEN base' = Created(snap) /\ Continue("pitr")
       ELSE Retry /\ UNCHANGED base
    /\ UNCHANGED <<env, config, mdb, pitr, caches, snap, wantRef>>

KeepBase ==
    /\ pc = "base" /\ Fresh /\ baseCache # Absent
    /\ Continue("pitr")
    /\ UNCHANGED <<env, config, resources, caches, snap, wantRef>>

\* variant: an existing PITR resource is left alone
UpdatedPITRKept(p) == p

\* CreateOrUpdate of the PITR resource: its storage follows the Instance.
UpdatedPITR(p) == [p EXCEPT !.storage = snap]

CreatePITR ==
    /\ pc = "pitr" /\ Fresh /\ pitrCache = Absent
    /\ IF pitr = Absent
       THEN pitr' = Created(snap) /\ Continue("idle")
       ELSE Retry /\ UNCHANGED pitr
    /\ UNCHANGED <<env, config, mdb, base, caches, snap, wantRef>>

\* An update built on an outdated copy is a conflict; an update that changes
\* nothing is not sent.
UpdatePITR ==
    /\ pc = "pitr" /\ Fresh /\ pitrCache # Absent
    /\ IF pitr = pitrCache \/ UpdatedPITR(pitrCache) = pitrCache
       THEN /\ pitr' = IF pitr = pitrCache THEN UpdatedPITR(pitr) ELSE pitr
            /\ Continue("idle")
       ELSE Retry /\ UNCHANGED pitr
    /\ UNCHANGED <<env, config, mdb, base, caches, snap, wantRef>>

\* teardownPITR: what is seen and not terminating is deleted; deleting what
\* is gone is an error.
DeletePITR ==
    /\ pc = "deletePitr" /\ Fresh
    /\ pitr' = IF Live(pitrCache) /\ pitr # Absent THEN Deleted(pitr) ELSE pitr
    /\ IF Live(pitrCache) /\ pitr = Absent THEN Retry ELSE Continue("deleteBase")
    /\ UNCHANGED <<env, config, mdb, base, caches, snap, wantRef>>

DeleteBase ==
    /\ pc = "deleteBase" /\ Fresh
    /\ base' = IF Live(baseCache) /\ base # Absent THEN Deleted(base) ELSE base
    /\ IF Live(baseCache) /\ base = Absent THEN Retry ELSE Continue("idle")
    /\ UNCHANGED <<env, config, mdb, pitr, caches, snap, wantRef>>

SyncStep ==
    \/ ResolveRef \/ ApplyMariaDB \/ AwaitMariaDB
    \/ CreateBase \/ KeepBase \/ CreatePITR \/ UpdatePITR
    \/ DeletePITR \/ DeleteBase

Next ==
    \/ \E s \in Storage \cup {Off} : EditConfig(s)
    \/ BeginSync \/ SyncStep \/ SyncFails
    \/ FinalizePITR \/ FinalizeBase
    \/ MariaDBEvent \/ PITREvent \/ BaseEvent

\* The queue is served, a running Sync goes on and not every Sync fails in
\* one of its calls, though some may for ever; deletions end and the informers
\* deliver.
Fairness ==
    /\ WF_vars(BeginSync)
    /\ WF_vars(SyncStep)
    /\ []<>(pc = "resolveRef") => []<><<SyncStep /\ pc' = "idle">>_vars
    /\ WF_vars(FinalizePITR) /\ WF_vars(FinalizeBase)
    /\ WF_vars(MariaDBEvent) /\ WF_vars(PITREvent) /\ WF_vars(BaseEvent)

SafetySpec == Init /\ [][Next]_vars

Spec == SafetySpec /\ Fairness

-----------------------------------------------------------------------------
(* What point-in-time recovery needs. *)

\* Reads are current and deletions are immediate.
Prompt == ~env.lag /\ ~env.finalizers

\* Archival is only on while the resource that says where logs go exists, and
\* that resource only exists while the backup it is based on does: neither a
\* failure between two calls nor an edit in the middle of a Sync breaks the
\* order in which the three are made and unmade.
ArchivalHasTimeline ==
    Prompt => /\ mdb # Absent /\ mdb.ref => pitr # Absent
              /\ pitr # Absent => base # Absent

\* Logs are archived to the storage that holds the backup they are based on
\* (validatePITR: "a physical backup schedule on that storage to serve as the
\* full base backup").
OneStorage == pitr # Absent /\ base # Absent => pitr.storage = base.storage

\* The two resources whose events reach the reconcile, and the base, are what
\* the Instance asks for.
RefSettled ==
    IF config = Off THEN mdb # Absent /\ ~mdb.ref /\ pitr = Absent
    ELSE mdb # Absent /\ mdb.ref /\ pitr = Created(config)

BaseSettled == IF config = Off THEN base = Absent ELSE Live(base)

\* No Sync runs or is queued, and the watches have nothing to deliver.
AtRest == pc = "idle" /\ ~queued /\ mdbCache = mdb /\ pitrCache = pitr

\* Nothing is forgotten: what a Sync leaves that no event will repeat is what
\* the Instance asks for.  Outdated reads and slow deletions are included for
\* what is watched; the base is not, and settles with Prompt surroundings.
RecoveryAtRest ==
    AtRest /\ (pitr # Absent => ~pitr.terminating)
        => RefSettled /\ (Prompt => BaseSettled)

\* Once the owner stops editing, archival goes where the Instance asks for,
\* outdated reads and slow deletions included; with Prompt surroundings its base
\* is there as well, or everything is gone.
Converges ==
    <>[][FALSE]_config => <>[](RefSettled /\ (Prompt => BaseSettled))
=============================================================================
