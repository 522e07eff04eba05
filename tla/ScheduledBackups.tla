-------------------------- MODULE ScheduledBackups --------------------------
(***************************************************************************)
(* SyncScheduledBackups (backup_schedule.go, backup_physical.go): one      *)
(* operator resource per declared schedule, a Backup when the schedule is  *)
(* logical and a PhysicalBackup when it is physical.  The storage of both  *)
(* and the retention of a Backup are immutable, so a change of them is a   *)
(* deletion now and a creation in a later reconcile; a change of kind      *)
(* deletes the other resource first; what is no longer declared is pruned  *)
(* last.                                                                   *)
(*                                                                         *)
(* One reconcile works through the schedules one call at a time and gives  *)
(* up on the first error.  The resources belong to the MariaDB resource:   *)
(* no event of theirs brings the Instance back to the reconcile.  One that *)
(* is deleted is gone at once: the code would find it again while it       *)
(* terminates, and does not look at its deletionTimestamp.                 *)
(***************************************************************************)

CONSTANTS
    Schedule,     \* schedule names; a name is declared at most once
    Storage,      \* BackupStorages a schedule may name
    Retention,    \* values deriveMaxRetention may return
    Kinds,        \* parameters.type: logical, physical
    Enabled,      \* values of a schedule's enabled flag
    Offered,      \* the declarations an owner chooses from
    Absent,       \* no such resource; a schedule that is not declared
    CacheLag      \* TRUE: a reconcile may read an outdated cache

Declared == [kind : Kinds, storage : Storage, retention : Retention,
             enabled : Enabled]
Resource == [storage : Storage, retention : Retention, enabled : Enabled]
Resources == [Kinds -> [Schedule -> Resource \cup {Absent}]]

ASSUME SchedulesAssumption ==
    /\ Offered \subseteq Declared
    /\ Absent \notin Declared
    /\ Absent \notin Resource
    /\ Absent \notin Schedule
    /\ Kinds \subseteq {"logical", "physical"}
    /\ CacheLag \in BOOLEAN

VARIABLES
    config,    \* the schedules of the Instance; none when backups are off
    present,   \* the BackupStorages that exist
    res,       \* the Backup and PhysicalBackup resources, by kind and name
    cache,     \* the same in the informer cache
    queued,    \* the Instance waits in the work queue
    pc,        \* the next call of the running Sync
    snap,      \* the schedules the running Sync was given
    todo,      \* names the current loop has still to visit
    cur        \* the schedule being reconciled

vars == <<config, present, res, cache, queued, pc, snap, todo, cur>>

owner == <<config, present>>
sync == <<snap, todo, cur>>

Other(k) == IF k = "logical" THEN "physical" ELSE "logical"

\* SyncScheduledBackups prunes Backups first.
PruneStep(k) == IF k = "logical" THEN "pruneLogical" ELSE "prunePhysical"

TypeOK ==
    /\ config \in [Schedule -> Declared \cup {Absent}]
    /\ present \subseteq Storage
    /\ res \in Resources /\ cache \in Resources
    /\ queued \in BOOLEAN
    /\ pc \in {"idle", "schedules", "switch", "recreate", "upsert",
               "pruneLogical", "prunePhysical"}
    /\ snap \in [Schedule -> Declared \cup {Absent}]
    /\ todo \subseteq Schedule
    /\ cur \in Schedule \cup {Absent}
    /\ pc \in {"schedules", "switch", "recreate", "upsert"} =>
           \A n \in todo : snap[n] # Absent
    /\ pc \in {"switch", "recreate", "upsert"} =>
           cur \in Schedule /\ snap[cur] # Absent

Init ==
    /\ config = [n \in Schedule |-> Absent]
    /\ present \in SUBSET Storage
    /\ res = [k \in Kinds |-> [n \in Schedule |-> Absent]]
    /\ cache = res
    /\ queued = TRUE /\ pc = "idle"
    /\ snap = config /\ todo = {} /\ cur = Absent

Fresh == CacheLag \/ cache = res

Seen(k, n) == k \in Kinds /\ cache[k][n] # Absent

\* Sync returns an error or a WaitFor: the runtime tries again later.
Retry == pc' = "idle" /\ queued' = TRUE

Continue(step) == pc' = step /\ UNCHANGED queued

-----------------------------------------------------------------------------
(* The owner, the runtime and the informer. *)

\* The owner declares, changes or drops a schedule.
EditSchedule(n, d) ==
    /\ config[n] # d
    /\ config' = [config EXCEPT ![n] = d]
    /\ queued' = TRUE
    /\ UNCHANGED <<present, res, cache, pc, sync>>

StorageCreated(s) ==
    /\ s \notin present
    /\ present' = present \cup {s}
    /\ UNCHANGED <<config, res, cache, queued, pc, sync>>

BeginSync ==
    /\ pc = "idle" /\ queued
    /\ snap' = config /\ cur' = Absent
    /\ todo' = {n \in Schedule : config[n] # Absent}
    /\ pc' = "schedules" /\ queued' = FALSE
    /\ UNCHANGED <<owner, res, cache>>

\* A call fails, another part of Sync fails, or the provider restarts.
SyncFails ==
    /\ pc # "idle"
    /\ Retry
    /\ UNCHANGED <<owner, res, cache, sync>>

CacheCatchesUp ==
    /\ cache # res
    /\ cache' = res
    /\ UNCHANGED <<owner, res, queued, pc, sync>>

-----------------------------------------------------------------------------
(* The calls of one Sync. *)

\* Deleting what is no longer there is an error; what is there has no
\* finalizers.
Delete(k, n, next) ==
    /\ res' = [res EXCEPT ![k][n] = Absent]
    /\ IF res[k][n] = Absent THEN Retry ELSE next

\* The next schedule; its storage has to exist (buildOperatorS3).
NextSchedule(n) ==
    /\ pc = "schedules" /\ n \in todo
    /\ cur' = n /\ todo' = todo \ {n}
    /\ IF snap[n].storage \in present THEN Continue("switch") ELSE Retry
    /\ UNCHANGED <<owner, res, cache, snap>>

\* variant: the resource of the other kind is left for the prune
SwitchKindSkipped ==
    /\ pc = "switch"
    /\ Continue("recreate")
    /\ UNCHANGED <<owner, res, cache, sync>>

\* deleteScheduledBackup, deleteScheduledPhysicalBackup
SwitchKind ==
    /\ pc = "switch" /\ Fresh
    /\ LET k == Other(snap[cur].kind)
       IN  IF Seen(k, cur) THEN Delete(k, cur, Continue("recreate"))
           ELSE Continue("recreate") /\ UNCHANGED res
    /\ UNCHANGED <<owner, cache, sync>>

\* variant: any difference is taken for an outdated resource
OutdatedWhenDifferent(r, d) ==
    [storage |-> d.storage, retention |-> d.retention, enabled |-> d.enabled] # r

\* An immutable field differs from the declaration.
Outdated(r, d) ==
    \/ r.storage # d.storage
    \/ d.kind = "logical" /\ r.retention # d.retention

Recreate ==
    /\ pc = "recreate" /\ Fresh
    /\ LET d == snap[cur]
       IN  IF Seen(d.kind, cur) /\ Outdated(cache[d.kind][cur], d)
           THEN Delete(d.kind, cur, Retry)
           ELSE Continue("upsert") /\ UNCHANGED res
    /\ UNCHANGED <<owner, cache, sync>>

\* variant: the retention is only set on creation
UpdatedSetOnce(r, d) == [r EXCEPT !.enabled = d.enabled]

\* Fields CreateOrUpdate sets on an existing resource.
Updated(r, d) ==
    [r EXCEPT !.enabled = d.enabled,
              !.retention = IF d.kind = "physical" THEN d.retention ELSE @]

Created(d) ==
    [storage |-> d.storage, retention |-> d.retention, enabled |-> d.enabled]

CreateResource ==
    /\ pc = "upsert" /\ Fresh
    /\ LET d == snap[cur]
       IN  /\ ~Seen(d.kind, cur)
           /\ IF res[d.kind][cur] = Absent
              THEN /\ res' = [res EXCEPT ![d.kind][cur] = Created(d)]
                   /\ Continue("schedules")
              ELSE Retry /\ UNCHANGED res
    /\ UNCHANGED <<owner, cache, sync>>

\* An update built on an outdated copy is a conflict; an update that changes
\* nothing is not sent.
UpdateResource ==
    /\ pc = "upsert" /\ Fresh
    /\ LET d == snap[cur]
           old == cache[d.kind][cur]
       IN  /\ Seen(d.kind, cur)
           /\ IF Updated(old, d) = old
              THEN Continue("schedules") /\ UNCHANGED res
              ELSE IF res[d.kind][cur] = old
              THEN /\ res' = [res EXCEPT ![d.kind][cur] = Updated(old, d)]
                   /\ Continue("schedules")
              ELSE Retry /\ UNCHANGED res
    /\ UNCHANGED <<owner, cache, sync>>

\* Listed resources of a kind no schedule is declared with.
Stale(k) ==
    {n \in Schedule :
        Seen(k, n) /\ ~(snap[n] # Absent /\ snap[n].kind = k)}

ListStale(from, k) ==
    /\ pc = from /\ todo = {} /\ Fresh
    /\ todo' = Stale(k)
    /\ Continue(PruneStep(k))
    /\ UNCHANGED <<owner, res, cache, snap, cur>>

ListStaleLogical == ListStale("schedules", "logical")

ListStalePhysical == ListStale("pruneLogical", "physical")

DeleteStale(k, n) ==
    /\ pc = PruneStep(k) /\ n \in todo
    /\ todo' = todo \ {n}
    /\ Delete(k, n, Continue(PruneStep(k)))
    /\ UNCHANGED <<owner, cache, snap, cur>>

EndSync ==
    /\ pc = "prunePhysical" /\ todo = {}
    /\ Continue("idle")
    /\ UNCHANGED <<owner, res, cache, sync>>

SyncStep ==
    \/ \E n \in Schedule : NextSchedule(n)
    \/ SwitchKind \/ Recreate \/ CreateResource \/ UpdateResource
    \/ ListStaleLogical \/ ListStalePhysical
    \/ \E k \in Kinds, n \in Schedule : DeleteStale(k, n)
    \/ EndSync

Next ==
    \/ \E n \in Schedule, d \in Offered \cup {Absent} : EditSchedule(n, d)
    \/ \E s \in Storage : StorageCreated(s)
    \/ BeginSync \/ SyncStep \/ SyncFails \/ CacheCatchesUp

\* The queue is served, a running Sync goes on and the informer delivers.
Fairness == WF_vars(BeginSync) /\ WF_vars(SyncStep) /\ WF_vars(CacheCatchesUp)

SafetySpec == Init /\ [][Next]_vars

Spec == SafetySpec /\ Fairness

-----------------------------------------------------------------------------
\* A schedule is never run by a Backup and a PhysicalBackup at the same time,
\* whichever calls of the change of kind fail.
NoTwin ==
    \A n \in Schedule, j, k \in Kinds :
        res[j][n] # Absent /\ res[k][n] # Absent => j = k

\* A resource, and with it the run history and the run under way, is only
\* deleted when its schedule is dropped or an immutable field of it changes:
\* suspending a schedule, an outdated read or a repeated reconcile never
\* costs a resource that is what the running Sync wants.
WantedIsKept ==
    [][\A k \in Kinds, n \in Schedule :
          res[k][n] # Absent /\ res'[k][n] = Absent =>
             \/ snap[n] = Absent
             \/ snap[n].kind # k
             \/ snap[n].storage # res[k][n].storage
             \/ k = "logical" /\ snap[n].retention # res[k][n].retention]_res

Matches(n) ==
    \A k \in Kinds :
        res[k][n] = IF config[n] # Absent /\ config[n].kind = k
                    THEN Created(config[n]) ELSE Absent

\* Nothing is forgotten: an Instance that no reconcile will look at again has
\* exactly the resources it declares.  Nothing watches them, so a step that an
\* earlier, failed Sync skipped has to be made up for before the queue is left.
SchedulesAtRest == pc = "idle" /\ ~queued => \A n \in Schedule : Matches(n)

\* Outages of the API server and restarts of the provider come to an end.
OutagesEnd == <>[][~SyncFails]_vars

EditsEnd == <>[][FALSE]_config

\* Once edits and outages end and every declared storage exists, the
\* resources are what the Instance declares.
SchedulesConverge ==
    EditsEnd /\ OutagesEnd =>
        \/ []<>(\E n \in Schedule :
                  config[n] # Absent /\ config[n].storage \notin present)
        \/ <>[](\A n \in Schedule : Matches(n))

\* A dropped schedule stops running (SyncScheduledBackups: "prunes operator
\* backups for schedules that no longer exist").
DroppedScheduleStops ==
    EditsEnd /\ OutagesEnd =>
        \A n \in Schedule :
            <>[](config[n] = Absent => \A k \in Kinds : res[k][n] = Absent)
=============================================================================
