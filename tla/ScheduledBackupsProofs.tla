----------------------- MODULE ScheduledBackupsProofs -----------------------
(* Proofs about ScheduledBackups. *)
EXTENDS ScheduledBackups, TLAPS

(* Writing one entry of the operator resources keeps their type. *)
LEMMA ResourcesType ==
    ASSUME NEW r \in Resources, NEW k \in Kinds, NEW n \in Schedule,
           NEW v \in Resource \cup {Absent}
    PROVE  [r EXCEPT ![k][n] = v] \in Resources
BY DEF Resources

(* An entry of the operator resources is a resource or Absent. *)
LEMMA EntryType ==
    ASSUME NEW r \in Resources, NEW k \in Kinds, NEW n \in Schedule
    PROVE  r[k][n] \in Resource \cup {Absent}
<1>1. r[k] \in [Schedule -> Resource \cup {Absent}]
  BY DEF Resources
<1> QED
  BY <1>1

(* What a declaration creates, and what CreateOrUpdate makes of a resource,  *)
(* are resources.                                                            *)
LEMMA DeclaredType ==
    ASSUME NEW d \in Declared, NEW r \in Resource
    PROVE  Created(d) \in Resource /\ Updated(r, d) \in Resource
BY DEF Declared, Resource, Created, Updated

(* Each call of Sync keeps the types, and every schedule it works on is one  *)
(* the running Sync was given.                                               *)
THEOREM TypeCorrect == SafetySpec => []TypeOK
<1>1. Init => TypeOK
  BY DEF Init, TypeOK, Resources
<1>2. TypeOK /\ [Next]_vars => TypeOK'
  <2> SUFFICES ASSUME TypeOK, [Next]_vars PROVE TypeOK'
    OBVIOUS
  <2> USE SchedulesAssumption DEF TypeOK, owner, sync, Retry, Continue
  <2>1. ASSUME NEW n \in Schedule, NEW d \in Offered \cup {Absent},
               EditSchedule(n, d)
        PROVE  TypeOK'
    BY <2>1 DEF EditSchedule
  <2>2. ASSUME NEW s \in Storage, StorageCreated(s) PROVE TypeOK'
    BY <2>2 DEF StorageCreated
  <2>3. CASE BeginSync
    BY <2>3 DEF BeginSync
  <2>4. CASE SyncFails
    BY <2>4 DEF SyncFails
  <2>5. CASE CacheCatchesUp
    BY <2>5 DEF CacheCatchesUp
  <2>6. ASSUME NEW n \in Schedule, NextSchedule(n) PROVE TypeOK'
    BY <2>6 DEF NextSchedule
  <2>7. ASSUME NEW k \in Kinds, NEW n \in Schedule, NEW next, Delete(k, n, next)
        PROVE  res' \in Resources
    BY <2>7, ResourcesType DEF Delete
  <2>8. ASSUME pc \in {"switch", "recreate", "upsert"}
        PROVE  cur \in Schedule /\ snap[cur] \in Declared /\ snap[cur].kind \in Kinds
    BY <2>8 DEF Declared
  <2>9. CASE SwitchKind
    <3> DEFINE k == Other(snap[cur].kind)
    <3>1. res' \in Resources
      <4>1. CASE Seen(k, cur)
        <5>1. k \in Kinds
          BY <4>1 DEF Seen
        <5>2. Delete(k, cur, Continue("recreate"))
          BY <2>9, <4>1 DEF SwitchKind
        <5> HIDE DEF k
        <5> QED
          BY <2>7, <2>8, <2>9, <5>1, <5>2 DEF SwitchKind
      <4>2. CASE ~Seen(k, cur)
        BY <2>9, <4>2 DEF SwitchKind
      <4> QED
        BY <4>1, <4>2
    <3>2. pc' \in {"idle", "recreate"} /\ queued' \in BOOLEAN
      BY <2>9 DEF SwitchKind, Delete
    <3> QED
      BY <2>8, <2>9, <3>1, <3>2 DEF SwitchKind
  <2>10. CASE Recreate
    <3>1. res' \in Resources
      BY <2>7, <2>8, <2>10 DEF Recreate
    <3>2. pc' \in {"idle", "upsert"} /\ queued' \in BOOLEAN
      BY <2>10 DEF Recreate, Delete
    <3> QED
      BY <2>8, <2>10, <3>1, <3>2 DEF Recreate
  <2>11. CASE CreateResource
    <3> DEFINE d == snap[cur]
    <3>0. /\ cur \in Schedule /\ d \in Declared /\ d.kind \in Kinds
          /\ \/ res' = [res EXCEPT ![d.kind][cur] = Created(d)]
             \/ res' = res
      BY <2>8, <2>11 DEF CreateResource
    <3>1. res' \in Resources
      <4> HIDE DEF d
      <4>1. Created(d) \in Resource
        BY <3>0 DEF Declared, Resource, Created
      <4> QED
        BY <3>0, <4>1, ResourcesType
    <3>2. pc' \in {"idle", "schedules"} /\ queued' \in BOOLEAN
      BY <2>11 DEF CreateResource
    <3> QED
      BY <2>8, <2>11, <3>1, <3>2 DEF CreateResource
  <2>12. CASE UpdateResource
    <3> DEFINE old == cache[snap[cur].kind][cur]
    <3>1. old \in Resource
      <4>1. cur \in Schedule /\ snap[cur].kind \in Kinds
        BY <2>8, <2>12 DEF UpdateResource
      <4>2. old # Absent
        BY <2>12 DEF UpdateResource, Seen
      <4>3. cache \in Resources
        OBVIOUS
      <4>4. old \in Resource \cup {Absent}
        BY <4>1, <4>3, EntryType, Zenon
      <4> QED
        BY <4>2, <4>4
    <3>2. Updated(old, snap[cur]) \in Resource
      BY <2>8, <2>12, <3>1, DeclaredType DEF UpdateResource
    <3>3. \/ res' = [res EXCEPT ![snap[cur].kind][cur] = Updated(old, snap[cur])]
          \/ res' = res
      BY <2>12 DEF UpdateResource
    <3>4. res' \in Resources
      <4> HIDE DEF old
      <4> QED
        BY <2>8, <2>12, <3>2, <3>3, ResourcesType DEF UpdateResource
    <3>5. pc' \in {"idle", "schedules"} /\ queued' \in BOOLEAN
      BY <2>12 DEF UpdateResource
    <3> QED
      BY <2>8, <2>12, <3>4, <3>5 DEF UpdateResource
  <2>13. CASE ListStaleLogical
    BY <2>13 DEF ListStaleLogical, ListStale, Stale, PruneStep
  <2>14. CASE ListStalePhysical
    BY <2>14 DEF ListStalePhysical, ListStale, Stale, PruneStep
  <2>15. ASSUME NEW k \in Kinds, NEW n \in Schedule, DeleteStale(k, n)
         PROVE  TypeOK'
    <3>1. res' \in Resources
      BY <2>7, <2>15 DEF DeleteStale
    <3>2. pc' \in {"idle", "pruneLogical", "prunePhysical"} /\ queued' \in BOOLEAN
      BY <2>15 DEF DeleteStale, Delete, PruneStep
    <3> QED
      BY <2>15, <3>1, <3>2 DEF DeleteStale
  <2>16. CASE EndSync
    BY <2>16 DEF EndSync
  <2>17. CASE UNCHANGED vars
    BY <2>17 DEF vars
  <2> QED
    BY <2>1, <2>2, <2>3, <2>4, <2>5, <2>6, <2>9, <2>10, <2>11, <2>12, <2>13,
       <2>14, <2>15, <2>16, <2>17 DEF Next, SyncStep
<1> QED
  BY <1>1, <1>2, PTL DEF SafetySpec

(* From the moment the other kind was deleted until the resource is written, *)
(* the other kind is not there.                                              *)
SwitchInv ==
    pc \in {"recreate", "upsert"} =>
        \A k \in Kinds : k # snap[cur].kind => res[k][cur] = Absent

(* The switch and the absence of twins hold each other up. *)
LEMMA SwitchInvariant ==
    ASSUME ~CacheLag PROVE SafetySpec => [](SwitchInv /\ NoTwin)
<1>1. Init => cache = res /\ SwitchInv /\ NoTwin
  BY DEF Init, SwitchInv, NoTwin
<1>2. TypeOK /\ SwitchInv /\ NoTwin /\ [Next]_vars => SwitchInv' /\ NoTwin'
  <2> SUFFICES ASSUME TypeOK, SwitchInv, NoTwin, [Next]_vars
               PROVE  SwitchInv' /\ NoTwin'
    OBVIOUS
  <2> USE ~CacheLag, SchedulesAssumption
        DEF SwitchInv, NoTwin, owner, sync, Retry, Continue
  <2>1. ASSUME NEW n \in Schedule, NEW d \in Offered \cup {Absent},
               EditSchedule(n, d)
        PROVE  SwitchInv' /\ NoTwin'
    BY <2>1 DEF EditSchedule
  <2>2. ASSUME NEW s \in Storage, StorageCreated(s)
        PROVE  SwitchInv' /\ NoTwin'
    BY <2>2 DEF StorageCreated
  <2>3. CASE BeginSync \/ SyncFails \/ CacheCatchesUp \/ EndSync
    BY <2>3 DEF BeginSync, SyncFails, CacheCatchesUp, EndSync
  <2>4. ASSUME NEW n \in Schedule, NextSchedule(n)
        PROVE  SwitchInv' /\ NoTwin'
    BY <2>4 DEF NextSchedule
  <2>5. ASSUME NEW k \in Kinds, NEW n \in Schedule,
               res' = [res EXCEPT ![k][n] = Absent]
        PROVE  /\ NoTwin' /\ res'[k][n] = Absent
               /\ \A j \in Kinds, m \in Schedule :
                     res[j][m] = Absent => res'[j][m] = Absent
    BY <2>5 DEF TypeOK, Resources
  <2>6. CASE SwitchKind
    <3> DEFINE k == Other(snap[cur].kind)
    <3>1. cur \in Schedule /\ snap[cur].kind \in Kinds
      BY <2>6 DEF SwitchKind, TypeOK, Declared
    <3>2. \A j \in Kinds : j # snap[cur].kind => j = k
      BY <3>1 DEF Other
    <3>3. CASE Seen(k, cur)
      <4>1. k \in Kinds /\ res' = [res EXCEPT ![k][cur] = Absent]
        BY <2>6, <3>3 DEF SwitchKind, Delete, Seen
      <4>2. NoTwin' /\ res'[k][cur] = Absent
        <5> HIDE DEF k
        <5> QED
          BY <2>5, <3>1, <4>1
      <4> QED
        BY <2>6, <3>2, <4>2 DEF SwitchKind
    <3>4. CASE ~Seen(k, cur)
      <4>1. k \in Kinds => res[k][cur] = Absent
        BY <2>6, <3>4 DEF SwitchKind, Seen, Fresh
      <4> QED
        BY <2>6, <3>2, <3>4, <4>1 DEF SwitchKind
    <3> QED
      BY <3>3, <3>4
  <2>7. CASE Recreate
    <3>1. cur \in Schedule /\ snap[cur].kind \in Kinds
      BY <2>7 DEF Recreate, TypeOK, Declared
    <3>2. \/ /\ res' = [res EXCEPT ![snap[cur].kind][cur] = Absent]
             /\ pc' = "idle"
          \/ res' = res /\ pc' = "upsert"
      BY <2>7 DEF Recreate, Delete
    <3> QED
      BY <2>5, <2>7, <3>1, <3>2 DEF Recreate
  <2>8. ASSUME pc = "upsert", NEW v,
               \/ res' = [res EXCEPT ![snap[cur].kind][cur] = v]
               \/ res' = res
        PROVE  NoTwin'
    <3>1. cur \in Schedule /\ snap[cur].kind \in Kinds
      BY <2>8 DEF TypeOK, Declared
    <3>2. \A j \in Kinds, m \in Schedule :
             j # snap[cur].kind \/ m # cur => res'[j][m] = res[j][m]
      BY <2>8, <3>1 DEF TypeOK, Resources
    <3>3. \A j \in Kinds : j # snap[cur].kind => res'[j][cur] = Absent
      BY <2>8, <3>1, <3>2
    <3> QED
      BY <3>2, <3>3
  <2>9. CASE CreateResource
    <3>1. pc = "upsert" /\ pc' \in {"idle", "schedules"}
      BY <2>9 DEF CreateResource
    <3>2. \/ res' = [res EXCEPT ![snap[cur].kind][cur] = Created(snap[cur])]
          \/ res' = res
      BY <2>9 DEF CreateResource
    <3> QED
      BY <2>8, <3>1, <3>2
  <2>10. CASE UpdateResource
    <3>1. pc = "upsert" /\ pc' \in {"idle", "schedules"}
      BY <2>10 DEF UpdateResource
    <3>2. \/ res' = [res EXCEPT ![snap[cur].kind][cur] =
                        Updated(cache[snap[cur].kind][cur], snap[cur])]
          \/ res' = res
      BY <2>10 DEF UpdateResource
    <3> QED
      BY <2>8, <3>1, <3>2
  <2>11. CASE ListStaleLogical \/ ListStalePhysical
    BY <2>11 DEF ListStaleLogical, ListStalePhysical, ListStale, PruneStep
  <2>12. ASSUME NEW k \in Kinds, NEW n \in Schedule, DeleteStale(k, n)
         PROVE  SwitchInv' /\ NoTwin'
    <3>1. res' = [res EXCEPT ![k][n] = Absent]
             /\ pc' \in {"idle", "pruneLogical", "prunePhysical"}
      BY <2>12 DEF DeleteStale, Delete, PruneStep
    <3> QED
      BY <2>5, <3>1
  <2>13. CASE UNCHANGED vars
    BY <2>13 DEF vars
  <2> QED
    BY <2>1, <2>2, <2>3, <2>4, <2>6, <2>7, <2>9, <2>10, <2>11, <2>12, <2>13
       DEF Next, SyncStep
<1> QED
  BY <1>1, <1>2, TypeCorrect, PTL DEF SafetySpec

(* A schedule never has a resource of both kinds at the same time, whatever  *)
(* call fails in the middle of a change of kind (NoTwin), as long as a       *)
(* reconcile sees what earlier reconciles did.                               *)
THEOREM NeverTwins == ASSUME ~CacheLag PROVE SafetySpec => []NoTwin
BY SwitchInvariant, PTL

(* However old the cache is, the immutable fields it shows of a resource are *)
(* those the resource has: it may show a resource that is gone, or miss one, *)
(* but never the predecessor of the one that is there.                       *)
SeenInv ==
    \A k \in Kinds, n \in Schedule :
        cache[k][n] # Absent /\ res[k][n] # Absent =>
            /\ cache[k][n].storage = res[k][n].storage
            /\ k = "logical" => cache[k][n].retention = res[k][n].retention

(* The prunes only list what the running Sync does not declare. *)
StaleInv ==
    \A k \in {"logical", "physical"} :
        pc = PruneStep(k) =>
            \A n \in todo : snap[n] = Absent \/ snap[n].kind # k

Immutable(r, d, k) ==
    r.storage = d.storage /\ (k = "logical" => r.retention = d.retention)

(* An update leaves the immutable fields as they are. *)
LEMMA UpdateKeepsImmutable ==
    ASSUME NEW r \in Resource, NEW d \in Declared
    PROVE  Immutable(Updated(r, d), r, d.kind)
BY DEF Immutable, Updated, Resource, Declared

(* Both invariants hold of any Sync, with a cache of any age. *)
LEMMA CacheInvariant == SafetySpec => [](SeenInv /\ StaleInv)
<1>1. Init => SeenInv /\ StaleInv
  BY DEF Init, SeenInv, StaleInv, PruneStep
<1>2. TypeOK /\ SeenInv /\ StaleInv /\ [Next]_vars => SeenInv' /\ StaleInv'
  <2> SUFFICES ASSUME TypeOK, SeenInv, StaleInv, [Next]_vars
               PROVE  SeenInv' /\ StaleInv'
    OBVIOUS
  <2> USE SchedulesAssumption DEF owner, sync, Retry, Continue, PruneStep
  <2>1. CASE UNCHANGED <<res, cache>> /\ pc' \notin {"pruneLogical", "prunePhysical"}
    BY <2>1 DEF SeenInv, StaleInv
  <2>2. ASSUME NEW n \in Schedule, NEW d \in Offered \cup {Absent},
               EditSchedule(n, d)
        PROVE  SeenInv' /\ StaleInv'
    BY <2>2 DEF EditSchedule, SeenInv, StaleInv
  <2>3. ASSUME NEW s \in Storage, StorageCreated(s)
        PROVE  SeenInv' /\ StaleInv'
    BY <2>3 DEF StorageCreated, SeenInv, StaleInv
  <2>4. CASE BeginSync \/ SyncFails \/ EndSync
    BY <2>1, <2>4 DEF BeginSync, SyncFails, EndSync
  <2>5. CASE CacheCatchesUp
    BY <2>5 DEF CacheCatchesUp, SeenInv, StaleInv
  <2>6. ASSUME NEW n \in Schedule, NextSchedule(n)
        PROVE  SeenInv' /\ StaleInv'
    <3>1. pc' \notin {"pruneLogical", "prunePhysical"} /\ UNCHANGED <<res, cache>>
      BY <2>6 DEF NextSchedule
    <3> QED
      BY <2>1, <3>1
  <2>7. ASSUME NEW k \in Kinds, NEW n \in Schedule, UNCHANGED cache,
               res' = [res EXCEPT ![k][n] = Absent]
        PROVE  SeenInv'
    <3>1. \A j \in Kinds, m \in Schedule :
             res'[j][m] = IF j = k /\ m = n THEN Absent ELSE res[j][m]
      BY <2>7 DEF TypeOK, Resources
    <3> QED
      BY <2>7, <3>1 DEF SeenInv
  <2>8. CASE SwitchKind
    <3>1. pc' \notin {"pruneLogical", "prunePhysical"}
      BY <2>8 DEF SwitchKind, Delete
    <3>2. cur \in Schedule
      BY <2>8 DEF SwitchKind, TypeOK
    <3>3. CASE Seen(Other(snap[cur].kind), cur)
      <4>1. Other(snap[cur].kind) \in Kinds
        BY <3>3 DEF Seen
      <4>2. res' = [res EXCEPT ![Other(snap[cur].kind)][cur] = Absent]
               /\ UNCHANGED cache
        BY <2>8, <3>3 DEF SwitchKind, Delete
      <4>3. SeenInv'
        BY <2>7, <3>2, <4>1, <4>2
      <4> QED
        BY <3>1, <4>3 DEF StaleInv
    <3>4. CASE ~Seen(Other(snap[cur].kind), cur)
      BY <2>1, <2>8, <3>1, <3>4 DEF SwitchKind
    <3> QED
      BY <3>3, <3>4
  <2>9. ASSUME pc \in {"recreate", "upsert"}
        PROVE  cur \in Schedule /\ snap[cur] \in Declared /\ snap[cur].kind \in Kinds
    BY <2>9 DEF TypeOK, Declared
  <2>10. CASE Recreate
    <3>1. \/ /\ res' = [res EXCEPT ![snap[cur].kind][cur] = Absent]
             /\ pc' = "idle" /\ UNCHANGED cache
          \/ pc' = "upsert" /\ UNCHANGED <<res, cache>>
      BY <2>10 DEF Recreate, Delete
    <3>2. pc = "recreate"
      BY <2>10 DEF Recreate
    <3> QED
      BY <2>1, <2>7, <2>9, <3>1, <3>2 DEF StaleInv
  <2>11. CASE CreateResource
    <3> DEFINE k == snap[cur].kind
    <3>1. /\ pc = "upsert" /\ pc' \notin {"pruneLogical", "prunePhysical"}
          /\ UNCHANGED cache /\ ~Seen(k, cur)
          /\ \/ res' = [res EXCEPT ![k][cur] = Created(snap[cur])]
             \/ res' = res
      BY <2>11 DEF CreateResource
    <3>2. cache[k][cur] = Absent
      BY <2>9, <3>1 DEF Seen
    <3>3. \A j \in Kinds, m \in Schedule :
             res'[j][m] = res[j][m] \/ cache'[j][m] = Absent
      BY <2>9, <3>1, <3>2 DEF TypeOK, Resources
    <3>4. SeenInv'
      <4> HIDE DEF k
      <4> QED
        BY <3>1, <3>3 DEF SeenInv
    <3> QED
      BY <3>1, <3>4 DEF StaleInv
  <2>12. CASE UpdateResource
    <3> DEFINE k == snap[cur].kind
               old == cache[k][cur]
    <3>1. /\ pc = "upsert" /\ pc' \notin {"pruneLogical", "prunePhysical"}
          /\ UNCHANGED cache /\ old # Absent
          /\ \/ res[k][cur] = old /\ res' = [res EXCEPT ![k][cur] = Updated(old, snap[cur])]
             \/ res' = res
      BY <2>12 DEF UpdateResource, Seen
    <3>2. CASE res' = res
      BY <2>1, <3>1, <3>2
    <3>3. CASE res[k][cur] = old /\ res' = [res EXCEPT ![k][cur] = Updated(old, snap[cur])]
      <4>1. cache \in Resources
        BY DEF TypeOK
      <4>2. old \in Resource \cup {Absent}
        BY <2>9, <3>1, <4>1, EntryType, Zenon
      <4>3. Immutable(Updated(old, snap[cur]), old, k)
        BY <2>9, <3>1, <4>2, UpdateKeepsImmutable
      <4>4. \A j \in Kinds, m \in Schedule :
               res'[j][m] = IF j = k /\ m = cur THEN Updated(old, snap[cur])
                            ELSE res[j][m]
        BY <2>9, <3>1, <3>3 DEF TypeOK, Resources
      <4>5. SeenInv'
        BY <3>1, <4>3, <4>4 DEF SeenInv, Immutable
      <4> QED
        BY <3>1, <4>5 DEF StaleInv
    <3> QED
      BY <3>1, <3>2, <3>3
  <2>13. CASE ListStaleLogical \/ ListStalePhysical
    BY <2>13 DEF ListStaleLogical, ListStalePhysical, ListStale, Stale,
         SeenInv, StaleInv
  <2>14. ASSUME NEW k \in Kinds, NEW n \in Schedule, DeleteStale(k, n)
         PROVE  SeenInv' /\ StaleInv'
    <3>1. SeenInv'
      BY <2>7, <2>14 DEF DeleteStale, Delete
    <3>2. pc' \in {"idle", pc} /\ todo' \subseteq todo /\ UNCHANGED snap
      BY <2>14 DEF DeleteStale, Delete
    <3> QED
      BY <3>1, <3>2 DEF StaleInv
  <2>15. CASE UNCHANGED vars
    BY <2>15 DEF vars, SeenInv, StaleInv
  <2> QED
    BY <2>2, <2>3, <2>4, <2>5, <2>6, <2>8, <2>10, <2>11, <2>12, <2>13, <2>14,
       <2>15 DEF Next, SyncStep
<1> QED
  BY <1>1, <1>2, TypeCorrect, PTL DEF SafetySpec

(* No call of Sync, however outdated what it read is, deletes a resource     *)
(* that the Instance of that Sync asks for (WantedIsKept).                   *)
THEOREM WantedAlwaysKept == SafetySpec => WantedIsKept
<1> DEFINE Unwanted(k, n) ==
             \/ snap[n] = Absent
             \/ snap[n].kind # k
             \/ snap[n].storage # res[k][n].storage
             \/ k = "logical" /\ snap[n].retention # res[k][n].retention
           Kept == \A k \in Kinds, n \in Schedule :
                      res[k][n] # Absent /\ res'[k][n] = Absent => Unwanted(k, n)
<1>1. TypeOK /\ SeenInv /\ StaleInv /\ [Next]_vars => Kept
  <2> SUFFICES ASSUME TypeOK, SeenInv, StaleInv, [Next]_vars,
                      NEW k \in Kinds, NEW n \in Schedule,
                      res[k][n] # Absent, res'[k][n] = Absent
               PROVE  Unwanted(k, n)
    OBVIOUS
  <2> USE SchedulesAssumption
  <2>1. res' # res
    OBVIOUS
  <2>2. ASSUME NEW j \in Kinds, NEW m \in Schedule,
               res' = [res EXCEPT ![j][m] = Absent]
        PROVE  j = k /\ m = n
    BY <2>2 DEF TypeOK, Resources
  <2>3. CASE SwitchKind
    <3> DEFINE j == Other(snap[cur].kind)
    <3>1. cur \in Schedule /\ j \in Kinds /\ res' = [res EXCEPT ![j][cur] = Absent]
      BY <2>1, <2>3 DEF SwitchKind, Delete, Seen, TypeOK
    <3>2. j = k /\ cur = n
      <4> HIDE DEF j
      <4> QED
        BY <2>2, <3>1
    <3> QED
      BY <3>2 DEF Other
  <2>4. CASE Recreate
    <3> DEFINE j == snap[cur].kind
    <3>1. cur \in Schedule /\ j \in Kinds
      BY <2>4 DEF Recreate, TypeOK, Declared
    <3>2. /\ res' = [res EXCEPT ![j][cur] = Absent]
          /\ Seen(j, cur) /\ Outdated(cache[j][cur], snap[cur])
      BY <2>1, <2>4 DEF Recreate, Delete
    <3>3. j = k /\ cur = n
      <4> HIDE DEF j
      <4> QED
        BY <2>2, <3>1, <3>2
    <3> QED
      BY <3>2, <3>3 DEF Seen, Outdated, SeenInv
  <2>5. ASSUME NEW v, v # Absent, NEW m \in Schedule, NEW j \in Kinds,
               res' = [res EXCEPT ![j][m] = v]
        PROVE  FALSE
    BY <2>5 DEF TypeOK, Resources
  <2>6. CASE CreateResource
    <3>1. cur \in Schedule /\ snap[cur].kind \in Kinds /\ snap[cur] \in Declared
      BY <2>6 DEF CreateResource, TypeOK, Declared
    <3>2. Created(snap[cur]) # Absent
      BY <3>1 DEF Created, Declared, Resource
    <3>3. res' = [res EXCEPT ![snap[cur].kind][cur] = Created(snap[cur])]
      BY <2>1, <2>6 DEF CreateResource
    <3> QED
      BY <2>5, <3>1, <3>2, <3>3
  <2>7. CASE UpdateResource
    <3> DEFINE old == cache[snap[cur].kind][cur]
    <3>1. cur \in Schedule /\ snap[cur].kind \in Kinds /\ snap[cur] \in Declared
      BY <2>7 DEF UpdateResource, TypeOK, Declared
    <3>2. old \in Resource \cup {Absent} /\ old # Absent
      <4>1. cache \in Resources
        BY DEF TypeOK
      <4>2. old \in Resource \cup {Absent}
        BY <3>1, <4>1, EntryType, Zenon
      <4> QED
        BY <2>7, <4>2 DEF UpdateResource, Seen
    <3>3. Updated(old, snap[cur]) \in Resource
      BY <3>1, <3>2, DeclaredType
    <3>4. res' = [res EXCEPT ![snap[cur].kind][cur] = Updated(old, snap[cur])]
      BY <2>1, <2>7 DEF UpdateResource
    <3> QED
      <4> HIDE DEF old
      <4> QED
        BY <2>5, <3>1, <3>3, <3>4
  <2>8. ASSUME NEW j \in Kinds, NEW m \in Schedule, DeleteStale(j, m)
        PROVE  Unwanted(k, n)
    <3>1. j = k /\ m = n
      BY <2>2, <2>8 DEF DeleteStale, Delete
    <3>2. snap[m] = Absent \/ snap[m].kind # j
      BY <2>8 DEF DeleteStale, StaleInv
    <3> QED
      BY <3>1, <3>2
  <2>9. SwitchKind \/ Recreate \/ CreateResource \/ UpdateResource
           \/ \E j \in Kinds, m \in Schedule : DeleteStale(j, m)
    BY <2>1 DEF Next, SyncStep, vars, owner, sync, EditSchedule,
         StorageCreated, BeginSync, SyncFails, CacheCatchesUp, NextSchedule,
         ListStaleLogical, ListStalePhysical, ListStale, EndSync
  <2> QED
    BY <2>3, <2>4, <2>6, <2>7, <2>8, <2>9
<1>2. TypeOK /\ SeenInv /\ StaleInv /\ [Next]_vars => [Kept]_res
  BY <1>1
<1> QED
  BY <1>2, TypeCorrect, CacheInvariant, PTL DEF SafetySpec, WantedIsKept

(* The resources of a schedule are those the running Sync was asked for. *)
AsGiven(n) ==
    \A k \in Kinds :
        res[k][n] = IF snap[n] # Absent /\ snap[n].kind = k
                    THEN Created(snap[n]) ELSE Absent

GivenAbsent(k, n) == snap[n] = Absent /\ k \in Kinds => res[k][n] = Absent

InLoop == pc \in {"schedules", "switch", "recreate", "upsert"}

InPrune == pc \in {"pruneLogical", "prunePhysical"}

(* What the first loop leaves behind it is done, and stays done while it     *)
(* works on the next schedule; the prunes then do the rest, one kind after   *)
(* the other.  The queue holds the Instance as soon as the running Sync      *)
(* works on schedules that are no longer those declared.                     *)
LoopInv ==
    /\ ~queued => snap = config
    /\ InLoop => \A n \in Schedule \ todo :
                    snap[n] # Absent /\ (pc = "schedules" \/ n # cur) => AsGiven(n)
    /\ pc = "upsert" /\ res[snap[cur].kind][cur] # Absent =>
           ~Outdated(res[snap[cur].kind][cur], snap[cur])
    /\ InPrune => \A n \in Schedule : snap[n] # Absent => AsGiven(n)
    /\ pc = "pruneLogical" =>
           \A n \in Schedule \ todo : GivenAbsent("logical", n)
    /\ pc = "prunePhysical" =>
           /\ \A n \in Schedule : GivenAbsent("logical", n)
           /\ \A n \in Schedule \ todo : GivenAbsent("physical", n)
    /\ pc = "idle" /\ ~queued => \A n \in Schedule : AsGiven(n)

(* CreateOrUpdate of a resource that need not be recreated makes it the one  *)
(* that would have been created.                                             *)
LEMMA UpdateMakesWanted ==
    ASSUME NEW r \in Resource, NEW d \in Declared, ~Outdated(r, d)
    PROVE  Updated(r, d) = Created(d)
<1>1. d.kind \in {"logical", "physical"}
  BY SchedulesAssumption DEF Declared
<1>2. r.storage = d.storage /\ (d.kind = "logical" => r.retention = d.retention)
  BY <1>1 DEF Outdated
<1>3. Updated(r, d) = [r EXCEPT !.enabled = d.enabled, !.retention = d.retention]
  BY <1>1, <1>2 DEF Updated, Resource
<1> QED
  BY <1>2, <1>3 DEF Resource, Created

(* Writing one entry leaves what the other schedules have. *)
LEMMA OthersAsGiven ==
    ASSUME TypeOK, NEW k \in Kinds, NEW n \in Schedule, NEW v,
           res' = [res EXCEPT ![k][n] = v], snap' = snap
    PROVE  /\ \A j \in Kinds : j # k => res'[j][n] = res[j][n]
           /\ \A j \in Kinds, m \in Schedule : m # n => res'[j][m] = res[j][m]
           /\ \A m \in Schedule : m # n /\ AsGiven(m) => AsGiven(m)'
           /\ \A j \in Kinds, m \in Schedule :
                 v = Absent /\ res[j][m] = Absent => res'[j][m] = Absent
<1>1. /\ \A j \in Kinds, m \in Schedule :
            res'[j][m] = IF j = k /\ m = n THEN v ELSE res[j][m]
  BY DEF TypeOK, Resources
<1> QED
  BY <1>1 DEF AsGiven

(* With current reads, an Instance that is left alone has exactly the        *)
(* resources it declares (SchedulesAtRest), whichever calls of which         *)
(* reconciles failed before and whatever was declared in between.            *)
THEOREM NoScheduleForgotten ==
    ASSUME ~CacheLag PROVE SafetySpec => []SchedulesAtRest
<1>1. Init => LoopInv
  BY DEF Init, LoopInv, InLoop, InPrune
<1>2. /\ TypeOK /\ SwitchInv /\ StaleInv /\ LoopInv /\ [Next]_vars => LoopInv'
  <2> SUFFICES ASSUME TypeOK, SwitchInv, StaleInv, LoopInv, [Next]_vars
               PROVE  LoopInv'
    OBVIOUS
  <2> USE ~CacheLag, SchedulesAssumption DEF owner, sync, Retry, Continue
  <2>0. queued \in BOOLEAN
    BY DEF TypeOK
  <2>1. ASSUME pc' = "idle", queued' = TRUE PROVE LoopInv'
    BY <2>1 DEF LoopInv, InLoop, InPrune
  <2>2. ASSUME UNCHANGED <<res, snap, todo, cur, pc>>,
               queued' = TRUE \/ UNCHANGED <<config, queued>>
        PROVE  LoopInv'
    BY <2>0, <2>2 DEF LoopInv, InLoop, InPrune, AsGiven, GivenAbsent
  <2>3. ASSUME NEW n \in Schedule, NEW d \in Offered \cup {Absent},
               EditSchedule(n, d)
        PROVE  LoopInv'
    BY <2>2, <2>3 DEF EditSchedule
  <2>4. ASSUME NEW s \in Storage, StorageCreated(s) PROVE LoopInv'
    BY <2>2, <2>4 DEF StorageCreated
  <2>5. CASE CacheCatchesUp
    BY <2>2, <2>5 DEF CacheCatchesUp
  <2>6. CASE SyncFails
    BY <2>1, <2>6 DEF SyncFails
  <2>7. CASE BeginSync
    BY <2>7 DEF BeginSync, LoopInv, InLoop, InPrune
  <2>8. ASSUME NEW n \in Schedule, NextSchedule(n) PROVE LoopInv'
    <3>1. CASE pc' = "idle"
      BY <2>1, <2>8, <3>1 DEF NextSchedule
    <3>2. CASE pc' = "switch"
      BY <2>8, <3>2 DEF NextSchedule, LoopInv, InLoop, InPrune, AsGiven
    <3> QED
      BY <2>8, <3>1, <3>2 DEF NextSchedule
  <2>9. ASSUME pc \in {"switch", "recreate", "upsert"}
        PROVE  cur \in Schedule /\ snap[cur] \in Declared /\ snap[cur].kind \in Kinds
    BY <2>9 DEF TypeOK, Declared
  <2>10. CASE SwitchKind
    <3>1. CASE pc' = "idle" /\ queued' = TRUE
      BY <2>1, <3>1
    <3>2. CASE pc' = "recreate" /\ UNCHANGED queued
      <4> DEFINE k == Other(snap[cur].kind)
      <4>1. CASE res' = res
        BY <2>10, <3>2, <4>1 DEF SwitchKind, LoopInv, InLoop, InPrune, AsGiven
      <4>2. CASE k \in Kinds /\ res' = [res EXCEPT ![k][cur] = Absent]
        <5>1. \A m \in Schedule : m # cur /\ AsGiven(m) => AsGiven(m)'
          <6> HIDE DEF k
          <6> QED
            BY <2>9, <2>10, <4>2, OthersAsGiven DEF SwitchKind
        <5> QED
          BY <2>10, <3>2, <5>1 DEF SwitchKind, LoopInv, InLoop, InPrune
      <4> QED
        BY <2>10, <4>1, <4>2 DEF SwitchKind, Delete, Seen
    <3> QED
      BY <2>10, <3>1, <3>2 DEF SwitchKind, Delete
  <2>11. CASE Recreate
    <3>1. CASE pc' = "idle" /\ queued' = TRUE
      BY <2>1, <3>1
    <3>2. CASE pc' = "upsert" /\ UNCHANGED <<res, queued>>
      <4>1. res[snap[cur].kind][cur] # Absent =>
               ~Outdated(res[snap[cur].kind][cur], snap[cur])
        BY <2>9, <2>11, <3>2 DEF Recreate, Delete, Fresh, Seen
      <4> QED
        BY <2>11, <3>2, <4>1 DEF Recreate, LoopInv, InLoop, InPrune, AsGiven
    <3> QED
      BY <2>11, <3>1, <3>2 DEF Recreate, Delete
  <2>12. ASSUME pc = "upsert", pc' = "schedules", UNCHANGED <<config, queued, sync>>,
                \/ res' = [res EXCEPT ![snap[cur].kind][cur] = Created(snap[cur])]
                \/ res' = res /\ res[snap[cur].kind][cur] = Created(snap[cur])
         PROVE  LoopInv'
    <3> DEFINE k == snap[cur].kind
    <3>1. cur \in Schedule /\ k \in Kinds /\ snap' = snap
      BY <2>9, <2>12
    <3>2. /\ res'[k][cur] = Created(snap[cur])
          /\ \A j \in Kinds : j # k => res'[j][cur] = res[j][cur]
          /\ \A m \in Schedule : m # cur /\ AsGiven(m) => AsGiven(m)'
      <4>1. CASE res' = res /\ res[k][cur] = Created(snap[cur])
        BY <3>1, <4>1 DEF AsGiven
      <4>2. CASE res' = [res EXCEPT ![k][cur] = Created(snap[cur])]
        <5> HIDE DEF k
        <5>1. res'[k][cur] = Created(snap[cur])
          BY <3>1, <4>2 DEF TypeOK, Resources
        <5>2. \A j \in Kinds : j # k => res'[j][cur] = res[j][cur]
          BY <3>1, <4>2, OthersAsGiven
        <5>3. \A m \in Schedule : m # cur /\ AsGiven(m) => AsGiven(m)'
          BY <3>1, <4>2, OthersAsGiven
        <5> QED
          BY <5>1, <5>2, <5>3
      <4> QED
        BY <2>12, <4>1, <4>2
    <3>3. AsGiven(cur)'
      BY <2>9, <2>12, <3>1, <3>2 DEF SwitchInv, AsGiven
    <3> QED
      BY <2>12, <3>2, <3>3 DEF LoopInv, InLoop, InPrune
  <2>13. CASE CreateResource
    <3>1. CASE pc' = "idle" /\ queued' = TRUE
      BY <2>1, <3>1
    <3>2. CASE ~(pc' = "idle" /\ queued' = TRUE)
      <4>1. /\ pc = "upsert" /\ pc' = "schedules" /\ UNCHANGED <<config, queued, sync>>
            /\ res' = [res EXCEPT ![snap[cur].kind][cur] = Created(snap[cur])]
        BY <2>13, <3>2 DEF CreateResource
      <4> QED
        BY <2>12, <4>1
    <3> QED
      BY <3>1, <3>2
  <2>14. CASE UpdateResource
    <3> DEFINE k == snap[cur].kind
               old == res[k][cur]
    <3>1. cur \in Schedule /\ snap[cur] \in Declared /\ k \in Kinds
      BY <2>9, <2>14 DEF UpdateResource
    <3>2. cache = res /\ old # Absent
      BY <2>14 DEF UpdateResource, Fresh, Seen
    <3>3. old \in Resource
      <4>1. res \in Resources
        BY DEF TypeOK
      <4>2. old \in Resource \cup {Absent}
        BY <3>1, <4>1, EntryType, Zenon
      <4> QED
        BY <3>2, <4>2
    <3>4. ~Outdated(old, snap[cur])
      BY <2>14, <3>2 DEF UpdateResource, LoopInv
    <3>5. Updated(old, snap[cur]) = Created(snap[cur])
      BY <3>1, <3>3, <3>4, UpdateMakesWanted
    <3>6. CASE pc' = "idle" /\ queued' = TRUE
      BY <2>1, <3>6
    <3>7. CASE ~(pc' = "idle" /\ queued' = TRUE)
      <4>1. /\ pc = "upsert" /\ pc' = "schedules" /\ UNCHANGED <<config, queued, sync>>
            /\ \/ res' = [res EXCEPT ![k][cur] = Updated(old, snap[cur])]
               \/ res' = res /\ Updated(old, snap[cur]) = old
        BY <2>14, <3>2, <3>7 DEF UpdateResource
      <4> QED
        BY <2>12, <3>5, <4>1
    <3> QED
      BY <3>6, <3>7
  <2>15. CASE ListStaleLogical
    <3>1. /\ pc = "schedules" /\ todo = {} /\ cache = res
          /\ todo' = Stale("logical") /\ pc' = "pruneLogical"
          /\ UNCHANGED <<config, queued, res, snap, cur>>
      BY <2>15 DEF ListStaleLogical, ListStale, Fresh, PruneStep
    <3>2. \A n \in Schedule : snap[n] # Absent => AsGiven(n)
      BY <3>1 DEF LoopInv, InLoop
    <3>3. \A n \in Schedule \ todo' : GivenAbsent("logical", n)
      BY <3>1 DEF Stale, Seen, GivenAbsent
    <3> QED
      BY <3>1, <3>2, <3>3 DEF LoopInv, InLoop, InPrune, AsGiven, GivenAbsent
  <2>16. CASE ListStalePhysical
    <3>1. /\ pc = "pruneLogical" /\ todo = {} /\ cache = res
          /\ todo' = Stale("physical") /\ pc' = "prunePhysical"
          /\ UNCHANGED <<config, queued, res, snap, cur>>
      BY <2>16 DEF ListStalePhysical, ListStale, Fresh, PruneStep
    <3>2. \A n \in Schedule \ todo' : GivenAbsent("physical", n)
      BY <3>1 DEF Stale, Seen, GivenAbsent
    <3> QED
      BY <3>1, <3>2 DEF LoopInv, InLoop, InPrune, AsGiven, GivenAbsent
  <2>17. ASSUME NEW k \in Kinds, NEW n \in Schedule, DeleteStale(k, n)
         PROVE  LoopInv'
    <3>1. CASE pc' = "idle" /\ queued' = TRUE
      BY <2>1, <3>1
    <3>2. CASE ~(pc' = "idle" /\ queued' = TRUE)
      <4>1. /\ pc = PruneStep(k) /\ pc' = pc /\ n \in todo /\ todo' = todo \ {n}
            /\ res' = [res EXCEPT ![k][n] = Absent]
            /\ UNCHANGED <<config, queued, snap, cur>>
        BY <2>17, <3>2 DEF DeleteStale, Delete
      <4>2. snap[n] = Absent \/ snap[n].kind # k
        BY <4>1 DEF StaleInv
      <4>3. /\ \A m \in Schedule : m # n /\ AsGiven(m) => AsGiven(m)'
            /\ \A j \in Kinds, m \in Schedule :
                  res[j][m] = Absent => res'[j][m] = Absent
            /\ res'[k][n] = Absent
            /\ \A j \in Kinds : j # k => res'[j][n] = res[j][n]
        <5>1. \A m \in Schedule : m # n /\ AsGiven(m) => AsGiven(m)'
          BY <4>1, OthersAsGiven
        <5>2. \A j \in Kinds, m \in Schedule :
                 res[j][m] = Absent => res'[j][m] = Absent
          BY <4>1, OthersAsGiven
        <5>3. res'[k][n] = Absent
          BY <4>1 DEF TypeOK, Resources
        <5>4. \A j \in Kinds : j # k => res'[j][n] = res[j][n]
          BY <4>1, OthersAsGiven
        <5> QED
          BY <5>1, <5>2, <5>3, <5>4
      <4>4. \A m \in Schedule : snap[m] # Absent => AsGiven(m)'
        BY <4>1, <4>2, <4>3 DEF LoopInv, InPrune, PruneStep, AsGiven
      <4>5. k \in {"logical", "physical"}
        OBVIOUS
      <4> QED
        BY <4>1, <4>3, <4>4, <4>5
           DEF LoopInv, InLoop, InPrune, PruneStep, GivenAbsent
    <3> QED
      BY <3>1, <3>2
  <2>18. CASE EndSync
    <3>1. /\ pc = "prunePhysical" /\ todo = {} /\ pc' = "idle"
          /\ UNCHANGED <<config, queued, res, snap>>
      BY <2>18 DEF EndSync
    <3>2. \A n \in Schedule : AsGiven(n)
      BY <3>1 DEF LoopInv, InPrune, AsGiven, GivenAbsent
    <3> QED
      BY <3>1, <3>2 DEF LoopInv, InLoop, InPrune, AsGiven
  <2>19. CASE UNCHANGED vars
    BY <2>2, <2>19 DEF vars
  <2> QED
    BY <2>3, <2>4, <2>5, <2>6, <2>7, <2>8, <2>10, <2>11, <2>13, <2>14, <2>15,
       <2>16, <2>17, <2>18, <2>19 DEF Next, SyncStep
<1>3. LoopInv => SchedulesAtRest
  BY DEF LoopInv, SchedulesAtRest, Matches, AsGiven
<1> QED
  BY <1>1, <1>2, <1>3, TypeCorrect, SwitchInvariant, CacheInvariant, PTL
     DEF SafetySpec
=============================================================================
