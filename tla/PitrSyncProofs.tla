--------------------------- MODULE PitrSyncProofs ---------------------------
(***************************************************************************)
(* Theorems about PitrSync and RecoveryWindow for every set of storages.   *)
(* Type correctness holds under lagging caches and slow deletions; the     *)
(* order of the three resources needs current reads and deletions that     *)
(* complete.                                                               *)
(***************************************************************************)
EXTENDS RecoveryWindow, TLAPS

\* The surroundings of an Instance do not change.
LEMMA SurroundingsFixed == [Next]_vars => env' = env
BY DEF Next, SyncStep, EditConfig, BeginSync, SyncFails, FinalizePITR,
   FinalizeBase, MariaDBEvent, PITREvent, BaseEvent, ResolveRef, ApplyMariaDB,
   AwaitMariaDB, CreateBase, KeepBase, CreatePITR, UpdatePITR, DeletePITR,
   DeleteBase, vars

\* A resource that is created has the resource's type and is live.
LEMMA CreatedType ==
    ASSUME NEW s \in Storage
    PROVE  Created(s) \in Resource /\ ~Created(s).terminating
BY DEF Created, Resource

\* No step of the owner, a Sync or the API server breaks a type.
LEMMA TypeStep == TypeOK /\ [Next]_vars => TypeOK'
<1> SUFFICES ASSUME TypeOK, [Next]_vars PROVE TypeOK'
  OBVIOUS
<1> USE PitrAssumption DEF TypeOK, MariaDB, Resource, Retry, Continue,
    Deleted, Live, resources, caches
<1>1. ASSUME NEW s \in Storage \cup {Off}, EditConfig(s) PROVE TypeOK'
  BY <1>1 DEF EditConfig
<1>2. CASE BeginSync
  BY <1>2 DEF BeginSync
<1>3. CASE ResolveRef
  BY <1>3 DEF ResolveRef, DesiredPITRRef
<1>4. CASE ApplyMariaDB
  BY <1>4 DEF ApplyMariaDB
<1>5. CASE AwaitMariaDB
  BY <1>5 DEF AwaitMariaDB
<1>6. CASE CreateBase
  <2>1. Created(snap) \in Resource
    BY <1>6, CreatedType DEF CreateBase
  <2>2. base' = Created(snap) \/ base' = base
    BY <1>6 DEF CreateBase
  <2> QED BY <1>6, <2>1, <2>2 DEF CreateBase
<1>7. CASE KeepBase
  BY <1>7 DEF KeepBase
<1>8. CASE CreatePITR
  <2>1. Created(snap) \in Resource
    BY <1>8, CreatedType DEF CreatePITR
  <2>2. pitr' = Created(snap) \/ pitr' = pitr
    BY <1>8 DEF CreatePITR
  <2> QED BY <1>8, <2>1, <2>2 DEF CreatePITR
<1>9. CASE UpdatePITR
  <2>1. pitr' \in Resource \cup {Absent}
    <3>1. pitr = pitrCache => UpdatedPITR(pitr) \in Resource
      BY <1>9 DEF UpdatePITR, UpdatedPITR
    <3> QED BY <1>9, <3>1 DEF UpdatePITR
  <2> QED BY <1>9, <2>1 DEF UpdatePITR
<1>10. CASE DeletePITR
  <2>1. pitr' \in Resource \cup {Absent}
    BY <1>10 DEF DeletePITR
  <2> QED BY <1>10, <2>1 DEF DeletePITR
<1>11. CASE DeleteBase
  <2>1. base' \in Resource \cup {Absent}
    BY <1>11 DEF DeleteBase
  <2> QED BY <1>11, <2>1 DEF DeleteBase
<1>12. CASE SyncFails
  BY <1>12 DEF SyncFails
<1>13. CASE FinalizePITR \/ FinalizeBase
  BY <1>13 DEF FinalizePITR, FinalizeBase
<1>14. CASE MariaDBEvent \/ PITREvent \/ BaseEvent
  BY <1>14 DEF MariaDBEvent, PITREvent, BaseEvent
<1>15. CASE UNCHANGED vars
  BY <1>15 DEF vars
<1> QED
  BY <1>1, <1>2, <1>3, <1>4, <1>5, <1>6, <1>7, <1>8, <1>9, <1>10, <1>11,
     <1>12, <1>13, <1>14, <1>15 DEF Next, SyncStep

\* Every variable keeps its type, and SyncPITR and its teardown only run for
\* the snapshot that calls for them.
THEOREM TypeCorrect == SafetySpec => []TypeOK
<1>1. Init => TypeOK
  BY DEF Init, TypeOK
<1> QED BY <1>1, TypeStep, PTL DEF SafetySpec

-----------------------------------------------------------------------------
ArchivalOn == mdb # Absent /\ mdb.ref

\* What a Sync has already established when it is about to make a call.
TimelineInv ==
    Prompt =>
    /\ ArchivalHasTimeline
    /\ pc = "applyMariaDB" /\ wantRef => pitr # Absent /\ snap # Off
    /\ pc = "pitr" => base # Absent
    /\ pc \in {"deletePitr", "deleteBase"} => ~ArchivalOn
    /\ pc = "deleteBase" => pitr = Absent
    /\ pitr # Absent => ~pitr.terminating
    /\ base # Absent => ~base.terminating

\* Each call finds what the calls before it in its Sync have established.
LEMMA TimelineStep ==
    TypeOK /\ TypeOK' /\ TimelineInv /\ [Next]_vars => TimelineInv'
<1> SUFFICES ASSUME TypeOK, TypeOK', TimelineInv, [Next]_vars,
                    Prompt, Prompt'
             PROVE  TimelineInv'
  BY SurroundingsFixed DEF TimelineInv, Prompt
<1> USE PitrAssumption DEF TypeOK, Prompt, TimelineInv, ArchivalHasTimeline, ArchivalOn,
    MariaDB, Resource, Fresh, Retry, Continue, resources, caches
<1>1. ASSUME NEW s \in Storage \cup {Off}, EditConfig(s) PROVE TimelineInv'
  BY <1>1 DEF EditConfig
<1>2. CASE BeginSync
  BY <1>2 DEF BeginSync
<1>3. CASE ResolveRef
  BY <1>3 DEF ResolveRef, DesiredPITRRef
<1>4. CASE ApplyMariaDB
  BY <1>4 DEF ApplyMariaDB
<1>5. CASE AwaitMariaDB
  BY <1>5 DEF AwaitMariaDB
<1>6. CASE CreateBase
  <2>1. Created(snap) # Absent /\ ~Created(snap).terminating
    BY <1>6, CreatedType DEF CreateBase
  <2>2. base = Absent /\ base' = Created(snap) /\ pc' = "pitr"
    BY <1>6 DEF CreateBase
  <2> QED BY <1>6, <2>1, <2>2 DEF CreateBase
<1>15. CASE KeepBase
  BY <1>15 DEF KeepBase
<1>7. CASE CreatePITR
  <2>1. Created(snap) # Absent /\ ~Created(snap).terminating
    BY <1>7, CreatedType DEF CreatePITR
  <2>2. pitr = Absent /\ pitr' = Created(snap) /\ pc' = "idle"
    BY <1>7 DEF CreatePITR
  <2> QED BY <1>7, <2>1, <2>2 DEF CreatePITR
<1>14. CASE UpdatePITR
  <2>1. pitr # Absent /\ pitr' # Absent /\ pc' = "idle" /\ pitr' = UpdatedPITR(pitr)
    BY <1>14 DEF UpdatePITR, UpdatedPITR
  <2>2. ~pitr'.terminating
    BY <2>1 DEF UpdatedPITR
  <2> QED BY <1>14, <2>1, <2>2 DEF UpdatePITR
<1>8. CASE DeletePITR
  BY <1>8 DEF DeletePITR, Deleted, Live
<1>9. CASE DeleteBase
  BY <1>9 DEF DeleteBase, Deleted, Live
<1>10. CASE SyncFails
  BY <1>10 DEF SyncFails
<1>11. CASE FinalizePITR \/ FinalizeBase
  BY <1>11 DEF FinalizePITR, FinalizeBase
<1>12. CASE MariaDBEvent \/ PITREvent \/ BaseEvent
  BY <1>12 DEF MariaDBEvent, PITREvent, BaseEvent
<1>13. CASE UNCHANGED vars
  BY <1>13 DEF vars
<1> QED
  BY <1>1, <1>2, <1>3, <1>4, <1>5, <1>6, <1>7, <1>8, <1>9, <1>10, <1>11,
     <1>12, <1>13, <1>14, <1>15 DEF Next, SyncStep

\* Archival is never on without its PITR resource, nor that without its base,
\* wherever a Sync fails and whenever the owner edits.
THEOREM TimelineKept == SafetySpec => []ArchivalHasTimeline
<1>1. Init => TimelineInv
  BY DEF Init, TimelineInv, ArchivalHasTimeline, ArchivalOn
<1>2. TimelineInv => ArchivalHasTimeline
  BY DEF TimelineInv, ArchivalHasTimeline
<1> QED BY <1>1, <1>2, TimelineStep, TypeCorrect, PTL DEF SafetySpec

-----------------------------------------------------------------------------
(* With the recovery window on top.  A status that changes or fails to be    *)
(* written starts a Sync that PitrSync alone would not, so WindowSpec does   *)
(* not simply imply its SafetySpec: the two invariants are carried over such *)
(* steps here.                                                               *)

\* What a step of the window may do to the state of PitrSync.
Requeued ==
    /\ UNCHANGED <<env, config, resources, caches, pc, snap, wantRef>>
    /\ queued' \in {queued, TRUE}

LEMMA WindowStep ==
    ASSUME [WindowNext]_windowVars
    PROVE  [Next]_vars \/ Requeued
BY DEF WindowNext, PitrStep, ReportStatuses, ReportFails, Archives, StatusEvent,
   Requeued, windowVars, vars, resources, caches

LEMMA RequeuedKeeps ==
    ASSUME Requeued, TypeOK, TimelineInv
    PROVE  TypeOK' /\ TimelineInv'
<1>1. TypeOK'
  BY DEF Requeued, TypeOK, resources, caches
<1>2. TimelineInv'
  BY DEF Requeued, TimelineInv, ArchivalHasTimeline, ArchivalOn, Prompt,
     resources, caches
<1> QED BY <1>1, <1>2

\* Every variable keeps its type: what is published is about a storage the
\* Instance of a reconcile asked for, or nothing.
THEOREM WindowTypeCorrect == WindowSpec => []WindowTypeOK
<1> DEFINE IInv == WindowTypeOK /\ TimelineInv
<1>1. WindowInit => IInv
  BY DEF WindowInit, WindowTypeOK, Init, TypeOK, TimelineInv, ArchivalHasTimeline,
     ArchivalOn
<1>2. IInv /\ [WindowNext]_windowVars => IInv'
  <2> SUFFICES ASSUME WindowTypeOK, TimelineInv, [WindowNext]_windowVars
               PROVE  WindowTypeOK' /\ TimelineInv'
    OBVIOUS
  <2>1. TypeOK
    BY DEF WindowTypeOK
  <2>2. TypeOK' /\ TimelineInv'
    <3>1. CASE [Next]_vars
      BY <2>1, <3>1, TypeStep, TimelineStep
    <3>2. CASE Requeued
      BY <2>1, <3>2, RequeuedKeeps
    <3> QED BY <3>1, <3>2, WindowStep
  <2>3. /\ window' \in BOOLEAN /\ windowCache' \in BOOLEAN
        /\ reporting' \in BOOLEAN
    <3>1. CASE PitrStep
      <4>1. window' \in BOOLEAN /\ windowCache' \in BOOLEAN
        BY <3>1 DEF PitrStep, StatusFollows, WindowTypeOK
      <4>2. reporting' \in {reporting} \/ reporting' \in BOOLEAN \/ reporting' \in {TRUE}
        BY <3>1 DEF PitrStep
      <4> QED BY <4>1, <4>2 DEF WindowTypeOK
    <3>2. CASE ReportStatuses \/ ReportFails \/ Archives \/ StatusEvent
      BY <3>2 DEF ReportStatuses, ReportFails, Archives, StatusEvent, WindowTypeOK
    <3>3. CASE UNCHANGED windowVars
      BY <3>3 DEF windowVars, WindowTypeOK
    <3> QED BY <3>1, <3>2, <3>3 DEF WindowNext
  <2>4. published' \in StorageStatus \cup {Absent}
    <3>1. CASE ReportStatuses
      BY <3>1, <2>1 DEF ReportStatuses, StorageStatuses, StorageStatus,
         WindowTypeOK, TypeOK
    <3>2. CASE ~ReportStatuses
      BY <3>2 DEF WindowNext, PitrStep, ReportFails, Archives, StatusEvent,
         windowVars, WindowTypeOK
    <3> QED BY <3>1, <3>2
  <2> QED BY <2>2, <2>3, <2>4 DEF WindowTypeOK
<1>3. IInv => WindowTypeOK
  OBVIOUS
<1> QED BY <1>1, <1>2, <1>3, PTL DEF WindowSpec

\* Archival keeps its timeline when the status of the PITR resource drives
\* further reconciles.
THEOREM WindowTimelineKept == WindowSpec => []ArchivalHasTimeline
<1> DEFINE IInv == TypeOK /\ TimelineInv
<1>1. WindowInit => IInv
  BY DEF WindowInit, Init, TypeOK, TimelineInv, ArchivalHasTimeline, ArchivalOn
<1>2. IInv /\ [WindowNext]_windowVars => IInv'
  BY WindowStep, TypeStep, TimelineStep, RequeuedKeeps
<1>3. IInv => ArchivalHasTimeline
  BY DEF TimelineInv, ArchivalHasTimeline
<1> QED BY <1>1, <1>2, <1>3, PTL DEF WindowSpec

-----------------------------------------------------------------------------
(* Nothing is forgotten.                                                     *)

\* What the calls of a Sync leave that nothing has disturbed since it began:
\* the reference that was declared for what the cache shows, the PITR resource
\* as far as the cache shows the current one, and the base.
RestInv ==
    ~queued =>
    /\ snap = config
    /\ pc = "applyMariaDB" => wantRef = DesiredPITRRef
    /\ pc \notin {"resolveRef", "applyMariaDB"} => mdb = [ref |-> DesiredPITRRef]
    /\ pc \in {"deleteBase", "idle"} =>
        IF snap = Off THEN Live(pitrCache) => ~Live(pitr)
        ELSE IF pitrCache = Absent THEN pitr = Created(snap)
        ELSE pitr = pitrCache => pitr.storage = snap
    /\ Prompt /\ pc = "idle" => (base = Absent <=> snap = Off)

\* A step after which no Sync is queued begins one or is no edit, no failure
\* and no event that is watched.
LEMMA QuietStep ==
    ASSUME [Next]_vars, ~queued'
    PROVE  \/ BeginSync
           \/ /\ ~queued /\ UNCHANGED <<env, config, snap, mdbCache, pitrCache>>
              /\ SyncStep \/ FinalizePITR \/ FinalizeBase \/ BaseEvent \/ UNCHANGED vars
BY DEF Next, SyncStep, EditConfig, SyncFails, FinalizePITR, FinalizeBase, MariaDBEvent,
   PITREvent, BaseEvent, ResolveRef, ApplyMariaDB, AwaitMariaDB, CreateBase, KeepBase,
   CreatePITR, UpdatePITR, DeletePITR, DeleteBase, Retry, Continue, vars, caches

LEMMA RestStep ==
    ASSUME TypeOK, TimelineInv, RestInv, [Next]_vars
    PROVE  RestInv'
<1> SUFFICES ASSUME ~queued' PROVE RestInv'
  BY DEF RestInv
<1>1. CASE BeginSync
  BY <1>1 DEF BeginSync, RestInv
<1> SUFFICES ASSUME ~queued, UNCHANGED <<env, config, snap, mdbCache, pitrCache>>,
                    SyncStep \/ FinalizePITR \/ FinalizeBase \/ BaseEvent \/ UNCHANGED vars
             PROVE  RestInv'
  BY <1>1, QuietStep
<1>0. DesiredPITRRef' = DesiredPITRRef
  BY DEF DesiredPITRRef
<1> USE <1>0 DEF RestInv, Prompt, Continue, Retry
<1>2. CASE ResolveRef
  BY <1>2 DEF ResolveRef
<1>3. CASE ApplyMariaDB
  BY <1>3 DEF ApplyMariaDB
<1>4. CASE AwaitMariaDB \/ CreateBase \/ KeepBase
  BY <1>4 DEF AwaitMariaDB, CreateBase, KeepBase, resources, caches
<1>5. CASE CreatePITR
  <2>1. pitrCache = Absent /\ pitr' = Created(snap) /\ pc' = "idle" /\ snap # Off
    BY <1>5 DEF CreatePITR, TypeOK
  <2>2. Prompt => base' # Absent
    BY <1>5 DEF CreatePITR, TimelineInv
  <2> QED BY <1>5, <2>1, <2>2 DEF CreatePITR, Created
<1>6. CASE UpdatePITR
  <2>1. pitrCache # Absent /\ pc = "pitr" /\ pc' = "idle" /\ snap # Off /\ base' = base
        /\ mdb' = mdb
    BY <1>6 DEF UpdatePITR, TypeOK
  <2>2. pitr' = pitrCache => pitr'.storage = snap
    <3>1. CASE pitr = pitrCache
      BY <1>6, <2>1, <3>1, PitrAssumption DEF UpdatePITR, UpdatedPITR, TypeOK, Resource
    <3>2. CASE pitr # pitrCache
      BY <1>6, <3>2, <2>1 DEF UpdatePITR, UpdatedPITR, TypeOK, Resource
    <3> QED BY <3>1, <3>2
  <2>3. Prompt => base # Absent
    BY <1>6 DEF UpdatePITR, TimelineInv
  <2> QED BY <2>1, <2>2, <2>3
<1>7. CASE DeletePITR
  <2>1. snap = Off /\ pc = "deletePitr" /\ pc' = "deleteBase" /\ UNCHANGED <<mdb, base>>
    BY <1>7 DEF DeletePITR, TypeOK
  <2>2. Live(pitrCache) => ~Live(pitr')
    <3>1. Deleted(pitr) = Absent \/ Deleted(pitr) = [pitr EXCEPT !.terminating = TRUE]
      BY DEF Deleted
    <3>2. Live(pitrCache) => pitr # Absent /\ pitr' = Deleted(pitr)
      BY <1>7 DEF DeletePITR
    <3> QED BY <3>1, <3>2 DEF Live, TypeOK, Resource
  <2> QED BY <2>1, <2>2 DEF Live
<1>8. CASE DeleteBase
  <2>1. snap = Off /\ pc' = "idle" /\ UNCHANGED <<mdb, pitr>>
    BY <1>8 DEF DeleteBase, TypeOK
  <2>2. Prompt => base' = Absent
    BY <1>8 DEF DeleteBase, Fresh, Live, Deleted, TimelineInv
  <2> QED BY <1>8, <2>1, <2>2 DEF DeleteBase, Live
<1>9. CASE FinalizePITR
  <2>1. pitr' = Absent /\ pitr # Absent /\ pitr.terminating
        /\ UNCHANGED <<mdb, base, pc, wantRef>>
    BY <1>9 DEF FinalizePITR
  <2>2. snap # Off => pitr # Created(snap)
    BY <2>1, CreatedType DEF TypeOK
  <2> QED BY <2>1, <2>2 DEF Live
<1>10. CASE FinalizeBase
  BY <1>10 DEF FinalizeBase, TimelineInv
<1>11. CASE BaseEvent
  BY <1>11 DEF BaseEvent, resources
<1>12. CASE UNCHANGED vars
  BY <1>12 DEF vars
<1> QED BY <1>2, <1>3, <1>4, <1>5, <1>6, <1>7, <1>8, <1>9, <1>10, <1>11, <1>12 DEF SyncStep

LEMMA RequeuedRests ==
    ASSUME TypeOK, Requeued, RestInv
    PROVE  RestInv'
<1>1. /\ UNCHANGED <<env, config, mdb, pitr, base, pitrCache, pc, snap, wantRef>>
      /\ ~queued' => ~queued
  BY DEF Requeued, resources, caches, TypeOK
<1>2. DesiredPITRRef' = DesiredPITRRef
  BY <1>1 DEF DesiredPITRRef
<1> QED BY <1>1, <1>2 DEF RestInv, Prompt, Live, Created

LEMMA RestInvariant == WindowSpec => [](TypeOK /\ TimelineInv /\ RestInv)
<1> DEFINE IInv == TypeOK /\ TimelineInv /\ RestInv
<1>1. WindowInit => IInv
  BY DEF WindowInit, Init, TypeOK, TimelineInv, ArchivalHasTimeline, ArchivalOn, RestInv
<1>2. IInv /\ [WindowNext]_windowVars => IInv'
  BY WindowStep, TypeStep, TimelineStep, RequeuedKeeps, RestStep, RequeuedRests
<1> QED BY <1>1, <1>2, PTL DEF WindowSpec

\* Whatever was read from an old cache, whichever call failed and however long
\* deletions take: an Instance nothing will reconcile again archives where it
\* asks to, or not at all.
THEOREM RecoveryNotForgotten == WindowSpec => []RecoveryAtRest
<1>1. TypeOK /\ TimelineInv /\ RestInv => RecoveryAtRest
  <2> SUFFICES ASSUME TypeOK, TimelineInv, RestInv, AtRest,
                      pitr # Absent => ~pitr.terminating
               PROVE  RefSettled /\ (Prompt => BaseSettled)
    BY DEF RecoveryAtRest
  <2>1. /\ snap = config /\ mdb = [ref |-> DesiredPITRRef] /\ pitr = pitrCache
        /\ Prompt => (base = Absent <=> snap = Off)
    BY DEF RestInv, AtRest
  <2>2. mdb # Absent /\ (mdb.ref <=> snap # Off /\ pitrCache # Absent)
    <3>1. DesiredPITRRef \in BOOLEAN
      BY DEF DesiredPITRRef
    <3>2. mdb # Absent
      BY <2>1, <3>1, PitrAssumption
    <3> QED BY <2>1, <3>2 DEF DesiredPITRRef
  <2>3. CASE config = Off
    BY <2>1, <2>2, <2>3 DEF RestInv, AtRest, Live, RefSettled, BaseSettled
  <2>4. CASE config # Off
    <3>1. Created(snap) # Absent
      BY <2>1, <2>4, CreatedType, PitrAssumption DEF TypeOK, Resource
    <3>2. pitr # Absent /\ pitr.storage = snap
      BY <2>1, <2>4, <3>1 DEF RestInv, AtRest
    <3>3. pitr = Created(config)
      BY <2>1, <3>2 DEF Created, TypeOK, Resource
    <3>4. Prompt => Live(base)
      BY <2>1, <2>4 DEF Live, TimelineInv
    <3> QED BY <2>1, <2>2, <2>4, <3>2, <3>3, <3>4 DEF RefSettled, BaseSettled
  <2> QED BY <2>3, <2>4
<1> QED BY <1>1, RestInvariant, PTL

\* What was published last is what the caches show, until an event, an edit or
\* a failed report queues the Instance.
WindowRestInv ==
    ~queued /\ pc = "idle" /\ ~reporting => published = StorageStatuses

LEMMA WindowRestStep ==
    ASSUME WindowRestInv, [WindowNext]_windowVars
    PROVE  WindowRestInv'
<1> SUFFICES ASSUME ~queued', pc' = "idle", ~reporting'
             PROVE  published' = StorageStatuses'
  BY DEF WindowRestInv
<1> USE DEF WindowRestInv, StorageStatuses
<1>1. CASE PitrStep
  <2>1. ~BeginSync /\ [Next]_vars /\ env' = env
    BY <1>1, SurroundingsFixed DEF PitrStep, BeginSync
  <2>2. /\ ~queued /\ UNCHANGED <<snap, pitrCache>>
        /\ SyncStep \/ FinalizePITR \/ FinalizeBase \/ BaseEvent \/ UNCHANGED vars
    BY <2>1, QuietStep
  <2>3. ~SyncStep
    BY <1>1, <2>1 DEF PitrStep
  <2>4. pc' = pc /\ reporting' = reporting
    BY <1>1, <2>2, <2>3 DEF PitrStep, FinalizePITR, FinalizeBase, BaseEvent, vars
  <2>5. windowCache' = windowCache /\ published' = published
    BY <1>1, <2>2 DEF PitrStep, StatusFollows
  <2> QED BY <2>1, <2>2, <2>4, <2>5
<1>2. CASE ReportStatuses
  BY <1>2 DEF ReportStatuses, vars
<1>3. CASE ReportFails \/ StatusEvent
  BY <1>3 DEF ReportFails, StatusEvent
<1>4. CASE Archives
  BY <1>4 DEF Archives, vars
<1>5. CASE UNCHANGED windowVars
  BY <1>5 DEF windowVars, vars
<1> QED BY <1>1, <1>2, <1>3, <1>4, <1>5 DEF WindowNext

\* No failed report and no recoverable time that arrived late is lost.
THEOREM WindowNotForgotten == WindowSpec => []WindowAtRest
<1>1. WindowInit => WindowRestInv
  BY DEF WindowInit, Init, WindowRestInv
<1>2. TypeOK /\ TimelineInv /\ RestInv /\ WindowRestInv => WindowAtRest
  <2> SUFFICES ASSUME TypeOK, RestInv, WindowRestInv, AtRest, ~reporting,
                      windowCache = window
               PROVE  published = IF config = Off THEN Absent
                                  ELSE [name |-> config, available |-> window]
    BY DEF WindowAtRest
  <2>1. published = StorageStatuses /\ snap = config
    BY DEF WindowRestInv, RestInv, AtRest
  <2>2. snap # Off => pitrCache # Absent
    <3>1. snap # Off => Created(snap) # Absent
      BY CreatedType, PitrAssumption DEF TypeOK, Resource
    <3> QED BY <3>1 DEF RestInv, AtRest
  <2> QED BY <2>1, <2>2 DEF StorageStatuses
<1> QED BY <1>1, <1>2, WindowRestStep, RestInvariant, PTL DEF WindowSpec
=============================================================================
