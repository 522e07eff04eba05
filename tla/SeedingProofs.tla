---------------------------- MODULE SeedingProofs ----------------------------
(***************************************************************************)
(* Theorems about Seeding for every set of data sources and any number of  *)
(* restarts: the passwords match where no Secret of an earlier Instance is *)
(* left, even on an outdated cache; where the cache is current, Ready is   *)
(* not reported early and the whole creation implements SeedingContract,   *)
(* even if Secrets are left.                                               *)
(***************************************************************************)
EXTENDS Seeding, TLAPS

\* The surroundings of an Instance do not change.
LEMMA SurroundingsFixed == [Next]_vars => env' = env
BY DEF Next, SyncStep, SourceChanges, SourceDeleted, LeftoverCollected,
   GenerateSecret, Restores, RestoreFails, BecomesReady, LosesReady, CacheCatchesUp,
   FailureAnnounced, Woken, BeginSync, ReadExisting, AwaitSource, SourceFailed, SourceResolved,
   CopyRootSecret, CopyUserSecret, CopySecret, ApplyMariaDB,
   StageDataSourceStatus, ReportStatus, SyncFails, Retry, vars, spec

\* Every variable keeps its type, and only an Instance with a dataSource is
\* ever resolved or given another Instance's Secrets.
THEOREM TypeCorrect == SafetySpec => []TypeOK
<1>1. Init => TypeOK
  <2> SUFFICES ASSUME Init PROVE TypeOK
    OBVIOUS
  <2>1. secret \in [Keys -> {Absent, "source", "generated", "old"}]
    <3>1. CASE env.leftovers
      BY <3>1 DEF Init
    <3>2. CASE ~env.leftovers
      BY <3>2 DEF Init
    <3> QED BY <3>1, <3>2
  <2>2. restarts \in 0..MaxRestarts
    BY SeedingAssumption DEF Init
  <2>3. boot \in BootstrapType
    BY DEF Init, BootstrapType
  <2> QED BY <2>1, <2>2, <2>3 DEF Init, TypeOK
<1>2. TypeOK /\ [Next]_vars => TypeOK'
  <2> SUFFICES ASSUME TypeOK, [Next]_vars PROVE TypeOK'
    OBVIOUS
  <2> USE SeedingAssumption DEF TypeOK, spec, operator, reconcile, work, Retry
  <2>1. ASSUME NEW s \in {"pending", "succeeded", "failed"}, SourceChanges(s)
        PROVE  TypeOK'
    BY <2>1 DEF SourceChanges
  <2>2. CASE SourceDeleted
    <3>1. sourceAlive' \in BOOLEAN
      BY <2>2 DEF SourceDeleted
    <3>2. UNCHANGED <<env, dataSource, source, operator, cache, work, pc, reconcile>>
      BY <2>2 DEF SourceDeleted
    <3> QED BY <3>1, <3>2
  <2>3. ASSUME NEW k \in Keys, LeftoverCollected(k) \/ GenerateSecret(k)
        PROVE  TypeOK'
    BY <2>3 DEF LeftoverCollected, GenerateSecret
  <2>4. ASSUME NEW to \in Progress, Restores(to) PROVE TypeOK'
    <3>1. mdb' \in MariaDB
      BY <2>4 DEF Restores, MariaDB
    <3> QED BY <2>4, <3>1 DEF Restores
  <2>5. CASE BecomesReady
    <3>1. mdb' \in MariaDB
      BY <2>5 DEF BecomesReady, MariaDB
    <3> QED BY <2>5, <3>1 DEF BecomesReady
  <2>6. CASE LosesReady
    <3>1. mdb' \in MariaDB
      BY <2>6 DEF LosesReady, MariaDB
    <3> QED BY <2>6, <3>1 DEF LosesReady
  <2>7. CASE CacheCatchesUp \/ FailureAnnounced \/ Woken
    <3>1. /\ queued' \in BOOLEAN /\ news' \in BOOLEAN
          /\ cache' \in MariaDB \cup {Absent}
          /\ UNCHANGED <<spec, operator, pc, reconcile>>
      BY <2>7 DEF CacheCatchesUp, FailureAnnounced, Woken
    <3> QED BY <3>1
  <2>18. CASE RestoreFails
    <3>1. news' \in BOOLEAN
      BY <2>18 DEF RestoreFails, Surroundings
    <3> QED BY <2>18, <3>1 DEF RestoreFails
  <2>8. CASE BeginSync
    BY <2>8 DEF BeginSync, BootstrapType
  <2>9. CASE ReadExisting
    BY <2>9 DEF ReadExisting, KeptBootstrap, MariaDB
  <2>10. CASE AwaitSource
    BY <2>10 DEF AwaitSource
  <2>19. CASE SourceFailed \/ SourceResolved
    BY <2>19 DEF SourceFailed, SourceResolved
  <2>11. CASE CopyRootSecret
    BY <2>11 DEF CopyRootSecret, CopySecret, Keys
  <2>12. CASE CopyUserSecret
    BY <2>12 DEF CopyUserSecret, CopySecret, Keys
  <2>13. CASE ApplyMariaDB
    <3>1. mdb' \in MariaDB
      BY <2>13 DEF ApplyMariaDB, MariaDB, Progress
    <3> QED BY <2>13, <3>1 DEF ApplyMariaDB
  <2>14. CASE StageDataSourceStatus
    <3>1. staged' \in {"none", "restoring", "failed", "succeeded"}
      BY <2>14 DEF StageDataSourceStatus, DataSourceStatus, MariaDB, BootstrapType
    <3> QED BY <2>14, <3>1 DEF StageDataSourceStatus
  <2>15. CASE ReportStatus
    BY <2>15 DEF ReportStatus, Phase
  <2>16. CASE SyncFails
    BY <2>16 DEF SyncFails
  <2>17. CASE UNCHANGED vars
    BY <2>17 DEF vars
  <2> QED
    BY <2>1, <2>2, <2>3, <2>4, <2>5, <2>6, <2>7, <2>8, <2>9, <2>10, <2>11,
       <2>12, <2>13, <2>14, <2>15, <2>16, <2>17, <2>18, <2>19 DEF Next, SyncStep
<1> QED BY <1>1, <1>2, PTL DEF SafetySpec

-----------------------------------------------------------------------------
(* The MariaDB resource is always the one the dataSource calls for. *)

BootstrapInv ==
    /\ mdb # Absent => mdb.bootstrap = dataSource
    /\ cache # Absent => mdb # Absent /\ cache.bootstrap = dataSource
    /\ pc \in {"read", "resolve"} => boot = "none"
    /\ pc \in {"copyRoot", "copyUser", "apply"} => boot = dataSource
    /\ pc \in {"stage", "status"} => mdb # Absent

LEMMA BootstrapKept == SafetySpec => []BootstrapInv
<1>1. Init => BootstrapInv
  BY DEF Init, BootstrapInv
<1>2. TypeOK /\ BootstrapInv /\ [Next]_vars => BootstrapInv'
  <2> SUFFICES ASSUME TypeOK, BootstrapInv, [Next]_vars PROVE BootstrapInv'
    OBVIOUS
  <2> USE SeedingAssumption DEF TypeOK, BootstrapInv, MariaDB, spec, operator, reconcile,
        Retry
  <2>1. ASSUME NEW s \in {"pending", "succeeded", "failed"}, SourceChanges(s)
        PROVE  BootstrapInv'
    BY <2>1 DEF SourceChanges
  <2>2. CASE SourceDeleted
    BY <2>2 DEF SourceDeleted
  <2>3. ASSUME NEW k \in Keys, LeftoverCollected(k) \/ GenerateSecret(k)
        PROVE  BootstrapInv'
    BY <2>3 DEF LeftoverCollected, GenerateSecret
  <2>4. ASSUME NEW to \in Progress, Restores(to) PROVE BootstrapInv'
    <3>1. mdb # Absent /\ mdb' # Absent /\ mdb'.bootstrap = mdb.bootstrap
      BY <2>4 DEF Restores
    <3> QED BY <2>4, <3>1 DEF Restores
  <2>5. CASE BecomesReady \/ LosesReady
    <3>1. mdb \in MariaDB /\ \E b \in BOOLEAN : mdb' = [mdb EXCEPT !.ready = b]
      BY <2>5 DEF BecomesReady, LosesReady
    <3>2. mdb # Absent /\ mdb' # Absent /\ mdb'.bootstrap = mdb.bootstrap
      BY <3>1
    <3> QED BY <2>5, <3>2 DEF BecomesReady, LosesReady
  <2>6. CASE CacheCatchesUp \/ FailureAnnounced \/ Woken \/ RestoreFails
    BY <2>6 DEF CacheCatchesUp, FailureAnnounced, Woken, RestoreFails
  <2>7. CASE BeginSync \/ SyncFails
    BY <2>7 DEF BeginSync, SyncFails
  <2>8. CASE ReadExisting
    BY <2>8 DEF ReadExisting, KeptBootstrap
  <2>9. CASE AwaitSource \/ SourceFailed \/ SourceResolved
    BY <2>9 DEF AwaitSource, SourceFailed, SourceResolved
  <2>10. CASE CopyRootSecret \/ CopyUserSecret
    BY <2>10 DEF CopyRootSecret, CopyUserSecret, CopySecret
  <2>11. CASE ApplyMariaDB
    <3>1. mdb' \in MariaDB
      BY <2>11 DEF ApplyMariaDB, Progress
    <3>2. mdb' # Absent /\ mdb'.bootstrap = boot
      BY <2>11, <3>1 DEF ApplyMariaDB
    <3> QED BY <2>11, <3>2 DEF ApplyMariaDB
  <2>12. CASE StageDataSourceStatus \/ ReportStatus
    BY <2>12 DEF StageDataSourceStatus, ReportStatus
  <2>13. CASE UNCHANGED vars
    BY <2>13 DEF vars
  <2> QED
    BY <2>1, <2>2, <2>3, <2>4, <2>5, <2>6, <2>7, <2>8, <2>9, <2>10, <2>11,
       <2>12, <2>13 DEF Next, SyncStep
<1> QED BY <1>1, <1>2, TypeCorrect, PTL DEF SafetySpec
-----------------------------------------------------------------------------
(* Passwords. *)

\* Where no Secret of an earlier Instance is left, a Secret is either absent
\* or the source's until the MariaDB resource exists, and then the source's
\* for good.
SecretInv ==
    ~env.leftovers =>
    /\ mdb = Absent => \A k \in Keys : secret[k] \in {Absent, "source"}
    /\ mdb # Absent /\ dataSource # "none" => \A k \in Keys : secret[k] = "source"
    /\ mdb # Absent /\ dataSource = "none" => mdb.progress = "none"
    /\ pc = "copyUser" => secret["root"] = "source"
    /\ pc = "apply" /\ dataSource # "none" => \A k \in Keys : secret[k] = "source"

\* Restored data is never met by generated passwords, wherever a reconcile
\* fails, however old the copies it reads are, and even if the source
\* Instance disappears half-way.
THEOREM PasswordsMatch == SafetySpec => []CredentialsMatch
<1>1. Init => SecretInv
  <2> SUFFICES ASSUME Init, ~env.leftovers PROVE SecretInv
    BY DEF SecretInv
  <2>1. \A k \in Keys : secret[k] \in {Absent, "source"}
    BY DEF Init
  <2> QED BY <2>1 DEF Init, SecretInv
<1>2. TypeOK /\ BootstrapInv /\ SecretInv /\ [Next]_vars => SecretInv'
  <2> SUFFICES ASSUME TypeOK, BootstrapInv, SecretInv, [Next]_vars,
                      ~env.leftovers, ~env'.leftovers
               PROVE  SecretInv'
    BY SurroundingsFixed DEF SecretInv
  <2> USE SeedingAssumption
        DEF TypeOK, BootstrapInv, SecretInv, Keys, spec, operator, reconcile, Retry
  <2>1. ASSUME NEW s \in {"pending", "succeeded", "failed"}, SourceChanges(s)
        PROVE  SecretInv'
    BY <2>1 DEF SourceChanges
  <2>2. CASE SourceDeleted
    BY <2>2 DEF SourceDeleted
  <2>3. ASSUME NEW k \in Keys, LeftoverCollected(k) PROVE SecretInv'
    BY <2>3 DEF LeftoverCollected
  <2>4. ASSUME NEW k \in Keys, GenerateSecret(k) PROVE SecretInv'
    BY <2>4 DEF GenerateSecret
  <2>5. ASSUME NEW to \in Progress, Restores(to) PROVE SecretInv'
    <3>1. mdb # Absent /\ mdb' # Absent /\ dataSource # "none"
      BY <2>5 DEF Restores, CanMove, MariaDB
    <3> QED BY <2>5, <3>1 DEF Restores
  <2>6. CASE BecomesReady \/ LosesReady
    <3> DEFINE Ready(b) == [mdb EXCEPT !.ready = b]
    <3>1. mdb \in MariaDB /\ \E b \in BOOLEAN : mdb' = Ready(b)
      BY <2>6 DEF BecomesReady, LosesReady
    <3>2. \A b \in BOOLEAN : Ready(b) # Absent /\ Ready(b).progress = mdb.progress
      BY <3>1 DEF MariaDB
    <3>3. mdb # Absent /\ mdb' # Absent /\ mdb'.progress = mdb.progress
      BY <2>6, <3>1, <3>2 DEF BecomesReady, LosesReady
    <3> QED BY <2>6, <3>3 DEF BecomesReady, LosesReady
  <2>7. CASE CacheCatchesUp \/ FailureAnnounced \/ Woken \/ RestoreFails
    BY <2>7 DEF CacheCatchesUp, FailureAnnounced, Woken, RestoreFails
  <2>8. CASE BeginSync \/ SyncFails
    BY <2>8 DEF BeginSync, SyncFails
  <2>9. CASE ReadExisting
    BY <2>9 DEF ReadExisting
  <2>10. CASE AwaitSource \/ SourceFailed \/ SourceResolved
    BY <2>10 DEF AwaitSource, SourceFailed, SourceResolved
  <2>11. CASE CopyRootSecret
    BY <2>11 DEF CopyRootSecret, CopySecret
  <2>12. CASE CopyUserSecret
    BY <2>12 DEF CopyUserSecret, CopySecret
  <2>13. CASE ApplyMariaDB
    <3>1. mdb' \in MariaDB
      BY <2>13 DEF ApplyMariaDB, Progress, MariaDB
    <3>2. dataSource = "none" => mdb'.progress = "none"
      BY <2>13 DEF ApplyMariaDB, MariaDB
    <3> QED BY <2>13, <3>1, <3>2 DEF ApplyMariaDB
  <2>14. CASE StageDataSourceStatus \/ ReportStatus
    BY <2>14 DEF StageDataSourceStatus, ReportStatus
  <2>15. CASE UNCHANGED vars
    BY <2>15 DEF vars
  <2> QED
    BY <2>1, <2>2, <2>3, <2>4, <2>5, <2>6, <2>7, <2>8, <2>9, <2>10, <2>11,
       <2>12, <2>13, <2>14, <2>15 DEF Next, SyncStep
<1>3. SecretInv => CredentialsMatch
  BY DEF SecretInv, CredentialsMatch, HoldsSourceUsers
<1> QED BY <1>1, <1>2, <1>3, TypeCorrect, BootstrapKept, PTL DEF SafetySpec
-----------------------------------------------------------------------------
(* The phase. *)

\* Where the cache is current, a ready physical seed has its data; a success is
\* only recorded once the data is there; a reconcile that has come to Status
\* has an opinion about the seed.
PhaseInv ==
    ~env.lag =>
    /\ NoEarlyReady
    /\ mdb # Absent /\ mdb.bootstrap = "physical"
          => /\ mdb.progress \in {"none", "restored", "baseFailed"}
             /\ mdb.ready => mdb.progress = "restored"
    /\ dataSource # "none" /\ (seeded \/ staged = "succeeded") => Seeded
    /\ pc = "status" /\ dataSource # "none" => staged # "none"

\* A success is read off a MariaDB that holds its data.
LEMMA SuccessMeansSeeded ==
    ASSUME NEW m \in MariaDB, m.bootstrap # "none",
           m.bootstrap = "physical" /\ m.ready => m.progress = "restored"
    PROVE  /\ DataSourceStatus(m) # "none"
           /\ DataSourceStatus(m) = "succeeded" => DataInPlace(m)
<1>1. m.bootstrap \in {"physical", "logical", "pointInTime"}
  BY DEF MariaDB, BootstrapType
<1>2. CASE m.bootstrap = "physical"
  BY <1>2 DEF DataSourceStatus, DataInPlace
<1>3. CASE m.bootstrap = "logical"
  BY <1>3 DEF DataSourceStatus, DataInPlace
<1>4. CASE m.bootstrap = "pointInTime"
  BY <1>4 DEF DataSourceStatus, DataInPlace
<1> QED BY <1>1, <1>2, <1>3, <1>4

\* Data in place stays in place, whatever the operator does next.
LEMMA DataStays ==
    ASSUME NEW m, NEW to, DataInPlace(m) PROVE ~CanMove(m, to)
BY DEF DataInPlace, CanMove

\* What is recorded and staged is backed by the data.
LEMMA PhaseInvariant == SafetySpec => []PhaseInv
<1>1. Init => PhaseInv
  BY DEF Init, PhaseInv, NoEarlyReady
<1>2. TypeOK /\ BootstrapInv /\ PhaseInv /\ [Next]_vars => PhaseInv'
  <2> SUFFICES ASSUME TypeOK, BootstrapInv, PhaseInv, [Next]_vars,
                      ~env.lag, ~env'.lag
               PROVE  PhaseInv'
    BY SurroundingsFixed DEF PhaseInv
  <2> USE SeedingAssumption
        DEF PhaseInv, NoEarlyReady, Seeded, spec, operator, reconcile, Retry
  <2>1. ASSUME NEW s \in {"pending", "succeeded", "failed"}, SourceChanges(s)
        PROVE  PhaseInv'
    BY <2>1 DEF SourceChanges
  <2>2. CASE SourceDeleted
    BY <2>2 DEF SourceDeleted
  <2>3. ASSUME NEW k \in Keys, LeftoverCollected(k) \/ GenerateSecret(k)
        PROVE  PhaseInv'
    BY <2>3 DEF LeftoverCollected, GenerateSecret
  <2>4. ASSUME NEW to \in Progress, Restores(to) PROVE PhaseInv'
    <3>1. /\ mdb \in MariaDB /\ mdb # Absent /\ CanMove(mdb, to)
          /\ mdb' = [mdb EXCEPT !.progress = to]
      BY <2>4 DEF Restores, TypeOK
    <3>2. /\ mdb' \in MariaDB /\ mdb' # Absent /\ mdb'.bootstrap = mdb.bootstrap
          /\ mdb'.progress = to
      BY <3>1 DEF MariaDB
    <3>3. ~DataInPlace(mdb)
      BY <3>1, DataStays
    <3>4. mdb.bootstrap = "physical"
            => mdb.progress = "none" /\ to \in {"restored", "baseFailed"}
      BY <3>1 DEF CanMove
    <3>5. mdb.bootstrap = "physical" => ~mdb'.ready
      BY <3>1, <3>4 DEF MariaDB
    <3> QED BY <2>4, <3>1, <3>2, <3>3, <3>4, <3>5 DEF Restores
  <2>5. CASE BecomesReady
    <3>1. /\ mdb \in MariaDB /\ mdb # Absent /\ CanBeReady(mdb)
          /\ mdb' = [mdb EXCEPT !.ready = TRUE]
      BY <2>5 DEF BecomesReady, TypeOK
    <3>2. /\ mdb' \in MariaDB /\ mdb' # Absent /\ mdb'.bootstrap = mdb.bootstrap
          /\ mdb'.progress = mdb.progress
      BY <3>1 DEF MariaDB
    <3>3. mdb.bootstrap = "physical" => mdb.progress = "restored"
      BY <3>1 DEF CanBeReady
    <3> QED BY <2>5, <3>1, <3>2, <3>3 DEF BecomesReady, DataInPlace
  <2>6. CASE LosesReady
    <3>1. mdb \in MariaDB /\ mdb # Absent /\ mdb' = [mdb EXCEPT !.ready = FALSE]
      BY <2>6 DEF LosesReady, TypeOK
    <3>2. /\ mdb' \in MariaDB /\ mdb' # Absent /\ mdb'.bootstrap = mdb.bootstrap
          /\ mdb'.progress = mdb.progress /\ ~mdb'.ready
      BY <3>1 DEF MariaDB
    <3> QED BY <2>6, <3>1, <3>2 DEF LosesReady, DataInPlace
  <2>7. CASE CacheCatchesUp \/ FailureAnnounced \/ Woken \/ RestoreFails
    BY <2>7 DEF CacheCatchesUp, FailureAnnounced, Woken, RestoreFails
  <2>8. CASE BeginSync \/ SyncFails
    BY <2>8 DEF BeginSync, SyncFails
  <2>9. CASE ReadExisting
    BY <2>9 DEF ReadExisting
  <2>10. CASE AwaitSource \/ SourceFailed \/ SourceResolved
    BY <2>10 DEF AwaitSource, SourceFailed, SourceResolved
  <2>11. CASE CopyRootSecret \/ CopyUserSecret
    BY <2>11 DEF CopyRootSecret, CopyUserSecret, CopySecret
  <2>12. CASE ApplyMariaDB
    <3>1. CASE mdb = Absent
      <4>1. mdb' \in MariaDB /\ mdb'.progress = "none" /\ ~mdb'.ready
        BY <2>12, <3>1 DEF ApplyMariaDB, TypeOK, MariaDB, Progress
      <4> QED BY <2>12, <3>1, <4>1 DEF ApplyMariaDB
    <3>2. CASE mdb # Absent
      <4>1. mdb \in MariaDB /\ mdb' = [mdb EXCEPT !.bootstrap = boot]
        BY <2>12, <3>2 DEF ApplyMariaDB, TypeOK
      <4>2. boot = mdb.bootstrap
        BY <2>12, <3>2 DEF ApplyMariaDB, BootstrapInv
      <4>3. mdb' = mdb
        BY <4>1, <4>2 DEF MariaDB
      <4> QED BY <2>12, <3>2, <4>3 DEF ApplyMariaDB
    <3> QED BY <3>1, <3>2
  <2>13. CASE StageDataSourceStatus
    <3>1. cache = mdb /\ mdb \in MariaDB /\ mdb # Absent /\ mdb.bootstrap = dataSource
      BY <2>13 DEF StageDataSourceStatus, Fresh, BootstrapInv, TypeOK
    <3>2. CASE dataSource = "none"
      BY <2>13, <3>2 DEF StageDataSourceStatus
    <3>3. CASE dataSource # "none"
      <4>1. /\ DataSourceStatus(mdb) # "none"
            /\ DataSourceStatus(mdb) = "succeeded" => DataInPlace(mdb)
        BY <3>1, <3>3, SuccessMeansSeeded
      <4>2. /\ staged' = IF seeded THEN "succeeded" ELSE DataSourceStatus(mdb)
            /\ seeded' = (seeded \/ DataSourceStatus(mdb) = "succeeded")
        BY <2>13, <3>1, <3>3 DEF StageDataSourceStatus
      <4>3. seeded' \/ staged' = "succeeded" => DataInPlace(mdb)
        BY <3>3, <4>1, <4>2
      <4>4. staged' # "none"
        BY <4>1, <4>2
      <4> QED BY <2>13, <3>1, <4>3, <4>4 DEF StageDataSourceStatus
    <3> QED BY <3>2, <3>3
  <2>14. CASE ReportStatus
    <3>1. cache = mdb /\ mdb # Absent
      BY <2>14 DEF ReportStatus, Fresh, BootstrapInv
    <3>2. phase' = "Ready" => staged \notin {"failed", "restoring"}
      BY <2>14, <3>1 DEF ReportStatus, Phase
    <3>3. phase' = "Ready" /\ dataSource # "none" => staged = "succeeded"
      BY <2>14, <3>2 DEF ReportStatus, TypeOK
    <3> QED BY <2>14, <3>1, <3>3 DEF ReportStatus
  <2>15. CASE UNCHANGED vars
    BY <2>15 DEF vars
  <2> QED
    BY <2>1, <2>2, <2>3, <2>4, <2>5, <2>6, <2>7, <2>8, <2>9, <2>10, <2>11,
       <2>12, <2>13, <2>14, <2>15 DEF Next, SyncStep
<1> QED BY <1>1, <1>2, TypeCorrect, BootstrapKept, PTL DEF SafetySpec

\* The owner of a seeded Instance sees Ready only when the data is there,
\* whatever Secrets were left behind and however often the server restarts.
THEOREM ReadyMeansSeeded == SafetySpec => []NoEarlyReady
<1>1. PhaseInv => NoEarlyReady
  BY DEF PhaseInv, NoEarlyReady
<1> QED BY <1>1, PhaseInvariant, PTL

-----------------------------------------------------------------------------
(* The promise made to the owner. *)

GivenUp(m) == restoreFailed \/ m.progress = "replayError"

\* Why a phase of Failed is final: the source failed, a Secret that is missing
\* can no longer be copied, or the operator has given up.
FailedForGood ==
    \/ /\ mdb = Absent /\ source = "failed"
       /\ pc \in {"idle", "read", "resolve"}
    \/ /\ mdb = Absent /\ ~sourceAlive /\ secret["root"] = Absent
       /\ pc \in {"idle", "read", "resolve", "copyRoot"}
    \/ /\ mdb = Absent /\ ~sourceAlive /\ secret["user"] = Absent
       /\ pc \in {"idle", "read", "resolve", "copyRoot", "copyUser"}
    \/ /\ mdb # Absent /\ GivenUp(mdb)
       /\ pc = "status" => staged = "failed"

\* A source is only resolved for a MariaDB resource that is not there; each
\* kind of seeding fails in its own way; what Status is about to show is what
\* Sync recorded or read off a seed that has failed.
PromiseInv ==
    Promised =>
    /\ pc \in {"resolve", "copyRoot", "copyUser"} => mdb = Absent
    /\ mdb # Absent /\ mdb.progress = "replayError" => mdb.bootstrap = "pointInTime"
    /\ restoreFailed => mdb # Absent /\ mdb.bootstrap = "logical" /\ mdb.progress = "none"
    /\ pc = "status" =>
          /\ staged = "succeeded" <=> seeded
          /\ staged = "failed" => GivenUp(mdb)
    /\ phase = "Failed" => FailedForGood

\* A seed the operator has given up is read as failed, and only such a one.
LEMMA FailureSeen ==
    ASSUME NEW m \in MariaDB, m.bootstrap # "none",
           restoreFailed => m.bootstrap = "logical" /\ m.progress = "none",
           m.progress = "replayError" => m.bootstrap = "pointInTime"
    PROVE  DataSourceStatus(m) = "failed" <=> GivenUp(m)
<1>1. m.bootstrap \in {"physical", "logical", "pointInTime"}
  BY DEF MariaDB, BootstrapType
<1>2. CASE m.bootstrap = "physical"
  BY <1>2 DEF DataSourceStatus, GivenUp
<1>3. CASE m.bootstrap = "logical"
  BY <1>3 DEF DataSourceStatus, GivenUp
<1>4. CASE m.bootstrap = "pointInTime"
  BY <1>4 DEF DataSourceStatus, GivenUp
<1> QED BY <1>1, <1>2, <1>3, <1>4

\* The operator does not come back to a seed it has given up, and fails a
\* logical restore or a replay of binary logs in its own way.
LEMMA FailureIsFinal ==
    ASSUME NEW m, NEW to, CanMove(m, to), restoreFailed => m.bootstrap = "logical"
    PROVE  /\ ~GivenUp(m)
           /\ to = "replayError" => m.bootstrap = "pointInTime"
BY DEF GivenUp, CanMove

\* The dataSource of an Instance is immutable.
LEMMA PromisedFixed == [Next]_vars => Promised' = Promised /\ dataSource' = dataSource
BY SurroundingsFixed
   DEF Promised, Next, SyncStep, SourceChanges, SourceDeleted, LeftoverCollected,
   GenerateSecret, Restores, RestoreFails, BecomesReady, LosesReady, CacheCatchesUp,
   FailureAnnounced, Woken, BeginSync, ReadExisting, AwaitSource, SourceFailed, SourceResolved,
   CopyRootSecret, CopyUserSecret, CopySecret, ApplyMariaDB,
   StageDataSourceStatus, ReportStatus, SyncFails, Retry, vars, spec

\* The applied resource is the one that was there, or a new one.
LEMMA ApplyChangesNothing ==
    ASSUME TypeOK, BootstrapInv, ApplyMariaDB
    PROVE  /\ mdb' \in MariaDB /\ mdb' # Absent
           /\ mdb # Absent => mdb' = mdb
           /\ mdb = Absent => mdb'.progress = "none"
<1>1. boot \in BootstrapType /\ mdb \in MariaDB \cup {Absent}
  BY DEF TypeOK
<1>2. CASE mdb = Absent
  <2>1. mdb' = [bootstrap |-> boot, ready |-> FALSE, progress |-> "none"]
    BY <1>2 DEF ApplyMariaDB
  <2>2. mdb' \in MariaDB
    BY <1>1, <2>1 DEF MariaDB, Progress
  <2> QED BY <1>2, <2>1, <2>2, SeedingAssumption
<1>3. CASE mdb # Absent
  <2>1. mdb' = [mdb EXCEPT !.bootstrap = boot] /\ boot = mdb.bootstrap
    BY <1>3 DEF ApplyMariaDB, BootstrapInv
  <2> QED BY <1>1, <1>3, <2>1, SeedingAssumption DEF MariaDB
<1> QED BY <1>2, <1>3

LEMMA PromiseInvariant == SafetySpec => []PromiseInv
<1>1. Init => PromiseInv
  BY DEF Init, PromiseInv
<1>2. TypeOK /\ BootstrapInv /\ PhaseInv /\ PromiseInv /\ [Next]_vars => PromiseInv'
  <2> SUFFICES ASSUME TypeOK, BootstrapInv, PhaseInv, PromiseInv, [Next]_vars,
                      Promised, Promised', ~env.lag, dataSource # "none"
               PROVE  PromiseInv'
    BY PromisedFixed DEF PromiseInv, Promised
  <2> USE SeedingAssumption
        DEF PromiseInv, FailedForGood, GivenUp, spec, operator, reconcile, Retry
  <2>1. ASSUME NEW s \in {"pending", "succeeded", "failed"}, SourceChanges(s)
        PROVE  PromiseInv'
    BY <2>1 DEF SourceChanges
  <2>2. CASE SourceDeleted
    BY <2>2 DEF SourceDeleted
  <2>3. ASSUME NEW k \in Keys, LeftoverCollected(k) PROVE PromiseInv'
    <3>1. \A j \in Keys : secret[j] = Absent => secret'[j] = Absent
      BY <2>3 DEF LeftoverCollected, TypeOK
    <3> QED BY <2>3, <3>1 DEF LeftoverCollected, Keys
  <2>4. ASSUME NEW k \in Keys, GenerateSecret(k) PROVE PromiseInv'
    BY <2>4 DEF GenerateSecret
  <2>5. ASSUME NEW to \in Progress, Restores(to) PROVE PromiseInv'
    <3>1. /\ mdb \in MariaDB /\ mdb # Absent /\ CanMove(mdb, to)
          /\ mdb' = [mdb EXCEPT !.progress = to]
      BY <2>5 DEF Restores, TypeOK
    <3>2. /\ mdb' # Absent /\ mdb'.bootstrap = mdb.bootstrap
          /\ mdb'.progress = to
      BY <3>1 DEF MariaDB
    <3>3. ~GivenUp(mdb) /\ (to = "replayError" => mdb.bootstrap = "pointInTime")
      BY <3>1, FailureIsFinal
    <3>4. ~restoreFailed /\ restoreFailed' = restoreFailed
      BY <2>5, <3>3 DEF Restores, GivenUp
    <3> QED BY <2>5, <3>1, <3>2, <3>3, <3>4 DEF Restores
  <2>18. CASE RestoreFails
    <3>1. /\ mdb # Absent /\ mdb.bootstrap = "logical" /\ mdb.progress = "none"
          /\ ~restoreFailed /\ CanMove(mdb, "restored")
          /\ UNCHANGED <<mdb, phase, staged, seeded, pc, env, dataSource>>
      BY <2>18 DEF RestoreFails, CanMove
    <3>2. ~GivenUp(mdb)
      BY <3>1 DEF GivenUp
    <3> QED BY <2>18, <3>1, <3>2 DEF RestoreFails
  <2>6. CASE BecomesReady \/ LosesReady
    <3>1. mdb \in MariaDB /\ mdb # Absent /\ \E b \in BOOLEAN : mdb' = [mdb EXCEPT !.ready = b]
      BY <2>6 DEF BecomesReady, LosesReady, TypeOK
    <3>2. /\ mdb' # Absent /\ mdb'.bootstrap = mdb.bootstrap
          /\ mdb'.progress = mdb.progress
      BY <3>1 DEF MariaDB
    <3> QED BY <2>6, <3>1, <3>2 DEF BecomesReady, LosesReady, GivenUp
  <2>7. CASE CacheCatchesUp \/ FailureAnnounced \/ Woken
    BY <2>7 DEF CacheCatchesUp, FailureAnnounced, Woken, GivenUp
  <2>8. CASE BeginSync \/ SyncFails
    BY <2>8 DEF BeginSync, SyncFails
  <2>9. CASE ReadExisting
    BY <2>9 DEF ReadExisting, Fresh
  <2>10. CASE AwaitSource \/ SourceFailed
    BY <2>10 DEF AwaitSource, SourceFailed
  <2>11. CASE SourceResolved
    BY <2>11 DEF SourceResolved
  <2>12. CASE CopyRootSecret
    <3>1. \A j \in Keys : ~sourceAlive /\ secret[j] = Absent => secret'[j] = Absent
      BY <2>12 DEF CopyRootSecret, CopySecret
    <3> QED BY <2>12, <3>1 DEF CopyRootSecret, CopySecret, Keys
  <2>13. CASE CopyUserSecret
    <3>1. \A j \in Keys : ~sourceAlive /\ secret[j] = Absent => secret'[j] = Absent
      BY <2>13 DEF CopyUserSecret, CopySecret
    <3> QED BY <2>13, <3>1 DEF CopyUserSecret, CopySecret, Keys
  <2>14. CASE ApplyMariaDB
    <3>1. /\ mdb' # Absent /\ mdb # Absent => mdb' = mdb
          /\ mdb = Absent => mdb'.progress = "none"
      BY <2>14, ApplyChangesNothing
    <3>2. mdb' # Absent
      BY <2>14, ApplyChangesNothing
    <3> QED BY <2>14, <3>1, <3>2 DEF ApplyMariaDB
  <2>15. CASE StageDataSourceStatus
    <3>1. /\ cache = mdb /\ mdb \in MariaDB /\ mdb # Absent /\ mdb.bootstrap # "none"
          /\ pc' = "status" /\ UNCHANGED <<mdb, phase, env, dataSource, restoreFailed>>
      BY <2>15 DEF StageDataSourceStatus, Fresh, BootstrapInv, TypeOK
    <3>2. DataSourceStatus(mdb) = "failed" <=> GivenUp(mdb)
      BY <3>1, FailureSeen
    <3>3. /\ staged' = IF seeded THEN "succeeded" ELSE DataSourceStatus(mdb)
          /\ seeded' = (seeded \/ DataSourceStatus(mdb) = "succeeded")
      BY <2>15, <3>1 DEF StageDataSourceStatus
    <3>4. seeded => ~GivenUp(mdb)
      BY DEF PhaseInv, Seeded, DataInPlace, GivenUp
    <3>5. seeded \in BOOLEAN
      BY DEF TypeOK
    <3>6. staged' = "succeeded" <=> seeded'
      BY <3>3, <3>5
    <3>7. staged' = "failed" <=> GivenUp(mdb)
      BY <3>2, <3>3, <3>4, <3>5
    <3>8. phase = "Failed" => GivenUp(mdb)
      BY <2>15, <3>1 DEF StageDataSourceStatus
    <3> QED BY <3>1, <3>6, <3>7, <3>8 DEF GivenUp
  <2>16. CASE ReportStatus
    <3>1. mdb # Absent /\ cache = mdb
      BY <2>16 DEF ReportStatus, BootstrapInv, Fresh
    <3>2. phase' = "Failed" => staged = "failed"
      BY <2>16, <3>1 DEF ReportStatus, Phase
    <3> QED BY <2>16, <3>1, <3>2 DEF ReportStatus
  <2>17. CASE UNCHANGED vars
    BY <2>17 DEF vars
  <2> QED
    BY <2>1, <2>2, <2>3, <2>4, <2>5, <2>6, <2>7, <2>8, <2>9, <2>10, <2>11,
       <2>12, <2>13, <2>14, <2>15, <2>16, <2>17, <2>18 DEF Next, SyncStep
<1> QED
  BY <1>1, <1>2, TypeCorrect, BootstrapKept, PhaseInvariant, PTL DEF SafetySpec

\* The creation of a seeded Instance implements the contract its owner relies
\* on: every step of the reconciles, the operator and the surroundings is a
\* step of the contract, or none that the owner notices.
THEOREM ImplementsContract == SafetySpec => SeedingPromise
<1>1. Init => Contract!Init
  BY DEF Init, Contract!Init, Seeded, Promised
<1>2. TypeOK /\ BootstrapInv /\ PhaseInv /\ PromiseInv /\ [Next]_vars
         => [Contract!Next]_(Contract!promise)
  <2> SUFFICES ASSUME TypeOK, BootstrapInv, PhaseInv, PromiseInv, [Next]_vars
               PROVE  [Contract!Next]_(Contract!promise)
    OBVIOUS
  <2>1. CASE ~Promised
    BY <2>1, PromisedFixed DEF Contract!promise
  <2>2. CASE Promised
    <3> USE <2>2, PromisedFixed, SeedingAssumption
    <3>1. Promised' /\ ~env.lag /\ dataSource # "none"
      BY DEF Promised
    <3>2. ASSUME UNCHANGED <<mdb, seeded, phase>> PROVE UNCHANGED Contract!promise
      BY <3>1, <3>2 DEF Contract!promise, Seeded
    <3>3. CASE \/ \E s \in {"pending", "succeeded", "failed"} : SourceChanges(s)
               \/ SourceDeleted \/ CacheCatchesUp \/ FailureAnnounced \/ Woken
               \/ RestoreFails \/ BeginSync \/ SyncFails
               \/ ReadExisting \/ AwaitSource \/ SourceResolved
               \/ \E k \in Keys : LeftoverCollected(k) \/ GenerateSecret(k)
               \/ UNCHANGED vars
      BY <3>2, <3>3 DEF SourceChanges, SourceDeleted, CacheCatchesUp, FailureAnnounced,
         Woken, RestoreFails, BeginSync, SyncFails, ReadExisting, AwaitSource, SourceResolved,
         LeftoverCollected, GenerateSecret, vars, spec, operator, reconcile
    <3>4. ASSUME NEW to \in Progress, Restores(to)
          PROVE  [Contract!Next]_(Contract!promise)
      <4>1. /\ mdb \in MariaDB /\ mdb # Absent /\ CanMove(mdb, to)
            /\ mdb' = [mdb EXCEPT !.progress = to]
            /\ UNCHANGED <<seeded, phase>>
        BY <3>4 DEF Restores, TypeOK, reconcile
      <4>2. mdb' # Absent /\ mdb'.progress = to
        BY <4>1 DEF MariaDB
      <4>3. ~DataInPlace(mdb) /\ ~GivenUp(mdb)
        BY <4>1, DataStays, FailureIsFinal DEF PromiseInv
      <4>4. phase # "Failed"
        BY <4>1, <4>3 DEF PromiseInv, FailedForGood
      <4> QED
        BY <3>1, <4>1, <4>2, <4>3, <4>4
           DEF Contract!Next, Contract!DataArrives, Contract!promise, Seeded
    <3>5. CASE BecomesReady \/ LosesReady
      <4>1. /\ mdb \in MariaDB /\ mdb # Absent
            /\ \E b \in BOOLEAN : mdb' = [mdb EXCEPT !.ready = b]
            /\ UNCHANGED <<seeded, phase>>
        BY <3>5 DEF BecomesReady, LosesReady, TypeOK, reconcile
      <4>2. mdb' # Absent /\ mdb'.progress = mdb.progress
        BY <4>1 DEF MariaDB
      <4> QED
        BY <3>1, <4>1, <4>2 DEF Contract!promise, Seeded, DataInPlace
    <3>6. CASE ApplyMariaDB
      <4>1. mdb' # Absent /\ UNCHANGED <<seeded, phase>>
        BY <3>6, ApplyChangesNothing DEF ApplyMariaDB, reconcile
      <4>2. /\ mdb # Absent => mdb' = mdb
            /\ mdb = Absent => mdb'.progress = "none"
        BY <3>6, ApplyChangesNothing
      <4> QED
        BY <3>1, <4>1, <4>2 DEF Contract!promise, Seeded, DataInPlace
    <3>7. CASE SourceFailed \/ CopyRootSecret \/ CopyUserSecret
      <4>1. /\ mdb = Absent /\ UNCHANGED <<mdb, seeded>>
            /\ phase' = "Failed" \/ phase' = phase
        BY <3>7 DEF SourceFailed, CopyRootSecret, CopyUserSecret, CopySecret,
           PromiseInv, operator
      <4>2. ~seeded
        BY <3>1, <4>1 DEF PhaseInv, Seeded
      <4> QED
        BY <3>1, <4>1, <4>2
           DEF Contract!Next, Contract!GiveUp, Contract!promise, Seeded
    <3>8. CASE StageDataSourceStatus
      <4>1. /\ cache = mdb /\ mdb \in MariaDB /\ mdb # Absent
            /\ mdb.bootstrap = dataSource /\ UNCHANGED <<mdb, phase>>
        BY <3>1, <3>8 DEF StageDataSourceStatus, Fresh, BootstrapInv, TypeOK, operator
      <4>2. seeded' = (seeded \/ DataSourceStatus(mdb) = "succeeded")
        BY <3>1, <3>8, <4>1 DEF StageDataSourceStatus
      <4>3. DataSourceStatus(mdb) = "succeeded" => DataInPlace(mdb)
        BY <3>1, <4>1, SuccessMeansSeeded DEF PhaseInv
      <4>4. seeded' => Seeded
        BY <3>1, <4>1, <4>2, <4>3 DEF PhaseInv, Seeded
      <4>5. CASE seeded' = seeded
        BY <3>2, <4>1, <4>5
      <4>6. CASE seeded' # seeded
        <5>1. seeded' = TRUE
          BY <4>2, <4>6 DEF TypeOK
        <5> QED
          BY <3>1, <4>1, <4>4, <5>1
             DEF Contract!Next, Contract!RecordSuccess, Seeded
      <4> QED BY <4>5, <4>6
    <3>9. CASE ReportStatus
      <4>1. /\ mdb # Absent /\ cache = mdb /\ phase' = Phase(mdb) /\ pc = "status"
            /\ UNCHANGED <<mdb, seeded>>
        BY <3>1, <3>9 DEF ReportStatus, Fresh, BootstrapInv, operator
      <4>2. /\ staged \in {"restoring", "failed", "succeeded"}
            /\ staged = "succeeded" <=> seeded
            /\ staged = "failed" => GivenUp(mdb)
            /\ phase = "Failed" => staged = "failed"
        BY <3>1, <4>1 DEF PhaseInv, PromiseInv, FailedForGood, TypeOK
      <4>3. CASE staged = "restoring"
        <5>1. phase' = "Restoring" /\ phase # "Failed" /\ ~seeded
          BY <4>1, <4>2, <4>3 DEF Phase
        <5> QED
          BY <3>1, <4>1, <5>1 DEF Contract!Next, Contract!Show, Seeded
      <4>4. CASE staged = "failed"
        <5>1. phase' = "Failed" /\ ~seeded /\ ~DataInPlace(mdb)
          BY <3>1, <4>1, <4>2, <4>4 DEF Phase, GivenUp, DataInPlace, PromiseInv
        <5> QED
          BY <3>1, <4>1, <5>1 DEF Contract!Next, Contract!GiveUp, Seeded
      <4>5. CASE staged = "succeeded"
        <5>1. phase' \in {"Provisioning", "Ready"} /\ phase # "Failed" /\ seeded
          BY <4>1, <4>2, <4>5 DEF Phase
        <5> QED
          BY <3>1, <4>1, <5>1 DEF Contract!Next, Contract!Show, Seeded
      <4> QED BY <4>2, <4>3, <4>4, <4>5
    <3> QED
      BY <3>3, <3>4, <3>5, <3>6, <3>7, <3>8, <3>9 DEF Next, SyncStep
  <2> QED BY <2>1, <2>2
<1> QED
  BY <1>1, <1>2, TypeCorrect, BootstrapKept, PhaseInvariant, PromiseInvariant, PTL
     DEF SafetySpec, SeedingPromise, Contract!Spec
=============================================================================
