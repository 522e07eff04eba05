--------------------------- MODULE RetentionProofs ---------------------------
(***************************************************************************)
(* What deriveMaxRetention promises for every regular schedule, every      *)
(* retention and any number of runs: the age is steady, and it keeps what  *)
(* was asked for although one run fails.                                   *)
(***************************************************************************)
EXTENDS Retention, FiniteSetTheorems, TLAPS

\* Every gap of a schedule is the same, at most one run fails, and what is
\* looked at is younger than keepAllRetention.
RegularSchedules ==
    /\ \A c \in Crons : \A i, j \in DOMAIN c : c[i] = c[j]
    /\ \A c \in Crons : c[1] * MaxRuns <= KeepAll
    /\ MaxMissed <= 1

\* The gap between any two runs.
Cadence == cron[1]

\* The age deriveMaxRetention comes to, if it fits.
Wanted ==
    CASE rule.type = "none" -> KeepAll
      [] rule.type = "count" /\ rule.n = 0 -> KeepAll
      [] rule.type = "count" /\ rule.n # 0 -> Cadence * rule.n + Cadence
      [] rule.type = "time" -> rule.n * Unit(rule.unit)

-----------------------------------------------------------------------------
(* Arithmetic. *)

LEMMA NextInCycle ==
    ASSUME NEW n \in Nat \ {0}, NEW i \in 1..n
    PROVE  NextSlot(i, n) \in 1..n /\ PreviousSlot(i, n) \in 1..n
  BY DEF NextSlot, PreviousSlot

LEMMA DurationFits ==
    ASSUME NEW d \in Nat, d < Longest PROVE Duration(d) = d
  BY RetentionAssumption DEF Duration

LEMMA SlotOrder ==
    ASSUME NEW g \in Nat \ {0}, NEW i \in Nat, NEW j \in Nat, g * i >= g * j
    PROVE  i >= j
  OBVIOUS

\* A set with the ages g * i of k runs but one has k - 1 elements.
LEMMA EnoughSlots ==
    ASSUME NEW g \in Nat \ {0}, NEW k \in Nat, NEW h \in Nat,
           NEW S, IsFiniteSet(S),
           \A i \in 0..(k-1) : i # h => g * i \in S
    PROVE  /\ Cardinality(S) \in Nat /\ Cardinality(S) >= k - 1
           /\ h >= k => Cardinality(S) >= k
<1> DEFINE D == (0..(k-1)) \ {h}
<1> DEFINE f == [i \in D |-> g * i]
<1>1. IsFiniteSet(0..(k-1)) /\ Cardinality(0..(k-1)) = k
  BY FS_Interval
<1>2. Cardinality(D) = IF h \in 0..(k-1) THEN k - 1 ELSE k
  BY <1>1, FS_RemoveElement
<1>3. f \in Injection(D, S)
  <2>1. f \in [D -> S]
    OBVIOUS
  <2>2. \A a, b \in D : f[a] = f[b] => a = b
    <3> SUFFICES ASSUME NEW a \in D, NEW b \in D, g * a = g * b PROVE a = b
      OBVIOUS
    <3>1. a \in Nat /\ b \in Nat
      OBVIOUS
    <3>2. a >= b /\ b >= a
      BY <3>1, SlotOrder
    <3> QED BY <3>1, <3>2
  <2> QED BY <2>1, <2>2 DEF Injection, IsInjective
<1>4. Cardinality(D) <= Cardinality(S)
  BY <1>3, FS_Injection
<1>5. Cardinality(S) \in Nat
  BY FS_CardinalityType
<1> QED BY <1>2, <1>4, <1>5

-----------------------------------------------------------------------------
(* The age does not change. *)

CycleInv ==
    /\ cron \in Crons /\ rule \in Rules /\ slot \in DOMAIN cron
    /\ \A i \in DOMAIN cron, left \in Nat : retention = DeriveMaxRetention(i, left)

LEMMA Cycle ==
    ASSUME RegularSchedules, cron \in Crons
    PROVE  /\ Cadence \in Nat \ {0}
           /\ 1 \in DOMAIN cron
           /\ \A i \in DOMAIN cron : cron[i] = Cadence
           /\ \A i \in DOMAIN cron :
                  /\ NextSlot(i, Len(cron)) \in DOMAIN cron
                  /\ Gap(i) = Cadence
           /\ Cadence * MaxRuns <= KeepAll
<1>1. /\ cron \in Seq(Nat \ {0}) /\ Len(cron) \in Nat \ {0}
      /\ DOMAIN cron = 1..Len(cron)
  BY RetentionAssumption
<1>2. 1 \in DOMAIN cron
  BY <1>1
<1>3. Cadence \in Nat \ {0} /\ \A i \in DOMAIN cron : cron[i] = Cadence
  BY <1>1, <1>2 DEF RegularSchedules, Cadence
<1>4. \A i \in DOMAIN cron : /\ NextSlot(i, Len(cron)) \in DOMAIN cron
                             /\ PreviousSlot(i, Len(cron)) \in DOMAIN cron
  BY <1>1, NextInCycle
<1> QED
  BY <1>2, <1>3, <1>4 DEF Gap, RegularSchedules, Cadence

LEMMA AgeIsInt ==
    ASSUME RegularSchedules, cron \in Crons, rule \in Rules,
           NEW i \in DOMAIN cron, NEW left
    PROVE  DeriveMaxRetention(i, left) \in Int
<1>1. rule \in Rule /\ KeepAll \in Int /\ Longest \in Nat \ {0}
  BY RetentionAssumption
<1>2. \A d \in Int : Duration(d) \in Int
  BY <1>1 DEF Duration
<1>3. rule.n \in Nat /\ rule.type \in {"none", "count", "time"} /\ Unit(rule.unit) \in Nat
  BY <1>1 DEF Rule, Unit
<1>4. cron[i] \in Nat
  BY Cycle
<1>5. cron[i] * rule.n + cron[i] \in Int /\ rule.n * Unit(rule.unit) \in Int
  BY <1>3, <1>4
<1> QED
  BY <1>1, <1>2, <1>3, <1>5
     DEF DeriveMaxRetention, CountRetention, ParseRetentionDuration

\* With one gap, the age does not depend on where in the cycle it is derived.
LEMMA SameAge ==
    ASSUME RegularSchedules, cron \in Crons,
           NEW i \in DOMAIN cron, NEW j \in DOMAIN cron, NEW l, NEW m
    PROVE  DeriveMaxRetention(i, l) = DeriveMaxRetention(j, m)
  BY Cycle DEF DeriveMaxRetention

LEMMA CycleStep ==
    ASSUME RegularSchedules, CycleInv, [Next]_vars
    PROVE  CycleInv' /\ UNCHANGED <<schedule, retention>>
<1>1. UNCHANGED schedule
  BY DEF Next, Reconcile, RunBackup, MissedRun, vars, schedule
<1>2. slot' \in DOMAIN cron
  BY Cycle DEF CycleInv, Next, Reconcile, RunBackup, MissedRun, Advance, vars
<1>3. retention' = retention
  <2>1. CASE Reconcile
    <3>1. PICK left \in 1..Gap(slot) : retention' = DeriveMaxRetention(slot, left)
      BY <2>1 DEF Reconcile
    <3>2. left \in Nat
      BY Cycle DEF CycleInv
    <3> QED BY <3>1, <3>2 DEF CycleInv
  <2> QED BY <2>1 DEF Next, RunBackup, MissedRun, vars
<1>4. \A i \in DOMAIN cron', left \in Nat :
         DeriveMaxRetention(i, left)' = DeriveMaxRetention(i, left)
  BY <1>1 DEF schedule, DeriveMaxRetention, CountRetention, ParseRetentionDuration
<1> QED BY <1>1, <1>2, <1>3, <1>4 DEF CycleInv, schedule

LEMMA CycleInit == ASSUME RegularSchedules, Init PROVE CycleInv
<1>1. cron \in Crons /\ rule \in Rules /\ slot \in DOMAIN cron
  BY DEF Init
<1>2. PICK left \in 1..Gap(slot) : retention = DeriveMaxRetention(slot, left)
  BY DEF Init
<1> QED BY <1>1, <1>2, SameAge DEF CycleInv

\* Whenever a reconcile happens to derive the age, it is the one the operator
\* Backup has: a regular schedule never loses its Backup to its retention.
THEOREM AgeIsSteady == ASSUME RegularSchedules PROVE Spec => SteadyAge
<1>1. CycleInv /\ [Next]_vars => [FALSE]_retention
  BY CycleStep
<1>2. Init => CycleInv
  BY CycleInit
<1>3. CycleInv /\ [Next]_vars => CycleInv'
  BY CycleStep
<1> QED BY <1>1, <1>2, <1>3, PTL DEF Spec, SteadyAge

-----------------------------------------------------------------------------
(* What was asked for is kept. *)

\* The runs so far are k, the age of the i-th last one is i times the cadence,
\* and all but the h-th last have made a copy.
Slotted(k, h) ==
    /\ \A a \in taken : \E i \in 0..(k-1) : a = Cadence * i
    /\ \A i \in 0..(k-1) : i # h => Cadence * i \in taken
    /\ missed = 0 => h >= k

\* The runs are within the bound, and what is older than the age the operator
\* was given is all that may be missing on the storage.
KeptInv ==
    /\ CycleInv
    /\ missed \in 0..1
    /\ \E k \in 0..MaxRuns, h \in Nat : Slotted(k, h)
    /\ stored \subseteq taken
    /\ \A a \in taken : a < retention => a \in stored

LEMMA TakenIsFinite ==
    ASSUME RegularSchedules, CycleInv, NEW k \in Nat, NEW h \in Nat, Slotted(k, h)
    PROVE  IsFiniteSet(taken) /\ taken \subseteq Nat /\ \A a \in taken : a <= Cadence * k
<1>1. Cadence \in Nat \ {0}
  BY Cycle DEF CycleInv
<1>2. \A i \in 0..(k-1) : Cadence * i \in Nat /\ Cadence * i <= Cadence * k
  BY <1>1
<1>3. taken \subseteq Nat /\ \A a \in taken : a <= Cadence * k
  BY <1>2 DEF Slotted
<1>4. Cadence * k \in Nat
  BY <1>1
<1> QED BY <1>3, <1>4, FS_BoundedSetOfNaturals

LEMMA RunsAreCounted ==
    ASSUME RegularSchedules, CycleInv, missed \in 0..1,
           NEW k \in Nat, NEW h \in Nat, Slotted(k, h), Advance
    PROVE  k + 1 \in 0..MaxRuns
<1>1. Cadence \in Nat \ {0}
  BY Cycle DEF CycleInv
<1>2. /\ Cardinality(taken) \in Nat /\ Cardinality(taken) >= k - 1
      /\ h >= k => Cardinality(taken) >= k
  BY <1>1, TakenIsFinite, EnoughSlots DEF Slotted
<1>3. Cardinality(taken) + missed >= k
  BY <1>2 DEF Slotted
<1> QED BY <1>2, <1>3, RetentionAssumption DEF Advance

\* One more run: everything is a cadence older.
LEMMA OneSlotMore ==
    ASSUME RegularSchedules, KeptInv, NEW k \in Nat, NEW h \in Nat, Slotted(k, h)
    PROVE  /\ RunBackup => Slotted(k + 1, h + 1)'
           /\ MissedRun => Slotted(k + 1, 0)'
<1>1. Cadence \in Nat \ {0} /\ Gap(slot) = Cadence
  BY Cycle DEF KeptInv, CycleInv
<1>2. (RunBackup \/ MissedRun) => Cadence' = Cadence
  BY DEF RunBackup, MissedRun, schedule, Cadence
<1>3. \A a \in Aged(taken) : \E i \in 1..k : a = Cadence * i
  <2> SUFFICES ASSUME NEW b \in taken PROVE \E i \in 1..k : b + Cadence = Cadence * i
    BY <1>1 DEF Aged
  <2>1. PICK i \in 0..(k-1) : b = Cadence * i
    BY DEF Slotted
  <2>2. i + 1 \in 1..k /\ b + Cadence = Cadence * (i + 1)
    BY <1>1, <2>1
  <2> QED BY <2>2
<1>4. \A i \in 1..k : i # h + 1 => Cadence * i \in Aged(taken)
  <2> SUFFICES ASSUME NEW i \in 1..k, i # h + 1 PROVE Cadence * i \in Aged(taken)
    OBVIOUS
  <2>1. Cadence * (i - 1) \in taken
    BY DEF Slotted
  <2>2. Cadence * (i - 1) + Cadence = Cadence * i
    BY <1>1
  <2> QED BY <1>1, <2>1, <2>2 DEF Aged
<1>5. Cadence * 0 = 0
  BY <1>1
<1>6. ASSUME RunBackup PROVE Slotted(k + 1, h + 1)'
  <2>1. taken' = {0} \cup Aged(taken) /\ missed' = missed
    BY <1>6 DEF RunBackup
  <2>2. \A a \in taken' : \E i \in 0..k : a = Cadence * i
    BY <1>3, <1>5, <2>1
  <2>3. \A i \in 0..k : i # h + 1 => Cadence * i \in taken'
    BY <1>4, <1>5, <2>1
  <2> QED BY <1>2, <1>6, <2>1, <2>2, <2>3 DEF Slotted
<1>7. ASSUME MissedRun PROVE Slotted(k + 1, 0)'
  <2>1. taken' = Aged(taken) /\ missed' = missed + 1 /\ missed = 0
    BY <1>7, RetentionAssumption DEF MissedRun, RegularSchedules, KeptInv
  <2>2. \A a \in taken' : \E i \in 0..k : a = Cadence * i
    BY <1>3, <2>1
  <2>3. \A i \in 0..k : i # 0 => Cadence * i \in taken'
    BY <1>4, <2>1 DEF Slotted
  <2> QED BY <1>2, <1>7, <2>1, <2>2, <2>3 DEF Slotted
<1> QED BY <1>6, <1>7

LEMMA KeptStep ==
    ASSUME RegularSchedules, KeptInv, [Next]_vars
    PROVE  KeptInv'
<1> PICK k \in 0..MaxRuns, h \in Nat : Slotted(k, h)
  BY DEF KeptInv
<1>1. CycleInv' /\ retention' = retention /\ UNCHANGED schedule
  BY CycleStep DEF KeptInv
<1>2. Cadence \in Nat \ {0} /\ Gap(slot) = Cadence
  BY Cycle DEF KeptInv, CycleInv
<1>3. taken \subseteq Nat /\ k \in Nat
  BY TakenIsFinite, RetentionAssumption DEF KeptInv
<1>7. retention \in Int
  BY Cycle, AgeIsInt DEF KeptInv, CycleInv
<1>4. CASE RunBackup
  <2>1. Slotted(k + 1, h + 1)' /\ k + 1 \in 0..MaxRuns
    BY <1>3, <1>4, OneSlotMore, RunsAreCounted DEF RunBackup, KeptInv
  <2>2. stored' \subseteq taken'
    BY <1>4 DEF RunBackup, KeptInv, Aged
  <2>3. \A a \in taken' : a < retention => a \in stored'
    <3> SUFFICES ASSUME NEW b \in taken, b + Cadence < retention PROVE b + Cadence \in stored'
      BY <1>2, <1>4 DEF RunBackup, Aged
    <3>1. b < retention /\ b \in stored
      BY <1>2, <1>3, <1>7 DEF KeptInv
    <3>2. b + Cadence \in Aged(stored)
      BY <1>2, <3>1 DEF Aged, KeptInv
    <3> QED BY <1>4, <3>2 DEF RunBackup
  <2> QED BY <1>1, <1>4, <2>1, <2>2, <2>3 DEF KeptInv, RunBackup
<1>5. CASE MissedRun
  <2>1. Slotted(k + 1, 0)' /\ k + 1 \in 0..MaxRuns
    BY <1>3, <1>5, OneSlotMore, RunsAreCounted DEF MissedRun, KeptInv
  <2>2. stored' \subseteq taken' /\ missed' \in 0..1
    BY <1>5, RetentionAssumption DEF MissedRun, KeptInv, Aged, RegularSchedules
  <2>3. \A a \in taken' : a < retention => a \in stored'
    <3> SUFFICES ASSUME NEW b \in taken, b + Cadence < retention PROVE b + Cadence \in stored'
      BY <1>2, <1>5 DEF MissedRun, Aged
    <3>1. b < retention /\ b \in stored
      BY <1>2, <1>3, <1>7 DEF KeptInv
    <3> QED BY <1>2, <1>5, <3>1 DEF MissedRun, Aged
  <2> QED BY <1>1, <2>1, <2>2, <2>3 DEF KeptInv
<1>6. CASE UNCHANGED <<taken, stored, missed>>
  <2>1. Slotted(k, h)'
    BY <1>1, <1>6 DEF Slotted, Cadence, schedule
  <2> QED BY <1>1, <1>6, <2>1 DEF KeptInv
<1> QED
  BY <1>4, <1>5, <1>6 DEF Next, Reconcile, vars

\* An age that fits is the one that was asked for.
LEMMA AgeIsWanted ==
    ASSUME RegularSchedules, CycleInv, Fits PROVE retention = Wanted
<1>1. 1 \in DOMAIN cron /\ Cadence \in Nat \ {0} /\ cron[1] = Cadence
  BY Cycle DEF CycleInv
<1>2. retention = DeriveMaxRetention(1, 0)
  BY <1>1 DEF CycleInv
<1>3. rule \in Rule
  BY RetentionAssumption DEF CycleInv
<1>4. CASE rule.type = "none"
  BY <1>2, <1>4 DEF DeriveMaxRetention, Wanted
<1>5. CASE rule.type = "count"
  <2>1. rule.n \in Nat
    BY <1>3 DEF Rule
  <2>2. Cadence * (rule.n + 1) < Longest
    BY <1>1, <1>5 DEF Fits
  <2>3. Cadence * (rule.n + 1) = Cadence * rule.n + Cadence
    BY <1>1, <2>1
  <2>4. Duration(Cadence * rule.n + Cadence) = Cadence * rule.n + Cadence
    BY <1>1, <2>1, <2>2, <2>3, DurationFits
  <2>5. retention = CountRetention(rule.n, Cadence)
    BY <1>1, <1>2, <1>5 DEF DeriveMaxRetention
  <2> QED BY <1>5, <2>4, <2>5 DEF CountRetention, Wanted
<1>6. CASE rule.type = "time"
  <2>1. rule.n * Unit(rule.unit) \in Nat
    <3>1. rule.n \in Nat /\ Unit(rule.unit) \in Nat
      BY <1>3 DEF Rule, Unit
    <3> QED BY <3>1
  <2>2. rule.n * Unit(rule.unit) < Longest
    BY <1>6 DEF Fits
  <2>3. retention = Duration(rule.n * Unit(rule.unit))
    BY <1>2, <1>6 DEF DeriveMaxRetention, ParseRetentionDuration
  <2> QED BY <1>6, <2>1, <2>2, <2>3, DurationFits DEF Wanted
<1> QED BY <1>3, <1>4, <1>5, <1>6 DEF Rule

LEMMA KeptIsEnough ==
    ASSUME RegularSchedules, KeptInv PROVE EnoughCopies
<1> SUFFICES ASSUME Fits PROVE
        /\ KeepsAll => stored = taken
        /\ rule.type = "count" =>
               Cardinality(stored) >= Least(rule.n, Cardinality(taken))
        /\ rule.type = "time" =>
               {age \in taken : age < rule.n * Unit(rule.unit)} \subseteq stored
  BY DEF EnoughCopies
<1> PICK k \in 0..MaxRuns, h \in Nat : Slotted(k, h)
  BY DEF KeptInv
<1>1. CycleInv /\ k \in Nat /\ Cadence \in Nat \ {0}
  BY Cycle, RetentionAssumption DEF KeptInv, CycleInv
<1>2. retention = Wanted
  BY <1>1, AgeIsWanted
<1>3. IsFiniteSet(taken) /\ taken \subseteq Nat
  BY <1>1, TakenIsFinite
<1>4. rule \in Rule /\ rule.n \in Nat
  BY <1>1, RetentionAssumption DEF CycleInv, Rule
<1>5. KeepsAll => stored = taken
  <2> SUFFICES ASSUME KeepsAll PROVE \A a \in taken : a < retention
    BY DEF KeptInv
  <2>1. retention = KeepAll
    BY <1>2 DEF KeepsAll, Wanted
  <2>2. \A i \in 0..(k-1) : Cadence * i < Cadence * MaxRuns
    BY <1>1, RetentionAssumption
  <2>3. Cadence * MaxRuns <= KeepAll /\ Cadence * MaxRuns \in Nat /\ KeepAll \in Nat
    BY <1>1, Cycle, RetentionAssumption DEF CycleInv
  <2>4. \A i \in 0..(k-1) : Cadence * i \in Nat
    BY <1>1
  <2> QED BY <2>1, <2>2, <2>3, <2>4 DEF Slotted
<1>6. ASSUME rule.type = "count"
      PROVE  Cardinality(stored) >= Least(rule.n, Cardinality(taken))
  <2>1. Cardinality(taken) \in Nat /\ IsFiniteSet(stored) /\ Cardinality(stored) \in Nat
    BY <1>3, FS_CardinalityType, FS_Subset DEF KeptInv
  <2>2. CASE stored = taken
    BY <1>4, <2>1, <2>2 DEF Least
  <2>3. CASE stored # taken
    <3>1. rule.n # 0 /\ retention = Cadence * rule.n + Cadence
      BY <1>2, <1>5, <1>6, <2>3 DEF KeepsAll, Wanted
    <3>2. PICK a \in taken : ~(a < retention)
      BY <2>3 DEF KeptInv
    <3>3. PICK i \in 0..(k-1) : a = Cadence * i
      BY DEF Slotted
    <3>4. Cadence * i >= Cadence * (rule.n + 1)
      BY <1>1, <1>4, <3>1, <3>2, <3>3
    <3>5. i >= rule.n + 1
      BY <1>1, <1>4, <3>4, SlotOrder
    <3>6. \A j \in 0..rule.n : j # h => Cadence * j \in stored
      <4> SUFFICES ASSUME NEW j \in 0..rule.n, j # h PROVE Cadence * j \in stored
        OBVIOUS
      <4>1. Cadence * j \in taken
        BY <1>1, <1>4, <3>5 DEF Slotted
      <4>2. Cadence * j < Cadence * rule.n + Cadence
        BY <1>1, <1>4
      <4> QED BY <3>1, <4>1, <4>2 DEF KeptInv
    <3>7. Cardinality(stored) >= rule.n
      <4> DEFINE copies == rule.n + 1
      <4>1. copies - 1 = rule.n /\ copies \in Nat
        BY <1>4
      <4>2. \A j \in 0..(copies - 1) : j # h => Cadence * j \in stored
        BY <3>6, <4>1
      <4> HIDE DEF copies
      <4>3. Cardinality(stored) >= copies - 1
        BY <1>1, <2>1, <4>1, <4>2, EnoughSlots
      <4> QED BY <4>1, <4>3
    <3> QED BY <1>4, <2>1, <3>7 DEF Least
  <2> QED BY <2>2, <2>3
<1>7. ASSUME rule.type = "time"
      PROVE  {age \in taken : age < rule.n * Unit(rule.unit)} \subseteq stored
  BY <1>2, <1>7 DEF Wanted, KeptInv
<1> QED BY <1>5, <1>6, <1>7

LEMMA CopiesKeptInv == ASSUME RegularSchedules PROVE Spec => []KeptInv
<1>1. Init => KeptInv
  <2> SUFFICES ASSUME Init PROVE KeptInv
    OBVIOUS
  <2>1. Slotted(0, 0)
    BY DEF Init, Slotted
  <2> QED BY <2>1, CycleInit, RetentionAssumption DEF Init, KeptInv
<1>2. KeptInv /\ [Next]_vars => KeptInv'
  BY KeptStep
<1> QED BY <1>1, <1>2, PTL DEF Spec

\* Any regular schedule keeps what its owner asked for, of any cadence and with
\* any retention an age can express: as many copies, those of the time, or all.
THEOREM CopiesAreKept == ASSUME RegularSchedules PROVE Spec => []EnoughCopies
<1>1. KeptInv => EnoughCopies
  BY KeptIsEnough
<1> QED BY <1>1, CopiesKeptInv, PTL

-----------------------------------------------------------------------------
(* No more is kept than the slack costs. *)

\* A set with ages of the last n + 1 runs alone has no more than n + 1 elements.
LEMMA FewSlots ==
    ASSUME NEW g \in Nat, NEW n \in Nat, NEW S,
           \A a \in S : \E i \in 0..n : a = g * i
    PROVE  IsFiniteSet(S) /\ Cardinality(S) \in Nat /\ Cardinality(S) <= n + 1
<1> DEFINE T == {g * i : i \in 0..n}
<1> DEFINE f == [i \in 0..n |-> g * i]
<1>1. IsFiniteSet(0..n) /\ Cardinality(0..n) = n + 1
  BY FS_Interval
<1>2. f \in Surjection(0..n, T)
  BY DEF Surjection
<1>3. IsFiniteSet(T) /\ Cardinality(T) <= n + 1
  BY <1>1, <1>2, FS_Surjection
<1>4. S \in SUBSET T
  OBVIOUS
<1>5. Cardinality(T) \in Nat
  BY <1>3, FS_CardinalityType
<1>6. IsFiniteSet(S) /\ Cardinality(S) <= Cardinality(T)
  BY <1>3, <1>4, FS_Subset
<1>7. Cardinality(S) \in Nat
  BY <1>6, FS_CardinalityType
<1> QED BY <1>3, <1>5, <1>6, <1>7

\* As time passes there are no more copies.
LEMMA FewAged ==
    ASSUME NEW S, IsFiniteSet(S), NEW g
    PROVE  LET T == {a + g : a \in S}
           IN  /\ IsFiniteSet(T) /\ Cardinality(T) <= Cardinality(S)
               /\ Cardinality(T) \in Nat /\ Cardinality(S) \in Nat
<1> DEFINE T == {a + g : a \in S}
<1> DEFINE f == [a \in S |-> a + g]
<1>1. f \in Surjection(S, T)
  BY DEF Surjection
<1>2. IsFiniteSet(T) /\ Cardinality(T) <= Cardinality(S)
  BY <1>1, FS_Surjection
<1>3. Cardinality(T) \in Nat /\ Cardinality(S) \in Nat
  BY <1>2, FS_CardinalityType
<1> QED BY <1>2, <1>3

\* KeptInv puts the copies a cadence apart; the age then bounds their number.
LEMMA HoardStep ==
    ASSUME RegularSchedules, KeptInv, NoHoard, [Next]_vars PROVE NoHoard'
<1> PICK k \in 0..MaxRuns, h \in Nat : Slotted(k, h)
  BY DEF KeptInv
<1>1. CycleInv /\ k \in Nat /\ Cadence \in Nat \ {0} /\ Gap(slot) = Cadence
  BY Cycle, RetentionAssumption DEF KeptInv, CycleInv
<1>2. /\ UNCHANGED schedule /\ (Fits' <=> Fits)
      /\ \A u : Unit(u)' = Unit(u)
  BY <1>1, CycleStep DEF Fits, schedule, Unit
<1>3. IsFiniteSet(stored) /\ stored \subseteq Nat
  BY <1>1, TakenIsFinite, FS_Subset DEF KeptInv
<1>4. rule \in Rule /\ rule.n \in Nat
  BY <1>1, RetentionAssumption DEF CycleInv, Rule
<1> SUFFICES ASSUME Fits
             PROVE  /\ rule.type = "count" /\ rule.n # 0 =>
                           Cardinality(stored') <= rule.n + 1
                    /\ rule.type = "time" /\ 0 \in stored' =>
                           \A age \in stored' : age < rule.n * Unit(rule.unit)
  BY <1>2 DEF NoHoard, schedule
<1>5. retention = Wanted
  BY <1>1, AgeIsWanted
<1>6. Aged(stored) = {a + Cadence : a \in stored}
  BY <1>1 DEF Aged
<1>7. \A a \in Aged(stored) : a \in Nat /\ a # 0
  BY <1>1, <1>3, <1>6
<1>8. CASE RunBackup
  <2>1. stored' = {0} \cup {age \in Aged(stored) : age < retention}
    BY <1>8 DEF RunBackup
  <2>2. ASSUME rule.type = "count", rule.n # 0
        PROVE  Cardinality(stored') <= rule.n + 1
    <3>1. retention = Cadence * (rule.n + 1)
      BY <1>1, <1>4, <1>5, <2>2 DEF Wanted
    <3>2. ASSUME NEW a \in Aged(stored), a < retention
          PROVE  \E i \in 0..rule.n : a = Cadence * i
      <4>1. PICK b \in stored : a = b + Cadence
        BY <1>6, <3>2
      <4>2. PICK j \in 0..(k-1) : b = Cadence * j
        BY <4>1 DEF KeptInv, Slotted
      <4>3. a = Cadence * (j + 1) /\ j + 1 \in Nat
        BY <1>1, <4>1, <4>2
      <4>4. ~(j + 1 >= rule.n + 1)
        <5> SUFFICES ASSUME j >= rule.n PROVE FALSE
          BY <1>4, <4>3
        <5>1. Cadence * (j + 1) >= Cadence * (rule.n + 1)
          BY <1>1, <1>4, <4>3
        <5> QED BY <1>1, <1>4, <3>1, <3>2, <4>3, <5>1
      <4>5. j + 1 \in 0..rule.n
        BY <1>4, <4>3, <4>4
      <4> QED BY <4>3, <4>5
    <3>3. 0 \in 0..rule.n /\ 0 = Cadence * 0
      BY <1>1, <1>4
    <3>4. \A a \in stored' : \E i \in 0..rule.n : a = Cadence * i
      BY <2>1, <3>2, <3>3
    <3> QED BY <1>1, <1>4, <3>4, FewSlots
  <2>3. ASSUME rule.type = "time"
        PROVE  \A age \in stored' : age < rule.n * Unit(rule.unit)
    <3>1. retention = rule.n * Unit(rule.unit)
      BY <1>5, <2>3 DEF Wanted
    <3>2. rule.n > 0
      BY <1>1, <2>3, RetentionAssumption DEF CycleInv
    <3>3. Unit(rule.unit) \in Nat \ {0}
      BY <1>4 DEF Rule, Unit
    <3>4. 0 < rule.n * Unit(rule.unit)
      BY <1>4, <3>2, <3>3
    <3> QED BY <2>1, <3>1, <3>4
  <2> QED BY <2>2, <2>3
<1>9. CASE MissedRun
  <2>1. stored' = Aged(stored)
    BY <1>9 DEF MissedRun
  <2>2. /\ Cardinality(stored') <= Cardinality(stored)
        /\ Cardinality(stored') \in Nat /\ Cardinality(stored) \in Nat
    BY <1>3, <1>6, <2>1, FewAged
  <2>3. 0 \notin stored'
    BY <1>7, <2>1
  <2> QED BY <1>4, <2>2, <2>3 DEF NoHoard
<1>10. CASE UNCHANGED stored
  BY <1>10 DEF NoHoard
<1> QED
  BY <1>8, <1>9, <1>10 DEF Next, Reconcile, vars

\* However many runs there are and whichever fails, a regular schedule with a
\* count has one copy more than that on the storage at most, and one with a
\* time none that is past it once a run made a copy.
THEOREM CopiesArePruned == ASSUME RegularSchedules PROVE Spec => []NoHoard
<1>1. Init => NoHoard
  <2> SUFFICES ASSUME Init PROVE NoHoard
    OBVIOUS
  <2>1. Cardinality(stored) = 0 /\ stored = {}
    BY FS_EmptySet DEF Init
  <2>2. rule.n \in Nat
    BY RetentionAssumption DEF Init, Rule
  <2> QED BY <2>1, <2>2 DEF NoHoard
<1>2. KeptInv /\ NoHoard /\ [Next]_vars => NoHoard'
  BY HoardStep
<1> QED BY <1>1, <1>2, CopiesKeptInv, PTL DEF Spec
=============================================================================
