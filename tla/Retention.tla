----------------------------- MODULE Retention -----------------------------
(***************************************************************************)
(* Retention of scheduled backups (deriveMaxRetention, countRetention,     *)
(* parseRetentionDuration).  The operator only prunes by age, so a count   *)
(* of copies is turned into an age from the cron cadence at the moment of  *)
(* the reconcile.  A schedule is the cycle of gaps between its runs; the   *)
(* operator runs the backups and prunes after each one.  Time is in days.  *)
(*                                                                         *)
(* Every schedule runs again and again: an expression that does not parse  *)
(* is a configuration error, and for one with no next run, of which no     *)
(* copy is ever made, the code takes an interval of a day.                 *)
(***************************************************************************)
EXTENDS Integers, Sequences, FiniteSets

CONSTANTS
    Crons,       \* schedules, each a sequence of gaps between its runs
    Rules,       \* values of schedule.retention
    KeepAll,     \* keepAllRetention, 100 years
    Longest,     \* the longest time.Duration, 2^63 ns in whole days
    MaxRuns,     \* bound: runs of a schedule that are looked at
    MaxMissed    \* bound: runs that fail to produce a copy

\* n is the count of copies or of units; no retention at all is type "none".
Rule == [type : {"none", "count", "time"}, n : Nat, unit : {"d", "w", "m"}]

ASSUME RetentionAssumption ==
    /\ \A c \in Crons : c \in Seq(Nat \ {0}) /\ Len(c) > 0
    /\ \A r \in Rules : r \in Rule /\ (r.type = "time" => r.n > 0)
    /\ KeepAll \in Nat /\ Longest \in Nat \ {0}
    /\ MaxRuns \in Nat /\ MaxMissed \in Nat

VARIABLES
    cron,        \* the schedule
    rule,        \* its retention
    slot,        \* the next run is the one before gap cron[slot]
    retention,   \* maxRetention of the operator resource
    taken,       \* ages of the copies made so far, at the last run
    stored,      \* those that are on the storage
    missed       \* runs that failed so far

vars == <<cron, rule, slot, retention, taken, stored, missed>>

schedule == <<cron, rule>>

NextSlot(i, n) == (i % n) + 1

PreviousSlot(i, n) == ((i + n - 2) % n) + 1

\* int64 arithmetic: what does not fit comes out negative, or too short.
Duration(d) == ((d + Longest) % (2 * Longest)) - Longest

Unit(u) == CASE u = "d" -> 1 [] u = "w" -> 7 [] u = "m" -> 30

ParseRetentionDuration(r) == Duration(r.n * Unit(r.unit))

\* variant: no interval of slack
CountRetentionExact(copies, interval) ==
    IF copies = 0 THEN KeepAll ELSE Duration(interval * copies)

\* variant: the slack of a fresh copy is counted twice
CountRetentionTwoMore(copies, interval) ==
    IF copies = 0 THEN KeepAll ELSE Duration(interval * (copies + 1) + interval)

\* The copies plus one interval of slack.
CountRetention(copies, interval) ==
    IF copies = 0 THEN KeepAll ELSE Duration(interval * copies + interval)

\* variant: the interval is the time until the next run
DeriveMaxRetentionFromNow(i, left) ==
    CASE rule.type = "none" -> KeepAll
      [] rule.type = "count" -> CountRetention(rule.n, left)
      [] rule.type = "time" -> ParseRetentionDuration(rule)

\* With the next run, the one of slot i, still "left" days away: the interval
\* is the gap that follows that run.
DeriveMaxRetention(i, left) ==
    CASE rule.type = "none" -> KeepAll
      [] rule.type = "count" -> CountRetention(rule.n, cron[i])
      [] rule.type = "time" -> ParseRetentionDuration(rule)

Gap(i) == cron[PreviousSlot(i, Len(cron))]

Init ==
    /\ cron \in Crons /\ rule \in Rules
    /\ slot \in DOMAIN cron
    /\ retention \in {DeriveMaxRetention(slot, left) : left \in 1..Gap(slot)}
    /\ taken = {} /\ stored = {} /\ missed = 0

\* An age that differs is a new operator Backup (reconcileScheduledBackup), one
\* that does not changes nothing.
Reconcile ==
    /\ retention' \in {DeriveMaxRetention(slot, left) : left \in 1..Gap(slot)}
    /\ UNCHANGED <<schedule, slot, taken, stored, missed>>

Aged(ages) == {age + Gap(slot) : age \in ages}

Advance ==
    /\ Cardinality(taken) + missed < MaxRuns
    /\ slot' = NextSlot(slot, Len(cron))

\* A run stores a copy and removes those that reached the maximal age.
RunBackup ==
    /\ Advance
    /\ taken' = {0} \cup Aged(taken)
    /\ stored' = {0} \cup {age \in Aged(stored) : age < retention}
    /\ UNCHANGED <<schedule, retention, missed>>

\* A run fails: no copy is made, none is removed.
MissedRun ==
    /\ missed < MaxMissed
    /\ Advance
    /\ taken' = Aged(taken) /\ stored' = Aged(stored)
    /\ missed' = missed + 1
    /\ UNCHANGED <<schedule, retention>>

Next == Reconcile \/ RunBackup \/ MissedRun

Spec == Init /\ [][Next]_vars

Least(a, b) == IF a < b THEN a ELSE b

\* The age the owner's words amount to is one a time.Duration can hold.
Fits ==
    CASE rule.type = "none" -> TRUE
      [] rule.type = "count" -> \A i \in DOMAIN cron : cron[i] * (rule.n + 1) < Longest
      [] rule.type = "time" -> rule.n * Unit(rule.unit) < Longest

KeepsAll == rule.type = "none" \/ (rule.type = "count" /\ rule.n = 0)

\* What the owner asked to keep is there: once that number of copies was made,
\* as many ("a fresh backup is never pruned before its predecessor count is
\* met"); every copy younger than the time; with no retention, all.
EnoughCopies ==
    Fits =>
        /\ KeepsAll => stored = taken
        /\ rule.type = "count" =>
               Cardinality(stored) >= Least(rule.n, Cardinality(taken))
        /\ rule.type = "time" =>
               {age \in taken : age < rule.n * Unit(rule.unit)} \subseteq stored

\* The slack costs one copy, however many runs there are and whichever of them
\* fail: of a count there is never more than one more on the storage, and once
\* a copy was made, none that is past the time.
NoHoard ==
    Fits =>
        /\ rule.type = "count" /\ rule.n # 0 => Cardinality(stored) <= rule.n + 1
        /\ rule.type = "time" /\ 0 \in stored =>
               \A age \in stored : age < rule.n * Unit(rule.unit)

\* The age of a schedule nobody edits does not depend on when the reconcile
\* happens to run: a change would delete the operator Backup, with its run
\* history and a run under way.
SteadyAge == [][FALSE]_retention
=============================================================================
