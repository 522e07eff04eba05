---------------------------- MODULE MCRetention ----------------------------
(* Schedules and retentions for the instances TLC checks. *)
EXTENDS Retention

\* daily, every other day, weekly
RegularCrons == {<<1>>, <<2>>, <<7>>}

\* on working days: four gaps of a day and one over the week-end
WorkingDays == {<<1, 1, 1, 1, 3>>}

Copies(n) == [type |-> "count", n |-> n, unit |-> "d"]

Window(n, u) == [type |-> "time", n |-> n, unit |-> u]

\* 200000 copies of a daily schedule, and 4000 months, are too long for a
\* time.Duration.
MCRules ==
    {Copies(n) : n \in {0, 1, 2, 3, 5, 200000}}
    \cup {[type |-> "none", n |-> 0, unit |-> "d"]}
    \cup {Window(3, "d"), Window(2, "w"), Window(1, "m"), Window(4000, "m")}

FiveCopies == {Copies(5)}
=============================================================================
