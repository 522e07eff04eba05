------------------------- MODULE MCScheduledBackups -------------------------
(* Model values and declarations for the instances TLC checks. *)
EXTENDS ScheduledBackups

CONSTANTS nightly, weekly,   \* schedule names
          s1, s2,            \* backup storages
          short, long        \* retentions

Plan(k, s, r) == [kind |-> k, storage |-> s, retention |-> r, enabled |-> TRUE]

\* Between two of these lie a change of kind, of the immutable fields, and of
\* a retention that is updated in place.
Plans ==
    {Plan("logical", s1, short), Plan("logical", s2, long),
     Plan("physical", s1, short), Plan("physical", s1, long)}

\* Two schedules on two storages, one of which may be missing.
LogicalPlans == {Plan("logical", s, short) : s \in Storage}
=============================================================================
