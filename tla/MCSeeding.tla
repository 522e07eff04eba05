----------------------------- MODULE MCSeeding -----------------------------
(* The surroundings for the instances TLC checks: the passwords and the end   *)
(* of seeding also with outdated reads, the promise with current ones also    *)
(* with Secrets an earlier Instance left.                                     *)
EXTENDS Seeding

MCScenario ==
    {[lag |-> l, leftovers |-> FALSE, announces |-> a] : l \in BOOLEAN, a \in BOOLEAN}
    \cup {[lag |-> FALSE, leftovers |-> TRUE, announces |-> FALSE]}
=============================================================================
