--------------------------- MODULE MCEngineUpdate ---------------------------
(* Model values for the instances TLC checks. *)
EXTENDS EngineUpdate

CONSTANTS opaque,        \* an image whose tag shows no version
          gold, silver   \* storage classes

\* Owners who do not wait, on an Instance of either size and class.
Raced ==
    [topology : {"", "galera"}, replicas : {Unset, 4}, image : {2, opaque},
     size : {Unset, 2}, class : {Unset, gold}, staged : {FALSE}]
=============================================================================
