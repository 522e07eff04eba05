--------------------------- MODULE EngineContract ---------------------------
(***************************************************************************)
(* What an Instance owner is promised about the engine of one Instance     *)
(* once it is provisioned: the admission checks of validate.go exist so    *)
(* that a provisioned engine only ever takes a step allowed here.          *)
(***************************************************************************)
EXTENDS Integers

CONSTANTS
    MariaDB,      \* every MariaDB custom resource the provider can declare
    Version,      \* engine versions (major.minor) an image tag can show
    NoCR          \* no MariaDB custom resource exists

VARIABLE engine   \* the MariaDB custom resource, or NoCR

\* An engine of a quorum-based or replicated topology has enough members.
LegalSize(m) ==
    \/ m.topology = "standalone"  /\ m.replicas = 1
    \/ m.topology = "galera"      /\ m.replicas >= 3 /\ m.replicas % 2 = 1
    \/ m.topology = "replication" /\ m.replicas >= 2

\* A version is only comparable when both image tags show one.
NoDowngrade(old, new) ==
    old.image \in Version /\ new.image \in Version => new.image >= old.image

Evolves(old, new) ==
    /\ new.topology = old.topology
    /\ new.class = old.class
    /\ new.size >= old.size
    /\ NoDowngrade(old, new)

Init == engine = NoCR

Provision ==
    /\ engine = NoCR
    /\ engine' \in {m \in MariaDB : LegalSize(m)}

Evolve ==
    /\ engine # NoCR
    /\ engine' \in {m \in MariaDB : LegalSize(m) /\ Evolves(engine, m)}

Next == Provision \/ Evolve

Spec == Init /\ [][Next]_engine
=============================================================================
