---------------------------- MODULE EngineUpdate ----------------------------
(***************************************************************************)
(* The life of one Instance's engine: edits of the Instance spec go        *)
(* through ValidateMariaDB, a reconcile reads the spec, builds the desired *)
(* MariaDB resource and server-side applies it (SyncMariaDB).              *)
(*                                                                         *)
(* Admission and reconcile both read the MariaDB resource from an informer *)
(* cache that may lag behind the API server, and admission runs in the     *)
(* HTTP server of cmd/provider/main.go beside the reconcile loop.  Neither *)
(* can see the previous Instance spec: the cached MariaDB resource stands  *)
(* for it.                                                                 *)
(***************************************************************************)
EXTENDS Integers

CONSTANTS
    SpecTopology,     \* values of spec.topology.type ("" is a missing one)
    SpecReplicas,     \* values of engine.replicas, Unset among them
    SpecImage,        \* images an Instance may select, Unset among them
    SpecSize,         \* values of engine.storage.size, Unset among them
    SpecClass,        \* values of engine.storage.storageClass, Unset among them
    SpecStaged,       \* whether spec.backup may or may not offer a storage
    Version,          \* versions a tag can show; other images are opaque
    DefaultImage,     \* image resolved when the Instance selects none
    DefaultSize,      \* 10Gi
    MinSize,          \* 1Gi
    NoClass,          \* storageClassName "" of a MariaDB resource
    Unset,            \* a field the Instance leaves out
    NoSpec,           \* the Instance has not been created
    NoCR,             \* no MariaDB resource
    Pace,             \* whether the owner waits for an edit to take effect
                      \* before the next: always, never, or one and the other
    RacedSpec         \* what an owner who does not wait may ask for

Topology == {"standalone", "galera", "replication"}
Image == (SpecImage \cup {DefaultImage}) \ {Unset}
Size == (SpecSize \cup {DefaultSize}) \ {Unset}
Class == SpecClass \ {Unset}

\* The fields of an Instance that SyncMariaDB and ValidateMariaDB read.
\* staged: an enabled spec.backup with a storage (replicaTemplateStorage).
InstanceSpec ==
    [topology : SpecTopology, replicas : SpecReplicas, image : SpecImage,
     size : SpecSize, class : SpecClass, staged : SpecStaged]

\* The fields of the MariaDB resource; template is replicaBootstrapFrom.
MariaDB ==
    [topology : Topology, replicas : Int, image : Image, size : Size,
     class : Class \cup {NoClass}, template : BOOLEAN]

ASSUME EngineAssumption ==
    /\ SpecTopology \subseteq Topology \cup {""}
    /\ SpecReplicas \subseteq Int \cup {Unset}
    /\ SpecSize \subseteq Int \cup {Unset}
    /\ DefaultSize \in Int /\ MinSize \in Int
    /\ SpecStaged \subseteq BOOLEAN
    /\ Version \subseteq Int
    /\ DefaultImage # Unset /\ NoClass # Unset
    /\ Unset \notin Int
    /\ NoClass \notin SpecClass
    /\ NoSpec \notin InstanceSpec
    /\ NoCR \notin MariaDB
    /\ Pace \subseteq BOOLEAN

VARIABLES
    spec,      \* the Instance spec as persisted by the API server
    snap,      \* the Instance the running reconcile was given
    desired,   \* the MariaDB resource the running reconcile will apply
    cr,        \* the MariaDB resource in the API server
    cache,     \* the MariaDB resource in the informer cache
    pc,        \* where the reconcile is: idle, read or apply
    waits      \* the owner waits; this does not change

vars == <<spec, snap, desired, cr, cache, pc, waits>>

-----------------------------------------------------------------------------
(* What the code computes from an Instance. *)

NormalizeTopology(t) == IF t = "" THEN "standalone" ELSE t

\* a missing topology is neither galera nor replication
DefaultReplicas(s) ==
    CASE s.topology = "galera" -> 3
      [] s.topology = "replication" -> 3
      [] OTHER -> 1

OrDefault(value, default) == IF value = Unset THEN default ELSE value

EngineReplicas(s) == OrDefault(s.replicas, DefaultReplicas(s))

\* variant: no default image
ResolveEngineImageNoDefault(s) == s.image

ResolveEngineImage(s) == OrDefault(s.image, DefaultImage)

EngineStorageSize(s) == OrDefault(s.size, DefaultSize)

\* variant: the class is always taken from the Instance
DesiredClassFromSpec(s, existing) == OrDefault(s.class, NoClass)

\* The storage class is declared at creation and copied from the existing
\* resource afterwards.
DesiredClass(s, existing) ==
    IF existing = NoCR THEN OrDefault(s.class, NoClass) ELSE existing.class

DesiredReplicaBootstrapFrom(s) == s.topology = "replication" /\ s.staged

Desired(s, existing) ==
    [topology |-> NormalizeTopology(s.topology),
     replicas |-> EngineReplicas(s),
     image    |-> ResolveEngineImage(s),
     size     |-> EngineStorageSize(s),
     class    |-> DesiredClass(s, existing),
     template |-> DesiredReplicaBootstrapFrom(s)]

-----------------------------------------------------------------------------
(* Admission: ValidateMariaDB(s) with `existing` read from the cache. *)

ValidateComponents(s) ==
    /\ s.replicas # Unset => s.replicas >= 1
    /\ s.size # Unset => s.size >= MinSize

ValidateStandaloneReplicas(s) == s.replicas \in {Unset, 1}

\* variant: an even node count is let through
ValidateGaleraMinimum(s) == EngineReplicas(s) >= 3

ValidateGaleraReplicas(s) ==
    EngineReplicas(s) >= 3 /\ EngineReplicas(s) % 2 = 1

ValidateReplicationReplicas(s) == EngineReplicas(s) >= 2

\* variant: off by one
ValidateReplicationScaleOutByOne(s, existing) ==
    ~s.staged /\ existing # NoCR /\ s.replicas # Unset
        => s.replicas <= existing.replicas + 1

\* Nodes are only compared when the Instance states a count.
ValidateReplicationScaleOut(s, existing) ==
    ~s.staged /\ existing # NoCR /\ s.replicas # Unset
        => s.replicas <= existing.replicas

ValidateTopologyImmutable(s, existing) ==
    existing # NoCR => existing.topology = NormalizeTopology(s.topology)

ValidateTopology(s, existing) ==
    /\ \/ s.topology \in {"", "standalone"} /\ ValidateStandaloneReplicas(s)
       \/ s.topology = "galera" /\ ValidateGaleraReplicas(s)
       \/ /\ s.topology = "replication"
          /\ ValidateReplicationReplicas(s)
          /\ ValidateReplicationScaleOut(s, existing)
    /\ ValidateTopologyImmutable(s, existing)

\* variant: the version bundle's image is not looked at
ValidateVersionOfOverride(s, existing) ==
    existing.image \in Version /\ s.image \in Version
        => s.image >= existing.image

\* Images whose tag shows no version are let through on either side.
ValidateVersionDowngrade(s, existing) ==
    existing.image \in Version /\ ResolveEngineImage(s) \in Version
        => ResolveEngineImage(s) >= existing.image

\* variants: only the class, and only the size, is compared
ValidateStorageClassOnly(s, existing) ==
    s.class # Unset /\ existing.class # NoClass => s.class = existing.class

ValidateStorageSizeOnly(s, existing) ==
    EngineStorageSize(s) >= existing.size

ValidateStorageUpdate(s, existing) ==
    /\ EngineStorageSize(s) >= existing.size
    /\ s.class # Unset /\ existing.class # NoClass => s.class = existing.class

ValidateEngineUpdate(s, existing) ==
    existing # NoCR => /\ ValidateVersionDowngrade(s, existing)
                       /\ ValidateStorageUpdate(s, existing)

ValidateMariaDB(s, existing) ==
    /\ ValidateComponents(s)
    /\ ValidateTopology(s, existing)
    /\ ValidateEngineUpdate(s, existing)

-----------------------------------------------------------------------------
(* The operator's own admission of the MariaDB resource, as validate.go     *)
(* and SyncMariaDB describe it: a smaller volume and a changed class are    *)
(* rejected, every other change is taken.                                   *)
OperatorAccepts(old, new) ==
    old # NoCR => /\ new.size >= old.size
                  /\ old.class # NoClass => new.class = old.class

\* The last edit took effect and every reader can see it.
Settled ==
    /\ spec # NoSpec /\ pc = "idle"
    /\ cr = Desired(spec, cr) /\ cache = cr

Init ==
    /\ spec = NoSpec /\ snap = NoSpec
    /\ desired = NoCR /\ cr = NoCR /\ cache = NoCR
    /\ pc = "idle" /\ waits \in Pace

\* The owner creates or edits the Instance and the edit is admitted.
UserEdit(s) ==
    /\ IF waits THEN spec = NoSpec \/ Settled ELSE s \in RacedSpec
    /\ s # spec
    /\ ValidateMariaDB(s, cache)
    /\ spec' = s
    /\ UNCHANGED <<snap, desired, cr, cache, pc, waits>>

\* The runtime hands the current Instance to Sync.
BeginSync ==
    /\ pc = "idle" /\ spec # NoSpec
    /\ snap' = spec
    /\ pc' = "read"
    /\ UNCHANGED <<spec, desired, cr, cache, waits>>

\* SyncMariaDB builds the desired resource and reads the existing one.
ReadExisting ==
    /\ pc = "read"
    /\ desired' = Desired(snap, cache)
    /\ pc' = "apply"
    /\ UNCHANGED <<spec, snap, cr, cache, waits>>

\* Sync returns; what it had read and built is gone.
EndSync ==
    /\ pc' = "idle"
    /\ snap' = NoSpec
    /\ desired' = NoCR

\* The server-side apply reaches the API server and is accepted.
ApplyMariaDB ==
    /\ pc = "apply" /\ OperatorAccepts(cr, desired)
    /\ cr' = desired
    /\ EndSync
    /\ UNCHANGED <<spec, cache, waits>>

\* The apply is rejected; Sync returns the error and is retried later.
RejectedApply ==
    /\ pc = "apply" /\ ~OperatorAccepts(cr, desired)
    /\ EndSync
    /\ UNCHANGED <<spec, cr, cache, waits>>

\* A failed call to the API server, or a restart of the provider.
SyncFails ==
    /\ pc \in {"read", "apply"}
    /\ EndSync
    /\ UNCHANGED <<spec, cr, cache, waits>>

\* The informer delivers the current resource.
CacheCatchesUp ==
    /\ cache # cr
    /\ cache' = cr
    /\ UNCHANGED <<spec, snap, desired, cr, pc, waits>>

Next ==
    \/ \E s \in InstanceSpec : UserEdit(s)
    \/ BeginSync \/ ReadExisting \/ ApplyMariaDB \/ RejectedApply
    \/ SyncFails \/ CacheCatchesUp

\* The runtime retries a failed Sync for ever and the informer never stops;
\* a call that keeps being made does not fail every time, and the operator
\* answers every apply.
Fairness ==
    /\ WF_vars(BeginSync) /\ SF_vars(ReadExisting)
    /\ SF_vars(ApplyMariaDB) /\ WF_vars(RejectedApply)
    /\ WF_vars(CacheCatchesUp)

SafetySpec == Init /\ [][Next]_vars

Spec == SafetySpec /\ Fairness

-----------------------------------------------------------------------------
\* The contract is with owners who wait.
Observed == IF waits THEN cr ELSE NoCR

Contract == INSTANCE EngineContract WITH engine <- Observed

TypeOK ==
    /\ spec \in InstanceSpec \cup {NoSpec}
    /\ snap \in InstanceSpec \cup {NoSpec}
    /\ desired \in MariaDB \cup {NoCR}
    /\ cr \in MariaDB \cup {NoCR}
    /\ cache \in MariaDB \cup {NoCR}
    /\ pc \in {"idle", "read", "apply"} /\ waits \in BOOLEAN
    /\ pc = "idle" <=> snap = NoSpec
    /\ pc = "apply" <=> desired # NoCR

\* Whatever edits race with whatever reconciles, the engine never runs a node
\* count its topology cannot form a quorum or a primary/replica pair with.
QuorumSafe == cr # NoCR => Contract!LegalSize(cr)

\* Where the owner waits, what SyncMariaDB is about to apply is never refused
\* by the operator: an admitted edit does not leave the Instance stuck on a
\* failing apply.
ApplyAccepted == waits /\ pc = "apply" => OperatorAccepts(cr, desired)

\* An admitted storage class is the class of the volumes, unless the Instance
\* was provisioned with the cluster's default class: it is never silently
\* ignored.
StorageClassHonoured ==
    waits /\ cr # NoCR /\ spec.class # Unset => cr.class \in {spec.class, NoClass}

\* Where the owner waits, the engine only takes the steps its contract allows: topology and class
\* never change, the volume never shrinks, a version never goes back.
ContractRespected == Contract!Spec

\* A node joins a replication cluster only while a template to seed it from
\* is declared (or was, by the same edit).
ScaleOutSeeded ==
    [][waits /\ cr # NoCR /\ cr.topology = "replication" /\ cr'.replicas > cr.replicas
         => cr'.template]_cr

\* The same when the Instance being applied states its node count.
StatedScaleOutSeeded ==
    [][/\ waits /\ cr # NoCR /\ cr.topology = "replication"
       /\ cr'.replicas > cr.replicas
       /\ snap.replicas # Unset
       => cr'.template]_cr

\* Once edits stop, even edits that raced with reconciles, the engine ends up
\* as the Instance asks or keeps a volume larger than the one it asks for.
LastEditWins ==
    <>[][FALSE]_spec =>
        (spec # NoSpec ~>
            \/ Settled
            \/ cr # NoCR /\ spec # NoSpec /\ cr.size > EngineStorageSize(spec))

\* Every edit of an owner who waits takes effect.
EditsTakeEffect == waits /\ spec # NoSpec ~> Settled
=============================================================================
