------------------------- MODULE EngineUpdateProofs -------------------------
(***************************************************************************)
(* Theorems about EngineUpdate for every set of versions, sizes, classes   *)
(* and node counts.  Type correctness and QuorumSafe hold however edits    *)
(* race with reconciles; the rest needs owners to let an edit take effect  *)
(* before the next one (EditsWaitForSync).                                 *)
(***************************************************************************)
EXTENDS EngineUpdate, TLAPS

\* What the desired resource is made of has the resource's type.
LEMMA DesiredType ==
    ASSUME NEW s \in InstanceSpec, NEW m \in MariaDB \cup {NoCR}
    PROVE  Desired(s, m) \in MariaDB
<1>1. NormalizeTopology(s.topology) \in Topology
  BY EngineAssumption DEF InstanceSpec, NormalizeTopology, Topology
<1>2. EngineReplicas(s) \in Int
  <2>1. s.replicas \in Int \cup {Unset}
    BY EngineAssumption DEF InstanceSpec
  <2>2. DefaultReplicas(s) \in Int
    BY DEF DefaultReplicas
  <2> QED BY <2>1, <2>2 DEF EngineReplicas, OrDefault
<1>3. ResolveEngineImage(s) \in Image
  BY EngineAssumption DEF InstanceSpec, ResolveEngineImage, OrDefault, Image
<1>4. EngineStorageSize(s) \in Size
  BY EngineAssumption DEF InstanceSpec, EngineStorageSize, OrDefault, Size
<1>5. DesiredClass(s, m) \in Class \cup {NoClass}
  BY EngineAssumption DEF InstanceSpec, MariaDB, DesiredClass, OrDefault, Class
<1>6. DesiredReplicaBootstrapFrom(s) \in BOOLEAN
  BY EngineAssumption DEF InstanceSpec, DesiredReplicaBootstrapFrom
<1> QED BY <1>1, <1>2, <1>3, <1>4, <1>5, <1>6 DEF Desired, MariaDB

\* A settled Instance has a MariaDB resource, and the cache shows it.
LEMMA SettledType ==
    ASSUME TypeOK, Settled
    PROVE  cr \in MariaDB /\ cache = cr /\ pc = "idle"
<1>1. spec \in InstanceSpec /\ cr \in MariaDB \cup {NoCR}
  BY DEF Settled, TypeOK
<1>2. Desired(spec, cr) \in MariaDB
  BY <1>1, DesiredType
<1> QED BY <1>2 DEF Settled

\* Every variable keeps its type, and what a reconcile has read or built
\* exists exactly while it runs.
THEOREM TypeCorrect == SafetySpec => []TypeOK
<1>1. Init => TypeOK
  BY EngineAssumption DEF Init, TypeOK
<1>2. TypeOK /\ [Next]_vars => TypeOK'
  <2> SUFFICES ASSUME TypeOK, [Next]_vars PROVE TypeOK'
    OBVIOUS
  <2> USE DEF TypeOK
  <2>1. ASSUME NEW s \in InstanceSpec, UserEdit(s) PROVE TypeOK'
    BY <2>1 DEF UserEdit
  <2>2. CASE BeginSync
    BY <2>2, EngineAssumption DEF BeginSync
  <2>3. CASE ReadExisting
    <3>1. snap \in InstanceSpec
      BY <2>3 DEF ReadExisting
    <3>2. Desired(snap, cache) \in MariaDB
      BY <3>1, DesiredType
    <3> QED BY <2>3, <3>2, EngineAssumption DEF ReadExisting
  <2>4. CASE ApplyMariaDB
    BY <2>4 DEF ApplyMariaDB, EndSync
  <2>5. CASE RejectedApply
    BY <2>5 DEF RejectedApply, EndSync
  <2>6. CASE SyncFails
    BY <2>6 DEF SyncFails, EndSync
  <2>7. CASE CacheCatchesUp
    BY <2>7 DEF CacheCatchesUp
  <2>8. CASE UNCHANGED vars
    BY <2>8 DEF vars
  <2> QED BY <2>1, <2>2, <2>3, <2>4, <2>5, <2>6, <2>7, <2>8 DEF Next
<1> QED BY <1>1, <1>2, PTL DEF SafetySpec

-----------------------------------------------------------------------------
(* Node counts: nothing is assumed about when owners edit. *)

\* An admitted Instance asks for a node count its topology can run with.
LEMMA AdmittedCount ==
    ASSUME NEW s \in InstanceSpec, NEW m, NEW e, ValidateMariaDB(s, e)
    PROVE  Contract!LegalSize(Desired(s, m))
<1> DEFINE d == Desired(s, m)
<1>1. d.topology = NormalizeTopology(s.topology) /\ d.replicas = EngineReplicas(s)
  BY DEF Desired
<1>2. CASE s.topology \in {"", "standalone"} /\ ValidateStandaloneReplicas(s)
  BY <1>1, <1>2 DEF Contract!LegalSize, NormalizeTopology, EngineReplicas,
     ValidateStandaloneReplicas, OrDefault, DefaultReplicas
<1>3. CASE s.topology = "galera" /\ ValidateGaleraReplicas(s)
  BY <1>1, <1>3 DEF Contract!LegalSize, NormalizeTopology, ValidateGaleraReplicas
<1>4. CASE s.topology = "replication" /\ ValidateReplicationReplicas(s)
  BY <1>1, <1>4 DEF Contract!LegalSize, NormalizeTopology, ValidateReplicationReplicas
<1> QED BY <1>2, <1>3, <1>4 DEF ValidateMariaDB, ValidateTopology

\* Every Instance a reconcile holds was admitted, and so was the count it
\* computed from it.
Counted(s) == s # NoSpec => \A m : Contract!LegalSize(Desired(s, m))

CountInv ==
    /\ Counted(spec)
    /\ Counted(snap)
    /\ desired # NoCR => Contract!LegalSize(desired)
    /\ cr # NoCR => Contract!LegalSize(cr)

\* No interleaving of edits, stale reads, failures and reconciles provisions
\* a node count the topology cannot run with.
THEOREM QuorumAlwaysSafe == SafetySpec => []QuorumSafe
<1>1. Init => CountInv
  BY DEF Init, CountInv, Counted
<1>2. TypeOK /\ CountInv /\ [Next]_vars => CountInv'
  <2> SUFFICES ASSUME TypeOK, CountInv, [Next]_vars PROVE CountInv'
    OBVIOUS
  <2>1. ASSUME NEW s \in InstanceSpec, UserEdit(s) PROVE CountInv'
    <3>1. Counted(s)
      BY <2>1, AdmittedCount DEF UserEdit, Counted
    <3> QED BY <2>1, <3>1 DEF UserEdit, CountInv, Counted
  <2>2. CASE BeginSync
    BY <2>2 DEF BeginSync, CountInv, Counted
  <2>3. CASE ReadExisting
    <3>1. Contract!LegalSize(Desired(snap, cache))
      BY <2>3 DEF ReadExisting, TypeOK, CountInv, Counted
    <3> QED BY <2>3, <3>1 DEF ReadExisting, CountInv, Counted
  <2>4. CASE ApplyMariaDB
    BY <2>4 DEF ApplyMariaDB, EndSync, CountInv, Counted
  <2>5. CASE RejectedApply
    BY <2>5 DEF RejectedApply, EndSync, CountInv, Counted
  <2>6. CASE SyncFails
    BY <2>6 DEF SyncFails, EndSync, CountInv, Counted
  <2>7. CASE CacheCatchesUp
    BY <2>7 DEF CacheCatchesUp, CountInv, Counted
  <2>8. CASE UNCHANGED vars
    BY <2>8 DEF vars, CountInv, Counted
  <2> QED BY <2>1, <2>2, <2>3, <2>4, <2>5, <2>6, <2>7, <2>8 DEF Next
<1>3. CountInv => QuorumSafe
  BY DEF CountInv, QuorumSafe
<1> QED BY <1>1, <1>2, <1>3, TypeCorrect, PTL DEF SafetySpec

-----------------------------------------------------------------------------
(* Owners who let one edit take effect before the next. *)

\* The engine the Instance asks for, seen from the engine that exists.
Target == Desired(spec, cr)

\* A lagging cache never leads a reconcile to another engine than the API
\* server's own state would, and that engine is one the contract allows.
Serial ==
    /\ spec = NoSpec => cr = NoCR
    /\ cr = NoCR => cache = NoCR
    /\ cache # NoCR => cache.class = cr.class
    /\ cache = NoCR /\ cr # NoCR => cr.class = OrDefault(spec.class, NoClass)
    /\ pc # "idle" => snap = spec
    /\ pc = "apply" => desired = Target
    /\ cr # NoCR => Contract!Evolves(cr, Target)
    /\ StorageClassHonoured

SerialInv == waits => Serial

\* Applying the target leaves nothing more to apply.
LEMMA TargetIsFixed ==
    ASSUME NEW s \in InstanceSpec, NEW m \in MariaDB \cup {NoCR}
    PROVE  /\ Desired(s, Desired(s, m)) = Desired(s, m)
           /\ Contract!Evolves(Desired(s, m), Desired(s, Desired(s, m)))
<1> DEFINE d == Desired(s, m)
<1>1. d \in MariaDB
  BY DesiredType
<1>2. Desired(s, d) = d
  BY <1>1, EngineAssumption DEF Desired, DesiredClass
<1>3. Contract!Evolves(d, d)
  <2>1. d.size \in Int /\ (d.image \in Version => d.image \in Int)
    BY <1>1, EngineAssumption DEF MariaDB, Size
  <2> QED BY <2>1 DEF Contract!Evolves, Contract!NoDowngrade
<1> QED BY <1>2, <1>3

\* An edit admitted against the engine that exists asks for an engine the
\* contract lets it become, and for a class it has.
LEMMA AdmittedEvolves ==
    ASSUME NEW s \in InstanceSpec, NEW m \in MariaDB, ValidateMariaDB(s, m)
    PROVE  /\ Contract!Evolves(m, Desired(s, m))
           /\ s.class # Unset => m.class \in {s.class, NoClass}
<1> DEFINE d == Desired(s, m)
<1>1. m # NoCR
  BY EngineAssumption
<1>2. d.topology = m.topology
  BY <1>1 DEF Desired, ValidateMariaDB, ValidateTopology, ValidateTopologyImmutable
<1>3. d.class = m.class
  BY <1>1 DEF Desired, DesiredClass
<1>4. d.size >= m.size
  BY <1>1 DEF Desired, ValidateMariaDB, ValidateEngineUpdate, ValidateStorageUpdate
<1>5. Contract!NoDowngrade(m, d)
  BY <1>1 DEF Desired, ValidateMariaDB, ValidateEngineUpdate,
     ValidateVersionDowngrade, Contract!NoDowngrade
<1>6. s.class # Unset => m.class \in {s.class, NoClass}
  BY <1>1 DEF ValidateMariaDB, ValidateEngineUpdate, ValidateStorageUpdate
<1> QED BY <1>2, <1>3, <1>4, <1>5, <1>6 DEF Contract!Evolves

LEMMA WaitsIsFixed == [Next]_vars => waits' = waits
  BY DEF Next, UserEdit, BeginSync, ReadExisting, ApplyMariaDB, RejectedApply,
     SyncFails, CacheCatchesUp, vars

LEMMA SerialStep ==
    TypeOK /\ SerialInv /\ [Next]_vars => SerialInv'
<1> SUFFICES ASSUME waits, waits', TypeOK, Serial, [Next]_vars
             PROVE  Serial'
  BY WaitsIsFixed DEF SerialInv
<1> USE DEF TypeOK, Serial, Target
<1>1. ASSUME NEW s \in InstanceSpec, UserEdit(s) PROVE Serial'
  <2> USE <1>1 DEF UserEdit
  <2>1. CASE spec = NoSpec
    <3>1. cr = NoCR /\ cache = NoCR /\ pc = "idle"
      BY <2>1
    <3> QED BY <3>1, EngineAssumption DEF StorageClassHonoured
  <2>2. CASE Settled
    <3>1. cr \in MariaDB /\ cache = cr /\ pc = "idle"
      BY <2>2, SettledType
    <3>2. Contract!Evolves(cr, Desired(s, cr))
      BY <3>1, AdmittedEvolves
    <3>3. s.class # Unset => cr.class \in {s.class, NoClass}
      BY <3>1, AdmittedEvolves
    <3> QED BY <3>1, <3>2, <3>3, EngineAssumption DEF StorageClassHonoured
  <2> QED BY <2>1, <2>2
<1>2. CASE BeginSync
  BY <1>2 DEF BeginSync, StorageClassHonoured
<1>3. CASE ReadExisting
  <2>1. Desired(snap, cache) = Target
    BY <1>3 DEF ReadExisting, Desired, DesiredClass
  <2> QED BY <1>3, <2>1 DEF ReadExisting, StorageClassHonoured
<1>4. CASE ApplyMariaDB
  <2> USE <1>4 DEF ApplyMariaDB, EndSync
  <2>1. spec \in InstanceSpec
    OBVIOUS
  <2>2. cr' = Desired(spec, cr) /\ cr' \in MariaDB /\ cr' # NoCR /\ spec' = spec
    BY <2>1, DesiredType, EngineAssumption
  <2>3. Contract!Evolves(cr', Target')
    BY <2>1, <2>2, TargetIsFixed
  <2>4. cr # NoCR => cr'.class = cr.class
    BY <2>2 DEF Desired, DesiredClass
  <2>5. cr = NoCR => cr'.class = OrDefault(spec.class, NoClass)
    BY <2>2 DEF Desired, DesiredClass
  <2>6. StorageClassHonoured'
    BY <2>2, <2>4, <2>5 DEF StorageClassHonoured, OrDefault
  <2> QED BY <2>1, <2>2, <2>3, <2>4, <2>5, <2>6
<1>5. CASE RejectedApply
  BY <1>5 DEF RejectedApply, EndSync, StorageClassHonoured
<1>6. CASE SyncFails
  BY <1>6 DEF SyncFails, EndSync, StorageClassHonoured
<1>7. CASE CacheCatchesUp
  BY <1>7 DEF CacheCatchesUp, StorageClassHonoured
<1>8. CASE UNCHANGED vars
  BY <1>8 DEF vars, StorageClassHonoured
<1> QED BY <1>1, <1>2, <1>3, <1>4, <1>5, <1>6, <1>7, <1>8 DEF Next

LEMMA SerialInvariant == SafetySpec => []SerialInv
<1>1. Init => SerialInv
  BY DEF Init, SerialInv, Serial, StorageClassHonoured
<1>2. TypeOK /\ SerialInv /\ [Next]_vars => SerialInv'
  BY SerialStep
<1> QED BY <1>1, <1>2, TypeCorrect, PTL DEF SafetySpec

\* A class the owner was allowed to ask for is the class of the volumes.
THEOREM ClassHonoured == SafetySpec => []StorageClassHonoured
<1>1. SerialInv => StorageClassHonoured
  BY DEF SerialInv, Serial, StorageClassHonoured
<1> QED BY <1>1, SerialInvariant, PTL

\* No reconcile of an admitted edit ends in an apply the operator refuses.
THEOREM NeverRefused == SafetySpec => []ApplyAccepted
<1>1. SerialInv => ApplyAccepted
  BY DEF SerialInv, Serial, Target, ApplyAccepted, OperatorAccepts, Contract!Evolves
<1> QED BY <1>1, SerialInvariant, PTL

\* Every step of the engine is one its contract allows: this is the
\* refinement of EngineContract, for every value of the constants.
THEOREM ImplementsContract == SafetySpec => ContractRespected
<1>1. Init => Contract!Init
  BY DEF Init, Contract!Init, Observed
<1>2. TypeOK /\ QuorumSafe' /\ SerialInv /\ [Next]_vars => [Contract!Next]_Observed
  <2> SUFFICES ASSUME TypeOK, QuorumSafe', SerialInv, [Next]_vars,
                      Observed' # Observed
               PROVE  Contract!Next
    OBVIOUS
  <2>0. /\ waits /\ waits' /\ Serial /\ cr' # cr
        /\ Observed = cr /\ Observed' = cr'
    BY WaitsIsFixed DEF Observed, SerialInv
  <2>1. ApplyMariaDB
    BY <2>0 DEF Next, UserEdit, BeginSync, ReadExisting, RejectedApply, SyncFails,
       CacheCatchesUp, EndSync, vars
  <2>2. cr' = Target /\ cr' \in MariaDB /\ cr' # NoCR
    BY <2>0, <2>1, EngineAssumption DEF ApplyMariaDB, Serial, TypeOK
  <2>3. Contract!LegalSize(cr')
    BY <2>2 DEF QuorumSafe
  <2>4. CASE cr = NoCR
    BY <2>0, <2>2, <2>3, <2>4 DEF Contract!Next, Contract!Provision
  <2>5. CASE cr # NoCR
    BY <2>0, <2>2, <2>3, <2>5 DEF Serial, Contract!Next, Contract!Evolve
  <2> QED BY <2>4, <2>5
<1> QED BY <1>1, <1>2, TypeCorrect, QuorumAlwaysSafe, SerialInvariant, PTL
        DEF SafetySpec, ContractRespected, Contract!Spec
-----------------------------------------------------------------------------
(* Scaling out a replication cluster. *)

\* A replication engine only gains stated nodes together with a template to
\* seed them from.
ScaleOutInv ==
    /\ waits /\ cr # NoCR /\ cr.topology = "replication"
    /\ spec.replicas # Unset /\ ~Target.template
    => Target.replicas <= cr.replicas

LEMMA AdmittedScaleOut ==
    ASSUME NEW s \in InstanceSpec, NEW m \in MariaDB, ValidateMariaDB(s, m),
           m.topology = "replication", s.replicas # Unset, ~Desired(s, m).template
    PROVE  Desired(s, m).replicas <= m.replicas
<1>1. m # NoCR
  BY EngineAssumption
<1>2. s.topology = "replication"
  BY <1>1 DEF ValidateMariaDB, ValidateTopology, ValidateTopologyImmutable,
     NormalizeTopology
<1>3. ~s.staged
  BY <1>2 DEF Desired, DesiredReplicaBootstrapFrom
<1>4. s.replicas <= m.replicas
  BY <1>1, <1>2, <1>3 DEF ValidateMariaDB, ValidateTopology,
     ValidateReplicationScaleOut
<1> QED BY <1>1, <1>4 DEF Desired, EngineReplicas, OrDefault

\* With a stated node count, every node a replication cluster gains can be
\* seeded; MCEngineDefaultCount shows why the count has to be stated.
THEOREM ScaleOutAlwaysSeeded == SafetySpec => StatedScaleOutSeeded
<1>1. Init => ScaleOutInv
  BY DEF Init, ScaleOutInv
<1>2. TypeOK /\ SerialInv /\ ScaleOutInv /\ [Next]_vars => ScaleOutInv'
  <2> SUFFICES ASSUME TypeOK, SerialInv, ScaleOutInv, [Next]_vars
               PROVE  ScaleOutInv'
    OBVIOUS
  <2> SUFFICES ASSUME waits, waits', Serial PROVE ScaleOutInv'
    BY WaitsIsFixed DEF ScaleOutInv, SerialInv
  <2> USE DEF ScaleOutInv, Target
  <2>1. ASSUME NEW s \in InstanceSpec, UserEdit(s) PROVE ScaleOutInv'
    <3>1. CASE spec = NoSpec
      BY <2>1, <3>1 DEF UserEdit, Serial
    <3>2. CASE Settled
      <4>1. cr \in MariaDB /\ cache = cr
        BY <3>2, SettledType
      <4>2. ValidateMariaDB(s, cr)
        BY <2>1, <4>1 DEF UserEdit
      <4> QED BY <2>1, <4>1, <4>2, AdmittedScaleOut DEF UserEdit
    <3> QED BY <2>1, <3>1, <3>2 DEF UserEdit
  <2>2. CASE ApplyMariaDB
    <3>1. spec \in InstanceSpec /\ spec' = spec /\ cr' = Desired(spec, cr)
      BY <2>2 DEF ApplyMariaDB, EndSync, TypeOK, Serial
    <3>2. Target' = cr' /\ cr' \in MariaDB
      BY <3>1, TargetIsFixed, DesiredType DEF TypeOK
    <3>3. cr'.replicas \in Int
      BY <3>2 DEF MariaDB
    <3> QED BY <3>2, <3>3
  <2>3. CASE UNCHANGED <<spec, cr>>
    BY <2>3
  <2> QED
    BY <2>1, <2>2, <2>3 DEF Next, BeginSync, ReadExisting, RejectedApply,
       SyncFails, CacheCatchesUp, EndSync, vars
<1>3. TypeOK /\ SerialInv /\ ScaleOutInv /\ [Next]_vars
        => [/\ waits /\ cr # NoCR /\ cr.topology = "replication"
            /\ cr'.replicas > cr.replicas
            /\ snap.replicas # Unset
            => cr'.template]_cr
  <2> SUFFICES ASSUME TypeOK, SerialInv, ScaleOutInv, [Next]_vars, cr' # cr,
                      waits, cr # NoCR, cr.topology = "replication",
                      cr'.replicas > cr.replicas, snap.replicas # Unset
               PROVE  cr'.template
    OBVIOUS
  <2>1. ApplyMariaDB
    BY DEF Next, UserEdit, BeginSync, ReadExisting, RejectedApply, SyncFails,
       CacheCatchesUp, EndSync, vars
  <2>2. cr' = Target /\ snap = spec
    BY <2>1 DEF ApplyMariaDB, SerialInv, Serial
  <2>3. cr.replicas \in Int /\ Target.replicas \in Int
    BY <2>1, DesiredType DEF TypeOK, MariaDB, ApplyMariaDB, SerialInv, Serial, Target
  <2>4. ~(Target.replicas <= cr.replicas)
    BY <2>2, <2>3
  <2> QED BY <2>2, <2>4 DEF ScaleOutInv
<1> QED BY <1>1, <1>2, <1>3, TypeCorrect, SerialInvariant, PTL
        DEF SafetySpec, StatedScaleOutSeeded
=============================================================================
