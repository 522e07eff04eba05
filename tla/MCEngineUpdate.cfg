SPECIFICATION Spec
CONSTANTS
  SpecTopology = {"galera", "replication", ""}
  SpecReplicas = {Unset, 2, 3, 4}
  SpecImage = {Unset, 2, 3, opaque}
  SpecSize = {Unset, 1, 2}
  SpecClass = {Unset, gold, silver}
  SpecStaged = {TRUE, FALSE}
  Version = {1, 2, 3}
  DefaultImage = 1
  DefaultSize = 3
  MinSize = 2
  NoClass = NoClass
  Unset = Unset
  NoSpec = NoSpec
  NoCR = NoCR
  opaque = opaque
  gold = gold
  silver = silver
  Pace = {TRUE, FALSE}
  RacedSpec <- Raced
INVARIANTS TypeOK QuorumSafe ApplyAccepted StorageClassHonoured
PROPERTIES ContractRespected StatedScaleOutSeeded EditsTakeEffect LastEditWins
