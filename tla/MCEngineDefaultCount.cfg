SPECIFICATION SafetySpec
CONSTANTS
  SpecTopology = {"replication"}
  SpecReplicas = {Unset, 2, 3}
  SpecImage = {Unset}
  SpecSize = {Unset}
  SpecClass = {Unset}
  SpecStaged = {TRUE, FALSE}
  Version = {1, 2}
  DefaultImage = 1
  DefaultSize = 3
  MinSize = 2
  NoClass = NoClass
  Unset = Unset
  NoSpec = NoSpec
  NoCR = NoCR
  opaque = opaque
  gold = gold
  silver = silver
  Pace = {TRUE}
  RacedSpec = {}
PROPERTY ScaleOutSeeded
