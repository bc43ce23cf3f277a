SPECIFICATION MCSpec
CONSTANTS
  Nothing = Nothing
  Air = Air
  Heatsink = Heatsink
  FixedBus = {{Air, Heatsink}, {Air}, {Air, Heatsink, Other}}
  Probes = {p1, p2}
  Watched = {"product"}
  Target = "product"
  CyclePeriod = 2
  ConversionWait = 1
  LateMax = 1
  Temps = {0, 5}
  Plausible = {0, 5}
  MaxRate = 1
  MaxStaleAge = 4
  MaxInvalid = 1
  MinValid = 2
  MinStable = 3
  QualifyTime = 2
  Grace = 2
  MaxGap = 1
  MishapMax = 3
INVARIANTS
  ReadingNeverOld
  ValidProven
  CreditProven
SYMMETRY ProbeSymmetry
CHECK_DEADLOCK FALSE
