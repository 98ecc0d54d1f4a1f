SPECIFICATION Spec
CONSTANTS
  w1 = w1  w2 = w2
  Writers = {w1, w2}
  Scenarios <- MCScenarios
  MergePad = 1
  IncidentGap = 2
CHECK_DEADLOCK FALSE
INVARIANTS TypeOK SweptIsStored SweptIsCorrelated CountsNewActivity IncidentCoversMembers
SYMMETRY MCSymmetry
