CONSTANTS
  Server = {n1,n2,n3,n4}
  n1 = n1
  n2 = n2
  n3 = n3
  n4 = n4
  Nil = Nil
  NoOp = NoOp
  Value = {}
  MetaTearing = FALSE
  MaxElections = 3
  MaxLogLen = 0
  MaxCrashes = 0
  MaxOrphans = 0
  MaxInFlight = 0
SYMMETRY Symmetry
SPECIFICATION Spec
INVARIANTS ElectionSafety ElectionInv
\* Behaviours end when the bounds are used up.
CHECK_DEADLOCK FALSE
