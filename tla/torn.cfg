CONSTANTS
  Server = {n1,n2,n3}
  n1 = n1
  n2 = n2
  n3 = n3
  Nil = Nil
  NoOp = NoOp
  Value = {}
  MetaTearing = TRUE
  MaxElections = 2
  MaxLogLen = 0
  MaxCrashes = 1
  MaxOrphans = 0
  MaxInFlight = 0
SYMMETRY Symmetry
SPECIFICATION Spec
INVARIANT ElectionSafety
\* Behaviours end when the bounds are used up.
CHECK_DEADLOCK FALSE
