CONSTANTS
  Server = {n1}
  n1 = n1
  Nil = Nil
  NoOp = NoOp
  Value = {v1,v2}
  v1 = v1
  v2 = v2
  MetaTearing = TRUE
  MaxElections = 3
  MaxLogLen = 4
  MaxCrashes = 2
  MaxOrphans = 0
  MaxInFlight = 0
SYMMETRY Symmetry
SPECIFICATION Spec
INVARIANT AckedDurable
\* Behaviours end when the bounds are used up.
CHECK_DEADLOCK FALSE
