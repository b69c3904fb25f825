CONSTANTS
  Server = {n1,n2}
  n1 = n1
  n2 = n2
  Observed = n1
  Nil = Nil
  NoOp = NoOp
  Value = {v1}
  v1 = v1
  MetaTearing = FALSE
  MaxElections = 2
  MaxLogLen = 3
  MaxCrashes = 0
  MaxOrphans = 0
  MaxInFlight = 2
SPECIFICATION FairSpec
PROPERTIES  AloneWins
\* Behaviours end when the bounds are used up.
CHECK_DEADLOCK FALSE
