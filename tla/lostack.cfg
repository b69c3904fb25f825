CONSTANTS
  n1 = n1
  n2 = n2
  n3 = n3
  Server = {n1, n2, n3}
  First = n1
  Second = n2
  Nil = Nil
  NoOp = NoOp
  v1 = v1
  Value = {v1}
  MetaTearing = FALSE
  MaxElections = 3
  MaxLogLen = 2
  MaxCrashes = 0
  MaxOrphans = 0
  MaxInFlight = 1
SPECIFICATION ScheduledSpec
INVARIANT AckedDurable
\* Behaviours end when the bounds are used up.
CHECK_DEADLOCK FALSE
