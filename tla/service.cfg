CONSTANTS
  Server = {n1,n2}
  n1 = n1
  n2 = n2
  Nil = Nil
  NoOp = NoOp
  Value = {v1,NoOp}
  v1 = v1
  MetaTearing = FALSE
  MaxElections = 2
  MaxLogLen = 4
  MaxCrashes = 1
  MaxOrphans = 1
  MaxInFlight = 1
SPECIFICATION FewClientsSpec
INVARIANTS ReadsInTerm ReadsInv MatchIndexSound NextIndexInRange
PROPERTY ImplementsReplicatedLog
\* Behaviours end when the bounds are used up.
CHECK_DEADLOCK FALSE
