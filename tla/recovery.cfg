CONSTANTS
  Server = {n1,n2,n3}
  n1 = n1
  n2 = n2
  n3 = n3
  Nil = Nil
  NoOp = NoOp
  Value = {}
  MetaTearing = FALSE
  MaxElections = 2
  MaxLogLen = 0
  MaxCrashes = 1
  MaxOrphans = 0
  MaxInFlight = 1
SYMMETRY Symmetry
SPECIFICATION Spec
INVARIANTS TypeOK DurableState AppliedIsCommitted OneVotePerTerm LogInv CommitInv
PROPERTY CommitStable
\* Behaviours end when the bounds are used up.
CHECK_DEADLOCK FALSE
