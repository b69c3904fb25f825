CONSTANTS
  Server = {n1,n2,n3}
  n1 = n1
  n2 = n2
  n3 = n3
  Nil = Nil
  NoOp = NoOp
  Value = {v1}
  v1 = v1
  MetaTearing = FALSE
  MaxElections = 2
  MaxLogLen = 2
  MaxCrashes = 0
  MaxOrphans = 0
  MaxInFlight = 1
SYMMETRY Symmetry
SPECIFICATION Spec
INVARIANTS LeaderHintSound LogMatching StateMachineSafety LeaderCompleteness MatchCoversNoop AckedInTermDurable
PROPERTY LeaderAppendOnly
\* Behaviours end when the bounds are used up.
CHECK_DEADLOCK FALSE
