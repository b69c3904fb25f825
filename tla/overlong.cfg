CONSTANTS
  Leader = "n1"
  Follower <- Followers
  LenMod = 3
  Sizes <- TooLong
  MaxLen = 3
  MaxTerm = 2
  LoopTerm = 2
  LoopLen = 3
SPECIFICATION Spec
INVARIANT CommittedIsHeld
\* Nothing is left to do when everything is replicated.
CHECK_DEADLOCK FALSE
