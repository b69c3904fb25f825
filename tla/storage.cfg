CONSTANTS
  a = a
  b = b
  Entry = {a, b}
  NoVote = NoVote
  p = p
  Vote = {NoVote, p}
  Torn = Torn
  Absent = Absent
  MaxLen = 3
  MaxRecords = 3
  Worlds <- OneCrashEach
SPECIFICATION Spec
INVARIANTS TypeOK CommitCovered
PROPERTIES LogIsStable MetaIsStable 
