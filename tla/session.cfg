CONSTANTS
  alice = alice
  Client = {alice}
  Settings <- QuietStormyOrTardy
SPECIFICATION FairSpec
INVARIANTS TypeOK AnswerIsOwn  FindsLeader
PROPERTY Finishes
\* Behaviours end when every line has its answer.
CHECK_DEADLOCK FALSE
