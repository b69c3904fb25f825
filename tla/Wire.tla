-------------------------------- MODULE Wire --------------------------------
(***************************************************************************)
(* A node that is elected time and again sends its log to its followers    *)
(* through the codec, over connections that may end at any byte, and every *)
(* node keeps its log in a file that is read back through the codec too.   *)
(***************************************************************************)
EXTENDS Codec, AppendLoop

CONSTANTS
  Leader, Follower,   \* the leader and the set of its peers
  Sizes,              \* lengths of keys and values that clients send
  MaxLen,             \* bound: no command is taken beyond this length
  MaxTerm,            \* bound: elections of the leader
  LoopTerm, LoopLen   \* bounds on the requests that LoopIsReconcile tries

ASSUME WireAssumption ==
  IsFiniteSet(Follower) /\ Leader \notin Follower /\ Sizes \subseteq Nat
  /\ {MaxLen, MaxTerm, LoopTerm, LoopLen} \subseteq Nat

VARIABLES
  term,                   \* the leader's currentTerm; 0 before it is elected
  log,                    \* log_entries of each node
  file,                   \* its logs.bin
  nextIndex, matchIndex,  \* the leader's, for each follower
  commitIndex             \* the leader's

vars == <<term, log, file, nextIndex, matchIndex, commitIndex>>

Node == Follower \cup {Leader}
OP_PUT == 1
OP_NOOP == 3

Init ==
  /\ term = 0
  /\ log = [n \in Node |-> <<>>]
  /\ file = [n \in Node |-> <<>>]
  /\ nextIndex = [p \in Follower |-> 1]
  /\ matchIndex = [p \in Follower |-> 0]
  /\ commitIndex = 0

\* push_back of an entry and writelog.
AppendEntry(command) ==
  LET e == Entry(term', Len(log[Leader]) + 1, command)
  IN  /\ log' = [log EXCEPT ![Leader] = Append(@, e)]
      /\ file' = [file EXCEPT ![Leader] = @ \o SerializeLogEntry(e)]

\* becomeLeader: the NOOP, and nextIndex past it.
Elected ==
  /\ term < MaxTerm
  /\ term' = term + 1
  /\ AppendEntry(Command(OP_NOOP, <<>>, <<>>))
  /\ nextIndex' = [p \in Follower |-> Len(log'[Leader]) + 1]
  /\ matchIndex' = [p \in Follower |-> 0]
  /\ UNCHANGED commitIndex

\* proposeAndWait.
Put(k, v) ==
  /\ term > 0 /\ Len(log[Leader]) < MaxLen
  /\ UNCHANGED term
  /\ AppendEntry(Command(OP_PUT, Text("key", k), Text("value", v)))
  /\ UNCHANGED <<nextIndex, matchIndex, commitIndex>>

\* What the leader sends p, as a stream of cells.
Args(p) ==
  [term |-> term, leaderId |-> Leader,
   prevLogIndex |-> nextIndex[p] - 1, prevLogTerm |-> TermAt(log[Leader], nextIndex[p] - 1),
   leaderCommit |-> commitIndex,
   entries |-> SubSeq(log[Leader], nextIndex[p], Len(log[Leader]))]
Sent(p) == Rpc(SerializeAppendEntriesArgs(Args(p)))

\* The first k cells of it arrive and p handles what recvRpc makes of them.
Arrived(p, k) == SubSeq(Sent(p), 1, k)
Received(p, k) == DeserializeAppendEntriesArgs(Body(Arrived(p, k)))
Success(p, a) == PrevMatches(log[p], a.prevLogIndex, a.prevLogTerm)

\* The loop of steps 4 and 5, and persistLogFull if it has changed the log.
Handle(p, k) ==
  LET a == Received(p, k)
      l == IF Success(p, a) THEN AppendLoop(log[p], a.entries) ELSE Loop(log[p], FALSE)
  IN  /\ RecvRpc(Arrived(p, k))
      /\ log' = [log EXCEPT ![p] = l.log]
      /\ file' = [file EXCEPT ![p] = IF l.logChanged THEN SerializeAll(l.log) ELSE @]

\* advanceCommit: the highest entry of this term on a majority.
Holding(i, match) == {Leader} \cup {p \in Follower : match[p] >= i}
Majority == Cardinality(Node) \div 2 + 1
Committable(match) ==
  {i \in 1..Len(log[Leader]) :
     log[Leader][i].term = term /\ Cardinality(Holding(i, match)) >= Majority}

\* The leader, who knows what it sent, counts it.
Count(p) ==
  LET match == Max({matchIndex[p], Args(p).prevLogIndex + Len(Args(p).entries)})
  IN  /\ matchIndex' = [matchIndex EXCEPT ![p] = match]
      /\ nextIndex' = [nextIndex EXCEPT ![p] = match + 1]
      /\ commitIndex' = Max({commitIndex} \cup Committable(matchIndex'))

\* Mutant: reply.success is not looked at.
BackUp_AsSuccess(p) == Count(p)

BackUp(p) ==
  /\ nextIndex' = [nextIndex EXCEPT ![p] = IF @ > 1 THEN @ - 1 ELSE @]
  /\ UNCHANGED <<matchIndex, commitIndex>>

\* One RPC to p, with k cells of the request and j cells of the reply arriving.
AppendEntries(p, k, j) ==
  LET ok == Success(p, Received(p, k))
      reply == SubSeq(Rpc(SerializeAppendEntriesReply([term |-> term, success |-> ok])), 1, j)
  IN  /\ term > 0
      /\ Handle(p, k)
      /\ \/ ~RecvRpc(reply) /\ UNCHANGED <<nextIndex, matchIndex, commitIndex>>
         \/ RecvRpc(reply) /\ DeserializeAppendEntriesReply(Body(reply)).success /\ Count(p)
         \/ RecvRpc(reply) /\ ~DeserializeAppendEntriesReply(Body(reply)).success /\ BackUp(p)
      /\ UNCHANGED term

\* A follower restarts: readLogs, and truncateLogFile to what it could read.
Restart(p) ==
  LET r == DeserializeLogEntry(file[p])
  IN  /\ log' = [log EXCEPT ![p] = r.logs]
      /\ file' = [file EXCEPT ![p] = SubSeq(@, 1, r.valid_bytes)]
      /\ UNCHANGED <<term, nextIndex, matchIndex, commitIndex>>

Next ==
  \/ Elected
  \/ \E k, v \in Sizes : Put(k, v)
  \/ \E p \in Follower : \E k \in 1..Len(Sent(p)), j \in 0..3 : AppendEntries(p, k, j)
  \/ \E p \in Follower : Restart(p)

Spec == Init /\ [][Next]_vars

-----------------------------------------------------------------------------
\* Every length fits its field: handlePut looks at none (server.cpp:575), and what
\* is said below of logs and files is said of clients that keep to this.
Fits == Sizes \subseteq 0 .. LenMod - 1

\* Reading the file of a node gives its log, every length that fits included: a
\* restart changes nothing.
ReadBack ==
  \A n \in Node :
    DeserializeLogEntry(file[n]) = [logs |-> log[n], valid_bytes |-> Len(file[n])]

\* Wherever a crash cuts the file, reading stops at the end of a whole record,
\* and an entry appended to the file truncated there is read back (storage.cpp
\* relies on it in recover()).
NewEntry == Entry(term, 0, Command(OP_PUT, <<>>, <<>>))
TornTailDropped ==
  \A n \in Node : \A k \in 0..Len(file[n]) :
    LET r == DeserializeLogEntry(SubSeq(file[n], 1, k))
        appended == SubSeq(file[n], 1, r.valid_bytes) \o SerializeLogEntry(NewEntry)
    IN  /\ Len(r.logs) <= Len(log[n])
        /\ r.logs = SubSeq(log[n], 1, Len(r.logs))
        /\ DeserializeLogEntry(appended).logs = Append(r.logs, NewEntry)

\* What the leader counts as replicated is in the follower's log, character by
\* character, although the connection may have ended anywhere.
CountedIsHeld ==
  \A p \in Follower :
    /\ matchIndex[p] <= Len(log[p])
    /\ SubSeq(log[p], 1, matchIndex[p]) = SubSeq(log[Leader], 1, matchIndex[p])

\* The requests that pass step 3, whatever follows there.
RequestsAfter(prev) ==
  UNION {{[k \in 1..n |-> Entry(t[k], prev + k, NewEntry.cmd)] : t \in [1..n -> 1..LoopTerm]} :
           n \in 0..LoopLen}
Requests(l) == UNION {RequestsAfter(prev) : prev \in 0..Len(l)}

\* Entry by entry, the loop does what Reconcile does in one step, and logChanged,
\* on which persistLogFull depends, says whether that is a change.
LoopIsReconcile ==
  \A p \in Follower : \A es \in Requests(log[p]) :
    AppendLoop(log[p], es) = Loop(Reconcile(log[p], es), Reconcile(log[p], es) # log[p])

\* The loop leaves an entry of each term sent at its place, all that was there
\* before the request, and, if nothing conflicts, all that was there after it:
\* a request that comes late does not take back what was acknowledged since.
KeepsAgreed ==
  \A p \in Follower : \A es \in Requests(log[p]) :
    LET l == log[p]
        m == AppendLoop(l, es).log
        conflicts == {k \in 1..Len(es) : Held(l, es[k]) /\ l[es[k].index].term # es[k].term}
    IN  /\ \A k \in 1..Len(es) : Held(m, es[k]) /\ m[es[k].index].term = es[k].term
        /\ \A i \in 1..Len(l) : (\A k \in 1..Len(es) : i < es[k].index) => m[i] = l[i]
        /\ conflicts = {} => SubSeq(m, 1, Len(l)) = l

\* An entry is committed when a majority stores it (design.md section 8).
CommittedIsHeld ==
  \A i \in 1..commitIndex :
    Cardinality({n \in Node : Len(log[n]) >= i /\ log[n][i] = log[Leader][i]}) >= Majority
=============================================================================
