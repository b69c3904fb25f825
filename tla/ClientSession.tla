--------------------------- MODULE ClientSession ---------------------------
(***************************************************************************)
(* RaftClient (cli/client.cpp) against the client ports of a cluster       *)
(* (handleClient, handleCommand and proposeAndWait in server.cpp): the     *)
(* loop of execute() that connects, sends, waits, follows redirects and    *)
(* tries again, for every client one line after the other.                 *)
(*                                                                         *)
(* The cluster is what Raft makes of it: a sequence of committed commands, *)
(* the leader's uncommitted tail, of which an election keeps a prefix, and *)
(* at most one node that believes to lead.                                 *)
(***************************************************************************)
EXTENDS Integers, FiniteSets, SequencesExt

CONSTANTS
  Client,
  Settings       \* what the clients ask for, and what may go wrong: records of
                 \*   servers   how many are in the client's list
                 \*   tries     MAX_TRIES, 20 in the code
                 \*   program   the lines each client is given
                 \*   timeouts  waits may time out, redirects may be out of date
                 \*   late      what a closed connection still holds may be handled
                 \*   reigns    bound: leaders in a behaviour
                 \*   crashes   bound: crashes of servers

\* A line that a client is given.
LineType ==
  [op : {"PUT", "GET", "DELETE", "DUMP", "BLANK", "BAD", "QUIT"}, key : STRING, value : STRING]

ASSUME ClientAssumption ==
  \A s \in Settings :
    /\ {s.servers, s.tries} \subseteq Nat \ {0}
    /\ DOMAIN s.program = Client /\ \A c \in Client : s.program[c] \in Seq(LineType)
    /\ {s.timeouts, s.late} \subseteq BOOLEAN

VARIABLES
  setting,    \* one of Settings, the same throughout
  pc,         \* "ready", "try" (the top of the loop) or "poll"
  tries,      \* attempt
  current,    \* the server in use
  link,       \* the connection, with both its ends
  response,   \* the lines read so far
  answers,    \* history: what execute() returned
  leader,     \* 0 if none
  committed,  \* the commands that all state machines are given
  store,      \* what those have become
  tail,       \* the rest of the leader's log
  late,       \* lines left unread in connections that clients have closed
  down, reigns, crashes

clientVars  == <<pc, tries, current, link, response, answers>>
machineVars == <<committed, store>>
logVars     == <<machineVars, tail>>
clusterVars == <<leader, down, reigns, crashes>>
vars == <<setting, clientVars, clusterVars, logVars, late>>

N == setting.servers
Server == 1..N        \* by their positions in the list
Program == setting.program

-----------------------------------------------------------------------------
(* Lines, the state machine and replies *)

Put(k, v) == [op |-> "PUT", key |-> k, value |-> v]
Get(k)    == [op |-> "GET", key |-> k, value |-> ""]
Delete(k) == [op |-> "DELETE", key |-> k, value |-> ""]
Other(op) == [op |-> op, key |-> "", value |-> ""]   \* "DUMP", "BLANK", "BAD" or "QUIT"

\* A line on its way, with who sent it.
Request(c) ==
  LET i == Len(answers[c]) + 1 IN [client |-> c, number |-> i, line |-> setting.program[c][i]]

Proposed(r) == r.line.op \in {"PUT", "GET", "DELETE"}
Local(r)    == r.line.op = "DUMP"

Lines == UNION {UNION {ToSet(s.program[c]) : c \in Client} : s \in Settings}
Keys == {line.key : line \in Lines}
Empty == [k \in Keys |-> "NOT_FOUND"]

\* KVStateMachine::apply; a GET is in the log as a NOOP.
Apply(data, line) ==
  CASE line.op = "PUT"    -> [data EXCEPT ![line.key] = line.value]
    [] line.op = "DELETE" -> [data EXCEPT ![line.key] = "NOT_FOUND"]
    [] OTHER              -> data

\* One line of a reply to r.
Line(r, text, hint) == [to |-> r, text |-> text, hint |-> hint]

\* What proposeAndWait returns for a command that is committed.
Result(r) ==
  Line(r, IF r.line.op = "GET" THEN store[r.line.key] ELSE "OK", 0)

\* notLeaderMsg: a node knows of a leader or not; what it knows may be out of
\* date, and need not be in the client's list.
Redirects(r) ==
  {IF h = 0 THEN Line(r, "UNKNOWN_LEADER", 0) ELSE Line(r, "NOT_LEADER", h) :
     h \in IF setting.timeouts THEN 0..N + 1 ELSE {0, leader}}

-----------------------------------------------------------------------------
(* Connections *)

NoLink == [server |-> 0, open |-> FALSE, inbox |-> <<>>, serving |-> 0, outbox |-> <<>>]
LinkTo(s, lines) ==
  [server |-> s, open |-> TRUE, inbox |-> lines, serving |-> 0, outbox |-> <<>>]

\* Lines that the server has not taken up.
Unread(l) == IF l.serving = 0 THEN l.inbox ELSE Tail(l.inbox)

\* Mutant: the connection is kept.
CloseConn_Kept(c) == UNCHANGED <<link, late>>

CloseConn(c) ==
  /\ link' = [link EXCEPT ![c] = NoLink]
  /\ late' = IF setting.late /\ link[c].server # 0
             THEN late \cup {[server |-> link[c].server, request |-> r] : r \in ToSet(Unread(link[c]))}
             ELSE late

\* The first server that answers: main connects before it reads a line.
FirstUp == CHOOSE s \in Server \ down : \A r \in Server \ down : s <= r

Init ==
  /\ setting \in Settings
  /\ leader \in Server
  /\ down \in {D \in SUBSET (Server \ {leader}) : 2 * Cardinality(D) < N}
  /\ pc = [c \in Client |-> "ready"]
  /\ tries = [c \in Client |-> 0]
  /\ current = [c \in Client |-> FirstUp]
  /\ link = [c \in Client |-> LinkTo(FirstUp, <<>>)]
  /\ response = [c \in Client |-> <<>>]
  /\ answers = [c \in Client |-> <<>>]
  /\ committed = <<>> /\ store = Empty /\ tail = <<>> /\ late = {}
  /\ reigns = 1 /\ crashes = 0

-----------------------------------------------------------------------------
(* execute() *)

\* main's loop reads a line.
Begin(c) ==
  /\ pc[c] = "ready"
  /\ Len(answers[c]) < Len(Program[c])
  /\ pc' = [pc EXCEPT ![c] = "try"]
  /\ tries' = [tries EXCEPT ![c] = 0]
  /\ UNCHANGED <<current, link, response, answers, clusterVars, logVars, late>>

\* execute() returns.
Return(c, line) ==
  /\ answers' = [answers EXCEPT ![c] = Append(@, line)]
  /\ pc' = [pc EXCEPT ![c] = "ready"]

GiveUp(c) ==
  /\ pc[c] = "try" /\ tries[c] = setting.tries
  /\ Return(c, Line(Request(c), "GAVE_UP", 0))
  /\ UNCHANGED <<tries, current, link, response, clusterVars, logVars, late>>

\* sendOnce, its send: a connection whose other end is gone takes it too.
SendOn(c) ==
  /\ pc[c] = "try" /\ tries[c] < setting.tries
  /\ link[c].open
  /\ link' = [link EXCEPT ![c].inbox = IF link[c].server = 0 THEN @ ELSE Append(@, Request(c))]
  /\ pc' = [pc EXCEPT ![c] = "poll"]
  /\ UNCHANGED <<tries, current, response, answers, clusterVars, logVars, late>>

\* Mutant: the list does not wrap around.
Ahead_Past(s, k) == s + k

\* The server k places further in the list.
Ahead(s, k) == ((s + k - 1) % N) + 1

\* ensureConnected: the first that answers, from the current one on.
Dial(c) ==
  /\ pc[c] = "try" /\ tries[c] < setting.tries
  /\ ~link[c].open
  /\ \E k \in 0..N - 1 :
       LET s == Ahead(current[c], k)
       IN  /\ s \notin down
           /\ \A j \in 0..k - 1 : Ahead(current[c], j) \in down
           /\ current' = [current EXCEPT ![c] = s]
           /\ link' = [link EXCEPT ![c] = LinkTo(s, <<Request(c)>>)]
  /\ pc' = [pc EXCEPT ![c] = "poll"]
  /\ UNCHANGED <<tries, response, answers, clusterVars, logVars, late>>

Unreachable(c) ==
  /\ pc[c] = "try" /\ tries[c] < setting.tries
  /\ ~link[c].open /\ down = Server
  /\ Return(c, Line(Request(c), "NO_SERVER", 0))
  /\ UNCHANGED <<tries, current, link, response, clusterVars, logVars, late>>

\* Mutants: the target does not change; the attempt is not counted.
TryNext_Stay(c, s) ==
  /\ UNCHANGED current
  /\ tries' = [tries EXCEPT ![c] = @ + 1]
  /\ pc' = [pc EXCEPT ![c] = "try"]
  /\ CloseConn(c)
TryNext_Uncounted(c, s) ==
  /\ current' = [current EXCEPT ![c] = s]
  /\ UNCHANGED tries
  /\ pc' = [pc EXCEPT ![c] = "try"]
  /\ CloseConn(c)

\* continue: the next attempt goes to s.
TryNext(c, s) ==
  /\ current' = [current EXCEPT ![c] = s]
  /\ tries' = [tries EXCEPT ![c] = @ + 1]
  /\ pc' = [pc EXCEPT ![c] = "try"]
  /\ CloseConn(c)

\* One recv: what has arrived of the replies, one line or several.  Every line
\* ends in a newline, so that of a single-line command is its last recv.
Read(c, k) == response[c] \o SubSeq(link[c].outbox, 1, k)
Receives(c, k) == pc[c] = "poll" /\ k \in 1..Len(link[c].outbox)
Consume(c, k) == link' = [link EXCEPT ![c].outbox = SubSeq(@, k + 1, Len(@))]

ReceiveMore(c, k) ==
  /\ Receives(c, k) /\ Local(Request(c))
  /\ Consume(c, k)
  /\ response' = [response EXCEPT ![c] = Read(c, k)]
  /\ UNCHANGED <<pc, tries, current, answers, clusterVars, logVars, late>>

\* What execute() does with a whole response depends on how it begins.
Redirected(line) == line.text = "NOT_LEADER"

\* Mutant: a commit timeout is taken for an answer.
Rejected_NoTimeout(line) == line.text = "UNKNOWN_LEADER"

Rejected(line) == line.text \in {"UNKNOWN_LEADER", "COMMIT_TIMEOUT"}

\* indexForId: the leader may not be in the list.
ReceiveRedirect(c, k) ==
  LET hint == Read(c, k)[1].hint
  IN  /\ Receives(c, k) /\ ~Local(Request(c))
      /\ Redirected(Read(c, k)[1])
      /\ TryNext(c, IF hint \in Server THEN hint ELSE Ahead(current[c], 1))
      /\ UNCHANGED <<response, answers, clusterVars, logVars>>

ReceiveRejection(c, k) ==
  /\ Receives(c, k) /\ ~Local(Request(c))
  /\ Rejected(Read(c, k)[1])
  /\ TryNext(c, Ahead(current[c], 1))
  /\ UNCHANGED <<response, answers, clusterVars, logVars>>

ReceiveAnswer(c, k) ==
  /\ Receives(c, k) /\ ~Local(Request(c))
  /\ ~Redirected(Read(c, k)[1]) /\ ~Rejected(Read(c, k)[1])
  /\ Consume(c, k)
  /\ Return(c, Read(c, k)[1])
  /\ UNCHANGED <<tries, current, response, clusterVars, logVars, late>>

\* A multi-line reply is taken for complete when nothing comes for 200 ms.
GoneIdle(c) ==
  /\ pc[c] = "poll"
  /\ Local(Request(c)) /\ response[c] # <<>>
  /\ Return(c, response[c][1])
  /\ response' = [response EXCEPT ![c] = <<>>]
  /\ UNCHANGED <<tries, current, link, clusterVars, logVars, late>>

\* Nothing for five seconds, or the other end is gone.
NoAnswer(c) ==
  /\ pc[c] = "poll"
  /\ \/ link[c].server = 0 /\ link[c].outbox = <<>>
     \/ setting.timeouts /\ response[c] = <<>>
     \/ Request(c).line.op = "BLANK" /\ link[c].outbox = <<>>
  /\ TryNext(c, Ahead(current[c], 1))
  /\ response' = [response EXCEPT ![c] = <<>>]
  /\ UNCHANGED <<answers, clusterVars, logVars>>

ClientStep(c) ==
  \/ Begin(c) \/ GiveUp(c) \/ SendOn(c) \/ Dial(c) \/ Unreachable(c)
  \/ \E k \in 1..Len(link[c].outbox) :
       \/ ReceiveMore(c, k) \/ ReceiveRedirect(c, k)
       \/ ReceiveRejection(c, k) \/ ReceiveAnswer(c, k)
  \/ GoneIdle(c) \/ NoAnswer(c)

-----------------------------------------------------------------------------
(* handleClient, the thread at the other end of a connection *)

\* The thread is between two lines and has another.
Idle(c) == link[c].server # 0 /\ link[c].serving = 0 /\ link[c].inbox # <<>>

\* The line at the head of the inbox is done, with these lines for an answer.
Reply(c, lines) ==
  /\ link' = [link EXCEPT ![c].inbox = Tail(@), ![c].serving = 0, ![c].outbox = @ \o lines]
  /\ UNCHANGED <<pc, tries, current, response, answers, clusterVars, machineVars, late>>

\* Answers that need no other node: \dump has a line for each key and a count,
\* a line of nothing but a carriage return has no answer at all.
LocalReply(r) ==
  CASE r.line.op = "DUMP"  -> <<Line(r, "key", 0), Line(r, "count", 0)>>
    [] r.line.op = "BLANK" -> <<>>
    [] r.line.op = "QUIT"  -> <<Line(r, "Goodbye", 0)>>
    [] OTHER                  -> <<Line(r, "ERR", 0)>>

ServeLocal(c) ==
  LET r == Head(link[c].inbox)
  IN  /\ Idle(c)
      /\ ~Proposed(r) /\ r.line.op # "QUIT"
      /\ Reply(c, LocalReply(r))
      /\ UNCHANGED tail

\* The server closes the connection after its answer.
ServeQuit(c) ==
  LET r == Head(link[c].inbox)
  IN  /\ Idle(c)
      /\ r.line.op = "QUIT"
      /\ link' = [link EXCEPT ![c].server = 0, ![c].inbox = <<>>,
                              ![c].outbox = @ \o LocalReply(r)]
      /\ UNCHANGED <<pc, tries, current, response, answers, clusterVars, logVars, late>>

ServeRedirect(c) ==
  LET r == Head(link[c].inbox)
  IN  /\ Idle(c)
      /\ Proposed(r) /\ leader # link[c].server
      /\ \E m \in Redirects(r) : Reply(c, <<m>>)
      /\ UNCHANGED tail

\* proposeAndWait up to its wait.
ServePropose(c) ==
  LET r == Head(link[c].inbox)
  IN  /\ Idle(c)
      /\ Proposed(r) /\ leader = link[c].server
      /\ tail' = Append(tail, r)
      /\ link' = [link EXCEPT ![c].serving = Len(committed) + Len(tail) + 1]
      /\ UNCHANGED <<pc, tries, current, response, answers, clusterVars, machineVars, late>>

Waited(c) == Len(committed) >= link[c].serving

\* The wait is over.
AnswerOk(c) ==
  /\ link[c].serving # 0 /\ leader = link[c].server
  /\ Waited(c)
  /\ Reply(c, <<Result(Head(link[c].inbox))>>)
  /\ UNCHANGED tail

AnswerDeposed(c) ==
  /\ link[c].serving # 0 /\ leader # link[c].server
  /\ \E m \in Redirects(Head(link[c].inbox)) : Reply(c, <<m>>)
  /\ UNCHANGED tail

AnswerTimeout(c) ==
  /\ setting.timeouts
  /\ link[c].serving # 0 /\ leader = link[c].server
  /\ ~Waited(c)
  /\ Reply(c, <<Line(Head(link[c].inbox), "COMMIT_TIMEOUT", 0)>>)
  /\ UNCHANGED tail

\* A thread whose client has gone reads what is left in its connection.
HandleLate(l) ==
  /\ l \in late
  /\ l.server \notin down
  /\ late' = late \ {l}
  /\ tail' = IF leader = l.server /\ Proposed(l.request) THEN Append(tail, l.request) ELSE tail
  /\ UNCHANGED <<clientVars, clusterVars, machineVars>>

ServerStep(c) ==
  \/ ServeLocal(c) \/ ServeQuit(c) \/ ServeRedirect(c) \/ ServePropose(c)
  \/ AnswerOk(c) \/ AnswerDeposed(c) \/ AnswerTimeout(c)

-----------------------------------------------------------------------------
(* The cluster *)

Commit ==
  /\ leader # 0 /\ tail # <<>>
  /\ committed' = Append(committed, Head(tail))
  /\ store' = Apply(store, Head(tail).line)
  /\ tail' = Tail(tail)
  /\ UNCHANGED <<clientVars, clusterVars, late>>

\* A new leader has what is committed and some of the rest.  Its own NOOP, which
\* changes no state, is left out, and with it what a leader answers that comes
\* back while a thread waits (RaftService has both).
Elect(s) ==
  /\ reigns < setting.reigns
  /\ s \notin down /\ s # leader
  /\ reigns' = reigns + 1
  /\ leader' = s
  /\ \E k \in 0..Len(tail) : tail' = SubSeq(tail, 1, k)
  /\ UNCHANGED <<clientVars, down, crashes, machineVars, late>>

\* The leader hears of a higher term.
StepDown ==
  /\ reigns < setting.reigns
  /\ leader # 0
  /\ leader' = 0
  /\ UNCHANGED <<clientVars, down, reigns, crashes, logVars, late>>

\* What a dead process had sent may still arrive.
Crash(s) ==
  /\ crashes < setting.crashes
  /\ s \notin down
  /\ crashes' = crashes + 1
  /\ down' = down \cup {s}
  /\ leader' = IF leader = s THEN 0 ELSE leader
  /\ link' = [c \in Client |->
                IF link[c].server = s
                THEN [link[c] EXCEPT !.server = 0, !.inbox = <<>>, !.serving = 0]
                ELSE link[c]]
  /\ late' = {l \in late : l.server # s}
  /\ UNCHANGED <<pc, tries, current, response, answers, reigns, logVars>>

Restart(s) ==
  /\ setting.crashes > 0
  /\ s \in down
  /\ down' = down \ {s}
  /\ UNCHANGED <<clientVars, leader, reigns, crashes, logVars, late>>

ClusterStep ==
  \/ Commit \/ StepDown
  \/ \E s \in Server : Elect(s) \/ Crash(s) \/ Restart(s)
  \/ \E l \in late : HandleLate(l)

Next ==
  /\ UNCHANGED setting
  /\ (\E c \in Client : ClientStep(c) \/ ServerStep(c)) \/ ClusterStep

Spec == Init /\ [][Next]_vars

\* The client's own thread goes on, and so do the threads that serve it.
FairSpec == Spec /\ \A c \in Client : WF_clientVars(ClientStep(c))

-----------------------------------------------------------------------------
(* Properties *)

\* What the clients may ever send.
Requests ==
  UNION {{[client |-> c, number |-> i, line |-> Program[c][i]] : i \in 1..Len(Program[c])} :
           c \in Client}

Refusals == {"NOT_LEADER", "UNKNOWN_LEADER", "COMMIT_TIMEOUT"}
Reserved == Refusals \cup {"GAVE_UP", "NO_SERVER"}
Texts == Reserved \cup {"OK", "NOT_FOUND", "key", "count", "Goodbye", "ERR"}
                  \cup {line.value : line \in Lines}

ReplyType == [to : Requests, text : Texts, hint : Nat]
LinkType  == [server : Server \cup {0}, open : BOOLEAN, inbox : Seq(Requests), serving : Nat,
              outbox : Seq(ReplyType)]

\* Every variable has its type; requests are lines of the program, a client that
\* is in execute() has a line, and so has a thread that waits.
TypeOK ==
  /\ setting \in Settings
  /\ pc \in [Client -> {"ready", "try", "poll"}]
  /\ tries \in [Client -> Nat] /\ current \in [Client -> Server]
  /\ link \in [Client -> LinkType]
  /\ response \in [Client -> Seq(ReplyType)] /\ answers \in [Client -> Seq(ReplyType)]
  /\ leader \in Server \cup {0}
  /\ committed \in Seq(Requests) /\ tail \in Seq(Requests) /\ store \in [Keys -> Texts]
  /\ late \subseteq [server : Server, request : Requests]
  /\ down \subseteq Server /\ reigns \in Nat /\ crashes \in Nat
  /\ \A c \in Client :
       /\ Len(answers[c]) <= Len(Program[c])
       /\ pc[c] # "ready" => Len(answers[c]) < Len(Program[c])
       /\ link[c].serving # 0 => link[c].inbox # <<>>

\* A dump is the last thing a client asks for: what a pause cuts off of it
\* is read as the answer to the next line (client.cpp:77).
DumpsLast == \A c \in Client : \A i \in 1..Len(Program[c]) - 1 : Program[c][i].op # "DUMP"

\* Whatever the connections did, execute() returns the answer to its own line,
\* not to one that was given up before (CloseConn before every retry).
AnswerIsOwn ==
  DumpsLast => \A c \in Client : \A i \in 1..Len(answers[c]) :
    answers[c][i].to.client = c /\ answers[c][i].to.number = i

\* A client that is alone and got real answers so far reads what it wrote last:
\* the copies of a command that retries leave in the log do no harm, as they
\* come before the next command (design.md section 10, "linearizable").
Real(line) == line.text \notin {"GAVE_UP", "NO_SERVER"}
Writes(line, k) == line.op \in {"PUT", "DELETE"} /\ line.key = k
Left(line) == IF line.op = "PUT" THEN line.value ELSE "NOT_FOUND"

\* What the lines of c before the i-th leave under the key k.
Expected(c, i, k, text) ==
  \/ text = "NOT_FOUND" /\ \A j \in 1..i - 1 : ~Writes(Program[c][j], k)
  \/ \E j \in 1..i - 1 :
       /\ Writes(Program[c][j], k) /\ text = Left(Program[c][j])
       /\ \A m \in j + 1..i - 1 : ~Writes(Program[c][m], k)

RealUpTo(c, i) == \A j \in 1..i : Real(answers[c][j])
Alone == DumpsLast /\ ~setting.late /\ \A c, d \in Client : c = d
ReadsOwnWrites ==
  Alone => \A c \in Client : \A i \in 1..Len(answers[c]) :
    Program[c][i].op = "GET" /\ RealUpTo(c, i)
      => Expected(c, i, Program[c][i].key, answers[c][i].text)

\* In a cluster whose leader stays and whose nodes name no other, execute()
\* finds the leader, with as many tries as there are servers and one more for a
\* connection that a server has closed: it does not give up on a command
\* (client.cpp:16-18), unless no server answers the line or the answer to it
\* begins like a refusal (client.cpp:134).
Plain == \A c \in Client : \A i \in 1..Len(Program[c]) :
           Program[c][i].op # "BLANK" /\ Program[c][i].value \notin Reserved
Calm == /\ ~setting.timeouts /\ setting.reigns = 1 /\ setting.crashes = 0
        /\ setting.tries > N /\ DumpsLast /\ Plain
FindsLeader ==
  Calm => \A c \in Client : \A i \in 1..Len(answers[c]) : Real(answers[c][i])

\* Every line is answered at last, or given up, whatever the servers do
\* (execute() has MAX_TRIES attempts, and each of its waits has an end).
Finishes ==
  setting.timeouts => \A c \in Client : <>(Len(answers[c]) = Len(Program[c]))

-----------------------------------------------------------------------------
(* The parts of the inductive invariants behind them *)

\* Between two attempts nothing is on its way in either direction, but for what
\* the last dump has left to read.
Finished(c) == Len(answers[c]) = Len(Program[c])
Silent(c) ==
  /\ link[c].inbox = <<>> /\ link[c].serving = 0 /\ response[c] = <<>>
  /\ Finished(c) \/ link[c].outbox = <<>>

\* Within one, only its own line and the answer to it, never both.
Exchange(c) ==
  /\ link[c].inbox \in {<<>>, <<Request(c)>>}
  /\ link[c].inbox = <<>> => link[c].serving = 0
  /\ link[c].inbox # <<>> => link[c].outbox = <<>> /\ response[c] = <<>>
  /\ \A i \in 1..Len(link[c].outbox) : link[c].outbox[i].to = Request(c)
  /\ \A i \in 1..Len(response[c]) : response[c][i].to = Request(c)
  /\ ~Local(Request(c)) => Len(link[c].outbox) <= 1 /\ response[c] = <<>>

\* The inductive invariant behind AnswerIsOwn: every retry begins on a silent
\* connection.
SessionInv ==
  /\ AnswerIsOwn
  /\ DumpsLast => \A c \in Client : IF pc[c] = "poll" THEN Exchange(c) ELSE Silent(c)

\* How far down the list the leader is.
Distance(s) == IF s <= leader THEN leader - s ELSE leader - s + N

\* What a server says when it refuses is true; the rest does not look like it.
Truthful(l, m) ==
  /\ m.text \notin {"COMMIT_TIMEOUT", "GAVE_UP", "NO_SERVER"}
  /\ m.text \in Refusals => Proposed(m.to) /\ l.server \notin {0, leader}
  /\ m.text = "NOT_LEADER" => m.hint = leader

\* A connection is that to the current server, or its server has closed it
\* after a QUIT.  One is open before a line is read and during an attempt, and
\* a thread that waits is one of the leader's.
Connected(c) ==
  /\ link[c].open => link[c].server \in {0, current[c]} /\ current[c] \notin down
  /\ pc[c] = "poll" \/ (pc[c] = "ready" /\ ~Finished(c)) => link[c].open
  /\ link[c].serving # 0 => link[c].server = leader

\* The attempts made and the servers left to try add up to no more than there
\* are servers; the first attempt may be lost on a closed connection.
OnTheWay(c) ==
  /\ pc[c] = "try" /\ link[c].open => tries[c] = 0
  /\ pc[c] = "try" /\ ~link[c].open => tries[c] + Distance(current[c]) <= N
  /\ pc[c] = "poll" /\ link[c].server # 0 => tries[c] + Distance(current[c]) <= N
  /\ pc[c] = "poll" /\ link[c].server = 0 =>
       tries[c] = 0 \/ (Request(c).line.op = "QUIT" /\ link[c].outbox # <<>>)

\* The inductive invariant behind FindsLeader.
FindInv ==
  Calm =>
    /\ FindsLeader
    /\ leader \in Server \ down /\ reigns = 1 /\ crashes = 0
    /\ \A k \in Keys : store[k] \notin Reserved
    /\ \A c \in Client :
         /\ Connected(c) /\ OnTheWay(c)
         /\ \A i \in 1..Len(link[c].outbox) : Truthful(link[c], link[c].outbox[i])
         /\ \A i \in 1..Len(response[c]) : response[c][i].text \notin Reserved

\* The log, the uncommitted part included.
Log == committed \o tail

\* The commands of the client are in the log in its order, the copies of one
\* next to each other, and nothing is there that it has not sent.
Sent(c) == IF pc[c] = "ready" THEN Len(answers[c]) ELSE Len(answers[c]) + 1
LogInOrder(c) ==
  \A i \in 1..Len(Log) :
    /\ Log[i].number <= Sent(c)
    /\ \A j \in 1..i : Log[j].number <= Log[i].number

\* A thread waits for its own command, or for an index that the log, cut by an
\* election, does not reach.
WaitsForOwn(c) ==
  link[c].serving # 0 /\ link[c].serving <= Len(Log) => Log[link[c].serving] = Request(c)

Committed(i) == \E j \in 1..Len(committed) : committed[j].number = i

\* A command that was answered is committed, and an answer on its way is one.
AnsweredIsCommitted(c) ==
  /\ \A i \in 1..Len(answers[c]) :
       Real(answers[c][i]) /\ Program[c][i].op \in {"PUT", "GET", "DELETE"} => Committed(i)
  /\ \A i \in 1..Len(link[c].outbox) :
       pc[c] = "poll" /\ Proposed(Request(c)) /\ link[c].outbox[i].text \notin Refusals
         => Committed(Request(c).number)

\* The state machine has the last write to each key.
StoreIsLast ==
  \A k \in Keys :
    \/ store[k] = "NOT_FOUND" /\ \A i \in 1..Len(committed) : ~Writes(committed[i].line, k)
    \/ \E i \in 1..Len(committed) :
         /\ Writes(committed[i].line, k) /\ store[k] = Left(committed[i].line)
         /\ \A j \in i + 1..Len(committed) : ~Writes(committed[j].line, k)

\* A read on its way to the client is what its earlier lines have left.
ReadOnItsWay(c) ==
  \A i \in 1..Len(link[c].outbox) :
    /\ pc[c] = "poll" /\ Request(c).line.op = "GET" /\ link[c].outbox[i].text \notin Refusals
    /\ RealUpTo(c, Len(answers[c]))
    => Expected(c, Request(c).number, Request(c).line.key, link[c].outbox[i].text)

\* The inductive invariant behind ReadsOwnWrites.
OwnWritesInv ==
  /\ ReadsOwnWrites
  /\ StoreIsLast
  /\ Alone => late = {} /\ \A c \in Client :
       LogInOrder(c) /\ WaitsForOwn(c) /\ AnsweredIsCommitted(c) /\ ReadOnItsWay(c)
=============================================================================
