---------------------------- MODULE ClientProof ----------------------------
(***************************************************************************)
(* What ClientSession promises its clients, for every list of servers,     *)
(* program and number of tries: types, that an answer belongs to its line, *)
(* that the leader is found, and that a client reads what it wrote.        *)
(***************************************************************************)
EXTENDS ClientSession, SequenceTheorems, WellFoundedInduction, TLAPS

\* What the setting fixes.
LEMMA SettingFacts ==
  ASSUME TypeOK
  PROVE  /\ N \in Nat /\ N > 0 /\ setting.tries \in Nat /\ setting.tries > 0
         /\ \A c \in Client : Program[c] \in Seq(LineType)
         /\ \A c \in Client : \A i \in 1..Len(Program[c]) :
              /\ Program[c][i] \in LineType /\ Program[c][i].key \in Keys
              /\ [client |-> c, number |-> i, line |-> Program[c][i]] \in Requests
         /\ setting.timeouts \in BOOLEAN /\ setting.late \in BOOLEAN
<1>1. setting \in Settings
  BY DEF TypeOK
<1>2. {setting.servers, setting.tries} \subseteq Nat \ {0}
      /\ {setting.timeouts, setting.late} \subseteq BOOLEAN
      /\ \A c \in Client : setting.program[c] \in Seq(LineType)
  BY <1>1, ClientAssumption
<1>3. ASSUME NEW c \in Client, NEW i \in 1..Len(Program[c])
      PROVE  /\ Program[c][i] \in LineType /\ Program[c][i].key \in Keys
             /\ [client |-> c, number |-> i, line |-> Program[c][i]] \in Requests
  <2>1. Program[c] \in Seq(LineType)
    BY <1>2 DEF Program
  <2>2. Program[c][i] \in LineType /\ Program[c][i] \in ToSet(setting.program[c])
    BY <2>1 DEF ToSet, Program
  <2>3. Program[c][i] \in Lines
    BY <1>1, <2>2 DEF Lines
  <2> QED
    BY <2>2, <2>3 DEF Keys, Requests
<1> QED
  BY <1>2, <1>3 DEF N, Program

LEMMA RequestFacts ==
  ASSUME TypeOK, NEW r \in Requests
  PROVE  /\ r.client \in Client /\ r.number \in 1..Len(Program[r.client])
         /\ r.line = Program[r.client][r.number] /\ r.line \in LineType /\ r.line.key \in Keys
  BY SettingFacts DEF Requests

\* A client in execute() asks for the next line of its program.
LEMMA RequestIsNext ==
  ASSUME TypeOK, NEW c \in Client
  PROVE  /\ Len(answers[c]) \in Nat
         /\ Request(c).client = c /\ Request(c).number = Len(answers[c]) + 1
         /\ Request(c).line = Program[c][Len(answers[c]) + 1]
         /\ pc[c] # "ready" => Request(c) \in Requests
<1>1. answers[c] \in Seq(ReplyType) /\ Len(answers[c]) \in Nat
  BY DEF TypeOK
<1>2. pc[c] # "ready" => Len(answers[c]) + 1 \in 1..Len(Program[c])
  BY <1>1, SettingFacts DEF TypeOK
<1> QED
  BY <1>1, <1>2, SettingFacts DEF Request, Program

\* What does not change with the state.
LEMMA SameSetting ==
  ASSUME UNCHANGED setting
  PROVE  /\ N' = N /\ Server' = Server /\ Program' = Program /\ Requests' = Requests
         /\ ReplyType' = ReplyType /\ LinkType' = LinkType
         /\ DumpsLast' = DumpsLast /\ Alone' = Alone /\ Plain' = Plain /\ Calm' = Calm
  BY DEF N, Server, Program, Requests, ReplyType, LinkType, DumpsLast, Alone, Plain, Calm

LEMMA LinkFields ==
  ASSUME TypeOK, NEW c \in Client
  PROVE  /\ link[c] \in LinkType
         /\ link[c].server \in Server \cup {0} /\ link[c].open \in BOOLEAN
         /\ link[c].inbox \in Seq(Requests) /\ link[c].serving \in Nat
         /\ link[c].outbox \in Seq(ReplyType)
         /\ link[c].serving # 0 => link[c].inbox # <<>>
         /\ response[c] \in Seq(ReplyType) /\ answers[c] \in Seq(ReplyType)
  BY DEF TypeOK, LinkType

-----------------------------------------------------------------------------
(* Types *)

\* A place further down the list.
LEMMA AheadFacts ==
  ASSUME TypeOK, NEW s \in Server, NEW k \in 0..N
  PROVE  /\ Ahead(s, k) \in Server
         /\ Ahead(s, k) = IF s + k <= N THEN s + k ELSE s + k - N
<1>. DEFINE x == s + k - 1
<1>1. N \in Nat /\ N > 0 /\ s \in 1..N /\ x \in Nat
  BY SettingFacts DEF Server
<1>2. CASE s + k <= N
  <2>1. x \in 0..N - 1
    BY <1>1, <1>2
  <2>2. x % N = x
    BY <1>1, <2>1
  <2> QED
    BY <1>1, <1>2, <2>2 DEF Ahead, Server
<1>3. CASE s + k > N
  <2>1. x - N \in 0..N - 1
    BY <1>1, <1>3
  <2>2. x % N = x - N
    BY <1>1, <2>1
  <2> QED
    BY <1>1, <1>3, <2>2 DEF Ahead, Server
<1> QED
  BY <1>1, <1>2, <1>3

\* The least number of a set, for the first server that is up.
LEMMA FirstUpFacts ==
  ASSUME N \in Nat, NEW s \in Server \ down
  PROVE  FirstUp \in Server \ down
<1>. DEFINE S == Server \ down
            R == {p \in Nat \X Nat : p[1] < p[2]}
<1>1. IsWellFoundedOn(R, Nat)
  BY NatLessThanWellFounded DEF OpToRel
<1>2. S \subseteq Nat /\ S # {}
  BY DEF Server
<1>3. PICK x \in S : \A y \in S : ~(<<y, x>> \in R)
  BY <1>1, <1>2, IsWellFoundedOnSubset, WFMin
<1>4. ASSUME NEW y \in S PROVE x <= y
  <2>1. <<y, x>> \in Nat \X Nat
    BY <1>2
  <2>2. ~(<<y, x>>[1] < <<y, x>>[2])
    BY <1>3, <2>1, Zenon
  <2> QED
    BY <1>2, <2>2
<1> QED
  BY <1>4 DEF FirstUp

LEMMA SessionTypeInit == Init => TypeOK
<1>. SUFFICES ASSUME Init PROVE TypeOK
  OBVIOUS
<1>1. N \in Nat /\ \A c \in Client : Len(Program[c]) \in Nat
  BY ClientAssumption DEF Init, N, Program
<1>2. leader \in Server /\ down \subseteq Server /\ leader \notin down
  BY DEF Init
<1>3. FirstUp \in Server
  BY <1>1, <1>2, FirstUpFacts
<1>4. Empty \in [Keys -> Texts]
  BY DEF Empty, Texts
<1>5. LinkTo(FirstUp, <<>>) \in LinkType
  BY <1>3 DEF LinkTo, NoLink, LinkType
<1>6. \A c \in Client : Len(answers[c]) = 0 /\ pc[c] = "ready" /\ link[c].serving = 0
  BY DEF Init, LinkTo
<1> QED
  BY <1>1, <1>2, <1>3, <1>4, <1>5, <1>6 DEF Init, TypeOK

\* What the parts of execute() leave behind.
LEMMA LineIsReply ==
  ASSUME NEW r \in Requests, NEW t \in Texts, NEW h \in Nat
  PROVE  Line(r, t, h) \in ReplyType
  BY DEF Line, ReplyType

LEMMA CloseConnType ==
  ASSUME TypeOK, NEW c \in Client, CloseConn(c)
  PROVE  /\ link' \in [Client -> LinkType]
         /\ \A d \in Client : link'[d].serving # 0 => link'[d].inbox # <<>>
         /\ late' \subseteq [server : Server, request : Requests]
<1>1. NoLink \in LinkType /\ NoLink.serving = 0
  BY DEF NoLink, LinkType
<1>2. Unread(link[c]) \in Seq(Requests)
  BY LinkFields DEF Unread
<1>3. ToSet(Unread(link[c])) \subseteq Requests
  BY <1>2 DEF ToSet
<1>4. link[c].server # 0 => link[c].server \in Server
  BY LinkFields
<1> QED
  BY <1>1, <1>3, <1>4 DEF CloseConn, TypeOK

LEMMA TryNextType ==
  ASSUME TypeOK, NEW c \in Client, NEW s \in Server, TryNext(c, s)
  PROVE  /\ link' \in [Client -> LinkType] /\ late' \subseteq [server : Server, request : Requests]
         /\ \A d \in Client : link'[d].serving # 0 => link'[d].inbox # <<>>
         /\ current' \in [Client -> Server] /\ tries' \in [Client -> Nat]
         /\ pc' = [pc EXCEPT ![c] = "try"]
<1>1. CloseConn(c)
  BY DEF TryNext
<1>2. tries[c] + 1 \in Nat
  BY DEF TypeOK
<1> QED
  BY <1>1, <1>2, CloseConnType DEF TryNext, TypeOK

LEMMA ReturnType ==
  ASSUME TypeOK, NEW c \in Client, NEW m \in ReplyType, pc[c] # "ready", Return(c, m)
  PROVE  /\ answers' = [answers EXCEPT ![c] = Append(answers[c], m)]
         /\ answers' \in [Client -> Seq(ReplyType)]
         /\ pc' \in [Client -> {"ready", "try", "poll"}]
         /\ \A d \in Client : Len(answers'[d]) <= Len(Program[d])
                              /\ (pc'[d] # "ready" => Len(answers'[d]) < Len(Program[d]))
<1>1. answers[c] \in Seq(ReplyType) /\ Len(answers[c]) < Len(Program[c])
      /\ Len(answers[c]) \in Nat /\ Len(Program[c]) \in Nat
  BY SettingFacts DEF TypeOK
<1>2. Append(answers[c], m) \in Seq(ReplyType) /\ Len(Append(answers[c], m)) = Len(answers[c]) + 1
  BY <1>1
<1>3. Len(Append(answers[c], m)) <= Len(Program[c])
  BY <1>1, <1>2
<1> QED
  BY <1>2, <1>3 DEF Return, TypeOK

\* What recv gives: the lines that have been read and at least one more.
LEMMA ReadFacts ==
  ASSUME TypeOK, NEW c \in Client, NEW k, Receives(c, k)
  PROVE  /\ k \in Nat /\ k >= 1 /\ k <= Len(link[c].outbox)
         /\ Read(c, k) \in Seq(ReplyType) /\ Read(c, k)[1] \in ReplyType
         /\ response[c] = <<>> => Read(c, k)[1] = link[c].outbox[1]
         /\ SubSeq(link[c].outbox, k + 1, Len(link[c].outbox)) \in Seq(ReplyType)
         /\ pc[c] = "poll"
<1>1. k \in Nat /\ k >= 1 /\ k <= Len(link[c].outbox) /\ pc[c] = "poll"
  BY LinkFields DEF Receives
<1>. DEFINE s == SubSeq(link[c].outbox, 1, k)
<1>2. s \in Seq(ReplyType) /\ Len(s) = k /\ s[1] = link[c].outbox[1]
  BY <1>1, LinkFields
<1>3. SubSeq(link[c].outbox, k + 1, Len(link[c].outbox)) \in Seq(ReplyType)
  BY <1>1, LinkFields
<1>4. Read(c, k) = response[c] \o s
  BY DEF Read
<1>5. Read(c, k) \in Seq(ReplyType) /\ Len(Read(c, k)) = Len(response[c]) + k
  BY <1>1, <1>2, <1>4, LinkFields
<1>6. Read(c, k)[1] \in ReplyType
  BY <1>1, <1>5, LinkFields
<1>7. response[c] = <<>> => Read(c, k)[1] = link[c].outbox[1]
  BY <1>1, <1>2, <1>4
<1> QED
  BY <1>1, <1>3, <1>5, <1>6, <1>7

LEMMA ConsumeType ==
  ASSUME TypeOK, NEW c \in Client, NEW k, Receives(c, k), Consume(c, k)
  PROVE  /\ link' \in [Client -> LinkType]
         /\ \A d \in Client : link'[d].serving # 0 => link'[d].inbox # <<>>
<1>1. SubSeq(link[c].outbox, k + 1, Len(link[c].outbox)) \in Seq(ReplyType)
  BY ReadFacts
<1> QED
  BY <1>1 DEF Consume, TypeOK, LinkType

LEMMA TypeClientStep ==
  ASSUME TypeOK, UNCHANGED setting, NEW c \in Client, ClientStep(c)
  PROVE  TypeOK'
<1>. USE DEF clusterVars, logVars, machineVars
<1>0. /\ Server' = Server /\ Program' = Program /\ Requests' = Requests
      /\ ReplyType' = ReplyType /\ LinkType' = LinkType
  BY SameSetting
<1>00. N \in Nat /\ N > 0 /\ 1 \in 0..N
  BY SettingFacts
<1>000. current[c] \in Server /\ Ahead(current[c], 1) \in Server
  BY <1>00, AheadFacts DEF TypeOK
<1>0000. \A d \in Client : Len(answers[d]) \in Nat /\ Len(Program[d]) \in Nat
  BY SettingFacts DEF TypeOK
<1>1. CASE Begin(c)
  <2>1. Len(answers[c]) < Len(Program[c])
    BY <1>1 DEF Begin
  <2> QED
    BY <1>0, <1>1, <2>1 DEF TypeOK, Begin
<1>2. CASE GiveUp(c)
  <2>1. pc[c] # "ready" /\ Return(c, Line(Request(c), "GAVE_UP", 0))
    BY <1>2 DEF GiveUp
  <2>2. Line(Request(c), "GAVE_UP", 0) \in ReplyType
    BY <2>1, RequestIsNext, LineIsReply DEF Texts, Reserved
  <2> QED
    BY <1>0, <1>2, <2>1, <2>2, ReturnType DEF TypeOK, GiveUp
<1>3. CASE SendOn(c)
  <2>1. Append(link[c].inbox, Request(c)) \in Seq(Requests)
    BY <1>3, RequestIsNext, LinkFields DEF SendOn
  <2>2. link' \in [Client -> LinkType]
    BY <1>3, <2>1 DEF SendOn, TypeOK, LinkType
  <2>3. Append(link[c].inbox, Request(c)) # <<>>
    BY LinkFields
  <2>4. \A d \in Client : link'[d].serving # 0 => link'[d].inbox # <<>>
    BY <1>3, <2>3 DEF SendOn, TypeOK, LinkType
  <2> QED
    BY <1>0, <1>3, <2>2, <2>4 DEF TypeOK, SendOn
<1>4. CASE Dial(c)
  <2>1. PICK k \in 0..N - 1 :
          /\ current' = [current EXCEPT ![c] = Ahead(current[c], k)]
          /\ link' = [link EXCEPT ![c] = LinkTo(Ahead(current[c], k), <<Request(c)>>)]
    BY <1>4 DEF Dial
  <2>2. Ahead(current[c], k) \in Server
    BY <1>00, <1>000, AheadFacts
  <2>3. Request(c) \in Requests
    BY <1>4, RequestIsNext DEF Dial
  <2>4. /\ LinkTo(Ahead(current[c], k), <<Request(c)>>) \in LinkType
        /\ LinkTo(Ahead(current[c], k), <<Request(c)>>).serving = 0
    BY <2>2, <2>3 DEF LinkTo, LinkType
  <2> QED
    BY <1>0, <1>4, <2>1, <2>2, <2>4 DEF TypeOK, Dial
<1>5. CASE Unreachable(c)
  <2>1. pc[c] # "ready" /\ Return(c, Line(Request(c), "NO_SERVER", 0))
    BY <1>5 DEF Unreachable
  <2>2. Line(Request(c), "NO_SERVER", 0) \in ReplyType
    BY <2>1, RequestIsNext, LineIsReply DEF Texts, Reserved
  <2> QED
    BY <1>0, <1>5, <2>1, <2>2, ReturnType DEF TypeOK, Unreachable
<1>6. ASSUME NEW k, ReceiveMore(c, k) PROVE TypeOK'
  <2>1. Receives(c, k) /\ Consume(c, k)
    BY <1>6 DEF ReceiveMore
  <2>2. /\ link' \in [Client -> LinkType] /\ Read(c, k) \in Seq(ReplyType)
        /\ \A d \in Client : link'[d].serving # 0 => link'[d].inbox # <<>>
    BY <2>1, ConsumeType, ReadFacts
  <2> QED
    BY <1>0, <1>6, <2>2 DEF TypeOK, ReceiveMore
<1>7. ASSUME NEW k, NEW s \in Server, Receives(c, k), TryNext(c, s),
             UNCHANGED <<response, answers, clusterVars, logVars>>
      PROVE  TypeOK'
  <2>1. pc[c] = "poll"
    BY <1>7, ReadFacts
  <2>2. /\ link' \in [Client -> LinkType] /\ late' \subseteq [server : Server, request : Requests]
        /\ \A d \in Client : link'[d].serving # 0 => link'[d].inbox # <<>>
        /\ current' \in [Client -> Server] /\ tries' \in [Client -> Nat]
        /\ pc' = [pc EXCEPT ![c] = "try"]
    BY <1>7, TryNextType
  <2> QED
    BY <1>0, <1>7, <2>1, <2>2 DEF TypeOK
<1>8. ASSUME NEW k, ReceiveRedirect(c, k) PROVE TypeOK'
  BY <1>7, <1>8, <1>000 DEF ReceiveRedirect
<1>9. ASSUME NEW k, ReceiveRejection(c, k) PROVE TypeOK'
  BY <1>7, <1>9, <1>000 DEF ReceiveRejection
<1>10. ASSUME NEW k, ReceiveAnswer(c, k) PROVE TypeOK'
  <2>1. Receives(c, k) /\ Consume(c, k) /\ Return(c, Read(c, k)[1])
    BY <1>10 DEF ReceiveAnswer
  <2>2. pc[c] # "ready" /\ Read(c, k)[1] \in ReplyType
    BY <2>1, ReadFacts
  <2>3. /\ link' \in [Client -> LinkType]
        /\ \A d \in Client : link'[d].serving # 0 => link'[d].inbox # <<>>
    BY <2>1, ConsumeType
  <2> QED
    BY <1>0, <1>10, <2>1, <2>2, <2>3, ReturnType DEF TypeOK, ReceiveAnswer
<1>11. CASE GoneIdle(c)
  <2>1. pc[c] # "ready" /\ Return(c, response[c][1]) /\ response[c] # <<>>
    BY <1>11 DEF GoneIdle
  <2>2. response[c][1] \in ReplyType
    BY <2>1, LinkFields
  <2> QED
    BY <1>0, <1>11, <2>1, <2>2, ReturnType DEF TypeOK, GoneIdle
<1>12. CASE NoAnswer(c)
  <2>1. pc[c] = "poll" /\ TryNext(c, Ahead(current[c], 1))
    BY <1>12 DEF NoAnswer
  <2>2. /\ link' \in [Client -> LinkType] /\ late' \subseteq [server : Server, request : Requests]
        /\ \A d \in Client : link'[d].serving # 0 => link'[d].inbox # <<>>
        /\ current' \in [Client -> Server] /\ tries' \in [Client -> Nat]
        /\ pc' = [pc EXCEPT ![c] = "try"]
    BY <1>000, <2>1, TryNextType
  <2> QED
    BY <1>0, <1>12, <2>1, <2>2 DEF TypeOK, NoAnswer
<1> QED
  BY <1>1, <1>2, <1>3, <1>4, <1>5, <1>6, <1>8, <1>9, <1>10, <1>11, <1>12 DEF ClientStep

\* What the threads that serve a connection leave behind.
LEMMA RepliesType ==
  ASSUME TypeOK, NEW r \in Requests
  PROVE  /\ LocalReply(r) \in Seq(ReplyType)
         /\ Redirects(r) \subseteq ReplyType
         /\ Result(r) \in ReplyType
         /\ Line(r, "COMMIT_TIMEOUT", 0) \in ReplyType
<1>1. {"OK", "key", "count", "Goodbye", "ERR"} \cup Reserved \subseteq Texts
  BY DEF Texts
<1>2. \A t \in Texts, h \in Nat : Line(r, t, h) \in ReplyType
  BY LineIsReply
<1>3. LocalReply(r) \in Seq(ReplyType)
  BY <1>1, <1>2 DEF LocalReply
<1>4. Redirects(r) \subseteq ReplyType
  <2>1. N \in Nat /\ leader \in Nat
    BY SettingFacts DEF TypeOK, Server
  <2>2. {"NOT_LEADER", "UNKNOWN_LEADER"} \subseteq Texts
    BY <1>1 DEF Reserved, Refusals
  <2>3. (IF setting.timeouts THEN 0..N + 1 ELSE {0, leader}) \subseteq Nat
    BY <2>1
  <2> QED
    BY <1>2, <2>2, <2>3 DEF Redirects
<1>5. Result(r) \in ReplyType
  <2>1. store[r.line.key] \in Texts
    BY RequestFacts DEF TypeOK
  <2> QED
    BY <1>1, <1>2, <2>1 DEF Result
<1>6. "COMMIT_TIMEOUT" \in Texts
  BY <1>1 DEF Reserved, Refusals
<1> QED
  BY <1>2, <1>3, <1>4, <1>5, <1>6

LEMMA ReplyEffect ==
  ASSUME TypeOK, NEW c \in Client, NEW lines \in Seq(ReplyType),
         link[c].inbox # <<>>, Reply(c, lines)
  PROVE  /\ link' \in [Client -> LinkType]
         /\ link'[c].inbox = Tail(link[c].inbox) /\ link'[c].serving = 0
         /\ link'[c].outbox = link[c].outbox \o lines
         /\ link'[c].server = link[c].server /\ link'[c].open = link[c].open
         /\ \A d \in Client \ {c} : link'[d] = link[d]
<1>1. Tail(link[c].inbox) \in Seq(Requests) /\ link[c].outbox \o lines \in Seq(ReplyType)
  BY LinkFields
<1>2. link \in [Client -> LinkType]
  BY DEF TypeOK
<1>3. link' \in [Client -> LinkType]
  BY <1>1, <1>2 DEF Reply, LinkType
<1> QED
  BY <1>2, <1>3 DEF Reply, LinkType

LEMMA QuitEffect ==
  ASSUME TypeOK, NEW c \in Client, ServeQuit(c)
  PROVE  /\ link' \in [Client -> LinkType]
         /\ link'[c].inbox = <<>> /\ link'[c].serving = 0 /\ link'[c].server = 0
         /\ link'[c].outbox = link[c].outbox \o LocalReply(Head(link[c].inbox))
         /\ link'[c].open = link[c].open
         /\ \A d \in Client \ {c} : link'[d] = link[d]
<1>1. Head(link[c].inbox) \in Requests /\ link[c].serving = 0
  BY LinkFields DEF ServeQuit, Idle
<1>2. LocalReply(Head(link[c].inbox)) \in Seq(ReplyType)
  BY <1>1, RepliesType
<1>3. link[c].outbox \o LocalReply(Head(link[c].inbox)) \in Seq(ReplyType)
      /\ <<>> \in Seq(Requests)
  BY <1>2, LinkFields
<1>4. link \in [Client -> LinkType]
  BY DEF TypeOK
<1>. HIDE DEF TypeOK
<1>5. link' \in [Client -> LinkType]
  BY <1>3, <1>4 DEF ServeQuit, LinkType
<1> QED
  BY <1>1, <1>4, <1>5 DEF ServeQuit, LinkType

LEMMA TypeReply ==
  ASSUME TypeOK, UNCHANGED setting, NEW c \in Client, NEW lines \in Seq(ReplyType),
         link[c].inbox # <<>>, Reply(c, lines), UNCHANGED tail
  PROVE  TypeOK'
<1>1. /\ Server' = Server /\ Program' = Program /\ Requests' = Requests
      /\ ReplyType' = ReplyType /\ LinkType' = LinkType
  BY SameSetting
<1>2. /\ link' \in [Client -> LinkType]
      /\ \A d \in Client : link'[d].serving # 0 => link'[d].inbox # <<>>
  BY ReplyEffect, LinkFields
<1> QED
  BY <1>1, <1>2 DEF TypeOK, Reply, clusterVars, machineVars

LEMMA TypeServerStep ==
  ASSUME TypeOK, UNCHANGED setting, NEW c \in Client, ServerStep(c)
  PROVE  TypeOK'
<1>. DEFINE r == Head(link[c].inbox)
<1>0. /\ Server' = Server /\ Program' = Program /\ Requests' = Requests
      /\ ReplyType' = ReplyType /\ LinkType' = LinkType
  BY SameSetting
<1>1. link[c].inbox # <<>> => r \in Requests
  BY LinkFields
<1>2. link[c].inbox # <<>> =>
        /\ LocalReply(r) \in Seq(ReplyType)
        /\ \A m \in Redirects(r) : <<m>> \in Seq(ReplyType)
        /\ <<Result(r)>> \in Seq(ReplyType)
        /\ <<Line(r, "COMMIT_TIMEOUT", 0)>> \in Seq(ReplyType)
  BY <1>1, RepliesType
<1>3. link[c].serving # 0 => link[c].inbox # <<>>
  BY LinkFields
<1>. HIDE DEF r
<1>4. CASE ServeLocal(c)
  BY <1>2, <1>4, TypeReply DEF ServeLocal, Idle, r
<1>5. CASE ServeQuit(c)
  <2>1. /\ link' \in [Client -> LinkType]
        /\ \A d \in Client : link'[d].serving # 0 => link'[d].inbox # <<>>
    BY <1>5, QuitEffect, LinkFields
  <2> QED
    BY <1>0, <1>5, <2>1 DEF TypeOK, ServeQuit, clusterVars, logVars, machineVars
<1>6. CASE ServeRedirect(c)
  BY <1>2, <1>6, TypeReply DEF ServeRedirect, Idle, r
<1>7. CASE ServePropose(c)
  <2>1. link[c].inbox # <<>>
    BY <1>7 DEF ServePropose, Idle
  <2>2. tail' \in Seq(Requests) /\ Len(committed) + Len(tail) + 1 \in Nat
    BY <1>1, <1>7, <2>1 DEF ServePropose, TypeOK, r
  <2>3. /\ link' \in [Client -> LinkType]
        /\ \A d \in Client : link'[d].serving # 0 => link'[d].inbox # <<>>
    BY <1>7, <2>1, <2>2 DEF ServePropose, TypeOK, LinkType
  <2> QED
    BY <1>0, <1>7, <2>2, <2>3 DEF TypeOK, ServePropose, clusterVars, machineVars
<1>8. CASE AnswerOk(c)
  BY <1>2, <1>3, <1>8, TypeReply DEF AnswerOk, r
<1>9. CASE AnswerDeposed(c)
  BY <1>2, <1>3, <1>9, TypeReply DEF AnswerDeposed, r
<1>10. CASE AnswerTimeout(c)
  BY <1>2, <1>3, <1>10, TypeReply DEF AnswerTimeout, r
<1> QED
  BY <1>4, <1>5, <1>6, <1>7, <1>8, <1>9, <1>10 DEF ServerStep

LEMMA ApplyType ==
  ASSUME TypeOK, NEW r \in Requests
  PROVE  Apply(store, r.line) \in [Keys -> Texts]
<1>1. r.line \in Lines
  <2>1. setting \in Settings /\ r.client \in Client /\ r.number \in 1..Len(Program[r.client])
        /\ r.line = Program[r.client][r.number] /\ Program[r.client] \in Seq(LineType)
    BY RequestFacts, SettingFacts DEF TypeOK
  <2>2. r.line \in ToSet(setting.program[r.client])
    BY <2>1 DEF ToSet, Program
  <2> QED
    BY <2>1, <2>2 DEF Lines
<1>2. r.line.value \in Texts /\ "NOT_FOUND" \in Texts
  BY <1>1 DEF Texts
<1> QED
  BY <1>2 DEF Apply, TypeOK

LEMMA CrashEffect ==
  ASSUME TypeOK, NEW s \in Server, Crash(s)
  PROVE  /\ link' \in [Client -> LinkType]
         /\ \A c \in Client :
              /\ link'[c].open = link[c].open /\ link'[c].outbox = link[c].outbox
              /\ link[c].server = s => link'[c].server = 0 /\ link'[c].inbox = <<>>
                                       /\ link'[c].serving = 0
              /\ link[c].server # s => link'[c] = link[c]
<1>1. link \in [Client -> LinkType]
  BY DEF TypeOK
<1>2. ASSUME NEW l \in LinkType
      PROVE  [l EXCEPT !.server = 0, !.inbox = <<>>, !.serving = 0] \in LinkType
  <2>1. <<>> \in Seq(Requests)
    BY EmptySeq
  <2> QED
    BY <2>1 DEF LinkType
<1>3. link' \in [Client -> LinkType]
  BY <1>1, <1>2 DEF Crash
<1> QED
  BY <1>1, <1>3 DEF Crash, LinkType

LEMMA TypeClusterStep ==
  ASSUME TypeOK, UNCHANGED setting, ClusterStep
  PROVE  TypeOK'
<1>. USE DEF clientVars, clusterVars, logVars, machineVars
<1>0. /\ Server' = Server /\ Program' = Program /\ Requests' = Requests
      /\ ReplyType' = ReplyType /\ LinkType' = LinkType
  BY SameSetting
<1>1. CASE Commit
  <2>1. Head(tail) \in Requests /\ tail' \in Seq(Requests)
    BY <1>1 DEF Commit, TypeOK
  <2>2. committed' \in Seq(Requests) /\ store' \in [Keys -> Texts]
    BY <1>1, <2>1, ApplyType DEF Commit, TypeOK
  <2> QED
    BY <1>0, <1>1, <2>1, <2>2 DEF TypeOK, Commit
<1>2. CASE StepDown
  BY <1>0, <1>2 DEF TypeOK, StepDown
<1>3. ASSUME NEW s \in Server, Elect(s) PROVE TypeOK'
  <2>1. tail' \in Seq(Requests)
    BY <1>3 DEF Elect, TypeOK
  <2>2. reigns' \in Nat
    BY <1>3 DEF Elect, TypeOK
  <2> QED
    BY <1>0, <1>3, <2>1, <2>2 DEF TypeOK, Elect
<1>4. ASSUME NEW s \in Server, Crash(s) PROVE TypeOK'
  <2>1. /\ link' \in [Client -> LinkType]
        /\ \A d \in Client : link'[d].serving # 0 => link'[d].inbox # <<>>
    BY <1>4, CrashEffect, LinkFields
  <2>2. late' \subseteq [server : Server, request : Requests]
    BY <1>4 DEF Crash, TypeOK
  <2>3. crashes' \in Nat
    <3>1. crashes' = crashes + 1
      BY <1>4 DEF Crash
    <3> QED
      BY <3>1 DEF TypeOK
  <2>5. leader' \in Server \cup {0}
    BY <1>4 DEF Crash, TypeOK
  <2>4. down' \subseteq Server
    BY <1>4 DEF Crash, TypeOK
  <2> QED
    BY <1>0, <1>4, <2>1, <2>2, <2>3, <2>4, <2>5 DEF TypeOK, Crash
<1>5. ASSUME NEW s \in Server, Restart(s) PROVE TypeOK'
  BY <1>0, <1>5 DEF TypeOK, Restart
<1>6. ASSUME NEW l \in late, HandleLate(l) PROVE TypeOK'
  <2>1. tail' \in Seq(Requests) /\ late' \subseteq [server : Server, request : Requests]
    BY <1>6 DEF HandleLate, TypeOK
  <2> QED
    BY <1>0, <1>6, <2>1 DEF TypeOK, HandleLate
<1> QED
  BY <1>1, <1>2, <1>3, <1>4, <1>5, <1>6 DEF ClusterStep

LEMMA TypeStutter ==
  ASSUME TypeOK, UNCHANGED vars
  PROVE  TypeOK'
<1>1. /\ Server' = Server /\ Program' = Program /\ Requests' = Requests
      /\ ReplyType' = ReplyType /\ LinkType' = LinkType
  BY SameSetting DEF vars
<1> QED
  BY <1>1 DEF TypeOK, vars, clientVars, clusterVars, logVars, machineVars

\* Every variable of ClientSession has its type: what a client asks for is a
\* line of its program, and no thread waits without one.
THEOREM SessionTypeCorrect == Spec => []TypeOK
<1>1. TypeOK /\ [Next]_vars => TypeOK'
  BY TypeClientStep, TypeServerStep, TypeClusterStep, TypeStutter DEF Next
<1> QED
  BY <1>1, SessionTypeInit, PTL DEF Spec

-----------------------------------------------------------------------------
(* An answer belongs to its line *)

\* A client whose connection and attempt are as they were.
Rests(c) == UNCHANGED <<pc[c], link[c], response[c], answers[c]>>

LEMMA RestsKeeps ==
  ASSUME UNCHANGED setting, NEW c \in Client, Rests(c)
  PROVE  /\ Request(c)' = Request(c) /\ Exchange(c)' = Exchange(c) /\ Silent(c)' = Silent(c)
         /\ Finished(c)' = Finished(c)
  BY SameSetting DEF Rests, Request, Exchange, Silent, Finished, Local

\* One client's move: what is left to show is about that client.
OwnAnswers(c) == \A i \in 1..Len(answers[c]) : answers[c][i].to.client = c /\ answers[c][i].to.number = i
Orderly(c) == OwnAnswers(c) /\ IF pc[c] = "poll" THEN Exchange(c) ELSE Silent(c)

LEMMA SessionByClient == SessionInv <=> (DumpsLast => \A c \in Client : Orderly(c))
  BY DEF SessionInv, AnswerIsOwn, Orderly, OwnAnswers

LEMMA OneClientMoves ==
  ASSUME SessionInv, UNCHANGED setting, NEW c \in Client,
         \A d \in Client \ {c} : Rests(d),
         DumpsLast /\ Orderly(c) => Orderly(c)'
  PROVE  SessionInv'
<1>1. SUFFICES ASSUME DumpsLast, NEW d \in Client PROVE Orderly(d)'
  <2>1. DumpsLast' = DumpsLast
    BY SameSetting
  <2> QED
    BY <1>1, <2>1 DEF SessionInv, AnswerIsOwn, Orderly, OwnAnswers
<1>2. Orderly(c) /\ Orderly(d)
  BY <1>1, SessionByClient
<1>3. CASE d = c
  BY <1>1, <1>2, <1>3
<1>4. CASE d # c
  <2>1. Rests(d) /\ Exchange(d)' = Exchange(d) /\ Silent(d)' = Silent(d)
    BY <1>4, RestsKeeps
  <2> QED
    BY <1>2, <2>1 DEF Orderly, OwnAnswers, Rests
<1> QED
  BY <1>3, <1>4

\* The request that an answered line was about, and what comes after it.
LEMMA AnswerCounts ==
  ASSUME TypeOK, NEW c \in Client, OwnAnswers(c), NEW m \in ReplyType, m.to = Request(c),
         pc[c] # "ready", Return(c, m)
  PROVE  /\ OwnAnswers(c)' /\ pc'[c] = "ready" /\ Len(answers'[c]) = Len(answers[c]) + 1
<1>1. answers[c] \in Seq(ReplyType) /\ answers' = [answers EXCEPT ![c] = Append(answers[c], m)]
      /\ pc'[c] = "ready" /\ answers \in [Client -> Seq(ReplyType)]
  BY LinkFields DEF Return, TypeOK
<1>2. answers'[c] = Append(answers[c], m) /\ Len(answers'[c]) = Len(answers[c]) + 1
  BY <1>1
<1>3. m.to.client = c /\ m.to.number = Len(answers[c]) + 1
  BY RequestIsNext
<1>4. ASSUME NEW i \in 1..Len(answers'[c])
      PROVE  answers'[c][i].to.client = c /\ answers'[c][i].to.number = i
  <2>1. CASE i \in 1..Len(answers[c])
    BY <1>1, <1>2, <2>1 DEF OwnAnswers
  <2>2. CASE i = Len(answers[c]) + 1
    BY <1>1, <1>2, <1>3, <2>2
  <2> QED
    BY <1>1, <1>2, <2>1, <2>2
<1> QED
  BY <1>1, <1>2, <1>4 DEF OwnAnswers

LEMMA SilentWhenClosed ==
  ASSUME TypeOK, NEW c \in Client, NEW s, TryNext(c, s), response'[c] = <<>>,
         UNCHANGED answers, OwnAnswers(c)
  PROVE  Orderly(c)' /\ link'[c] = NoLink /\ pc'[c] = "try"
<1>1. pc'[c] = "try" /\ link'[c] = NoLink
  BY DEF TryNext, CloseConn, TypeOK
<1>2. Silent(c)'
  BY <1>1 DEF Silent, NoLink
<1>3. OwnAnswers(c)'
  BY DEF OwnAnswers
<1> QED
  BY <1>1, <1>2, <1>3 DEF Orderly

LEMMA TryNextMovesOne ==
  ASSUME TypeOK, NEW c \in Client, NEW s, TryNext(c, s), UNCHANGED answers,
         \A d \in Client \ {c} : response'[d] = response[d]
  PROVE  \A d \in Client \ {c} : Rests(d)
  BY DEF TryNext, CloseConn, TypeOK, Rests

LEMMA JustOne ==
  ASSUME NEW S, NEW s \in Seq(S), Len(s) <= 1, s # <<>>
  PROVE  Len(s) = 1
<1>1. Len(s) \in Nat /\ Len(s) >= 1
  OBVIOUS
<1>2. \A n \in Nat : n <= 1 /\ n >= 1 => n = 1
  OBVIOUS
<1> QED
  BY <1>1, <1>2, Zenon

LEMMA OneOfOne ==
  ASSUME NEW S, NEW s \in Seq(S), Len(s) <= 1, NEW k \in 1..Len(s)
  PROVE  Len(s) = 1 /\ k = 1 /\ s # <<>>
<1>1. k = 1 /\ s # <<>>
  OBVIOUS
<1> QED
  BY <1>1, JustOne, Zenon

LEMMA SessionClientStep ==
  ASSUME TypeOK, SessionInv, UNCHANGED setting, NEW c \in Client, ClientStep(c)
  PROVE  SessionInv'
<1>. USE DEF clusterVars, logVars, machineVars
<1>1. SUFFICES /\ \A d \in Client \ {c} : Rests(d)
               /\ DumpsLast /\ Orderly(c) => Orderly(c)'
  BY OneClientMoves
<1>2. Len(answers[c]) \in Nat /\ Len(Program[c]) \in Nat
  BY SettingFacts, RequestIsNext
<1>3. CASE Begin(c)
  <2>1. /\ pc'[c] = "try" /\ pc[c] = "ready" /\ UNCHANGED <<link, response, answers>>
        /\ Len(answers[c]) < Len(Program[c])
        /\ \A d \in Client \ {c} : Rests(d)
    BY <1>3 DEF Begin, Rests, TypeOK
  <2>2. Silent(c)' = Silent(c) /\ OwnAnswers(c)' = OwnAnswers(c)
    BY <2>1, SameSetting DEF Silent, Finished, OwnAnswers
  <2> QED
    BY <2>1, <2>2 DEF Orderly
<1>4. ASSUME NEW m \in ReplyType, pc[c] = "try", tries[c] <= setting.tries, m.to = Request(c), Return(c, m),
             UNCHANGED <<tries, current, link, response, clusterVars, logVars, late>>
      PROVE  (\A d \in Client \ {c} : Rests(d)) /\ (DumpsLast /\ Orderly(c) => Orderly(c)')
  <2>1. \A d \in Client \ {c} : Rests(d)
    BY <1>4 DEF Return, Rests, TypeOK
  <2>2. ASSUME Orderly(c) PROVE Orderly(c)'
    <3>1. OwnAnswers(c)' /\ pc'[c] = "ready"
      BY <1>4, <2>2, AnswerCounts DEF Orderly
    <3>2. Len(answers[c]) < Len(Program[c])
      BY <1>4 DEF TypeOK
    <3>3. Silent(c)'
      BY <1>2, <1>4, <2>2, <3>2 DEF Orderly, Silent, Finished
    <3> QED
      BY <3>1, <3>3 DEF Orderly
  <2> QED
    BY <2>1, <2>2
<1>5. CASE GiveUp(c)
  <2>1. Line(Request(c), "GAVE_UP", 0) \in ReplyType /\ Line(Request(c), "GAVE_UP", 0).to = Request(c)
    BY <1>5, RequestIsNext, LineIsReply DEF GiveUp, Texts, Reserved, Line
  <2> QED
    BY <1>4, <1>5, <2>1, SettingFacts DEF GiveUp
<1>6. CASE Unreachable(c)
  <2>1. Line(Request(c), "NO_SERVER", 0) \in ReplyType /\ Line(Request(c), "NO_SERVER", 0).to = Request(c)
    BY <1>6, RequestIsNext, LineIsReply DEF Unreachable, Texts, Reserved, Line
  <2>2. tries[c] <= setting.tries
    BY <1>6, SettingFacts DEF Unreachable, TypeOK
  <2> QED
    BY <1>4, <1>6, <2>1, <2>2 DEF Unreachable
<1>7. ASSUME pc[c] = "try", pc' = [pc EXCEPT ![c] = "poll"], UNCHANGED <<response, answers>>,
             \A d \in Client \ {c} : link'[d] = link[d],
             Orderly(c) => /\ link'[c].inbox \in {<<>>, <<Request(c)>>}
                           /\ link'[c].serving = 0 /\ link'[c].outbox = <<>>
      PROVE  (\A d \in Client \ {c} : Rests(d)) /\ (DumpsLast /\ Orderly(c) => Orderly(c)')
  <2>1. \A d \in Client \ {c} : Rests(d)
    BY <1>7 DEF Rests, TypeOK
  <2>2. ASSUME Orderly(c) PROVE Orderly(c)'
    <3>1. Request(c)' = Request(c) /\ OwnAnswers(c)' /\ pc'[c] = "poll"
      BY <1>7, <2>2, SameSetting DEF Request, OwnAnswers, Orderly, TypeOK
    <3>2. response[c] = <<>> /\ response'[c] = <<>>
      BY <1>7, <2>2 DEF Orderly, Silent
    <3>3. Exchange(c)'
      BY <1>7, <2>2, <3>1, <3>2 DEF Exchange
    <3> QED
      BY <3>1, <3>3 DEF Orderly
  <2> QED
    BY <2>1, <2>2
<1>8. CASE SendOn(c)
  <2>1. Len(answers[c]) < Len(Program[c])
    BY <1>8 DEF SendOn, TypeOK
  <2>2. ASSUME Orderly(c)
        PROVE  link'[c].inbox \in {<<>>, <<Request(c)>>} /\ link'[c].serving = 0 /\ link'[c].outbox = <<>>
    <3>1. link[c].inbox = <<>> /\ link[c].serving = 0 /\ link[c].outbox = <<>>
      BY <1>2, <1>8, <2>1, <2>2 DEF Orderly, Silent, Finished, SendOn
    <3>2. Append(<<>>, Request(c)) = <<Request(c)>>
      OBVIOUS
    <3> QED
      BY <1>8, <3>1, <3>2, LinkFields DEF SendOn, TypeOK, LinkType
  <2> QED
    BY <1>7, <1>8, <2>2 DEF SendOn, TypeOK
<1>9. CASE Dial(c)
  <2>1. PICK s : link' = [link EXCEPT ![c] = LinkTo(s, <<Request(c)>>)]
    BY <1>9 DEF Dial
  <2>2. link'[c] = LinkTo(s, <<Request(c)>>)
    BY <2>1 DEF TypeOK
  <2> QED
    BY <1>7, <1>9, <2>1, <2>2 DEF Dial, LinkTo, TypeOK
<1>10. ASSUME NEW k, ReceiveMore(c, k)
       PROVE  (\A d \in Client \ {c} : Rests(d)) /\ (DumpsLast /\ Orderly(c) => Orderly(c)')
  <2>1. \A d \in Client \ {c} : Rests(d)
    BY <1>10 DEF ReceiveMore, Consume, Rests, TypeOK
  <2>2. ASSUME Orderly(c) PROVE Orderly(c)'
    <3>1. /\ pc[c] = "poll" /\ pc'[c] = "poll" /\ Exchange(c) /\ OwnAnswers(c)'
          /\ Request(c)' = Request(c) /\ Local(Request(c))
      BY <1>10, <2>2, SameSetting, ReadFacts
         DEF ReceiveMore, Orderly, OwnAnswers, Request, Local
    <3>2. k \in 1..Len(link[c].outbox) /\ link[c].outbox \in Seq(ReplyType)
      BY <1>10, LinkFields DEF ReceiveMore, Receives
    <3>3. /\ link'[c].inbox = link[c].inbox /\ link'[c].serving = link[c].serving
          /\ link'[c].outbox = SubSeq(link[c].outbox, k + 1, Len(link[c].outbox))
          /\ response'[c] = response[c] \o SubSeq(link[c].outbox, 1, k)
      BY <1>10 DEF ReceiveMore, Consume, Read, TypeOK, LinkType
    <3>4. link[c].inbox = <<>>
      BY <3>1, <3>2 DEF Exchange
    <3>5. \A i \in 1..Len(link'[c].outbox) : link'[c].outbox[i].to = Request(c)
      BY <3>1, <3>2, <3>3 DEF Exchange
    <3>6. ASSUME NEW i \in 1..Len(response'[c]) PROVE response'[c][i].to = Request(c)
      <4>1. response[c] \in Seq(ReplyType)
        BY LinkFields
      <4>2. i <= Len(response[c]) => response'[c][i] = response[c][i]
        BY <3>2, <3>3, <4>1
      <4>3. i > Len(response[c]) => /\ i - Len(response[c]) \in 1..Len(link[c].outbox)
                                    /\ response'[c][i] = link[c].outbox[i - Len(response[c])]
        BY <3>2, <3>3, <4>1
      <4> QED
        BY <3>1, <4>1, <4>2, <4>3 DEF Exchange
    <3>7. Exchange(c)'
      BY <3>1, <3>3, <3>4, <3>5, <3>6 DEF Exchange
    <3> QED
      BY <3>1, <3>7 DEF Orderly
  <2> QED
    BY <2>1, <2>2
<1>11. ASSUME NEW s, pc[c] = "poll", TryNext(c, s),
              UNCHANGED answers,
              response' = [response EXCEPT ![c] = <<>>] \/ (UNCHANGED response /\ ~Local(Request(c)))
       PROVE  (\A d \in Client \ {c} : Rests(d)) /\ (DumpsLast /\ Orderly(c) => Orderly(c)')
  <2>1. \A d \in Client \ {c} : response'[d] = response[d]
    BY <1>11 DEF TypeOK
  <2>2. ASSUME Orderly(c) PROVE response'[c] = <<>> /\ OwnAnswers(c)
    BY <1>11, <2>2 DEF Orderly, Exchange, TypeOK
  <2> QED
    BY <1>11, <2>1, <2>2, SilentWhenClosed, TryNextMovesOne
<1>12. ASSUME NEW k, ReceiveRedirect(c, k) \/ ReceiveRejection(c, k)
       PROVE  (\A d \in Client \ {c} : Rests(d)) /\ (DumpsLast /\ Orderly(c) => Orderly(c)')
  <2>1. pc[c] = "poll"
    BY <1>12, ReadFacts DEF ReceiveRedirect, ReceiveRejection
  <2> QED
    BY <1>11, <1>12, <2>1 DEF ReceiveRedirect, ReceiveRejection
<1>13. CASE NoAnswer(c)
  BY <1>11, <1>13 DEF NoAnswer
<1>14. ASSUME NEW k, ReceiveAnswer(c, k)
       PROVE  (\A d \in Client \ {c} : Rests(d)) /\ (DumpsLast /\ Orderly(c) => Orderly(c)')
  <2>0. Receives(c, k) /\ Consume(c, k) /\ Return(c, Read(c, k)[1]) /\ ~Local(Request(c))
        /\ UNCHANGED response
    BY <1>14 DEF ReceiveAnswer
  <2>1. \A d \in Client \ {c} : Rests(d)
    BY <2>0 DEF Consume, Return, Rests, TypeOK
  <2>2. ASSUME Orderly(c) PROVE Orderly(c)'
    <3>1. /\ pc[c] = "poll" /\ Exchange(c) /\ OwnAnswers(c)
          /\ k \in 1..Len(link[c].outbox) /\ link[c].outbox \in Seq(ReplyType)
      BY <2>0, <2>2, ReadFacts, LinkFields DEF Orderly
    <3>20. response[c] = <<>> /\ Len(link[c].outbox) <= 1
      BY <2>0, <3>1 DEF Exchange
    <3>21. Len(link[c].outbox) = 1 /\ k = 1 /\ link[c].outbox # <<>>
      BY <3>1, <3>20, OneOfOne
    <3>2. response[c] = <<>> /\ Len(link[c].outbox) = 1 /\ k = 1 /\ link[c].inbox = <<>>
          /\ link[c].serving = 0
      BY <3>1, <3>20, <3>21 DEF Exchange
    <3>3. Read(c, k)[1] = link[c].outbox[1] /\ Read(c, k)[1] \in ReplyType
      BY <2>0, <3>2, ReadFacts
    <3>4. Read(c, k)[1].to = Request(c)
      BY <3>1, <3>3 DEF Exchange
    <3>5. OwnAnswers(c)' /\ pc'[c] = "ready"
      BY <2>0, <3>1, <3>3, <3>4, AnswerCounts
    <3>6. /\ link'[c].inbox = <<>> /\ link'[c].serving = 0
          /\ link'[c].outbox = SubSeq(link[c].outbox, k + 1, Len(link[c].outbox))
      BY <2>0, <3>2 DEF Consume, TypeOK, LinkType
    <3>7. link'[c].outbox = <<>>
      BY <3>1, <3>2, <3>6
    <3>8. Silent(c)'
      BY <2>0, <3>2, <3>6, <3>7 DEF Silent
    <3> QED
      BY <3>5, <3>8 DEF Orderly
  <2> QED
    BY <2>1, <2>2
<1>15. CASE GoneIdle(c)
  <2>0. /\ pc[c] = "poll" /\ Local(Request(c)) /\ response[c] # <<>> /\ Return(c, response[c][1])
        /\ response' = [response EXCEPT ![c] = <<>>] /\ UNCHANGED link
    BY <1>15 DEF GoneIdle
  <2>1. \A d \in Client \ {c} : Rests(d)
    BY <2>0 DEF Return, Rests, TypeOK
  <2>2. ASSUME DumpsLast, Orderly(c) PROVE Orderly(c)'
    <3>0. Exchange(c) /\ OwnAnswers(c)
      BY <2>0, <2>2 DEF Orderly
    <3>00. response[c] \in Seq(ReplyType) /\ 1 \in 1..Len(response[c])
      BY <2>0, LinkFields
    <3>1. Exchange(c) /\ OwnAnswers(c) /\ response[c][1] \in ReplyType
          /\ response[c][1].to = Request(c)
      BY <3>0, <3>00 DEF Exchange
    <3>2. OwnAnswers(c)' /\ pc'[c] = "ready" /\ Len(answers'[c]) = Len(answers[c]) + 1
      BY <2>0, <3>1, AnswerCounts
    <3>3. link[c].inbox = <<>> /\ link[c].serving = 0
      BY <2>0, <3>1 DEF Exchange
    <3>4. Len(answers'[c]) = Len(Program[c])
      <4>1. Len(answers[c]) < Len(Program[c])
        BY <2>0 DEF TypeOK
      <4>2. Program[c][Len(answers[c]) + 1].op = "DUMP"
        BY <2>0, RequestIsNext DEF Local
      <4>3. Len(answers[c]) + 1 \notin 1..Len(Program[c]) - 1
        BY <2>2, <4>2 DEF DumpsLast
      <4> QED
        BY <1>2, <3>2, <4>1, <4>3
    <3>5. Finished(c)' /\ response'[c] = <<>>
      BY <2>0, <3>4, SameSetting DEF Finished, TypeOK
    <3>6. Silent(c)'
      BY <2>0, <3>3, <3>5 DEF Silent
    <3> QED
      BY <3>2, <3>6 DEF Orderly
  <2> QED
    BY <2>1, <2>2
<1> QED
  BY <1>3, <1>5, <1>6, <1>8, <1>9, <1>10, <1>12, <1>13, <1>14, <1>15 DEF ClientStep

\* A line that is done: the inbox is empty and its answer on the way.
LEMMA ReplyAnswers ==
  ASSUME TypeOK, SessionInv, UNCHANGED setting, NEW c \in Client, NEW lines \in Seq(ReplyType),
         link[c].inbox # <<>>, Reply(c, lines),
         \A i \in 1..Len(lines) : lines[i].to = Head(link[c].inbox),
         ~Local(Head(link[c].inbox)) => Len(lines) <= 1
  PROVE  SessionInv'
<1>1. UNCHANGED <<pc, response, answers>>
  BY DEF Reply
<1>2. /\ link'[c].inbox = Tail(link[c].inbox) /\ link'[c].serving = 0
      /\ link'[c].outbox = link[c].outbox \o lines
      /\ \A d \in Client \ {c} : link'[d] = link[d]
  BY ReplyEffect
<1>3. \A d \in Client \ {c} : Rests(d)
  BY <1>1, <1>2 DEF Rests
<1>4. ASSUME Orderly(c) PROVE Orderly(c)'
  <2>1. Request(c)' = Request(c) /\ OwnAnswers(c)' /\ pc'[c] = pc[c]
    BY <1>1, <1>4, SameSetting DEF Request, OwnAnswers, Orderly
  <2>2. pc[c] = "poll" /\ Exchange(c)
    BY <1>4 DEF Orderly, Silent
  <2>3. link[c].inbox = <<Request(c)>> /\ link[c].outbox = <<>> /\ response[c] = <<>>
    BY <2>2 DEF Exchange
  <2>4. Head(link[c].inbox) = Request(c) /\ link'[c].inbox = <<>>
    BY <1>2, <2>3
  <2>5. link'[c].outbox = lines
    BY <1>2, <2>3
  <2>6. Exchange(c)'
    BY <1>1, <1>2, <2>1, <2>3, <2>4, <2>5 DEF Exchange, Local
  <2> QED
    BY <2>1, <2>2, <2>6 DEF Orderly
<1> QED
  BY <1>3, <1>4, OneClientMoves

LEMMA RepliesTo ==
  ASSUME NEW r
  PROVE  /\ \A i \in 1..Len(LocalReply(r)) : LocalReply(r)[i].to = r
         /\ ~Local(r) => Len(LocalReply(r)) <= 1
         /\ \A m \in Redirects(r) : m.to = r
         /\ Result(r).to = r /\ Line(r, "COMMIT_TIMEOUT", 0).to = r
<1>1. \A t, h : Line(r, t, h).to = r
  BY DEF Line
<1>2. CASE r.line.op = "DUMP"
  <2>1. LocalReply(r) = <<Line(r, "key", 0), Line(r, "count", 0)>>
    BY <1>2 DEF LocalReply
  <2> QED
    BY <1>1, <1>2, <2>1 DEF Local, Redirects, Result
<1>3. CASE r.line.op # "DUMP"
  <2>1. LocalReply(r) \in {<<>>, <<Line(r, "Goodbye", 0)>>, <<Line(r, "ERR", 0)>>}
    BY <1>3 DEF LocalReply
  <2>3. \A m : Len(<<m>>) = 1 /\ <<m>>[1] = m
    OBVIOUS
  <2>2. Len(LocalReply(r)) <= 1 /\ \A i \in 1..Len(LocalReply(r)) : LocalReply(r)[i].to = r
    <3>1. CASE LocalReply(r) = <<>>
      BY <3>1
    <3>2. ASSUME NEW m, LocalReply(r) = <<m>>, m.to = r
          PROVE  Len(LocalReply(r)) <= 1 /\ \A i \in 1..Len(LocalReply(r)) : LocalReply(r)[i].to = r
      BY <3>2
    <3> QED
      BY <1>1, <2>1, <3>1, <3>2
  <2> QED
    BY <1>1, <2>2 DEF Redirects, Result
<1> QED
  BY <1>2, <1>3

LEMMA SessionServerStep ==
  ASSUME TypeOK, SessionInv, UNCHANGED setting, NEW c \in Client, ServerStep(c)
  PROVE  SessionInv'
<1>. DEFINE r == Head(link[c].inbox)
<1>1. link[c].inbox # <<>> =>
        /\ r \in Requests /\ LocalReply(r) \in Seq(ReplyType)
        /\ \A m \in Redirects(r) : <<m>> \in Seq(ReplyType)
        /\ <<Result(r)>> \in Seq(ReplyType)
        /\ <<Line(r, "COMMIT_TIMEOUT", 0)>> \in Seq(ReplyType)
  BY LinkFields, RepliesType
<1>2. /\ link[c].serving # 0 => link[c].inbox # <<>>
      /\ \A m : m.to = r => Len(<<m>>) <= 1 /\ \A i \in 1..Len(<<m>>) : <<m>>[i].to = r
  BY LinkFields
<1>3. /\ \A i \in 1..Len(LocalReply(r)) : LocalReply(r)[i].to = r
      /\ ~Local(r) => Len(LocalReply(r)) <= 1
      /\ \A m \in Redirects(r) : m.to = r
      /\ Result(r).to = r /\ Line(r, "COMMIT_TIMEOUT", 0).to = r
  BY RepliesTo
<1>. HIDE DEF r
<1>4. CASE ServeLocal(c)
  BY <1>1, <1>3, <1>4, ReplyAnswers DEF ServeLocal, Idle, r
<1>5. CASE ServeQuit(c)
  <2>1. UNCHANGED <<pc, response, answers>>
    BY <1>5 DEF ServeQuit
  <2>2. /\ link'[c].inbox = <<>> /\ link'[c].serving = 0
        /\ link'[c].outbox = link[c].outbox \o LocalReply(r)
        /\ \A d \in Client \ {c} : link'[d] = link[d]
    BY <1>5, QuitEffect DEF r
  <2>3. \A d \in Client \ {c} : Rests(d)
    BY <2>1, <2>2 DEF Rests
  <2>4. ASSUME Orderly(c) PROVE Orderly(c)'
    <3>0. link[c].inbox # <<>>
      BY <1>5 DEF ServeQuit, Idle
    <3>1. Request(c)' = Request(c) /\ OwnAnswers(c)' /\ pc'[c] = pc[c]
      BY <2>1, <2>4, SameSetting DEF Request, OwnAnswers, Orderly
    <3>2. pc[c] = "poll" /\ Exchange(c)
      BY <2>4, <3>0 DEF Orderly, Silent
    <3>3. link[c].inbox = <<Request(c)>> /\ link[c].outbox = <<>> /\ response[c] = <<>>
      BY <3>0, <3>2 DEF Exchange
    <3>4. r = Request(c)
      BY <3>3 DEF r
    <3>5. link'[c].outbox = LocalReply(r)
      BY <1>1, <2>2, <3>0, <3>3
    <3>6. Exchange(c)'
      BY <1>3, <2>1, <2>2, <3>1, <3>3, <3>4, <3>5 DEF Exchange, Local
    <3> QED
      BY <3>1, <3>2, <3>6 DEF Orderly
  <2> QED
    BY <2>3, <2>4, OneClientMoves
<1>6. CASE ServeRedirect(c)
  <2>1. PICK m \in Redirects(r) : Reply(c, <<m>>)
    BY <1>6 DEF ServeRedirect, r
  <2> QED
    BY <1>1, <1>2, <1>3, <1>6, <2>1, ReplyAnswers DEF ServeRedirect, Idle, r
<1>7. CASE ServePropose(c)
  <2>1. UNCHANGED <<pc, response, answers>> /\ link[c].inbox # <<>>
    BY <1>7 DEF ServePropose, Idle
  <2>2. /\ link'[c].inbox = link[c].inbox /\ link'[c].outbox = link[c].outbox
        /\ \A d \in Client \ {c} : link'[d] = link[d]
    BY <1>7 DEF ServePropose, TypeOK, LinkType
  <2>3. \A d \in Client \ {c} : Rests(d)
    BY <2>1, <2>2 DEF Rests
  <2>4. ASSUME Orderly(c) PROVE Orderly(c)'
    <3>1. Request(c)' = Request(c) /\ OwnAnswers(c)' /\ pc'[c] = pc[c]
      BY <2>1, <2>4, SameSetting DEF Request, OwnAnswers, Orderly
    <3>2. pc[c] = "poll" /\ Exchange(c)
      BY <2>1, <2>4 DEF Orderly, Silent
    <3>3. Exchange(c)'
      BY <2>1, <2>2, <3>1, <3>2 DEF Exchange, Local
    <3> QED
      BY <3>1, <3>2, <3>3 DEF Orderly
  <2> QED
    BY <2>3, <2>4, OneClientMoves
<1>8. CASE AnswerOk(c)
  BY <1>1, <1>2, <1>3, <1>8, ReplyAnswers DEF AnswerOk, r
<1>9. CASE AnswerDeposed(c)
  <2>1. PICK m \in Redirects(r) : Reply(c, <<m>>)
    BY <1>9 DEF AnswerDeposed, r
  <2> QED
    BY <1>1, <1>2, <1>3, <1>9, <2>1, ReplyAnswers DEF AnswerDeposed, r
<1>10. CASE AnswerTimeout(c)
  BY <1>1, <1>2, <1>3, <1>10, ReplyAnswers DEF AnswerTimeout, r
<1> QED
  BY <1>4, <1>5, <1>6, <1>7, <1>8, <1>9, <1>10 DEF ServerStep

LEMMA SessionClusterStep ==
  ASSUME TypeOK, SessionInv, UNCHANGED setting, ClusterStep
  PROVE  SessionInv'
<1>. USE DEF clientVars
<1>1. ASSUME \A c \in Client : Rests(c) PROVE SessionInv'
  <2>1. \A c \in Client : Orderly(c) => Orderly(c)'
    BY <1>1, RestsKeeps DEF Orderly, OwnAnswers, Rests
  <2> QED
    BY <2>1, SameSetting DEF SessionInv, AnswerIsOwn, Orderly, OwnAnswers
<1>2. ASSUME UNCHANGED clientVars PROVE SessionInv'
  BY <1>1, <1>2 DEF Rests
<1>3. ASSUME NEW s \in Server, Crash(s) PROVE SessionInv'
  <2>1. ASSUME NEW c \in Client, Orderly(c), link[c].server = s PROVE Orderly(c)'
    <3>1. UNCHANGED <<pc, response, answers>>
      BY <1>3 DEF Crash
    <3>2. Request(c)' = Request(c) /\ OwnAnswers(c)' /\ Finished(c)' = Finished(c)
      BY <2>1, <3>1, SameSetting DEF Request, OwnAnswers, Orderly, Finished
    <3>3. /\ link'[c].inbox = <<>> /\ link'[c].serving = 0 /\ link'[c].outbox = link[c].outbox
      BY <1>3, <2>1, CrashEffect
    <3> QED
      BY <2>1, <3>1, <3>2, <3>3 DEF Orderly, Exchange, Silent, Local
  <2>2. ASSUME NEW c \in Client, Orderly(c), link[c].server # s PROVE Orderly(c)'
    <3>1. Rests(c)
      BY <1>3, <2>2, CrashEffect DEF Rests, Crash
    <3> QED
      BY <2>2, <3>1, RestsKeeps DEF Orderly, OwnAnswers, Rests
  <2> QED
    BY <2>1, <2>2, SameSetting DEF SessionInv, AnswerIsOwn, Orderly, OwnAnswers
<1> QED
  BY <1>2, <1>3 DEF ClusterStep, Commit, StepDown, Elect, Restart, HandleLate

\* The inductive invariant: every attempt begins on a silent connection.
THEOREM SessionInvariant == Spec => []SessionInv
<1>1. Init => SessionInv
  <2>1. ASSUME Init, NEW c \in Client PROVE Orderly(c)
    BY <2>1 DEF Init, LinkTo, Orderly, OwnAnswers, Silent
  <2> QED
    BY <2>1, SessionByClient
<1>2. TypeOK /\ SessionInv /\ UNCHANGED vars => SessionInv'
  BY SameSetting, RestsKeeps
     DEF vars, clientVars, SessionInv, AnswerIsOwn, Rests
<1>3. TypeOK /\ SessionInv /\ [Next]_vars => SessionInv'
  BY <1>2, SessionClientStep, SessionServerStep, SessionClusterStep DEF Next
<1> QED
  BY <1>1, <1>3, SessionTypeCorrect, PTL DEF Spec

\* execute() returns the answer to its own line, whatever timeouts, redirects,
\* crashes and late handling there were before (client.cpp:103-165).
THEOREM AnswersAreOwn == Spec => []AnswerIsOwn
<1>1. SessionInv => AnswerIsOwn
  BY DEF SessionInv
<1> QED
  BY <1>1, SessionInvariant, PTL

-----------------------------------------------------------------------------
(* The leader is found *)

LEMMA Distances ==
  ASSUME TypeOK, leader \in Server, NEW s \in Server
  PROVE  /\ Distance(s) \in 0..N - 1
         /\ s # leader => Distance(s) >= 1 /\ Distance(Ahead(s, 1)) = Distance(s) - 1
         /\ Distance(Ahead(s, 1)) <= N - 1
         /\ Distance(leader) = 0
         /\ Ahead(s, Distance(s)) = leader
         /\ \A k \in 0..Distance(s) : Distance(Ahead(s, k)) = Distance(s) - k
<1>1. N \in Nat /\ N > 0 /\ s \in 1..N /\ leader \in 1..N
  BY SettingFacts DEF Server
<1>2. Distance(s) \in 0..N - 1 /\ Distance(leader) = 0
  BY <1>1 DEF Distance
<1>3. \A k \in 0..N : /\ Ahead(s, k) \in 1..N
                      /\ Ahead(s, k) = IF s + k <= N THEN s + k ELSE s + k - N
  BY AheadFacts DEF Server
<1>4. \A k \in 0..Distance(s) : Distance(Ahead(s, k)) = Distance(s) - k
  BY <1>1, <1>2, <1>3 DEF Distance
<1>5. Ahead(s, Distance(s)) = leader
  BY <1>1, <1>2, <1>3 DEF Distance
<1>6. s # leader => Distance(s) >= 1
  BY <1>1 DEF Distance
<1>7. s # leader => Distance(Ahead(s, 1)) = Distance(s) - 1
  BY <1>2, <1>4, <1>6
<1>8. Distance(Ahead(s, 1)) <= N - 1
  BY <1>1, <1>3 DEF Distance
<1> QED
  BY <1>2, <1>4, <1>5, <1>6, <1>7, <1>8

\* What FindInv says of the cluster and of one client.
Steady ==
  /\ leader \in Server \ down /\ reigns = 1 /\ crashes = 0
  /\ \A k \in Keys : store[k] \notin Reserved
Guided(c) ==
  /\ \A i \in 1..Len(answers[c]) : Real(answers[c][i])
  /\ Connected(c) /\ OnTheWay(c)
  /\ \A i \in 1..Len(link[c].outbox) : Truthful(link[c], link[c].outbox[i])
  /\ \A i \in 1..Len(response[c]) : response[c][i].text \notin Reserved

LEMMA FindByClient == FindInv <=> (Calm => Steady /\ \A c \in Client : Guided(c))
  BY DEF FindInv, FindsLeader, Steady, Guided

StaysPut(c) == Rests(c) /\ UNCHANGED <<tries[c], current[c]>>

LEMMA StaysGuided ==
  ASSUME TypeOK, UNCHANGED <<setting, leader, down>>, NEW c \in Client, StaysPut(c), Guided(c)
  PROVE  Guided(c)'
<1>1. /\ UNCHANGED <<tries[c], current[c], pc[c], link[c], response[c], answers[c]>>
      /\ Request(c)' = Request(c) /\ Finished(c)' = Finished(c) /\ N' = N
  BY RestsKeeps, SameSetting DEF StaysPut, Rests
<1>2. Distance(current[c])' = Distance(current[c])
  BY <1>1 DEF Distance
<1>3. Connected(c)' = Connected(c)
  BY <1>1 DEF Connected
<1>4. OnTheWay(c)' = OnTheWay(c)
  BY <1>1, <1>2 DEF OnTheWay
<1>5. \A m : Truthful(link[c], m)' = Truthful(link[c], m)
  BY <1>1 DEF Truthful
<1> QED
  BY <1>1, <1>3, <1>4, <1>5 DEF Guided, Real, Truthful

LEMMA OneClientGuided ==
  ASSUME TypeOK, FindInv, UNCHANGED <<setting, leader, down, reigns, crashes, store>>, NEW c \in Client,
         \A d \in Client \ {c} : StaysPut(d),
         Calm /\ Steady /\ Guided(c) => Guided(c)'
  PROVE  FindInv'
<1>1. Calm' = Calm /\ Server' = Server
  BY SameSetting
<1>2. SUFFICES ASSUME Calm, NEW d \in Client PROVE Steady' /\ Guided(d)'
  BY <1>1 DEF FindInv, FindsLeader, Steady, Guided
<1>3. Steady /\ Guided(c) /\ Guided(d)
  BY <1>2, FindByClient
<1>4. Steady'
  BY <1>1, <1>3 DEF Steady
<1>5. Guided(d)'
  BY <1>2, <1>3, StaysGuided
<1> QED
  BY <1>4, <1>5

\* What a request says in a calm setting.
LEMMA PlainRequests ==
  ASSUME TypeOK, Calm, NEW r \in Requests
  PROVE  r.line.op # "BLANK" /\ r.line.value \notin Reserved
  BY RequestFacts DEF Calm, Plain

LEMMA AnswerReal ==
  ASSUME TypeOK, NEW c \in Client, NEW m \in ReplyType, Real(m), pc[c] # "ready", Return(c, m),
         \A i \in 1..Len(answers[c]) : Real(answers[c][i])
  PROVE  \A i \in 1..Len(answers'[c]) : Real(answers'[c][i])
<1>1. answers[c] \in Seq(ReplyType) /\ answers'[c] = Append(answers[c], m)
  BY LinkFields DEF Return, TypeOK
<1>2. ASSUME NEW i \in 1..Len(answers'[c]) PROVE Real(answers'[c][i])
  <2>1. i <= Len(answers[c]) => answers'[c][i] = answers[c][i] /\ i \in 1..Len(answers[c])
    BY <1>1
  <2>2. i > Len(answers[c]) => answers'[c][i] = m
    BY <1>1
  <2> QED
    BY <1>1, <2>1, <2>2
<1> QED
  BY <1>2

\* The next attempt, at a server that leaves no more to try.
LEMMA NextAttempt ==
  ASSUME TypeOK, Steady, UNCHANGED <<setting, leader, down, answers>>, NEW c \in Client,
         NEW s \in Server, TryNext(c, s), Guided(c), response'[c] = <<>>, pc[c] = "poll",
         tries[c] + 1 + Distance(s) <= N
  PROVE  Guided(c)'
<1>1. /\ pc'[c] = "try" /\ link'[c] = NoLink /\ tries'[c] = tries[c] + 1 /\ current'[c] = s
  BY DEF TryNext, CloseConn, TypeOK
<1>2. N' = N /\ Distance(s)' = Distance(s)
  BY SameSetting DEF Distance
<1>3. Connected(c)' /\ OnTheWay(c)'
  BY <1>1, <1>2 DEF Connected, OnTheWay, NoLink, Distance
<1>4. (\A i \in 1..Len(link[c].outbox) : Truthful(link[c], link[c].outbox[i]))'
  BY <1>1 DEF NoLink
<1>5. (\A i \in 1..Len(answers[c]) : Real(answers[c][i]))'
  BY DEF Guided
<1>6. (\A i \in 1..Len(response[c]) : response[c][i].text \notin Reserved)'
  OBVIOUS
<1> QED
  BY <1>3, <1>4, <1>5, <1>6 DEF Guided

\* What is left of a sequence behind its first k elements.
LEMMA RestOf ==
  ASSUME NEW S, NEW s \in Seq(S), NEW k \in 1..Len(s), NEW t, t = SubSeq(s, k + 1, Len(s)),
         NEW i \in 1..Len(t)
  PROVE  t[i] = s[i + k] /\ i + k \in 1..Len(s)
  OBVIOUS

LEMMA FindClientStep ==
  ASSUME TypeOK, SessionInv, FindInv, UNCHANGED setting, NEW c \in Client, ClientStep(c)
  PROVE  FindInv'
<1>. USE DEF clusterVars, logVars, machineVars
<1>1. UNCHANGED <<leader, down, reigns, crashes, store>> /\ (\A d \in Client \ {c} : StaysPut(d))
  BY DEF ClientStep, Begin, GiveUp, SendOn, Dial, Unreachable, ReceiveMore, ReceiveRedirect,
         ReceiveRejection, ReceiveAnswer, GoneIdle, NoAnswer, Return, TryNext, CloseConn, Consume,
         StaysPut, Rests, TypeOK
<1>2. SUFFICES ASSUME Calm, Steady, Guided(c) PROVE Guided(c)'
  BY <1>1, OneClientGuided
<1>3. /\ N \in Nat /\ setting.tries \in Nat /\ setting.tries > N /\ ~setting.timeouts
      /\ leader \in Server /\ leader \notin down /\ current[c] \in Server /\ tries[c] \in Nat
      /\ N' = N
  BY <1>2, SettingFacts, SameSetting DEF Calm, Steady, TypeOK
<1>4. Orderly(c)
  BY <1>2, SessionByClient DEF Calm
<1>5. /\ Distance(current[c]) \in 0..N - 1
      /\ current[c] # leader =>
           Distance(current[c]) >= 1 /\ Distance(Ahead(current[c], 1)) = Distance(current[c]) - 1
      /\ Distance(Ahead(current[c], 1)) <= N - 1 /\ Distance(leader) = 0
      /\ Ahead(current[c], 1) \in Server
  <2>1. 1 \in 0..N
    BY SettingFacts
  <2> QED
    BY <1>3, <2>1, Distances, AheadFacts
<1>6. \A s : Distance(s)' = Distance(s)
  BY <1>1, <1>3 DEF Distance
<1>7. CASE Begin(c)
  <2>1. /\ pc[c] = "ready" /\ pc'[c] = "try" /\ tries'[c] = 0 /\ ~Finished(c)
        /\ UNCHANGED <<current, link, response, answers>>
    <3>1. Len(answers[c]) \in Nat /\ Len(Program[c]) \in Nat
      BY SettingFacts, RequestIsNext
    <3> QED
      BY <1>7, <3>1 DEF Begin, Finished, TypeOK
  <2>2. link[c].open
    BY <1>2, <2>1 DEF Guided, Connected
  <2>3. Connected(c)' /\ OnTheWay(c)'
    BY <1>1, <1>2, <2>1, <2>2 DEF Guided, Connected, OnTheWay
  <2> QED
    BY <1>1, <1>2, <2>1, <2>3 DEF Guided, Truthful, Real
<1>8. CASE GiveUp(c)
  <2>1. pc[c] = "try" /\ tries[c] = setting.tries
    BY <1>8 DEF GiveUp
  <2>2. tries[c] <= N
    BY <1>2, <1>3, <1>5, <2>1 DEF Guided, OnTheWay
  <2> QED
    BY <1>3, <2>1, <2>2
<1>9. CASE Unreachable(c)
  BY <1>3, <1>9 DEF Unreachable
<1>10. CASE SendOn(c)
  <2>1. /\ pc[c] = "try" /\ pc'[c] = "poll" /\ link[c].open
        /\ link'[c].open = link[c].open /\ link'[c].server = link[c].server
        /\ link'[c].outbox = link[c].outbox /\ link'[c].serving = link[c].serving
        /\ UNCHANGED <<tries, current, response, answers>>
    BY <1>10, LinkFields DEF SendOn, TypeOK, LinkType
  <2>2. tries[c] = 0
    BY <1>2, <2>1 DEF Guided, OnTheWay
  <2>3. OnTheWay(c)'
    BY <1>3, <1>5, <1>6, <2>1, <2>2 DEF OnTheWay
  <2>4. Connected(c)'
    BY <1>1, <1>2, <2>1 DEF Guided, Connected
  <2> QED
    BY <1>1, <1>2, <2>1, <2>3, <2>4 DEF Guided, Truthful, Real
<1>11. CASE Dial(c)
  <2>0. PICK k \in 0..N - 1 :
          /\ Ahead(current[c], k) \notin down
          /\ \A j \in 0..k - 1 : Ahead(current[c], j) \in down
          /\ current' = [current EXCEPT ![c] = Ahead(current[c], k)]
          /\ link' = [link EXCEPT ![c] = LinkTo(Ahead(current[c], k), <<Request(c)>>)]
    BY <1>11 DEF Dial
  <2>1. /\ pc[c] = "try" /\ pc'[c] = "poll" /\ ~link[c].open
        /\ UNCHANGED <<tries, response, answers>>
    BY <1>11 DEF Dial, TypeOK
  <2>2. k \in 0..Distance(current[c])
    <3>1. Ahead(current[c], Distance(current[c])) \notin down
      BY <1>3, Distances
    <3>2. ~(Distance(current[c]) \in 0..k - 1)
      BY <2>0, <3>1
    <3> QED
      BY <1>3, <1>5, <3>2
  <2>3. Distance(Ahead(current[c], k)) = Distance(current[c]) - k
    BY <1>3, <2>2, Distances
  <2>4. tries[c] + Distance(current[c]) <= N
    BY <1>2, <2>1 DEF Guided, OnTheWay
  <2>5. /\ current'[c] = Ahead(current[c], k) /\ link'[c].server = Ahead(current[c], k)
        /\ link'[c].open /\ link'[c].outbox = <<>>
        /\ link'[c].serving = 0
    BY <2>0 DEF TypeOK, LinkTo
  <2>10. k \in 0..N
    BY <1>3
  <2>6. Ahead(current[c], k) \in Server /\ Ahead(current[c], k) # 0
    <3>1. Ahead(current[c], k) \in Server
      BY <1>3, <2>10, AheadFacts
    <3> QED
      BY <1>3, <3>1 DEF Server
  <2>7. tries[c] + Distance(Ahead(current[c], k)) <= N
    BY <1>3, <1>5, <2>2, <2>3, <2>4
  <2>8. OnTheWay(c)'
    BY <1>3, <1>6, <2>1, <2>5, <2>6, <2>7 DEF OnTheWay
  <2>9. Connected(c)'
    BY <1>1, <2>0, <2>1, <2>5 DEF Connected
  <2> QED
    BY <1>1, <1>2, <2>1, <2>5, <2>8, <2>9 DEF Guided, Real
<1>12. ASSUME NEW k, ReceiveMore(c, k) PROVE Guided(c)'
  <2>1. /\ Receives(c, k) /\ Local(Request(c)) /\ pc'[c] = pc[c] /\ pc[c] = "poll"
        /\ UNCHANGED <<tries, current, answers>> /\ response'[c] = Read(c, k)
        /\ link'[c].open = link[c].open /\ link'[c].server = link[c].server
        /\ link'[c].outbox = SubSeq(link[c].outbox, k + 1, Len(link[c].outbox))
        /\ link'[c].serving = link[c].serving
    BY <1>12, LinkFields DEF ReceiveMore, Receives, Consume, TypeOK, LinkType
  <2>2. k \in 1..Len(link[c].outbox) /\ link[c].outbox \in Seq(ReplyType)
        /\ response[c] \in Seq(ReplyType)
    BY <2>1, LinkFields DEF Receives
  <2>3. \A i \in 1..Len(link[c].outbox) :
          Truthful(link[c], link[c].outbox[i]) /\ link[c].outbox[i].text \notin Reserved
    <3>1. \A i \in 1..Len(link[c].outbox) : link[c].outbox[i].to = Request(c)
      BY <1>4, <2>1 DEF Orderly, Exchange
    <3>2. ~Proposed(Request(c))
      BY <2>1 DEF Local, Proposed
    <3> QED
      BY <1>2, <3>1, <3>2 DEF Guided, Truthful, Reserved
  <2>4. ASSUME NEW i \in 1..Len(link'[c].outbox) PROVE Truthful(link[c], link[c].outbox[i])'
    <3>0. link'[c].outbox = SubSeq(link[c].outbox, k + 1, Len(link[c].outbox))
      BY <2>1
    <3>1. link'[c].outbox[i] = link[c].outbox[i + k] /\ i + k \in 1..Len(link[c].outbox)
      BY <2>2, <3>0, RestOf
    <3> QED
      BY <1>1, <2>1, <2>3, <3>1 DEF Truthful
  <2>5. ASSUME NEW i \in 1..Len(response'[c]) PROVE response'[c][i].text \notin Reserved
    <3>1. i <= Len(response[c]) => /\ response'[c][i] = response[c][i]
                                   /\ i \in 1..Len(response[c])
      BY <2>1, <2>2 DEF Read
    <3>2. i > Len(response[c]) => /\ i - Len(response[c]) \in 1..Len(link[c].outbox)
                                  /\ response'[c][i] = link[c].outbox[i - Len(response[c])]
      BY <2>1, <2>2 DEF Read
    <3> QED
      BY <1>2, <2>2, <2>3, <3>1, <3>2 DEF Guided
  <2>6. Connected(c)'
    BY <1>1, <1>2, <2>1 DEF Connected, Guided
  <2>7. OnTheWay(c)'
    <3>1. Request(c)' = Request(c) /\ Request(c).line.op = "DUMP"
      BY <2>1, SameSetting DEF Request, Local
    <3> QED
      BY <1>2, <1>3, <1>6, <2>1, <3>1 DEF OnTheWay, Guided
  <2> QED
    BY <1>2, <2>1, <2>4, <2>5, <2>6, <2>7 DEF Guided, Real
<1>13. ASSUME NEW k, ReceiveRedirect(c, k) \/ ReceiveRejection(c, k) PROVE Guided(c)'
  <2>. DEFINE m == Read(c, k)[1]
              s == IF Redirected(m) THEN IF m.hint \in Server THEN m.hint ELSE Ahead(current[c], 1)
                   ELSE Ahead(current[c], 1)
  <2>1. /\ Receives(c, k) /\ ~Local(Request(c)) /\ TryNext(c, s) /\ UNCHANGED <<response, answers>>
        /\ m.text \in Refusals
    BY <1>13 DEF ReceiveRedirect, ReceiveRejection, Redirected, Rejected, Refusals
  <2>2. pc[c] = "poll" /\ response[c] = <<>> /\ k \in 1..Len(link[c].outbox)
        /\ m = link[c].outbox[1] /\ 1 \in 1..Len(link[c].outbox)
    <3>1. pc[c] = "poll" /\ k \in 1..Len(link[c].outbox)
      BY <2>1, ReadFacts DEF Receives
    <3>2. response[c] = <<>>
      BY <1>4, <2>1, <3>1 DEF Orderly, Exchange
    <3>3. 1 \in 1..Len(link[c].outbox)
      BY <3>1, LinkFields
    <3> QED
      BY <2>1, <3>1, <3>2, <3>3, ReadFacts
  <2>3. Truthful(link[c], m)
    BY <1>2, <2>2 DEF Guided
  <2>4. link[c].server # 0 /\ link[c].server # leader /\ (Redirected(m) => m.hint = leader)
    BY <2>1, <2>3 DEF Truthful, Redirected
  <2>5. link[c].server = current[c]
    BY <1>2, <2>2, <2>4 DEF Guided, Connected
  <2>6. tries[c] + Distance(current[c]) <= N
    BY <1>2, <2>2, <2>4 DEF Guided, OnTheWay
  <2>7. s \in Server /\ Distance(s) <= Distance(current[c]) - 1 /\ Distance(s) \in Int
    BY <1>3, <1>5, <2>4, <2>5
  <2>. HIDE DEF s
  <2>8. tries[c] + 1 + Distance(s) <= N
    BY <1>3, <1>5, <2>6, <2>7
  <2>9. response'[c] = <<>>
    BY <2>1, <2>2
  <2> QED
    BY <1>1, <1>2, <2>1, <2>2, <2>7, <2>8, <2>9, NextAttempt
<1>14. CASE NoAnswer(c)
  <2>1. /\ pc[c] = "poll" /\ TryNext(c, Ahead(current[c], 1)) /\ response'[c] = <<>>
        /\ UNCHANGED answers
    BY <1>14 DEF NoAnswer, TypeOK
  <2>2. Request(c).line.op # "BLANK"
    BY <1>2, <2>1, PlainRequests, RequestIsNext
  <2>3. link[c].server = 0 /\ link[c].outbox = <<>>
    BY <1>3, <1>14, <2>2 DEF NoAnswer
  <2>4. tries[c] = 0
    BY <1>2, <2>1, <2>3 DEF Guided, OnTheWay
  <2>5. tries[c] + 1 + Distance(Ahead(current[c], 1)) <= N
    <3>1. Distance(Ahead(current[c], 1)) \in Int
      BY <1>3, <1>5, Distances
    <3> QED
      BY <1>3, <1>5, <2>4, <3>1
  <2> QED
    BY <1>1, <1>2, <1>5, <2>1, <2>5, NextAttempt
<1>15. ASSUME NEW m \in ReplyType, pc[c] = "poll", Return(c, m), Real(m),
              UNCHANGED <<tries, current>>, link'[c].open = link[c].open,
              link'[c].server = link[c].server, link'[c].serving = link[c].serving,
              link'[c].outbox = <<>> \/ link'[c].outbox = link[c].outbox,
              response'[c] = <<>>
       PROVE  Guided(c)'
  <2>1. \A i \in 1..Len(answers'[c]) : Real(answers'[c][i])
    BY <1>2, <1>15, AnswerReal DEF Guided
  <2>2. pc'[c] = "ready"
    BY <1>15 DEF Return, TypeOK
  <2>3. Connected(c)' /\ OnTheWay(c)'
    BY <1>1, <1>2, <1>15, <2>2 DEF Guided, Connected, OnTheWay
  <2>4. ASSUME NEW i \in 1..Len(link'[c].outbox) PROVE Truthful(link[c], link[c].outbox[i])'
    BY <1>1, <1>2, <1>15 DEF Guided, Truthful
  <2> QED
    BY <1>15, <2>1, <2>3, <2>4 DEF Guided, Real
<1>16. ASSUME NEW k, ReceiveAnswer(c, k) PROVE Guided(c)'
  <2>1. /\ Receives(c, k) /\ ~Local(Request(c)) /\ Consume(c, k) /\ Return(c, Read(c, k)[1])
        /\ Read(c, k)[1].text \notin Refusals /\ UNCHANGED <<tries, current, response>>
    BY <1>16 DEF ReceiveAnswer, Redirected, Rejected, Refusals
  <2>2. /\ pc[c] = "poll" /\ k \in 1..Len(link[c].outbox) /\ link[c].outbox \in Seq(ReplyType)
        /\ Read(c, k)[1] \in ReplyType
    BY <2>1, ReadFacts, LinkFields DEF Receives
  <2>3. response[c] = <<>> /\ Len(link[c].outbox) <= 1
    BY <1>4, <2>1, <2>2 DEF Orderly, Exchange
  <2>4. Len(link[c].outbox) = 1 /\ k = 1
    BY <2>2, <2>3, OneOfOne
  <2>5. Real(Read(c, k)[1])
    <3>1. Read(c, k)[1] = link[c].outbox[1] /\ 1 \in 1..Len(link[c].outbox)
      BY <2>1, <2>3, <2>4, ReadFacts
    <3> QED
      BY <1>2, <3>1 DEF Guided, Truthful, Real
  <2>6. /\ link'[c].open = link[c].open /\ link'[c].server = link[c].server
        /\ link'[c].serving = link[c].serving
        /\ link'[c].outbox = SubSeq(link[c].outbox, k + 1, Len(link[c].outbox))
    BY <2>1, LinkFields DEF Consume, TypeOK, LinkType
  <2>7. link'[c].outbox = <<>>
    BY <2>2, <2>4, <2>6
  <2> QED
    BY <1>15, <2>1, <2>2, <2>3, <2>5, <2>6, <2>7
<1>17. CASE GoneIdle(c)
  <2>1. /\ pc[c] = "poll" /\ response[c] # <<>> /\ Return(c, response[c][1]) /\ response'[c] = <<>>
        /\ UNCHANGED <<tries, current, link>>
    BY <1>17 DEF GoneIdle, TypeOK
  <2>2. response[c] \in Seq(ReplyType) /\ 1 \in 1..Len(response[c])
    BY <2>1, LinkFields
  <2>3. Real(response[c][1]) /\ response[c][1] \in ReplyType
    BY <1>2, <2>2 DEF Guided, Real, Reserved
  <2> QED
    BY <1>15, <2>1, <2>3
<1> QED
  BY <1>7, <1>8, <1>9, <1>10, <1>11, <1>12, <1>13, <1>14, <1>16, <1>17 DEF ClientStep

\* A line that is done, and answered truthfully.
LEMMA ReplyGuided ==
  ASSUME TypeOK, FindInv, SessionInv, UNCHANGED setting, NEW c \in Client, NEW lines \in Seq(ReplyType),
         link[c].inbox # <<>>, Reply(c, lines),
         Calm /\ Steady => \A i \in 1..Len(lines) : Truthful(link[c], lines[i])
  PROVE  FindInv'
<1>1. /\ UNCHANGED <<leader, down, reigns, crashes, store, pc, tries, current, response, answers>>
      /\ link'[c].serving = 0 /\ link'[c].outbox = link[c].outbox \o lines
      /\ link'[c].server = link[c].server /\ link'[c].open = link[c].open
      /\ \A d \in Client \ {c} : link'[d] = link[d]
  BY ReplyEffect DEF Reply, clusterVars, machineVars
<1>2. \A d \in Client \ {c} : StaysPut(d)
  BY <1>1 DEF StaysPut, Rests
<1>3. ASSUME Calm, Steady, Guided(c) PROVE Guided(c)'
  <2>1. pc[c] = "poll" /\ link[c].outbox = <<>>
    BY <1>3, SessionByClient DEF Calm, Orderly, Silent, Exchange
  <2>2. link'[c].outbox = lines
    BY <1>1, <2>1
  <2>3. \A i \in 1..Len(link'[c].outbox) : Truthful(link'[c], link'[c].outbox[i])
    BY <1>1, <1>3, <2>2 DEF Truthful
  <2>4. N' = N /\ Request(c)' = Request(c) /\ Distance(current[c])' = Distance(current[c])
    BY <1>1, SameSetting DEF Request, Distance
  <2>5. Connected(c)' /\ OnTheWay(c)'
    BY <1>1, <1>3, <2>1, <2>4 DEF Guided, Connected, OnTheWay
  <2> QED
    BY <1>1, <1>3, <2>3, <2>5 DEF Guided, Real, Truthful
<1> QED
  BY <1>1, <1>2, <1>3, OneClientGuided

LEMMA FindServerStep ==
  ASSUME TypeOK, SessionInv, FindInv, UNCHANGED setting, NEW c \in Client, ServerStep(c)
  PROVE  FindInv'
<1>. DEFINE r == Head(link[c].inbox)
<1>1. link[c].inbox # <<>> =>
        /\ r \in Requests /\ LocalReply(r) \in Seq(ReplyType)
        /\ \A m \in Redirects(r) : <<m>> \in Seq(ReplyType)
        /\ <<Result(r)>> \in Seq(ReplyType)
        /\ <<Line(r, "COMMIT_TIMEOUT", 0)>> \in Seq(ReplyType)
  BY LinkFields, RepliesType
<1>2. /\ link[c].serving # 0 => link[c].inbox # <<>>
      /\ \A m : Truthful(link[c], m) => \A i \in 1..Len(<<m>>) : Truthful(link[c], <<m>>[i])
  BY LinkFields
<1>3. \A i \in 1..Len(LocalReply(r)) : LocalReply(r)[i].text \notin Reserved
  <2>1. \A x, y : \A i \in 1..Len(<<x, y>>) : <<x, y>>[i] \in {x, y}
    OBVIOUS
  <2>2. \A x : \A i \in 1..Len(<<x>>) : <<x>>[i] = x
    OBVIOUS
  <2>3. \A x : \A i \in 1..Len(<<>>) : <<>>[i] = x
    OBVIOUS
  <2>4. {Line(r, t, 0).text : t \in {"key", "count", "Goodbye", "ERR"}} \cap Reserved = {}
    BY DEF Line, Reserved, Refusals
  <2> QED
    BY <2>1, <2>2, <2>3, <2>4 DEF LocalReply
<1>4. \A m : m.text \notin Reserved => Truthful(link[c], m)
  BY DEF Truthful, Reserved, Refusals
<1>5. ASSUME Calm, Steady
      PROVE  /\ Guided(c) /\ ~setting.timeouts /\ leader \in Server /\ leader # 0
             /\ link[c].serving # 0 => link[c].server = leader
  <2>1. Guided(c) /\ ~setting.timeouts /\ leader \in 1..N
    BY <1>5, FindByClient DEF Calm, Steady, Server
  <2> QED
    BY <1>5, <2>1, SettingFacts DEF Guided, Connected, Server
<1>. HIDE DEF r
<1>6. CASE ServeLocal(c)
  BY <1>1, <1>3, <1>4, <1>6, ReplyGuided DEF ServeLocal, Idle, r
<1>7. CASE ServeRedirect(c)
  <2>1. PICK m \in Redirects(r) : Reply(c, <<m>>)
    BY <1>7 DEF ServeRedirect, r
  <2>2. ASSUME Calm, Steady PROVE Truthful(link[c], m)
    <3>1. m.to = r /\ (m.text = "NOT_LEADER" => m.hint = leader)
          /\ m.text \in {"NOT_LEADER", "UNKNOWN_LEADER"}
      BY <1>5, <2>2 DEF Redirects, Line
    <3>2. Proposed(r) /\ link[c].server # 0 /\ link[c].server # leader
      BY <1>7 DEF ServeRedirect, Idle, r
    <3> QED
      BY <3>1, <3>2 DEF Truthful
  <2> QED
    BY <1>1, <1>2, <1>7, <2>1, <2>2, ReplyGuided DEF ServeRedirect, Idle, r
<1>8. CASE AnswerOk(c)
  <2>1. ASSUME Calm, Steady PROVE Truthful(link[c], Result(r))
    <3>1. r.line.key \in Keys
      BY <1>1, <1>2, <1>8, RequestFacts DEF AnswerOk
    <3>2. Result(r).text \notin Reserved
      BY <2>1, <3>1 DEF Result, Line, Steady, Reserved, Refusals
    <3> QED
      BY <1>4, <3>2
  <2> QED
    BY <1>1, <1>2, <1>8, <2>1, ReplyGuided DEF AnswerOk, r
<1>9. CASE AnswerDeposed(c)
  <2>1. PICK m \in Redirects(r) : Reply(c, <<m>>)
    BY <1>9 DEF AnswerDeposed, r
  <2>2. ~(Calm /\ Steady)
    BY <1>5, <1>9 DEF AnswerDeposed
  <2> QED
    BY <1>1, <1>2, <1>9, <2>1, <2>2, ReplyGuided DEF AnswerDeposed, r
<1>10. CASE AnswerTimeout(c)
  <2>1. ~Calm
    BY <1>10 DEF AnswerTimeout, Calm
  <2> QED
    BY <1>1, <1>2, <1>10, <2>1, ReplyGuided DEF AnswerTimeout, r
<1>11. CASE ServeQuit(c)
  <2>1. /\ UNCHANGED <<leader, down, reigns, crashes, store, pc, tries, current, response, answers>>
        /\ link[c].inbox # <<>> /\ r.line.op = "QUIT"
    BY <1>11 DEF ServeQuit, Idle, clusterVars, logVars, machineVars, r
  <2>2. /\ link'[c].serving = 0 /\ link'[c].server = 0
        /\ link'[c].outbox = link[c].outbox \o LocalReply(r)
        /\ link'[c].open = link[c].open
        /\ \A d \in Client \ {c} : link'[d] = link[d]
    BY <1>11, QuitEffect DEF r
  <2>3. ASSUME Calm, Steady, Guided(c) PROVE Guided(c)'
    <3>1. pc[c] = "poll" /\ link[c].outbox = <<>> /\ r = Request(c)
      BY <2>1, <2>3, SessionByClient DEF Calm, Orderly, Silent, Exchange, r
    <3>2. LocalReply(r) = <<Line(r, "Goodbye", 0)>> /\ LocalReply(r) # <<>>
      BY <2>1 DEF LocalReply
    <3>3. link'[c].outbox = LocalReply(r)
      BY <1>1, <2>1, <2>2, <3>1
    <3>4. \A i \in 1..Len(link'[c].outbox) : Truthful(link'[c], link'[c].outbox[i])
      BY <1>3, <3>3 DEF Truthful, Reserved, Refusals
    <3>5. N' = N /\ Request(c)' = Request(c) /\ Distance(current[c])' = Distance(current[c])
      BY <2>1, SameSetting DEF Request, Distance
    <3>6. Connected(c)' /\ OnTheWay(c)'
      BY <2>1, <2>2, <2>3, <3>1, <3>2, <3>3, <3>5 DEF Guided, Connected, OnTheWay
    <3> QED
      BY <2>1, <2>3, <3>4, <3>6 DEF Guided, Real, Truthful
  <2> QED
    BY <2>1, <2>2, <2>3, OneClientGuided DEF StaysPut, Rests
<1>12. CASE ServePropose(c)
  <2>1. /\ UNCHANGED <<leader, down, reigns, crashes, store, pc, tries, current, response, answers>>
        /\ leader = link[c].server
    BY <1>12 DEF ServePropose, clusterVars, machineVars
  <2>2. /\ link'[c].server = link[c].server /\ link'[c].open = link[c].open
        /\ link'[c].outbox = link[c].outbox
        /\ \A d \in Client \ {c} : link'[d] = link[d]
    BY <1>12 DEF ServePropose, TypeOK, LinkType
  <2>3. ASSUME Calm, Steady, Guided(c) PROVE Guided(c)'
    <3>1. N' = N /\ Request(c)' = Request(c) /\ Distance(current[c])' = Distance(current[c])
      BY <2>1, SameSetting DEF Request, Distance
    <3>2. OnTheWay(c)'
      BY <2>1, <2>2, <2>3, <3>1 DEF Guided, OnTheWay
    <3>3. Connected(c)'
      BY <2>1, <2>2, <2>3, <3>1, SameSetting DEF Guided, Connected, Finished
    <3> QED
      BY <2>1, <2>2, <2>3, <3>2, <3>3 DEF Guided, Real, Truthful
  <2> QED
    BY <2>1, <2>2, <2>3, OneClientGuided DEF StaysPut, Rests
<1> QED
  BY <1>6, <1>7, <1>8, <1>9, <1>10, <1>11, <1>12 DEF ServerStep

LEMMA FindClusterStep ==
  ASSUME TypeOK, FindInv, UNCHANGED setting, ClusterStep
  PROVE  FindInv'
<1>. USE DEF clientVars, logVars, clusterVars, machineVars
<1>1. Calm' = Calm /\ Server' = Server
  BY SameSetting
<1>2. SUFFICES ASSUME Calm, Steady, \A c \in Client : Guided(c)
               PROVE  Steady' /\ \A c \in Client : Guided(c)'
  BY <1>1, FindByClient DEF FindInv, FindsLeader, Steady, Guided
<1>3. ~StepDown /\ \A s \in Server : ~Elect(s) /\ ~Crash(s) /\ ~Restart(s)
  BY <1>2 DEF Calm, Steady, StepDown, Elect, Crash, Restart
<1>4. Commit \/ \E l \in late : HandleLate(l)
  BY <1>3 DEF ClusterStep
<1>5. UNCHANGED <<clientVars, leader, down, reigns, crashes>>
  BY <1>4 DEF Commit, HandleLate
<1>6. \A c \in Client : Guided(c)'
  BY <1>2, <1>5, StaysGuided DEF StaysPut, Rests
<1>7. \A k \in Keys : store'[k] \notin Reserved
  <2>1. CASE Commit
    <3>1. Head(tail) \in Requests
      BY <2>1 DEF Commit, TypeOK
    <3>2. Head(tail).line.value \notin Reserved /\ "NOT_FOUND" \notin Reserved
      BY <1>2, <3>1, PlainRequests DEF Reserved, Refusals
    <3> QED
      BY <1>2, <2>1, <3>2 DEF Commit, Apply, Steady, TypeOK
  <2>2. CASE UNCHANGED store
    BY <1>2, <2>2 DEF Steady
  <2> QED
    BY <1>4, <2>1, <2>2 DEF HandleLate
<1> QED
  BY <1>1, <1>2, <1>5, <1>6, <1>7 DEF Steady

\* The inductive invariant: the attempts made and the servers left to try never
\* add up to more than there are servers.
THEOREM FindInvariant == Spec => []FindInv
<1>1. Init => FindInv
  <2>1. SUFFICES ASSUME Init, Calm PROVE Steady /\ \A c \in Client : Guided(c)
    BY FindByClient
  <2>2. TypeOK
    BY <2>1, SessionTypeInit
  <2>3. "NOT_FOUND" \notin Reserved
    BY DEF Reserved, Refusals
  <2>4. leader \in Server \ down /\ Steady
    BY <2>1, <2>3 DEF Init, Steady, Empty
  <2>5. FirstUp \notin down
    BY <2>2, <2>4, SettingFacts, FirstUpFacts
  <2>6. ASSUME NEW c \in Client PROVE Guided(c)
    BY <2>1, <2>5 DEF Init, Guided, Connected, OnTheWay, LinkTo
  <2> QED
    BY <2>4, <2>6
<1>2. TypeOK /\ FindInv /\ UNCHANGED vars => FindInv'
  <2>1. SUFFICES ASSUME TypeOK, FindInv, UNCHANGED vars PROVE FindInv'
    OBVIOUS
  <2>2. UNCHANGED <<setting, leader, down, reigns, crashes, store>> /\ \A c \in Client : StaysPut(c)
    BY <2>1 DEF vars, clientVars, clusterVars, logVars, machineVars, StaysPut, Rests
  <2>3. Calm' = Calm /\ Server' = Server
    BY <2>2, SameSetting
  <2>4. Calm => Steady' /\ \A c \in Client : Guided(c)'
    BY <2>1, <2>2, <2>3, FindByClient, StaysGuided DEF Steady
  <2> QED
    BY <2>3, <2>4 DEF FindInv, FindsLeader, Steady, Guided
<1>3. TypeOK /\ SessionInv /\ FindInv /\ [Next]_vars => FindInv'
  BY <1>2, FindClientStep, FindServerStep, FindClusterStep DEF Next
<1> QED
  BY <1>1, <1>3, SessionTypeCorrect, SessionInvariant, PTL DEF Spec

\* In a calm cluster execute() reaches the leader before its tries are over
\* (client.cpp:16-18, 103-165).
THEOREM LeaderIsFound == Spec => []FindsLeader
<1>1. FindInv => FindsLeader
  BY DEF FindInv, FindsLeader
<1> QED
  BY <1>1, FindInvariant, PTL

-----------------------------------------------------------------------------
(* A client that is alone reads what it wrote *)

\* What OwnWritesInv says of one client: of the log, and of its answers.
OwnLog(c) == LogInOrder(c) /\ WaitsForOwn(c)
OwnReads(c) == \A i \in 1..Len(answers[c]) :
  Program[c][i].op = "GET" /\ RealUpTo(c, i) => Expected(c, i, Program[c][i].key, answers[c][i].text)
OwnReplies(c) == OwnReads(c) /\ AnsweredIsCommitted(c) /\ ReadOnItsWay(c)

LEMMA OwnByClient ==
  OwnWritesInv <=>
    StoreIsLast /\ (Alone => late = {} /\ \A c \in Client : OwnLog(c) /\ OwnReplies(c))
  BY DEF OwnWritesInv, ReadsOwnWrites, OwnLog, OwnReplies, OwnReads

LEMMA LogFacts ==
  ASSUME TypeOK
  PROVE  /\ committed \in Seq(Requests) /\ tail \in Seq(Requests) /\ Log \in Seq(Requests)
         /\ Len(Log) = Len(committed) + Len(tail)
         /\ \A i \in 1..Len(committed) : Log[i] = committed[i] /\ committed[i] \in Requests
         /\ \A i \in 1..Len(Log) : Log[i] \in Requests /\ Log[i].number \in Nat
<1>1. committed \in Seq(Requests) /\ tail \in Seq(Requests)
  BY DEF TypeOK
<1>2. Log \in Seq(Requests) /\ Len(Log) = Len(committed) + Len(tail)
      /\ \A i \in 1..Len(committed) : Log[i] = committed[i]
  BY <1>1 DEF Log
<1>3. \A r \in Requests : r.number \in Nat
  BY DEF Requests
<1> QED
  BY <1>1, <1>2, <1>3

\* A log that keeps a prefix of itself keeps its order.
LEMMA OwnLogStays ==
  ASSUME TypeOK, TypeOK', NEW c \in Client, OwnLog(c),
         Len(Log') <= Len(Log), \A i \in 1..Len(Log') : Log'[i] = Log[i],
         Sent(c) <= Sent(c)',
         \/ link'[c].serving = 0
         \/ link'[c].serving = link[c].serving /\ Request(c)' = Request(c)
  PROVE  OwnLog(c)'
<1>1. Len(Log) \in Nat /\ Len(Log') \in Nat /\ \A i \in 1..Len(Log) : Log[i].number \in Nat
  <2>1. Len(Log') \in Nat
    BY DEF TypeOK, Log
  <2> QED
    BY <2>1, LogFacts
<1>2. Sent(c) \in Nat /\ Sent(c)' \in Nat
  BY DEF Sent, TypeOK
<1>3. LogInOrder(c)'
  BY <1>1, <1>2 DEF OwnLog, LogInOrder
<1>4. WaitsForOwn(c)'
  <2>1. link[c].serving \in Nat
    BY LinkFields
  <2> QED
    BY <1>1, <2>1 DEF OwnLog, WaitsForOwn
<1> QED
  BY <1>3, <1>4 DEF OwnLog

\* Replies that were there before, or are read no more.
LEMMA OwnRepliesStay ==
  ASSUME TypeOK, UNCHANGED <<setting, answers>>, NEW c \in Client, OwnReplies(c),
         \A i : Committed(i) => Committed(i)',
         pc'[c] = "poll" =>
           /\ pc[c] = "poll" \/ link'[c].outbox = <<>>
           /\ \A i \in 1..Len(link'[c].outbox) :
                \E j \in 1..Len(link[c].outbox) : link'[c].outbox[i] = link[c].outbox[j]
  PROVE  OwnReplies(c)'
<1>1. Request(c)' = Request(c) /\ Program' = Program
  BY SameSetting DEF Request
<1>2. OwnReads(c)'
  BY <1>1 DEF OwnReplies, OwnReads, Expected, RealUpTo, Real
<1>3. ASSUME pc'[c] = "poll", NEW i \in 1..Len(link'[c].outbox)
      PROVE  pc[c] = "poll" /\ \E j \in 1..Len(link[c].outbox) : link'[c].outbox[i] = link[c].outbox[j]
  BY <1>3
<1>4. AnsweredIsCommitted(c)'
  BY <1>1, <1>3 DEF OwnReplies, AnsweredIsCommitted, Real, Proposed
<1>5. ReadOnItsWay(c)'
  <2>1. RealUpTo(c, Len(answers[c]))' = RealUpTo(c, Len(answers[c]))
        /\ \A i, k, text : Expected(c, i, k, text)' = Expected(c, i, k, text)
    BY <1>1 DEF RealUpTo, Real, Expected
  <2>2. ASSUME pc'[c] = "poll", NEW i \in 1..Len(link'[c].outbox), Request(c).line.op = "GET",
               link'[c].outbox[i].text \notin Refusals, RealUpTo(c, Len(answers[c]))
        PROVE  Expected(c, Request(c).number, Request(c).line.key, link'[c].outbox[i].text)
    <3>1. PICK j \in 1..Len(link[c].outbox) : link'[c].outbox[i] = link[c].outbox[j]
      BY <1>3, <2>2
    <3>2. pc[c] = "poll" /\ link[c].outbox[j].text \notin Refusals
      BY <1>3, <2>2, <3>1
    <3> QED
      BY <2>2, <3>1, <3>2 DEF OwnReplies, ReadOnItsWay
  <2> QED
    BY <1>1, <2>1, <2>2 DEF ReadOnItsWay
<1> QED
  BY <1>2, <1>4, <1>5 DEF OwnReplies

\* A line that gets its answer.
LEMMA OwnRepliesGrow ==
  ASSUME TypeOK, UNCHANGED <<setting, committed>>, NEW c \in Client, NEW m \in ReplyType,
         pc[c] # "ready", Return(c, m), OwnReplies(c),
         Real(m) /\ Proposed(Request(c)) =>
           /\ Committed(Request(c).number)
           /\ Request(c).line.op = "GET" /\ RealUpTo(c, Len(answers[c])) =>
                Expected(c, Request(c).number, Request(c).line.key, m.text)
  PROVE  OwnReplies(c)'
<1>1. /\ answers[c] \in Seq(ReplyType) /\ answers'[c] = Append(answers[c], m)
      /\ pc'[c] = "ready"
  BY LinkFields DEF Return, TypeOK
<1>2. /\ Len(answers'[c]) = Len(answers[c]) + 1 /\ Len(answers[c]) \in Nat
      /\ answers'[c][Len(answers[c]) + 1] = m
      /\ \A i \in 1..Len(answers[c]) : answers'[c][i] = answers[c][i]
  BY <1>1
<1>3. Program' = Program /\ \A i : Committed(i)' = Committed(i)
  BY SameSetting DEF Committed
<1>4. /\ Request(c).number = Len(answers[c]) + 1
      /\ Request(c).line = Program[c][Len(answers[c]) + 1]
  BY RequestIsNext
<1>5. OwnReads(c)'
  <2>1. SUFFICES ASSUME NEW i \in 1..Len(answers'[c]), Program[c][i].op = "GET", RealUpTo(c, i)'
                 PROVE  Expected(c, i, Program[c][i].key, answers'[c][i].text)
    BY <1>3 DEF OwnReads, Expected
  <2>2. CASE i \in 1..Len(answers[c])
    <3>1. RealUpTo(c, i)
      BY <1>2, <2>1, <2>2 DEF RealUpTo, Real
    <3> QED
      BY <1>2, <2>1, <2>2, <3>1 DEF OwnReplies, OwnReads
  <2>3. CASE i = Len(answers[c]) + 1
    <3>1. RealUpTo(c, Len(answers[c])) /\ Real(m)
      BY <1>2, <2>1, <2>3 DEF RealUpTo, Real
    <3>2. Proposed(Request(c)) /\ Request(c).line.op = "GET"
      BY <1>4, <2>1, <2>3 DEF Proposed
    <3> QED
      BY <1>2, <1>4, <2>3, <3>1, <3>2
  <2> QED
    BY <1>2, <2>2, <2>3
<1>6. AnsweredIsCommitted(c)'
  <2>1. ASSUME NEW i \in 1..Len(answers'[c]), Real(answers'[c][i]),
               Program[c][i].op \in {"PUT", "GET", "DELETE"}
        PROVE  Committed(i)
    <3>1. CASE i \in 1..Len(answers[c])
      BY <1>2, <2>1, <3>1 DEF OwnReplies, AnsweredIsCommitted
    <3>2. CASE i = Len(answers[c]) + 1
      BY <1>2, <1>4, <2>1, <3>2 DEF Proposed
    <3> QED
      BY <1>2, <3>1, <3>2
  <2> QED
    BY <1>1, <1>3, <2>1 DEF AnsweredIsCommitted, Real
<1>7. ReadOnItsWay(c)'
  BY <1>1 DEF ReadOnItsWay
<1> QED
  BY <1>5, <1>6, <1>7 DEF OwnReplies

LEMMA OwnClientStep ==
  ASSUME TypeOK, TypeOK', SessionInv, OwnWritesInv, UNCHANGED setting, NEW c \in Client, ClientStep(c)
  PROVE  OwnWritesInv'
<1>. USE DEF logVars, machineVars
<1>1. UNCHANGED <<committed, store, tail>>
  BY DEF ClientStep, Begin, GiveUp, SendOn, Dial, Unreachable, ReceiveMore, ReceiveRedirect,
         ReceiveRejection, ReceiveAnswer, GoneIdle, NoAnswer
<1>2. StoreIsLast' /\ Log' = Log /\ \A i : Committed(i)' = Committed(i)
  BY <1>1 DEF OwnWritesInv, StoreIsLast, Log, Committed
<1>3. SUFFICES ASSUME Alone PROVE late' = {} /\ OwnLog(c)' /\ OwnReplies(c)'
  <2>1. Alone' = Alone
    BY SameSetting
  <2> QED
    BY <1>2, <2>1, OwnByClient, OwnByClient DEF Alone, OwnWritesInv, ReadsOwnWrites, OwnLog, OwnReplies, OwnReads
<1>4. late = {} /\ OwnLog(c) /\ OwnReplies(c) /\ Orderly(c) /\ ~setting.late
  BY <1>3, OwnByClient, SessionByClient DEF Alone
<1>5. late' = {}
  BY <1>4 DEF ClientStep, Begin, GiveUp, SendOn, Dial, Unreachable, ReceiveMore, ReceiveRedirect,
              ReceiveRejection, ReceiveAnswer, GoneIdle, NoAnswer, TryNext, CloseConn
<1>6. /\ link[c] \in LinkType /\ link[c].serving \in Nat /\ link[c].outbox \in Seq(ReplyType)
      /\ Len(answers[c]) \in Nat
      /\ pc[c] # "ready" => ~Finished(c) /\ Request(c) \in Requests
  BY LinkFields, RequestIsNext DEF TypeOK, Finished
<1>7. ASSUME UNCHANGED answers, pc'[c] # "ready", link'[c].serving \in {0, link[c].serving},
             pc'[c] = "poll" =>
               /\ pc[c] = "poll" \/ link'[c].outbox = <<>>
               /\ \A i \in 1..Len(link'[c].outbox) :
                    \E j \in 1..Len(link[c].outbox) : link'[c].outbox[i] = link[c].outbox[j]
      PROVE  OwnLog(c)' /\ OwnReplies(c)'
  <2>1. Request(c)' = Request(c) /\ Sent(c) <= Sent(c)'
    BY <1>6, <1>7, SameSetting DEF Request, Sent
  <2>2. Len(Log) \in Nat
    BY LogFacts
  <2>3. OwnLog(c)'
    BY <1>2, <1>4, <1>7, <2>1, <2>2, OwnLogStays
  <2>4. OwnReplies(c)'
    BY <1>2, <1>4, <1>7, OwnRepliesStay
  <2> QED
    BY <2>3, <2>4
<1>8. ASSUME NEW m \in ReplyType, Return(c, m), pc[c] # "ready", link'[c].serving = 0,
             Real(m) /\ Proposed(Request(c)) =>
               /\ Committed(Request(c).number)
               /\ Request(c).line.op = "GET" /\ RealUpTo(c, Len(answers[c])) =>
                    Expected(c, Request(c).number, Request(c).line.key, m.text)
      PROVE  OwnLog(c)' /\ OwnReplies(c)'
  <2>1. Sent(c)' = Sent(c) /\ Sent(c) \in Nat
    <3>1. answers'[c] = Append(answers[c], m) /\ answers[c] \in Seq(ReplyType) /\ pc'[c] = "ready"
      BY <1>8, LinkFields DEF Return, TypeOK
    <3>2. Len(answers'[c]) = Len(answers[c]) + 1
      BY <3>1
    <3> QED
      BY <1>6, <1>8, <3>1, <3>2 DEF Sent
  <2>2. Len(Log) \in Nat
    BY LogFacts
  <2>3. OwnLog(c)'
    BY <1>2, <1>4, <1>8, <2>1, <2>2, OwnLogStays
  <2>4. OwnReplies(c)'
    BY <1>1, <1>4, <1>8, OwnRepliesGrow
  <2> QED
    BY <2>3, <2>4
<1>9. CASE Begin(c)
  <2>1. pc'[c] = "try" /\ UNCHANGED <<answers, link>>
    BY <1>9 DEF Begin, TypeOK
  <2> QED
    BY <1>5, <1>7, <2>1
<1>10. CASE SendOn(c)
  <2>1. /\ pc[c] = "try" /\ pc'[c] = "poll" /\ UNCHANGED answers
        /\ link'[c].serving = link[c].serving /\ link'[c].outbox = link[c].outbox
    BY <1>6, <1>10 DEF SendOn, TypeOK, LinkType
  <2>2. link[c].outbox = <<>>
    BY <1>4, <1>6, <2>1 DEF Orderly, Silent
  <2>3. link'[c].outbox = <<>> /\ \A i : i \notin 1..Len(link'[c].outbox)
    BY <2>1, <2>2
  <2> QED
    BY <1>5, <1>7, <2>1, <2>3
<1>11. CASE Dial(c)
  <2>1. pc'[c] = "poll" /\ UNCHANGED answers /\ link'[c].serving = 0 /\ link'[c].outbox = <<>>
    BY <1>11 DEF Dial, TypeOK, LinkTo
  <2>2. \A i : i \notin 1..Len(link'[c].outbox)
    BY <2>1
  <2> QED
    BY <1>5, <1>7, <2>1, <2>2
<1>12. ASSUME NEW k, ReceiveMore(c, k) PROVE OwnLog(c)' /\ OwnReplies(c)'
  <2>1. /\ pc[c] = "poll" /\ pc'[c] = "poll" /\ UNCHANGED answers /\ link'[c].serving = link[c].serving
        /\ link'[c].outbox = SubSeq(link[c].outbox, k + 1, Len(link[c].outbox))
        /\ k \in 1..Len(link[c].outbox)
    BY <1>6, <1>12 DEF ReceiveMore, Receives, Consume, TypeOK, LinkType
  <2>2. \A i \in 1..Len(link'[c].outbox) :
          /\ link'[c].outbox[i] = link[c].outbox[i + k] /\ i + k \in 1..Len(link[c].outbox)
    BY <1>6, <2>1, RestOf
  <2> QED
    BY <1>7, <2>1, <2>2
<1>13. ASSUME NEW s, TryNext(c, s), UNCHANGED answers PROVE OwnLog(c)' /\ OwnReplies(c)'
  <2>1. pc'[c] = "try" /\ link'[c].serving = 0
    BY <1>13 DEF TryNext, CloseConn, NoLink, TypeOK
  <2> QED
    BY <1>7, <1>13, <2>1
<1>14. ASSUME GiveUp(c) \/ Unreachable(c) PROVE OwnLog(c)' /\ OwnReplies(c)'
  <2>1. PICK t \in {"GAVE_UP", "NO_SERVER"} : Return(c, Line(Request(c), t, 0))
    BY <1>14 DEF GiveUp, Unreachable
  <2>2. pc[c] = "try" /\ UNCHANGED link
    BY <1>14 DEF GiveUp, Unreachable
  <2>3. link[c].serving = 0
    BY <1>4, <2>2 DEF Orderly, Silent
  <2>4. Line(Request(c), t, 0) \in ReplyType
    <3>1. t \in Texts /\ 0 \in Nat
      BY DEF Texts, Reserved
    <3> QED
      BY <1>6, <2>2, <3>1, LineIsReply
  <2>5. ~Real(Line(Request(c), t, 0))
    BY DEF Real, Line
  <2> QED
    BY <1>8, <2>1, <2>2, <2>3, <2>4, <2>5
<1>15. ASSUME NEW k, ReceiveAnswer(c, k) PROVE OwnLog(c)' /\ OwnReplies(c)'
  <2>1. /\ Receives(c, k) /\ ~Local(Request(c)) /\ Consume(c, k) /\ Return(c, Read(c, k)[1])
        /\ Read(c, k)[1].text \notin Refusals
    BY <1>15 DEF ReceiveAnswer, Redirected, Rejected, Refusals, Reserved, Texts
  <2>2. pc[c] = "poll" /\ k \in 1..Len(link[c].outbox) /\ Read(c, k)[1] \in ReplyType
    BY <2>1, ReadFacts DEF Receives
  <2>3. /\ response[c] = <<>> /\ 1 \in 1..Len(link[c].outbox) /\ link[c].serving = 0
    BY <1>4, <1>6, <2>1, <2>2 DEF Orderly, Exchange
  <2>4. Read(c, k)[1] = link[c].outbox[1]
    BY <2>1, <2>3, ReadFacts
  <2>5. link'[c].serving = 0
    BY <1>6, <2>1, <2>3 DEF Consume, TypeOK, LinkType
  <2>6. Proposed(Request(c)) =>
          /\ Committed(Request(c).number)
          /\ Request(c).line.op = "GET" /\ RealUpTo(c, Len(answers[c])) =>
               Expected(c, Request(c).number, Request(c).line.key, Read(c, k)[1].text)
    BY <1>4, <2>1, <2>2, <2>3, <2>4 DEF OwnReplies, AnsweredIsCommitted, ReadOnItsWay
  <2> QED
    BY <1>8, <2>1, <2>2, <2>5, <2>6
<1>16. CASE GoneIdle(c)
  <2>1. /\ pc[c] = "poll" /\ Local(Request(c)) /\ response[c] # <<>> /\ Return(c, response[c][1])
        /\ UNCHANGED link
    BY <1>16 DEF GoneIdle
  <2>2. response[c] \in Seq(ReplyType) /\ 1 \in 1..Len(response[c])
    BY <2>1, LinkFields
  <2>3. link[c].serving = 0
    BY <1>4, <2>1 DEF Orderly, Exchange
  <2>4. ~Proposed(Request(c)) /\ response[c][1] \in ReplyType
    BY <2>1, <2>2 DEF Local, Proposed
  <2>5. pc[c] # "ready" /\ link'[c].serving = 0 /\ Return(c, response[c][1])
    BY <2>1, <2>3
  <2> QED
    BY <1>5, <1>8, <2>4, <2>5
<1>17. OwnLog(c)' /\ OwnReplies(c)'
  BY <1>9, <1>10, <1>11, <1>12, <1>13, <1>14, <1>15, <1>16
     DEF ClientStep, ReceiveRedirect, ReceiveRejection, NoAnswer
<1> QED
  BY <1>5, <1>17

\* The step of one thread, in parts.
LEMMA OwnServerParts ==
  ASSUME TypeOK, OwnWritesInv, UNCHANGED <<setting, committed, store, late>>, NEW c \in Client,
         Alone /\ OwnLog(c) /\ OwnReplies(c) => OwnLog(c)' /\ OwnReplies(c)'
  PROVE  OwnWritesInv'
<1>1. StoreIsLast'
  BY DEF OwnWritesInv, StoreIsLast
<1>2. ASSUME Alone PROVE late' = {} /\ \A d \in Client : OwnLog(d)' /\ OwnReplies(d)'
  <2>1. late = {} /\ OwnLog(c) /\ OwnReplies(c)
    BY <1>2, OwnByClient
  <2>2. \A d \in Client : d = c
    BY <1>2 DEF Alone
  <2> QED
    BY <1>2, <2>1, <2>2
<1>3. Alone' = Alone
  BY SameSetting
<1> QED
  BY <1>1, <1>2, <1>3 DEF OwnWritesInv, ReadsOwnWrites, OwnLog, OwnReplies, OwnReads

\* A line that is done: what its answer says is so.
LEMMA OwnReplyStep ==
  ASSUME TypeOK, TypeOK', SessionInv, OwnWritesInv, UNCHANGED <<setting, tail>>,
         NEW c \in Client, NEW lines \in Seq(ReplyType), link[c].inbox # <<>>, Reply(c, lines),
         /\ Alone /\ OwnLog(c) /\ OwnReplies(c) /\ pc[c] = "poll" /\ Proposed(Request(c))
         /\ Head(link[c].inbox) = Request(c)
         => \A i \in 1..Len(lines) : lines[i].text \notin Refusals =>
              /\ Committed(Request(c).number)
              /\ Request(c).line.op = "GET" /\ RealUpTo(c, Len(answers[c])) =>
                   Expected(c, Request(c).number, Request(c).line.key, lines[i].text)
  PROVE  OwnWritesInv'
<1>1. /\ UNCHANGED <<pc, answers, committed, store, late>>
      /\ link'[c].serving = 0 /\ link'[c].outbox = link[c].outbox \o lines
  BY ReplyEffect DEF Reply, machineVars
<1>2. ASSUME Alone, OwnLog(c), OwnReplies(c) PROVE OwnLog(c)' /\ OwnReplies(c)'
  <2>1. pc[c] = "poll" /\ Exchange(c)
    BY <1>2, SessionByClient DEF Alone, Orderly, Silent
  <2>2. link[c].inbox = <<Request(c)>> /\ link[c].outbox = <<>>
    BY <2>1 DEF Exchange
  <2>3. link'[c].outbox = lines /\ Head(link[c].inbox) = Request(c)
    BY <1>1, <2>2
  <2>4. Request(c)' = Request(c) /\ Program' = Program /\ Log' = Log /\ Sent(c)' = Sent(c)
    BY <1>1, SameSetting DEF Request, Log, Sent
  <2>5. OwnLog(c)'
    <3>1. Len(Log) \in Nat /\ Sent(c) \in Nat
      BY LogFacts DEF Sent, TypeOK
    <3> QED
      BY <1>1, <1>2, <2>4, <3>1, OwnLogStays
  <2>6. OwnReads(c)'
    BY <1>1, <1>2, <2>4 DEF OwnReplies, OwnReads, RealUpTo, Real, Expected
  <2>7. RealUpTo(c, Len(answers[c]))' = RealUpTo(c, Len(answers[c]))
        /\ (\A i, k, text : Expected(c, i, k, text)' = Expected(c, i, k, text))
        /\ (\A i : Committed(i)' = Committed(i))
    BY <1>1, <2>4 DEF RealUpTo, Real, Expected, Committed
  <2>8. AnsweredIsCommitted(c)'
    <3>1. ASSUME NEW i \in 1..Len(link'[c].outbox), Proposed(Request(c)),
                 link'[c].outbox[i].text \notin Refusals
          PROVE  Committed(Request(c).number)
      BY <1>2, <2>1, <2>3, <3>1
    <3> QED
      BY <1>1, <1>2, <2>4, <2>7, <3>1 DEF OwnReplies, AnsweredIsCommitted, Real, Proposed
  <2>9. ReadOnItsWay(c)'
    <3>1. ASSUME NEW i \in 1..Len(link'[c].outbox), Request(c).line.op = "GET",
                 link'[c].outbox[i].text \notin Refusals, RealUpTo(c, Len(answers[c]))
          PROVE  Expected(c, Request(c).number, Request(c).line.key, link'[c].outbox[i].text)
      BY <1>2, <2>1, <2>3, <3>1 DEF Proposed
    <3> QED
      BY <1>1, <2>4, <2>7, <3>1 DEF ReadOnItsWay
  <2> QED
    BY <2>5, <2>6, <2>8, <2>9 DEF OwnReplies
<1> QED
  BY <1>1, <1>2, OwnServerParts

\* The last write in the log that all state machines have is the last one the
\* client made, if all its lines so far have real answers.
LEMMA StoreIsExpected ==
  ASSUME TypeOK, StoreIsLast, Alone, NEW c \in Client, OwnLog(c), OwnReplies(c), pc[c] = "poll",
         Request(c).line.op = "GET", RealUpTo(c, Len(answers[c]))
  PROVE  Expected(c, Request(c).number, Request(c).line.key, store[Request(c).line.key])
<1>. DEFINE n == Request(c).number
            k == Request(c).line.key
<1>1. /\ n = Len(answers[c]) + 1 /\ Request(c).line = Program[c][n] /\ Len(answers[c]) \in Nat
      /\ n \in 1..Len(Program[c]) /\ k \in Keys
  BY RequestIsNext, RequestFacts
<1>2. \A q \in 1..Len(committed) :
        /\ committed[q].number \in 1..Len(Program[c])
        /\ committed[q].line = Program[c][committed[q].number]
  BY LogFacts, RequestFacts DEF Alone
<1>3. \A j \in 1..n - 1 : Writes(Program[c][j], k) => Committed(j)
  <2>1. ASSUME NEW j \in 1..n - 1, Writes(Program[c][j], k) PROVE Committed(j)
    <3>1. j \in 1..Len(answers[c])
      BY <1>1
    <3>2. Real(answers[c][j]) /\ Program[c][j].op \in {"PUT", "GET", "DELETE"}
      BY <2>1, <3>1 DEF RealUpTo, Writes
    <3> QED
      BY <3>1, <3>2 DEF OwnReplies, AnsweredIsCommitted
  <2> QED
    BY <2>1
<1>4. \A p, q \in 1..Len(committed) : /\ committed[p].number <= n
                                      /\ p <= q => committed[p].number <= committed[q].number
  <2>1. ASSUME NEW p \in 1..Len(committed) PROVE committed[p].number <= n
    <3>1. p \in 1..Len(Log) /\ Log[p] = committed[p] /\ Sent(c) = n
      BY <1>1, LogFacts DEF Sent, TypeOK
    <3> QED
      BY <3>1 DEF OwnLog, LogInOrder
  <2>2. ASSUME NEW q \in 1..Len(committed), NEW p \in 1..q
        PROVE  committed[p].number <= committed[q].number
    <3>1. q \in 1..Len(Log) /\ Log[p] = committed[p] /\ Log[q] = committed[q]
      BY LogFacts
    <3> QED
      BY <3>1 DEF OwnLog, LogInOrder
  <2> QED
    BY <2>1, <2>2
<1>5. ~Writes(Program[c][n], k)
  BY <1>1 DEF Writes
<1>. HIDE DEF n, k
<1>6. CASE store[k] = "NOT_FOUND" /\ \A i \in 1..Len(committed) : ~Writes(committed[i].line, k)
  <2>1. \A j \in 1..n - 1 : ~Writes(Program[c][j], k)
    BY <1>2, <1>3, <1>6 DEF Committed
  <2> QED
    BY <1>6, <2>1 DEF Expected, n, k
<1>7. ASSUME NEW i \in 1..Len(committed), Writes(committed[i].line, k),
             store[k] = Left(committed[i].line),
             \A q \in i + 1..Len(committed) : ~Writes(committed[q].line, k)
      PROVE  Expected(c, n, k, store[k])
  <2>. DEFINE j == committed[i].number
  <2>1. /\ j \in 1..n - 1 /\ committed[i].line = Program[c][j]
    <3>1. j \in 1..Len(Program[c]) /\ committed[i].line = Program[c][j] /\ j <= n
      BY <1>2, <1>4
    <3>2. j # n
      BY <1>5, <1>7, <3>1
    <3> QED
      BY <1>1, <3>1, <3>2
  <2>2. ASSUME NEW m \in j + 1..n - 1, Writes(Program[c][m], k) PROVE FALSE
    <3>1. m \in 1..n - 1
      BY <1>1, <2>1
    <3>2. PICK q \in 1..Len(committed) : committed[q].number = m
      BY <1>3, <2>2, <3>1 DEF Committed
    <3>3. Writes(committed[q].line, k)
      BY <1>2, <2>2, <3>2
    <3>4. q <= i
      BY <1>7, <3>3
    <3> QED
      BY <1>1, <1>4, <2>1, <3>2, <3>4
  <2> QED
    BY <1>7, <2>1, <2>2 DEF Expected
<1>8. k \in Keys
  BY <1>1 DEF k
<1> QED
  BY <1>6, <1>7, <1>8 DEF StoreIsLast, n, k

LEMMA OwnServerStep ==
  ASSUME TypeOK, TypeOK', SessionInv, OwnWritesInv, UNCHANGED setting, NEW c \in Client, ServerStep(c)
  PROVE  OwnWritesInv'
<1>. DEFINE r == Head(link[c].inbox)
<1>1. link[c].inbox # <<>> =>
        /\ r \in Requests /\ LocalReply(r) \in Seq(ReplyType)
        /\ \A m \in Redirects(r) : <<m>> \in Seq(ReplyType)
        /\ <<Result(r)>> \in Seq(ReplyType)
        /\ <<Line(r, "COMMIT_TIMEOUT", 0)>> \in Seq(ReplyType)
  BY LinkFields, RepliesType
<1>2. link[c].serving # 0 => link[c].inbox # <<>>
  BY LinkFields
<1>3. ASSUME NEW m, m.text \in Refusals PROVE \A i \in 1..Len(<<m>>) : <<m>>[i].text \in Refusals
  BY <1>3
<1>4. \A m \in Redirects(r) : m.text \in Refusals
  BY DEF Redirects, Line, Refusals
<1>. HIDE DEF r
<1>5. CASE ServeLocal(c)
  BY <1>1, <1>5, OwnReplyStep DEF ServeLocal, Idle, r
<1>6. CASE ServeRedirect(c)
  <2>1. PICK m \in Redirects(r) : Reply(c, <<m>>)
    BY <1>6 DEF ServeRedirect, r
  <2>2. \A i \in 1..Len(<<m>>) : <<m>>[i].text \in Refusals
    BY <1>3, <1>4
  <2> QED
    BY <1>1, <1>6, <2>1, <2>2, OwnReplyStep DEF ServeRedirect, Idle, r
<1>7. CASE AnswerDeposed(c)
  <2>1. PICK m \in Redirects(r) : Reply(c, <<m>>)
    BY <1>7 DEF AnswerDeposed, r
  <2>2. \A i \in 1..Len(<<m>>) : <<m>>[i].text \in Refusals
    BY <1>3, <1>4
  <2> QED
    BY <1>1, <1>2, <1>7, <2>1, <2>2, OwnReplyStep DEF AnswerDeposed, r
<1>8. CASE AnswerTimeout(c)
  <2>1. \A i \in 1..Len(<<Line(r, "COMMIT_TIMEOUT", 0)>>) :
          <<Line(r, "COMMIT_TIMEOUT", 0)>>[i].text \in Refusals
    BY <1>3 DEF Line, Refusals
  <2> QED
    BY <1>1, <1>2, <1>8, <2>1, OwnReplyStep DEF AnswerTimeout, r
<1>9. CASE AnswerOk(c)
  <2>1. ASSUME Alone, OwnLog(c), OwnReplies(c), pc[c] = "poll", r = Request(c)
        PROVE  /\ Committed(Request(c).number)
               /\ Request(c).line.op = "GET" /\ RealUpTo(c, Len(answers[c])) =>
                    Expected(c, Request(c).number, Request(c).line.key, Result(r).text)
    <3>1. link[c].serving \in 1..Len(committed)
      BY <1>9, LinkFields, LogFacts DEF AnswerOk, Waited
    <3>2. link[c].serving <= Len(Log) /\ Log[link[c].serving] = committed[link[c].serving]
      BY <3>1, LogFacts
    <3>3. committed[link[c].serving] = Request(c)
      BY <2>1, <3>1, <3>2 DEF OwnLog, WaitsForOwn
    <3>4. Request(c).line.op = "GET" => Result(r).text = store[Request(c).line.key]
      BY <2>1 DEF Result, Line
    <3> QED
      BY <2>1, <3>1, <3>3, <3>4, StoreIsExpected DEF Committed, OwnWritesInv
  <2>2. Len(<<Result(r)>>) = 1 /\ <<Result(r)>>[1] = Result(r)
    OBVIOUS
  <2>3. /\ Alone /\ OwnLog(c) /\ OwnReplies(c) /\ pc[c] = "poll" /\ r = Request(c)
        => \A i \in 1..Len(<<Result(r)>>) :
             /\ Committed(Request(c).number)
             /\ Request(c).line.op = "GET" /\ RealUpTo(c, Len(answers[c])) =>
                  Expected(c, Request(c).number, Request(c).line.key, <<Result(r)>>[i].text)
    BY <2>1, <2>2
  <2> QED
    BY <1>1, <1>2, <1>9, <2>3, OwnReplyStep DEF AnswerOk, r
<1>10. CASE ServeQuit(c)
  <2>1. /\ UNCHANGED <<pc, answers, committed, store, late, tail>>
        /\ r.line.op = "QUIT" /\ link[c].inbox # <<>> /\ link'[c].serving = 0
    BY <1>10, QuitEffect DEF ServeQuit, Idle, logVars, machineVars, r
  <2>2. ASSUME Alone, OwnLog(c), OwnReplies(c) PROVE OwnLog(c)' /\ OwnReplies(c)'
    <3>1. pc[c] = "poll" /\ r = Request(c)
      BY <2>1, <2>2, SessionByClient DEF Alone, Orderly, Silent, Exchange, r
    <3>2. ~Proposed(Request(c)) /\ Request(c).line.op # "GET"
      BY <2>1, <3>1 DEF Proposed
    <3>3. Request(c)' = Request(c) /\ Program' = Program /\ Log' = Log /\ Sent(c)' = Sent(c)
      BY <2>1, SameSetting DEF Request, Log, Sent
    <3>4. OwnLog(c)'
      <4>1. Len(Log) \in Nat /\ Sent(c) \in Nat
        BY LogFacts DEF Sent, TypeOK
      <4> QED
        BY <2>1, <2>2, <3>3, <4>1, OwnLogStays
    <3>5. OwnReads(c)'
      BY <2>1, <2>2, <3>3 DEF OwnReplies, OwnReads, RealUpTo, Real, Expected
    <3>6. AnsweredIsCommitted(c)' /\ ReadOnItsWay(c)'
      BY <2>1, <2>2, <3>2, <3>3 DEF OwnReplies, AnsweredIsCommitted, ReadOnItsWay, Real, Proposed,
                                  Committed
    <3> QED
      BY <3>4, <3>5, <3>6 DEF OwnReplies
  <2> QED
    BY <2>1, <2>2, OwnServerParts
<1>11. CASE ServePropose(c)
  <2>1. /\ UNCHANGED <<pc, answers, committed, store, late>> /\ tail' = Append(tail, r)
        /\ link[c].inbox # <<>> /\ link'[c].serving = Len(Log) + 1
        /\ link'[c].outbox = link[c].outbox
    BY <1>11, LogFacts DEF ServePropose, Idle, machineVars, r, TypeOK, LinkType
  <2>2. ASSUME Alone, OwnLog(c), OwnReplies(c) PROVE OwnLog(c)' /\ OwnReplies(c)'
    <3>1. pc[c] = "poll" /\ r = Request(c) /\ r \in Requests
      BY <1>1, <2>1, <2>2, SessionByClient DEF Alone, Orderly, Silent, Exchange, r
    <3>2. Request(c)' = Request(c) /\ Program' = Program /\ Sent(c)' = Sent(c)
          /\ Sent(c) = Request(c).number /\ Sent(c) \in Nat
      BY <2>1, <3>1, SameSetting, RequestIsNext DEF Request, Sent
    <3>3. /\ Len(Log') = Len(Log) + 1 /\ Len(Log) \in Nat /\ Log'[Len(Log) + 1] = r
          /\ \A i \in 1..Len(Log) : Log'[i] = Log[i]
      <4>1. committed \in Seq(Requests) /\ tail \in Seq(Requests) /\ Append(tail, r) \in Seq(Requests)
        BY <3>1, LogFacts
      <4>2. Log' = committed \o Append(tail, r)
        BY <2>1 DEF Log
      <4>3. /\ Len(Log') = Len(committed) + Len(tail) + 1 /\ Len(Log) = Len(committed) + Len(tail)
            /\ Log'[Len(committed) + Len(tail) + 1] = r
        BY <4>1, <4>2, LogFacts
      <4>4. ASSUME NEW i \in 1..Len(Log) PROVE Log'[i] = Log[i]
        <5>1. i <= Len(committed) => Log'[i] = committed[i] /\ Log[i] = committed[i]
          BY <4>1, <4>2, LogFacts
        <5>2. i > Len(committed) =>
                Log'[i] = Append(tail, r)[i - Len(committed)] /\ Log[i] = tail[i - Len(committed)]
          BY <4>1, <4>2, <4>3 DEF Log
        <5>3. i > Len(committed) => Append(tail, r)[i - Len(committed)] = tail[i - Len(committed)]
          BY <4>1, <4>3
        <5>4. i <= Len(committed) \/ i > Len(committed)
          BY <4>1
        <5>5. i > Len(committed) => Log'[i] = Log[i]
          BY <5>2, <5>3
        <5>6. i <= Len(committed) => Log'[i] = Log[i]
          BY <5>1
        <5> QED
          BY <5>4, <5>5, <5>6
      <4> QED
        BY <4>3, <4>4, LogFacts
    <3>4. LogInOrder(c)'
      BY <2>2, <3>1, <3>2, <3>3, LogFacts DEF OwnLog, LogInOrder
    <3>5. WaitsForOwn(c)'
      BY <2>1, <3>1, <3>2, <3>3 DEF WaitsForOwn
    <3>6. OwnReads(c)'
      BY <2>1, <2>2, <3>2 DEF OwnReplies, OwnReads, RealUpTo, Real, Expected
    <3>7. OwnReplies(c)'
      <4>1. \A i \in 1..Len(link'[c].outbox) : link'[c].outbox[i] = link[c].outbox[i]
                                               /\ i \in 1..Len(link[c].outbox)
        BY <2>1
      <4> QED
        BY <2>1, <2>2, <3>1, <4>1, OwnRepliesStay DEF Committed
    <3> QED
      BY <3>4, <3>5, <3>7 DEF OwnLog
  <2> QED
    BY <2>1, <2>2, OwnServerParts
<1> QED
  BY <1>5, <1>6, <1>7, <1>8, <1>9, <1>10, <1>11 DEF ServerStep

LEMMA StoreIsLastStep ==
  ASSUME TypeOK, TypeOK', StoreIsLast, UNCHANGED setting, Commit
  PROVE  StoreIsLast'
<1>. DEFINE r == Head(tail)
<1>1. /\ r \in Requests /\ committed' = Append(committed, r) /\ store' = Apply(store, r.line)
      /\ committed \in Seq(Requests) /\ store \in [Keys -> Texts]
  BY DEF Commit, TypeOK
<1>2. /\ Len(committed') = Len(committed) + 1 /\ Len(committed) \in Nat
      /\ committed'[Len(committed) + 1] = r
      /\ \A i \in 1..Len(committed) : committed'[i] = committed[i]
  BY <1>1
<1>. HIDE DEF r
<1>3. ASSUME NEW k \in Keys
      PROVE  \/ store'[k] = "NOT_FOUND" /\ \A i \in 1..Len(committed') : ~Writes(committed'[i].line, k)
             \/ \E i \in 1..Len(committed') :
                  /\ Writes(committed'[i].line, k) /\ store'[k] = Left(committed'[i].line)
                  /\ \A j \in i + 1..Len(committed') : ~Writes(committed'[j].line, k)
  <2>1. CASE Writes(r.line, k)
    <3>1. store'[k] = Left(r.line)
      BY <1>1, <2>1 DEF Writes, Apply, Left
    <3>2. Len(committed) + 1 \in 1..Len(committed') /\ Len(committed) + 2..Len(committed') = {}
      BY <1>2
    <3>3. \A j \in (Len(committed) + 1) + 1..Len(committed') : FALSE
      BY <1>2
    <3> QED
      BY <1>2, <2>1, <3>1, <3>2, <3>3
  <2>2. CASE ~Writes(r.line, k)
    <3>1. store'[k] = store[k]
      BY <1>1, <2>2 DEF Writes, Apply
    <3>2. \A i \in 1..Len(committed') : i \in 1..Len(committed) \/ i = Len(committed) + 1
      BY <1>2
    <3>3. CASE store[k] = "NOT_FOUND" /\ \A i \in 1..Len(committed) : ~Writes(committed[i].line, k)
      BY <1>2, <2>2, <3>1, <3>2, <3>3
    <3>4. ASSUME NEW i \in 1..Len(committed), Writes(committed[i].line, k),
                 store[k] = Left(committed[i].line),
                 \A j \in i + 1..Len(committed) : ~Writes(committed[j].line, k)
          PROVE  /\ i \in 1..Len(committed') /\ Writes(committed'[i].line, k)
                 /\ store'[k] = Left(committed'[i].line)
                 /\ \A j \in i + 1..Len(committed') : ~Writes(committed'[j].line, k)
      <4>1. ASSUME NEW j \in i + 1..Len(committed') PROVE ~Writes(committed'[j].line, k)
        <5>1. j \in i + 1..Len(committed) \/ j = Len(committed) + 1
          BY <1>2
        <5>2. j \in i + 1..Len(committed) => committed'[j] = committed[j]
          BY <1>2
        <5> QED
          BY <1>2, <2>2, <3>4, <5>1, <5>2
      <4> QED
        BY <1>2, <3>1, <3>4, <4>1
    <3> QED
      BY <3>3, <3>4 DEF StoreIsLast
  <2> QED
    BY <2>1, <2>2
<1> QED
  BY <1>3 DEF StoreIsLast

\* A log that an election has cut, or that is committed further.
LEMMA ClusterLog ==
  ASSUME TypeOK, Commit \/ (\E s \in Server : Elect(s)) \/ UNCHANGED logVars
  PROVE  /\ Len(Log') <= Len(Log) /\ \A i \in 1..Len(Log') : Log'[i] = Log[i]
         /\ \A i : Committed(i) => Committed(i)'
<1>. USE DEF logVars, machineVars
<1>1. committed \in Seq(Requests) /\ tail \in Seq(Requests) /\ Len(Log) \in Nat
  BY LogFacts
<1>2. CASE Commit
  <2>1. tail # <<>> /\ committed' = Append(committed, Head(tail)) /\ tail' = Tail(tail)
    BY <1>2 DEF Commit
  <2>2. Append(committed, Head(tail)) = committed \o <<Head(tail)>> /\ Head(tail) \in Requests
        /\ tail = <<Head(tail)>> \o Tail(tail) /\ Tail(tail) \in Seq(Requests)
    BY <1>1, <2>1, AppendIsConcat
  <2>3. Log' = Log
    <3>1. Log' = (committed \o <<Head(tail)>>) \o Tail(tail)
      BY <2>1, <2>2 DEF Log
    <3>2. <<Head(tail)>> \in Seq(Requests)
      BY <2>2
    <3>3. Log' = committed \o (<<Head(tail)>> \o Tail(tail))
      BY <1>1, <2>2, <3>1, <3>2, ConcatAssociative
    <3> QED
      BY <2>2, <3>3 DEF Log
  <2>4. \A i : Committed(i) => Committed(i)'
    BY <1>1, <2>1 DEF Committed
  <2> QED
    BY <1>1, <2>3, <2>4
<1>3. ASSUME NEW s \in Server, Elect(s)
      PROVE  /\ Len(Log') <= Len(Log) /\ \A i \in 1..Len(Log') : Log'[i] = Log[i]
             /\ \A i : Committed(i) => Committed(i)'
  <2>1. PICK k \in 0..Len(tail) : tail' = SubSeq(tail, 1, k)
    BY <1>3 DEF Elect
  <2>2. committed' = committed
    BY <1>3 DEF Elect
  <2>3. SubSeq(tail, 1, k) \in Seq(Requests) /\ Len(SubSeq(tail, 1, k)) = k
        /\ \A i \in 1..k : SubSeq(tail, 1, k)[i] = tail[i]
    BY <1>1
  <2>4. Len(Log') = Len(committed) + k /\ Len(Log) = Len(committed) + Len(tail)
    BY <1>1, <2>1, <2>2, <2>3 DEF Log
  <2>5. ASSUME NEW i \in 1..Len(Log') PROVE Log'[i] = Log[i]
    <3>1. i <= Len(committed) => Log'[i] = committed[i] /\ Log[i] = committed[i]
      BY <1>1, <2>1, <2>2, <2>3, <2>4 DEF Log
    <3>2. i > Len(committed) => /\ Log'[i] = SubSeq(tail, 1, k)[i - Len(committed)]
                                /\ Log[i] = tail[i - Len(committed)]
                                /\ i - Len(committed) \in 1..k
      BY <1>1, <2>1, <2>2, <2>3, <2>4 DEF Log
    <3>3. i <= Len(committed) \/ i > Len(committed)
      BY <1>1, <2>4
    <3> QED
      BY <2>3, <3>1, <3>2, <3>3
  <2>6. Len(Log') <= Len(Log)
    BY <1>1, <2>4
  <2> QED
    BY <2>2, <2>5, <2>6 DEF Committed
<1>4. CASE UNCHANGED logVars
  BY <1>1, <1>4 DEF Log, Committed
<1> QED
  BY <1>2, <1>3, <1>4

LEMMA OwnClusterStep ==
  ASSUME TypeOK, TypeOK', OwnWritesInv, UNCHANGED setting, ClusterStep
  PROVE  OwnWritesInv'
<1>1. StoreIsLast'
  <2>1. Commit \/ UNCHANGED machineVars
    BY DEF ClusterStep, StepDown, Elect, Crash, Restart, HandleLate, logVars
  <2> QED
    BY <2>1, StoreIsLastStep DEF OwnWritesInv, StoreIsLast, machineVars
<1>2. SUFFICES ASSUME Alone PROVE late' = {} /\ \A c \in Client : OwnLog(c)' /\ OwnReplies(c)'
  <2>1. Alone' = Alone
    BY SameSetting
  <2> QED
    BY <1>1, <2>1 DEF OwnWritesInv, ReadsOwnWrites, OwnLog, OwnReplies, OwnReads
<1>3. late = {} /\ \A c \in Client : OwnLog(c) /\ OwnReplies(c)
  BY <1>2, OwnByClient
<1>4. late' = {} /\ UNCHANGED <<pc, answers>> /\ ~\E l \in late : HandleLate(l)
  BY <1>3 DEF ClusterStep, Commit, StepDown, Elect, Crash, Restart, HandleLate, clientVars
<1>5. Commit \/ (\E s \in Server : Elect(s)) \/ UNCHANGED logVars
  BY <1>4 DEF ClusterStep, StepDown, Crash, Restart
<1>6. ASSUME NEW c \in Client PROVE OwnLog(c)' /\ OwnReplies(c)'
  <2>1. link'[c].serving \in {0, link[c].serving} /\ link'[c].outbox = link[c].outbox
    <3>1. CASE UNCHANGED link
      BY <3>1
    <3>2. ASSUME NEW s \in Server, Crash(s)
          PROVE  link'[c].serving \in {0, link[c].serving} /\ link'[c].outbox = link[c].outbox
      BY <3>2, CrashEffect
    <3> QED
      BY <1>4, <3>1, <3>2 DEF ClusterStep, Commit, StepDown, Elect, Restart, clientVars
  <2>2. Request(c)' = Request(c) /\ Sent(c)' = Sent(c) /\ Sent(c) \in Nat
    BY <1>4, SameSetting DEF Request, Sent, TypeOK
  <2>3. OwnLog(c)'
    BY <1>3, <1>5, <2>1, <2>2, ClusterLog, OwnLogStays
  <2>4. OwnReplies(c)'
    BY <1>3, <1>4, <1>5, <2>1, ClusterLog, OwnRepliesStay
  <2> QED
    BY <2>3, <2>4
<1> QED
  BY <1>4, <1>6

\* The inductive invariant: the log has the client's commands in its order, and
\* what was answered is committed.
THEOREM OwnWritesInvariant == Spec => []OwnWritesInv
<1>1. Init => OwnWritesInv
  <2>1. SUFFICES ASSUME Init
                 PROVE  StoreIsLast /\ late = {} /\ \A c \in Client : OwnLog(c) /\ OwnReplies(c)
    BY OwnByClient
  <2>2. StoreIsLast /\ late = {}
    BY <2>1 DEF Init, StoreIsLast, Empty
  <2>3. ASSUME NEW c \in Client PROVE OwnLog(c) /\ OwnReplies(c)
    <3>1. committed = <<>> /\ tail = <<>> /\ answers[c] = <<>> /\ link[c].serving = 0
          /\ pc[c] = "ready"
      BY <2>1 DEF Init, LinkTo
    <3>2. Len(Log) = 0
      BY <3>1 DEF Log
    <3> QED
      BY <3>1, <3>2 DEF OwnLog, LogInOrder, WaitsForOwn, OwnReplies, OwnReads, AnsweredIsCommitted,
                        ReadOnItsWay
  <2> QED
    BY <2>2, <2>3
<1>2. TypeOK /\ TypeOK' /\ OwnWritesInv /\ UNCHANGED vars => OwnWritesInv'
  <2>1. SUFFICES ASSUME TypeOK, TypeOK', OwnWritesInv, UNCHANGED vars PROVE OwnWritesInv'
    OBVIOUS
  <2>2. UNCHANGED <<setting, pc, link, answers, committed, store, tail, late>>
    BY <2>1 DEF vars, clientVars, logVars, machineVars
  <2>3. StoreIsLast' /\ Alone' = Alone
    BY <2>1, <2>2, SameSetting DEF OwnWritesInv, StoreIsLast
  <2>4. ASSUME Alone PROVE late' = {} /\ \A c \in Client : OwnLog(c)' /\ OwnReplies(c)'
    <3>1. late = {} /\ \A c \in Client : OwnLog(c) /\ OwnReplies(c)
      BY <2>1, <2>4, OwnByClient
    <3>2. Log' = Log /\ Len(Log) \in Nat /\ \A i : Committed(i) => Committed(i)'
      BY <2>1, <2>2, LogFacts DEF Log, Committed
    <3>3. ASSUME NEW c \in Client PROVE OwnLog(c)' /\ OwnReplies(c)'
      <4>1. Request(c)' = Request(c) /\ Sent(c)' = Sent(c) /\ Sent(c) \in Nat
        BY <2>1, <2>2, SameSetting DEF Request, Sent, TypeOK
      <4>2. OwnLog(c)'
        BY <2>1, <2>2, <3>1, <3>2, <4>1, OwnLogStays
      <4>3. OwnReplies(c)'
        BY <2>1, <2>2, <3>1, <3>2, OwnRepliesStay
      <4> QED
        BY <4>2, <4>3
    <3> QED
      BY <2>2, <3>1, <3>3
  <2> QED
    BY <2>3, <2>4 DEF OwnWritesInv, ReadsOwnWrites, OwnLog, OwnReplies, OwnReads
<1>3. TypeOK /\ TypeOK' /\ SessionInv /\ OwnWritesInv /\ [Next]_vars => OwnWritesInv'
  BY <1>2, OwnClientStep, OwnServerStep, OwnClusterStep DEF Next
<1> QED
  BY <1>1, <1>3, SessionTypeCorrect, SessionInvariant, PTL DEF Spec

\* A client that is alone reads what its earlier lines have left, through
\* elections, crashes, timeouts and the copies that retries leave in the log
\* (client.cpp:103-165, server.cpp proposeAndWait).
THEOREM ReadsAreOwnWrites == Spec => []ReadsOwnWrites
<1>1. OwnWritesInv => ReadsOwnWrites
  BY DEF OwnWritesInv
<1> QED
  BY <1>1, OwnWritesInvariant, PTL
=============================================================================
