------------------------------ MODULE MCClient ------------------------------
(***************************************************************************)
(* Settings for ClientSession: one client, whose servers keep their leader *)
(* and answer, or fail, or also read what the client has given up.         *)
(***************************************************************************)
EXTENDS ClientSession

CONSTANT alice

Setting(program, servers, timeouts, lateHandling, maxReigns, maxCrashes) ==
  [program |-> [d \in Client |-> program], servers |-> servers, tries |-> servers + 1,
   timeouts |-> timeouts, late |-> lateHandling, reigns |-> maxReigns, crashes |-> maxCrashes]

\* A QUIT with something after it, which the shell passes on; a dump at the end.
Quiet ==
  Setting(<<Put("k", "old"), Other("QUIT"), Get("k"), Other("DUMP")>>, 3, FALSE, FALSE, 1, 0)

\* A write, its deletion and a read, with timeouts, an election and a crash.
Stormy ==
  Setting(<<Put("k", "old"), Delete("k"), Get("k")>>, 2, TRUE, FALSE, 2, 1)

\* A line of nothing but a carriage return, which no server answers, between
\* commands that may be handled after their client has gone.
Tardy ==
  Setting(<<Put("k", "old"), Other("BLANK"), Other("BAD")>>, 2, TRUE, TRUE, 2, 2)

QuietStormyOrTardy == {Quiet, Stormy, Tardy}
=============================================================================
