------------------------------- MODULE RaftLog -------------------------------
(***************************************************************************)
(* The pure part of a node's log: what server.cpp reads from the vector    *)
(* log_entries and how an AppendEntries request edits it.  A log is a      *)
(* sequence of entries; like the code, an entry carries its own index and  *)
(* the code mixes that index with the position in the vector.              *)
(***************************************************************************)
EXTENDS Integers, Sequences, FiniteSetsExt

Entry(t, i, c) == [term |-> t, index |-> i, cmd |-> c]

\* getLastLogIndex / getLastLogTerm: the fields of the last entry, 0 if none.
LastIndex(l) == IF l = <<>> THEN 0 ELSE l[Len(l)].index
LastTerm(l)  == IF l = <<>> THEN 0 ELSE l[Len(l)].term

\* termAt: 0 for the sentinel 0 and for an index past the end.
TermAt(l, i) == IF i \in 1..Len(l) THEN l[i].term ELSE 0

\* Mutant: any log will do.
LogUpToDate_Always(lastTerm, lastIndex, l) == TRUE

\* The election restriction of handleRequestVote: a log that ends in
\* (lastTerm, lastIndex) is at least as up to date as l.
LogUpToDate(lastTerm, lastIndex, l) ==
  \/ lastTerm > LastTerm(l)
  \/ lastTerm = LastTerm(l) /\ lastIndex >= LastIndex(l)

\* Mutant: the entry is there, whatever its term.
PrevMatches_NoTerm(l, prevIndex, prevTerm) == prevIndex > 0 => prevIndex <= Len(l)

\* Step 3 of handleAppendEntries: l holds an entry of prevTerm at prevIndex.
PrevMatches(l, prevIndex, prevTerm) ==
  prevIndex > 0 => prevIndex <= Len(l) /\ TermAt(l, prevIndex) = prevTerm

\* Mutant: every entry of the request is written, matching or not.
Differing_Always(l, es) == 1..Len(es)

\* Steps 4 and 5: the positions of es whose entry is missing from l or
\* conflicts with it.  The loop of the code skips the others.
Differing(l, es) ==
  {k \in 1..Len(es) : es[k].index > Len(l) \/ l[es[k].index].term # es[k].term}

\* Mutant: a conflict is appended, nothing deleted.
Before_Keep(l, i) == l

\* l up to, but without, index i: resize(i - 1).
Before(l, i) == IF i > Len(l) THEN l ELSE SubSeq(l, 1, i - 1)

\* The log after the loop.  Its first write makes that entry the last of the
\* log, so every later entry of the request is pushed as well.
Reconcile(l, es) ==
  IF Differing(l, es) = {} THEN l
  ELSE LET k == Min(Differing(l, es))
       IN  Before(l, es[k].index) \o SubSeq(es, k, Len(es))

\* l and m are the same up to index k.
AgreeUpTo(l, m, k) == k <= Len(l) /\ k <= Len(m) /\ \A i \in 1..k : l[i] = m[i]

Commands(l) == [i \in 1..Len(l) |-> l[i].cmd]
=============================================================================
