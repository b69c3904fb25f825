----------------------------- MODULE AppendLoop -----------------------------
(***************************************************************************)
(* The loop of handleAppendEntries over args.entries, one entry at a time. *)
(* Module Raft does it in one step, with Reconcile of RaftLog.             *)
(***************************************************************************)
EXTENDS RaftLog

\* log_entries and logChanged.
Loop(l, changed) == [log |-> l, logChanged |-> changed]

Held(l, e) == e.index <= Len(l)

\* Mutant: a matching entry truncates like a conflicting one.
Skips_Never(l, e) == FALSE

\* idx <= log_entries.size(), same term: skip.
Skips(l, e) == Held(l, e) /\ l[e.index].term = e.term

\* Step 4, resize(idx - 1) for a conflict, and step 5, push_back.
Iterate(state, e) ==
  IF Skips(state.log, e) THEN state
  ELSE LET kept == IF Held(state.log, e) THEN SubSeq(state.log, 1, e.index - 1) ELSE state.log
       IN  Loop(Append(kept, e), TRUE)

\* The state after each number of entries, and after them all.
Iterations(l, es) ==
  LET after[n \in 0..Len(es)] ==
        IF n = 0 THEN Loop(l, FALSE) ELSE Iterate(after[n - 1], es[n])
  IN  after
AppendLoop(l, es) == Iterations(l, es)[Len(es)]
=============================================================================
