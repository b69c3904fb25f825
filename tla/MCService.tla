----------------------------- MODULE MCService -----------------------------
(***************************************************************************)
(* RaftService with one write and one read at a time, so that logs can be  *)
(* longer.                                                                 *)
(***************************************************************************)
EXTENDS RaftService

FewClients ==
  /\ Cardinality({w \in waiting' \cup acked' : w.cmd # NoOp}) <= 1
  /\ reading' # {} => elections = MaxElections
  /\ Cardinality(reading' \cup readings') <= 1
  /\ crashes' = 0 \/ Orphans(appendReqs') = {}

FewClientsSpec == ServiceInit /\ [][ServiceNext /\ FewClients]_serviceVars
=============================================================================
