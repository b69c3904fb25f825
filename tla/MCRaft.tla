------------------------------- MODULE MCRaft -------------------------------
(***************************************************************************)
(* Raft for TLC, with symmetric servers.                                   *)
(***************************************************************************)
EXTENDS RaftInv, TLC

Symmetry == Permutations(Server)
=============================================================================
