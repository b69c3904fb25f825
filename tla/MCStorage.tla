----------------------------- MODULE MCStorage -----------------------------
(***************************************************************************)
(* Storage with one kind of crash at a time, and with failing calls.       *)
(***************************************************************************)
EXTENDS Storage

OneCrashEach == {{"kill"}, {"power"}, {"kill", "write", "read"}}
=============================================================================
