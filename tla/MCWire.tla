------------------------------- MODULE MCWire -------------------------------
(***************************************************************************)
(* Wire for TLC: one leader with two followers, and clients whose keys and *)
(* values fit their length fields, or do not.                              *)
(***************************************************************************)
EXTENDS Wire

Followers == {"n2", "n3"}

\* Empty strings and the longest that fit.
Fitting == {0, LenMod - 1}

\* Short strings and the shortest that do not fit.
TooLong == {1, LenMod}
=============================================================================
