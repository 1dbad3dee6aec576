------------------------------- MODULE MCSessions -------------------------------
(* An instance of Sessions for TLC.  Nothing in Sessions tells one request or   *)
(* one user from another, so they may be permuted.                              *)
EXTENDS Sessions, TLC

Symmetry == Permutations(Requests) \cup Permutations(Users)
=================================================================================
