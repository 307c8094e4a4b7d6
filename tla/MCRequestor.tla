----------------------------- MODULE MCRequestor -----------------------------
(* A small instance of Requestor for TLC: two requests at a time, and a second *)
(* reply to each.                                                              *)
EXTENDS Requestor, TLC

CONSTANTS r1, r2

MCRequests == {r1, r2}
=============================================================================
