---------------------------- MODULE MCAuthCache ----------------------------
(* The instance of AuthCache that TLC checks: two users for one node slot,   *)
(* so that the pool is exhausted, and the slot passes from one user to the   *)
(* other and back while answers for the first are still to come.             *)
EXTENDS AuthCache

CONSTANTS u1, u2, n1, q1, q2, q3

MCUsers    == {u1, u2}
MCNodes    == {n1}
MCRequests == {q1, q2, q3}
=============================================================================
