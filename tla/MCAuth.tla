------------------------------- MODULE MCAuth -------------------------------
(* The auth service on a small instance: an enrolled device and a new one. *)
EXTENDS AuthSessions, TLC

CONSTANTS t1, t2, d1, d2, r1
Symmetric == Permutations({t1, t2})

\* the account starts without a second factor or with one
WithAndWithoutMfa == {<<>>, <<"enabled">>}
=============================================================================
