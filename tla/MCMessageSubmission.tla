------------------------ MODULE MCMessageSubmission ------------------------
(***************************************************************************)
(* Small instances of MessageSubmission: two request threads, clients that *)
(* send one of three commands under two keys.  The first two commands      *)
(* reuse a key with a different payload.                                   *)
(***************************************************************************)
EXTENDS MessageSubmission, TLC

CONSTANTS t1, t2, i1, k1, k2, cA, f1, f2, f3, d1

OneHost  == t1 :> i1 @@ t2 :> i1

Cmd1 == [key |-> k1, conv |-> cA, fp |-> f1, targets |-> {d1}]
Cmd2 == [key |-> k1, conv |-> cA, fp |-> f2, targets |-> {d1}]
Cmd3 == [key |-> k2, conv |-> cA, fp |-> f3, targets |-> {d1}]

(* Two stripes, so that submissions of different keys overlap.             *)
TwoStripes == k1 :> 1 @@ k2 :> 2

AllCommands  == {Cmd1, Cmd2, Cmd3}
OneCommand   == {Cmd2}

=============================================================================
