------------------------- MODULE MCMessageDelivery -------------------------
(***************************************************************************)
(* Delivery of two messages to one device. What happens around the worker  *)
(* and the recovery thread is drawn from one of the Scopes, so that crowds *)
(* of unlikely events do not have to be explored together.                 *)
(***************************************************************************)
EXTENDS MessageDelivery, TLC

CONSTANTS d1, w1, Scopes

VARIABLE scope

OneDevice == [m \in Messages |-> d1]
McScopes == {{"earlier", "retries", "crash"}, {"earlier", "retries", "month"},
             {"consumer"}, {"earlier", "calls"},
             {"earlier", "sync", "window", "drops"}}

ScopedInit ==
    /\ Init
    /\ scope \in Scopes
    /\ ("earlier" \in scope) = (\E m \in Messages : received[m])

\* What the environment does of its own accord stays within the scope.
InScope ==
    /\ crashes' # crashes => "crash" \in scope
    /\ drops' # drops => "drops" \in scope
    /\ month' # month => "month" \in scope
    /\ aged' # aged => "window" \in scope
    /\ <<acker, reader>>' # <<acker, reader>> => "calls" \in scope
    /\ (\E m \in Messages : pending'[m].attempts # 0) => "retries" \in scope
    /\ <<worker, scan>>' = <<worker, scan>>
            /\ (lanes' # lanes \/ \E m \in Messages : /\ outbox[m] = "pending"
                                                      /\ outbox'[m] # outbox[m])
         => "consumer" \in scope
    /\ received' # received /\ (\A w \in Workers : ~At(w, "send"))
         => "sync" \in scope

ScopedSpec ==
    /\ ScopedInit
    /\ [][Next /\ InScope /\ UNCHANGED scope]_<<vars, scope>>
    /\ Fairness
=============================================================================
