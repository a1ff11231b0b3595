------------------------------- MODULE MCAudit -------------------------------
(* Instances of the audit server for TLC. *)
EXTENDS AuditServer, TLC
CONSTANTS w1, w2, c1, c2, p1, p2, q1, q2

Ev(i, t, p) == [id |-> i, at |-> t, producer |-> p]
McEvents == {Ev(1, 1, 2), Ev(1, 2, 2), Ev(2, 2, 2), Ev(3, 1, 1)}
McMalformed == {Ev(3, 1, 1)}
\* an empty table behind the cache; an older one, without it, as the server runs
McDeployments == {[table |-> {}, cache |-> TRUE],
                  [table |-> {Ev(1, 2, 2), Ev(2, 2, 2)}, cache |-> FALSE]}
McBatches == {<<Ev(1, 1, 2), Ev(2, 2, 2)>>, <<Ev(2, 2, 2), Ev(1, 1, 2)>>,
              <<Ev(1, 1, 2), Ev(1, 1, 2)>>,
              <<Ev(1, 1, 2), Ev(2, 2, 2), Ev(2, 2, 2)>>}
McRequests == {[peer |-> 1, producers |-> {}, desc |-> TRUE,
                bounds |-> <<0, 3>>, size |-> 1],
               [peer |-> 2, producers |-> {2}, desc |-> FALSE,
                bounds |-> <<>>, size |-> 0]}
\* calls, envelopes, readers and insert workers are interchangeable, each among themselves
Symm == {w @@ c @@ p @@ q : w \in Permutations({w1, w2}), c \in Permutations({c1, c2}),
                            p \in Permutations({p1, p2}), q \in Permutations({q1, q2})}
=============================================================================
