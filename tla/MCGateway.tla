------------------------------ MODULE MCGateway ------------------------------
(* Instances of the gateway for TLC. *)
EXTENDS Gateway

(* Two requests at once over the kinds of route that share state in        *)
(* different ways, and one request of every kind there is.                 *)
McWorkloads ==
  {[routes |-> {HandleGetDevice, HandleLogin, HandleStreamingDownload, HealthRoute},
    requests |-> 2, timeouts |-> {0},
    sessions |-> {[level |-> "PRIMARY", device |-> FALSE]}],
   [routes |-> AllRoutes, requests |-> 1, timeouts |-> {0, 1, 4},
    sessions |-> Contexts]}

(* Two calls of the auth proxy may run at once; a stream of the files proxy  *)
(* leaves no slot for a second one.                                         *)
McSlots == [c \in Categories |-> IF c = "auth" THEN 2 ELSE 1]

McTimeout == [c \in Categories |-> IF c = "auth" THEN 2 ELSE 1]
=============================================================================
