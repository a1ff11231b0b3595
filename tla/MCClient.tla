------------------------------ MODULE MCClient ------------------------------
(***************************************************************************)
(* The desktop client with two peers in the address book, one of them in   *)
(* the group, and a third who may be added.  The third one's user id       *)
(* gives the id of the group (sec@ops and conv-secops), those of the other *)
(* two give one and the same id (a.b@c and ab@c).                          *)
(***************************************************************************)
EXTENDS ClientWorkspace

CONSTANTS frances, corina, nia, operator

McPeers == {frances, corina, nia}
McSeedPeers == <<frances, corina>>
McSeedStatus == (frances :> "Verified") @@ (corina :> "Unverified")
McSlug == (frances :> "swann") @@ (corina :> "swann") @@ (nia :> "bridge")
McSeedGroup == {frances}
McNewGroups == {{frances, nia}}
McFocuses == {{"contacts", "groups", "sending"}, {"session", "sending"},
              {"messages", "sending"}, {"files", "devices"}}
=============================================================================
