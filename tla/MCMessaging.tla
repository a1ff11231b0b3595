----------------------------- MODULE MCMessaging ------------------------------
(* Instances of the messaging service for TLC. *)
EXTENDS MessagingService
CONSTANTS alice, bob, carol, a1, b1, b2, x1, x2, x3

McOwner == [d \in {a1, b1, b2} |-> IF d = a1 THEN alice ELSE bob]
Req(rpc, user) ==
  [rpc |-> rpc, user |-> user, n |-> 0, header |-> None, device |-> None, conv |-> None,
   target |-> None, people |-> {}, title |-> TRUE, seq |-> 0, max |-> 0,
   targets |-> {}, env |-> "ok", message |-> TRUE, status |-> "Online",
   deadline |-> Forever, cancelled |-> FALSE]
On(rpc, user) == [Req(rpc, user) EXCEPT !.conv = 1]
From(rpc, user, d) == [On(rpc, user) EXCEPT !.device = d]
Send(d, targets) == [From("SendMessage", McOwner[d], d) EXCEPT !.targets = targets]
Direct(u, v) == [Req("CreateDirect", u) EXCEPT !.target = v]
Look(u, people) == [Req("GetPresence", u) EXCEPT !.people = people]

(* Direct conversations, groups and what users see of each other. *)
Creating ==
  {Direct(alice, bob), Direct(bob, alice), [Req("CreateGroup", carol) EXCEPT !.people = {alice}],
   Look(carol, {alice, bob})}
(* Changes of the group: its admin and its member leave, ... *)
Leaving ==
  {On("LeaveConversation", alice), On("LeaveConversation", bob),
   [On("AddParticipant", alice) EXCEPT !.target = carol], On("UpdateConversationMetadata", alice),
   Look(carol, {bob})}
(* ... or are removed. *)
Removing ==
  {[On("RemoveParticipant", alice) EXCEPT !.target = bob],
   [On("RemoveParticipant", alice) EXCEPT !.target = alice],
   On("LeaveConversation", bob), On("UpdateConversationMetadata", alice),
   Req("ListConversations", bob)}
(* A member is removed while the two look at each other. *)
Shielded ==
  {[On("RemoveParticipant", alice) EXCEPT !.target = bob], Look(bob, {alice}), Look(alice, {bob})}
Presence ==
  {[Req("UpdatePresence", alice) EXCEPT !.status = "Away"], Req("UpdatePresence", alice),
   [Req("UpdatePresence", alice) EXCEPT !.n = 1], Look(bob, {alice, carol})}
(* Messages and their synchronisation, also over the end of a month. *)
Messages ==
  {Send(a1, {b1}), [Send(a1, {b1}) EXCEPT !.n = 1],
   [From("SyncDeviceMessages", bob, b1) EXCEPT !.max = 1]}
Cursors ==
  {[From("UpdateSyncCursor", bob, b1) EXCEPT !.seq = 1],
   [From("UpdateSyncCursor", bob, b1) EXCEPT !.seq = 2],
   From("GetSyncCursor", bob, b1), From("SyncDeviceMessages", bob, b1),
   [From("GetMessages", bob, b1) EXCEPT !.seq = 1, !.max = 2]}
(* Devices that come and go. *)
Directory ==
  {Send(a1, {b1}), Send(a1, {b1, b2})}
Revoked == {Send(a1, {b1, b2}), From("SyncDeviceMessages", bob, b2)}
(* Deadlines and the end of the process. *)
Stopping ==
  {[Send(a1, {b1}) EXCEPT !.deadline = 1], From("AcknowledgeDelivery", bob, b1),
   [From("SendReadReceipt", bob, b1) EXCEPT !.deadline = 1]}
(* Requests that are refused. *)
Refused ==
  {Req("SendMessage", None), [Send(a1, {}) EXCEPT !.n = 2],
   [Send(a1, {b1}) EXCEPT !.env = "plaintext"], [Send(a1, {b1}) EXCEPT !.cancelled = TRUE],
   [From("GetMessages", bob, b1) EXCEPT !.header = b2],
   [From("SyncDeviceMessages", bob, b1) EXCEPT !.seq = 3],
   On("GetMessageDeliveryStatus", carol), On("GetMessageDeliveryStatus", bob),
   On("GetConversation", bob), On("GetConversation", carol)}
Load(requests, time, failures, months, volatile, stops) ==
  [requests |-> requests, clock |-> time, faults |-> failures, months |-> months,
   volatile |-> volatile, stops |-> stops]
LCreating == Load(Creating, 1, 1, 1, {}, FALSE)
LLeaving == Load(Leaving, 1, 1, 1, {}, FALSE)
LRemoving == Load(Removing, 1, 1, 1, {}, FALSE)
LShielded == Load(Shielded, 1, 1, 1, {}, FALSE)
LPresence == Load(Presence, 2, 0, 1, {}, FALSE)
LMessages == Load(Messages, 0, 1, 3, {}, FALSE)
LCursors == Load(Cursors, 0, 1, 1, {}, FALSE)
LDirectory == Load(Directory, 2, 0, 1, {b2}, FALSE)
LRevoked == Load(Revoked, 2, 0, 1, {b2}, FALSE)
LStopping == Load(Stopping, 1, 0, 1, {}, TRUE)
LRefused == Load(Refused, 0, 1, 1, {}, FALSE)
McWorkloads == {LCreating, LLeaving, LRemoving, LShielded, LPresence, LMessages, LCursors,
                LDirectory, LRevoked, LStopping, LRefused}
Symm == Permutations({x1, x2, x3})
=============================================================================
