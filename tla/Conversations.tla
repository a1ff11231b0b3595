---------------------------- MODULE Conversations -----------------------------
(***************************************************************************)
(* The conversation RPCs of the messaging service with ConversationService,*)
(* ConversationAuthorizationService and the Scylla tables they use.  There *)
(* is no transaction: an operation authorises, reads the row it will       *)
(* change, and then makes its writes one at a time.  A failing read or     *)
(* write throws through the handler, which gRPC answers with UNKNOWN.      *)
(***************************************************************************)
EXTENDS MessagingCalls

CONSTANT MaxConversations    \* bound on the conversations of a run

ASSUME ConversationsAssumption == MaxConversations \in Nat \ {0}

Convs == 1..MaxConversations

VARIABLES
  conversations,   \* [Convs -> None or [type, pair]]
  lastConv,        \* conversation identifiers generated so far
  direct,          \* [pairs of users -> conversation or None]
  meta,            \* group_metadata: [Convs -> None, "Active" or "Closed"]
  part,            \* members: [Convs -> [Users -> None or [role, status]]]
  rows,            \* conversations_by_user, a row per user, conversation, time
  events           \* the outbox events kept in memory

convVars == <<conversations, lastConv, direct, meta, part, rows, events>>

(* DirectPair: the same for both directions. *)
DirectPair(u, v) == {u, v}

Pairs == {DirectPair(x[1], x[2]) : x \in Users \X Users}

Roles == {"Admin", "Member"}
MemberStatuses == {"Active", "Left", "Removed"}
Members == [role : Roles, status : MemberStatuses]
Member(role, status) == [role |-> role, status |-> status]
ConversationRows == [type : {"Direct", "Group"}, pair : SUBSET Users]

-----------------------------------------------------------------------------
(* The repositories' reads. *)
Type(k) == IF conversations[k] = None THEN "none" ELSE conversations[k].type
IsActive(k, u) == part[k][u] # None /\ part[k][u].status = "Active"
IsAdmin(k, u) == IsActive(k, u) /\ part[k][u].role = "Admin"
ListActive(k) == {u \in Users : IsActive(k, u)}
IsClosed(k) == meta[k] = "Closed"

(* list_user_conversations: rows are keyed by their time too, so an        *)
(* older row of the same conversation stays beside the new one.            *)
UserRows(u) == {w \in rows : w.user = u}

(* ConversationAuthorizationService.  Each names the error or OK. *)
CanView(u, k) ==
  FirstError(<< Reject(Type(k) = "none", "CONVERSATION_NOT_FOUND"),
                Reject(~IsActive(k, u), "NOT_A_PARTICIPANT") >>)

CanSend(u, k) ==
  FirstError(<< Reject(Type(k) = "none", "CONVERSATION_NOT_FOUND"),
                Reject(Type(k) = "Group" /\ IsClosed(k), "CONVERSATION_NOT_FOUND"),
                Reject(~IsActive(k, u), "NOT_A_PARTICIPANT") >>)

CanAdd(u, k) ==
  FirstError(<< Reject(Type(k) = "none", "CONVERSATION_NOT_FOUND"),
                Reject(Type(k) = "Direct", "direct"),
                Reject(IsClosed(k), "closed"),
                Reject(~IsActive(k, u), "NOT_A_PARTICIPANT"),
                Reject(~IsAdmin(k, u), "admin") >>)

(* A mutant of CanLeave: the last admin may leave the others behind. *)
AnyoneCanLeave(u, k) ==
  FirstError(<< Reject(Type(k) = "none", "CONVERSATION_NOT_FOUND"),
                Reject(Type(k) = "Direct", "direct"),
                Reject(~IsActive(k, u), "NOT_A_PARTICIPANT") >>)

CanLeave(u, k) ==
  LET others == ListActive(k) \ {u}
  IN FirstError(<< Reject(Type(k) = "none", "CONVERSATION_NOT_FOUND"),
                   Reject(Type(k) = "Direct", "direct"),
                   Reject(~IsActive(k, u), "NOT_A_PARTICIPANT"),
                   Reject(IsAdmin(k, u) /\ others # {} /\ \A o \in others : ~IsAdmin(k, o),
                          "admin") >>)

CanRemove(u, k, target) ==
  FirstError(<< Reject(Type(k) = "none", "CONVERSATION_NOT_FOUND"),
                Reject(Type(k) = "Direct", "direct"),
                Reject(IsClosed(k), "closed"),
                IF u = target THEN CanLeave(u, k)
                ELSE Reject(~IsActive(k, u), "NOT_A_PARTICIPANT"),
                Reject(u # target /\ ~IsAdmin(k, u), "admin"),
                Reject(u # target /\ ~IsActive(k, target), "NOT_A_PARTICIPANT") >>)

CanUpdate(u, k) ==
  FirstError(<< Reject(Type(k) = "none", "CONVERSATION_NOT_FOUND"),
                Reject(Type(k) = "Direct", "direct"),
                Reject(IsClosed(k), "closed"),
                Reject(~IsActive(k, u), "NOT_A_PARTICIPANT"),
                Reject(~IsAdmin(k, u), "admin") >>)

(* A mutant of SharesMutual: it is enough that the caller's index names a  *)
(* conversation.                                                           *)
HasConversation(u, target) ==
  u = target \/ \E w \in UserRows(u) : w.status = "Active"

(* shares_mutual_conversation: the caller's membership is taken from the   *)
(* index, the target's from the members.                                   *)
SharesMutual(u, target) ==
  \/ u = target
  \/ \E w \in UserRows(u) : w.status = "Active" /\ IsActive(w.conv, target)

-----------------------------------------------------------------------------
(* The writes of an operation, kept in todo until they are made. *)
SaveConv(k, conv) == [kind |-> "conversation", conv |-> k, value |-> conv]
SavePair(k, pair) == [kind |-> "direct", conv |-> k, pair |-> pair]
SaveMeta(k, status) == [kind |-> "meta", conv |-> k, status |-> status]
SavePart(k, u, m) == [kind |-> "part", conv |-> k, user |-> u, member |-> m]
Touch(k, u, status) == [kind |-> "touch", conv |-> k, user |-> u, status |-> status]
Event(k, what) == [kind |-> "event", conv |-> k, what |-> what]
ThenDetails(k) == [kind |-> "details", conv |-> k]
ThenClose(k) == [kind |-> "close", conv |-> k]
ThenReply(k) == [kind |-> "reply", conv |-> k]

Working(k, writes) ==
  [Unused EXCEPT !.pc = "write", !.conv = k, !.at = clock, !.todo = writes]

(* create_direct_conversation once the pair was not found, from the        *)
(* conversation to the event.                                              *)
CreateDirectWrites(k, u, v) ==
  << SaveConv(k, [type |-> "Direct", pair |-> DirectPair(u, v)]),
     SavePair(k, DirectPair(u, v)),
     SavePart(k, u, Member("Member", "Active")),
     SavePart(k, v, Member("Member", "Active")),
     Touch(k, u, "Active"), Touch(k, v, "Active"),
     Event(k, "Created"), ThenDetails(k) >>

(* create_group_conversation: the caller is the admin, the others are      *)
(* added once each.                                                        *)
CreateGroupWrites(k, u, people) ==
  LET others == SetToSeq(people \ {u})
      joined == [i \in 1..(2 * Len(others)) |->
                   LET v == others[(i + 1) \div 2]
                   IN IF i % 2 = 1 THEN SavePart(k, v, Member("Member", "Active"))
                                   ELSE Touch(k, v, "Active")]
  IN << SaveConv(k, [type |-> "Group", pair |-> {}]), SaveMeta(k, "Active"),
        SavePart(k, u, Member("Admin", "Active")), Touch(k, u, "Active") >>
     \o joined \o << Event(k, "Created"), ThenDetails(k) >>

-----------------------------------------------------------------------------
(* The handlers, up to and including the authorisation.                    *)

(* CreateConversation of a direct conversation: an existing one of the     *)
(* pair, if its row is there, is returned.                                 *)
CreateDirect(c, r) ==
  LET pair == DirectPair(r.user, r.target)
      known == direct[pair] # None /\ conversations[direct[pair]] # None
      error == FirstError(<< Reject(r.user = None, "UNSPECIFIED"),
                             Reject(r.target = None, "direct"),
                             Reject(r.user = r.target, "direct") >>)
      found == error = "OK" /\ known
  IN /\ Arrives(c, r, "CreateDirect")
     /\ found \/ error # "OK" \/ lastConv < MaxConversations
     /\ lastConv' = IF error = "OK" /\ ~found THEN lastConv + 1 ELSE lastConv
     /\ Begin(c, r, error,
              IF found THEN Working(direct[pair], << ThenDetails(direct[pair]) >>)
              ELSE Working(lastConv + 1,
                           CreateDirectWrites(lastConv + 1, r.user, r.target)))
     /\ UNCHANGED <<conversations, direct, meta, part, rows, events>>

(* CreateConversation of a group; identifiers that do not parse are left   *)
(* out of the participants.                                                *)
CreateGroup(c, r) ==
  LET error == FirstError(<< Reject(r.user = None, "UNSPECIFIED"),
                             Reject(~r.title, "UNSPECIFIED") >>)
  IN /\ Arrives(c, r, "CreateGroup")
     /\ lastConv < MaxConversations
     /\ lastConv' = IF error = "OK" THEN lastConv + 1 ELSE lastConv
     /\ Begin(c, r, error,
              Working(lastConv + 1, CreateGroupWrites(lastConv + 1, r.user, r.people)))
     /\ UNCHANGED <<conversations, direct, meta, part, rows, events>>

(* The checks of the handlers that work on one conversation; authorised    *)
(* is evaluated only for a conversation that parses.                       *)
ConversationError(r, authorised) ==
  FirstError(<< ValidateCallerInline(r),
                Reject(r.conv = None, "CONVERSATION_NOT_FOUND"),
                IF r.conv = None \/ r.user = None THEN "OK" ELSE authorised >>)

AddParticipant(c, r) ==
  LET can == IF r.target = None THEN "UNSPECIFIED" ELSE CanAdd(r.user, r.conv)
  IN /\ Arrives(c, r, "AddParticipant")
     /\ Begin(c, r, ConversationError(r, can),
              [Unused EXCEPT !.pc = "find", !.conv = r.conv, !.at = clock])
     /\ UNCHANGED convVars

RemoveParticipant(c, r) ==
  LET can == IF r.target = None THEN "UNSPECIFIED"
             ELSE CanRemove(r.user, r.conv, r.target)
  IN /\ Arrives(c, r, "RemoveParticipant")
     /\ Begin(c, r, ConversationError(r, can),
              [Unused EXCEPT !.pc = "find", !.conv = r.conv])
     /\ UNCHANGED convVars

LeaveConversation(c, r) ==
  LET can == CanLeave(r.user, r.conv)
  IN /\ Arrives(c, r, "LeaveConversation")
     /\ Begin(c, r, ConversationError(r, can),
              [Unused EXCEPT !.pc = "find", !.conv = r.conv])
     /\ UNCHANGED convVars

(* The title is checked before anything is read. *)
UpdateConversationMetadata(c, r) ==
  LET can == IF ~r.title THEN "UNSPECIFIED" ELSE CanUpdate(r.user, r.conv)
  IN /\ Arrives(c, r, "UpdateConversationMetadata")
     /\ Begin(c, r, ConversationError(r, can),
              [Unused EXCEPT !.pc = "find", !.conv = r.conv])
     /\ UNCHANGED convVars

(* GetConversation: can_view_conversation and the reads that follow it. *)
GetConversation(c, r) ==
  /\ Arrives(c, r, "GetConversation")
  /\ Begin(c, r, ConversationError(r, "OK"),
           Working(r.conv, << [kind |-> "view", conv |-> r.conv] >>))
  /\ UNCHANGED convVars

(* ListConversations: what the index has of the caller and calls Active. *)
ListConversations(c, r) ==
  LET listed == {w.conv : w \in {v \in UserRows(r.user) : v.status = "Active"}}
  IN /\ Arrives(c, r, "ListConversations")
     /\ Begin(c, r, ValidateCallerInline(r),
              Replied([Unused EXCEPT !.shown = listed], "OK"))
     /\ UNCHANGED convVars

-----------------------------------------------------------------------------
(* After the authorisation the row is read again; the writes follow from   *)
(* it.                                                                     *)
FindsTarget(c, rpc) == call[c].pc = "find" /\ call[c].req.rpc = rpc

AddParticipantRow(c) ==
  LET r == call[c].req
      k == r.conv
      old == part[k][r.target]
      row == IF old = None THEN Member("Member", "Active")
             ELSE [old EXCEPT !.status = "Active"]
  IN /\ FindsTarget(c, "AddParticipant")
     /\ Goes(c, [call[c] EXCEPT !.pc = "write",
          !.todo = IF IsActive(k, r.target) THEN << ThenDetails(k) >>
                   ELSE << SavePart(k, r.target, row), Touch(k, r.target, "Active"),
                           Event(k, "Joined"), ThenDetails(k) >>])
     /\ UNCHANGED <<load, clock, faults, phase, convVars>>

(* Only the existence of the row is checked again, not its status. *)
RemoveParticipantRow(c) ==
  LET r == call[c].req
      k == r.conv
      old == part[k][r.target]
  IN /\ FindsTarget(c, "RemoveParticipant")
     /\ Goes(c, IF old = None THEN Replied(call[c], "NOT_A_PARTICIPANT")
                ELSE [call[c] EXCEPT !.pc = "write", !.at = clock,
          !.todo = << SavePart(k, r.target, [old EXCEPT !.status = "Removed"]),
                      Touch(k, r.target, "Removed"), Event(k, "Removed"),
                      ThenDetails(k) >>])
     /\ UNCHANGED <<load, clock, faults, phase, convVars>>

LeaveConversationRow(c) ==
  LET r == call[c].req
      k == r.conv
      old == part[k][r.user]
  IN /\ FindsTarget(c, "LeaveConversation")
     /\ Goes(c, IF old = None THEN Replied(call[c], "NOT_A_PARTICIPANT")
                ELSE [call[c] EXCEPT !.pc = "write", !.at = clock,
          !.todo = << SavePart(k, r.user, [old EXCEPT !.status = "Left"]),
                      Touch(k, r.user, "Left"), Event(k, "Left"), ThenClose(k) >>])
     /\ UNCHANGED <<load, clock, faults, phase, convVars>>

(* update_group_metadata writes the whole row it read, status included. *)
UpdateMetadataRow(c) ==
  LET k == call[c].req.conv
  IN /\ FindsTarget(c, "UpdateConversationMetadata")
     /\ Goes(c, IF meta[k] = None THEN Replied(call[c], "CONVERSATION_NOT_FOUND")
                ELSE [call[c] EXCEPT !.pc = "write", !.at = clock,
          !.todo = << SaveMeta(k, meta[k]), Event(k, "Updated"), ThenDetails(k) >>])
     /\ UNCHANGED <<load, clock, faults, phase, convVars>>

-----------------------------------------------------------------------------
(* The writes.  After a failure the exception ends the call. *)
NextWrite(c, kind) == call[c].pc = "write" /\ Head(call[c].todo).kind = kind

Wrote(c, o) ==
  /\ Outcome(o)
  /\ Goes(c, IF o = "ok" THEN [call[c] EXCEPT !.todo = Tail(@)]
             ELSE Replied(call[c], "UNKNOWN"))
  /\ UNCHANGED <<load, clock, phase, lastConv>>

SaveConversation(c) == \E o \in Outcomes :
  LET w == Head(call[c].todo)
  IN /\ NextWrite(c, "conversation") /\ Wrote(c, o)
     /\ conversations' = IF Applied(o) THEN [conversations EXCEPT ![w.conv] = w.value]
                         ELSE conversations
     /\ UNCHANGED <<direct, meta, part, rows, events>>

(* An insert without a condition: the last one wins. *)
SaveDirectConversation(c) == \E o \in Outcomes :
  LET w == Head(call[c].todo)
  IN /\ NextWrite(c, "direct") /\ Wrote(c, o)
     /\ direct' = IF Applied(o) THEN [direct EXCEPT ![w.pair] = w.conv] ELSE direct
     /\ UNCHANGED <<conversations, meta, part, rows, events>>

SaveGroupMetadata(c) == \E o \in Outcomes :
  LET w == Head(call[c].todo)
  IN /\ NextWrite(c, "meta") /\ Wrote(c, o)
     /\ meta' = IF Applied(o) THEN [meta EXCEPT ![w.conv] = w.status] ELSE meta
     /\ UNCHANGED <<conversations, direct, part, rows, events>>

SaveParticipant(c) == \E o \in Outcomes :
  LET w == Head(call[c].todo)
  IN /\ NextWrite(c, "part") /\ Wrote(c, o)
     /\ part' = IF Applied(o) THEN [part EXCEPT ![w.conv][w.user] = w.member] ELSE part
     /\ UNCHANGED <<conversations, direct, meta, rows, events>>

(* touch_user_conversation: a row with the same key is replaced. *)
TouchUserConversation(c) == \E o \in Outcomes :
  LET w == Head(call[c].todo)
      row == [user |-> w.user, at |-> call[c].at, conv |-> w.conv, status |-> w.status]
      same == {v \in rows : v.user = row.user /\ v.at = row.at /\ v.conv = row.conv}
  IN /\ NextWrite(c, "touch") /\ Wrote(c, o)
     /\ rows' = IF Applied(o) THEN (rows \ same) \cup {row} ELSE rows
     /\ UNCHANGED <<conversations, direct, meta, part, events>>

RecordOutboxEvent(c) ==
  LET w == Head(call[c].todo)
  IN /\ NextWrite(c, "event")
     /\ Goes(c, [call[c] EXCEPT !.todo = Tail(@)])
     /\ events' = events \cup {<<w.conv, w.what>>}
     /\ UNCHANGED <<load, clock, faults, phase, conversations, lastConv, direct,
                    meta, part, rows>>

(* leave_conversation, the end: a group nobody is left in is closed. *)
CloseIfEmpty(c) ==
  LET k == Head(call[c].todo).conv
  IN /\ NextWrite(c, "close")
     /\ Goes(c, [call[c] EXCEPT !.todo = IF ListActive(k) = {} /\ meta[k] # None
                 THEN << SaveMeta(k, "Closed"), Event(k, "Closed"), ThenReply(k) >>
                 ELSE << ThenReply(k) >>])
     /\ UNCHANGED <<load, clock, faults, phase, convVars>>

(* get_conversation at the end of a handler: whatever it says, the call    *)
(* has succeeded; GetConversation itself returns its error.                *)
Details(c) ==
  LET w == Head(call[c].todo)
      view == CanView(call[c].req.user, w.conv)
      next == [call[c] EXCEPT !.shown = IF view = "OK" THEN ListActive(w.conv) ELSE {}]
  IN /\ call[c].pc = "write" /\ w.kind \in {"details", "view", "reply"}
     /\ Goes(c, IF w.kind = "reply" THEN Replied(call[c], "OK")
                ELSE Replied(next, IF w.kind = "view" THEN view ELSE "OK"))
     /\ UNCHANGED <<load, clock, faults, phase, convVars>>

ConversationRequest(c, r) ==
  \/ CreateDirect(c, r) \/ CreateGroup(c, r)
  \/ AddParticipant(c, r) \/ RemoveParticipant(c, r) \/ LeaveConversation(c, r)
  \/ UpdateConversationMetadata(c, r)
  \/ GetConversation(c, r) \/ ListConversations(c, r)

ConversationStep(c) ==
  \/ AddParticipantRow(c) \/ RemoveParticipantRow(c) \/ LeaveConversationRow(c)
  \/ UpdateMetadataRow(c)
  \/ SaveConversation(c) \/ SaveDirectConversation(c) \/ SaveGroupMetadata(c)
  \/ SaveParticipant(c) \/ TouchUserConversation(c) \/ RecordOutboxEvent(c)
  \/ CloseIfEmpty(c) \/ Details(c)
=============================================================================
