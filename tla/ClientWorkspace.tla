--------------------------- MODULE ClientWorkspace ---------------------------
(***************************************************************************)
(* The workspace of the desktop client: the conversations, messages,       *)
(* transfers and devices its view model shows, and the local store behind  *)
(* the managers that keeps contacts, conversations and messages a second   *)
(* time.  A key change or a block is entered in both; what the operator    *)
(* sends is checked against both (ADR-008).  Previews, timestamps and      *)
(* other wording are left out.                                             *)
(***************************************************************************)
EXTENDS ClientSession, SequencesExt

CONSTANTS
    Peers,          \* users that may be in the address book
    Self,           \* the operator's own user id
    SeedPeers,      \* the peers of the first direct conversations, in order
    SeedStatus,     \* their verification status
    SeedGroup,      \* the members of the first group besides the operator
    Slug,           \* what addContact() makes of a user id for a conversation id
    GroupSlug,      \* the name in the id of the first group
    NewGroups,      \* the choices of members for a new group
    Focuses         \* the kinds of operations a behaviour may mix

ASSUME WorkspaceAssumption ==
    /\ Self \notin Peers
    /\ SeedPeers \in Seq(Peers)
    /\ SeedGroup \subseteq Peers
    /\ Peers \subseteq DOMAIN Slug

VARIABLES
    store,      \* MemoryLocalStore: contacts, conversations, messages
    entries,    \* conversations_ of the view model, in order
    messages,   \* messages_ of the view model, in order
    files,      \* file_transfers_, newest first
    devices,    \* devices_
    chosen,     \* selected conversation and transfer, search query
    next,       \* next_msg_seq_, next_file_seq_, next_device_seq_
    gone,       \* what was there when the wipe was triggered
    reused,     \* conversation ids addContact() gave to a second peer
    focus       \* the kinds of operations of this behaviour

workVars == <<store, entries, messages, files, devices, chosen, next, gone, reused>>
vars == <<sessionVars, workVars, focus>>

None == <<"none">>
Statuses == {"Verified", "Unverified", "KeyChanged"}

-----------------------------------------------------------------------------
(* The first contents of the workspace.                                    *)

SeedEntries ==
    [i \in DOMAIN SeedPeers |->
        [id |-> <<"conv", SeedPeers[i]>>, peer |-> SeedPeers[i],
         group |-> FALSE, status |-> SeedStatus[SeedPeers[i]],
         blocked |-> FALSE, unread |-> i - 1,
         members |-> {Self, SeedPeers[i]}]]
    \o <<[id |-> <<"conv", GroupSlug>>, peer |-> <<"group", 0>>,
          group |-> TRUE, status |-> "Verified", blocked |-> FALSE,
          unread |-> 1, members |-> {Self} \union SeedGroup]>>

\* One message of every first conversation; the last one is an emergency.
SeedMessages ==
    [i \in DOMAIN SeedEntries |->
        [id |-> <<"msg", i>>, conv |-> SeedEntries[i].id,
         state |-> IF i = 1 THEN "Read" ELSE "Delivered",
         urgent |-> i = Len(SeedEntries), ack |-> FALSE]]

SeedStore ==
    [contacts |->
        [u \in ToSet(SeedPeers) \union {Self} |->
            [status |-> IF u = Self THEN "Verified" ELSE SeedStatus[u],
             blocked |-> FALSE]],
     convs |->
        [c \in {SeedEntries[i].id : i \in DOMAIN SeedEntries} |->
            LET e == CHOOSE e \in ToSet(SeedEntries) : e.id = c
            IN  [group |-> e.group, members |-> e.members,
                 unread |-> e.unread]],
     msgs |-> SeedMessages]

SeedFiles == <<[id |-> <<"tx", 1>>, conv |-> SeedEntries[1].id,
                status |-> "Verified"]>>

SeedDevices ==
    <<[id |-> <<"dev", 1>>, status |-> "Authorized", current |-> TRUE,
       verified |-> FALSE],
      [id |-> <<"dev", 2>>, status |-> "Pending", current |-> FALSE,
       verified |-> FALSE]>>

WorkInit ==
    /\ store = [contacts |-> <<>>, convs |-> <<>>, msgs |-> <<>>]
    /\ entries = <<>> /\ messages = <<>> /\ files = <<>> /\ devices = <<>>
    /\ chosen = [conv |-> None, transfer |-> None, query |-> NoUser,
                 failing |-> FALSE]
    /\ next = [msg |-> 0, file |-> 0, device |-> 0]
    /\ gone = {} /\ reused = {}

\* main() builds the view models once the application runs.
OpenWindow ==
    /\ app.lifecycle = "Running" /\ ~app.window
    /\ app' = [app EXCEPT !.window = TRUE]
    /\ entries' = SeedEntries
    /\ messages' = SeedMessages
    /\ files' = SeedFiles
    /\ devices' = SeedDevices
    /\ store' = SeedStore
    /\ chosen' = [chosen EXCEPT !.conv = SeedEntries[1].id,
                                !.transfer = <<"tx", 1>>]
    /\ next' = [msg |-> Len(SeedMessages), file |-> 1, device |-> 3]
    /\ UNCHANGED <<nav, account, secrets, storeOpen, ops, gone, reused>>

-----------------------------------------------------------------------------
(* What the view model shows.                                              *)

MatchesQuery(peer) == chosen.query = NoUser \/ chosen.query = peer

\* findConversation(): an unknown id means the first conversation.
Find(es, id) ==
    LET i == SelectInSeq(es, LAMBDA e : e.id = id)
    IN  IF i # 0 THEN i ELSE IF es = <<>> THEN 0 ELSE 1

Current == Find(entries, chosen.conv)

ShownConversations ==
    {e.id : e \in {f \in ToSet(entries) : MatchesQuery(f.peer)}}
ShownContacts ==
    {e.id : e \in {f \in ToSet(entries) : ~f.group /\ MatchesQuery(f.peer)}}
ShownTransfers == {t.id : t \in ToSet(files)}
SharedFiles == {t.id : t \in {x \in ToSet(files) : x.conv = chosen.conv}}
TransferDetails ==
    {t.id : t \in {x \in ToSet(files) : x.id = chosen.transfer}}
ActiveMessages ==
    {m.id : m \in {x \in ToSet(messages) : x.conv = chosen.conv}}
ShownDevices == {d.id : d \in ToSet(devices)}
LocalIdentity == {d.id : d \in {x \in ToSet(devices) : x.current}}

Shown == UNION {ShownConversations, ShownContacts, ShownTransfers, SharedFiles,
                TransferDetails, ActiveMessages, ShownDevices, LocalIdentity}

\* Everything the view model holds, shown at the moment or not.
Held == UNION {{e.id : e \in ToSet(entries)}, {m.id : m \in ToSet(messages)},
               {t.id : t \in ToSet(files)}, {d.id : d \in ToSet(devices)}}

-----------------------------------------------------------------------------
(* The managers over the local store.                                      *)

Known(u) == storeOpen /\ u \in DOMAIN store.contacts
Stored(c) == storeOpen /\ c \in DOMAIN store.convs
Barred(contact) == contact.status = "KeyChanged" \/ contact.blocked

\* set_blocked(): a contact the store does not have is skipped.
ContactBlocked(s, u, blocked) ==
    IF Known(u) THEN [s EXCEPT !.contacts[u].blocked = blocked] ELSE s

\* mark_contact_key_changed() and verify_contact_key().
ContactStatus(s, u, status) ==
    IF Known(u) THEN [s EXCEPT !.contacts[u].status = status] ELSE s

\* create_contact(): a fresh contact, whatever was known of the user.
CreateContact(s, u) ==
    [s EXCEPT !.contacts =
        [v \in DOMAIN @ \union {u} |->
            IF v = u THEN [status |-> "Unverified", blocked |-> FALSE]
            ELSE @[v]]]

SaveConversation(s, c, group, members) ==
    [s EXCEPT !.convs =
        [d \in DOMAIN @ \union {c} |->
            IF d = c THEN [group |-> group, members |-> members, unread |-> 0]
            ELSE @[d]]]

DeleteContact(s, u) ==
    [s EXCEPT !.contacts = [v \in DOMAIN @ \ {u} |-> @[v]]]

MarkRead(s, c) ==
    IF Stored(c) THEN [s EXCEPT !.convs[c].unread = 0] ELSE s

AddMember(s, c, u) ==
    IF Stored(c) /\ s.convs[c].group
      THEN [s EXCEPT !.convs[c].members = @ \union {u}] ELSE s

\* remove_group_participant(), and leave_conversation() for the operator.
RemoveMember(s, c, u) ==
    IF Stored(c) /\ s.convs[c].group
      THEN [s EXCEPT !.convs[c].members = @ \ {u}] ELSE s

\* Mutation: the store looks for changed keys and forgets the blocked peers.
StageKeysOnly(c, sender) ==
    /\ Stored(c)
    /\ \A u \in store.convs[c].members \ {sender} :
          ~(u \in DOMAIN store.contacts
              /\ store.contacts[u].status = "KeyChanged")

\* stage_outbound_message(): the conversation must be stored and no
\* participant but the sender may be barred.
StageAllowed(c, sender) ==
    /\ Stored(c)
    /\ \A u \in store.convs[c].members \ {sender} :
          ~(u \in DOMAIN store.contacts /\ Barred(store.contacts[u]))

Staged(c, urgent) ==
    [store EXCEPT !.msgs = Append(@,
        [id |-> <<"staged", next.msg + 1>>, conv |-> c,
         state |-> "Accepted", urgent |-> urgent, ack |-> FALSE])]

\* update_message() after get_message(): conversation and id must be there.
UpdateMessage(s, m, new) ==
    [s EXCEPT !.msgs =
        [i \in DOMAIN s.msgs |->
            IF storeOpen /\ s.msgs[i].id = m.id /\ s.msgs[i].conv = m.conv
              THEN new[i] ELSE s.msgs[i]]]

\* retry_failed_message() and acknowledge_emergency_message(), which look the
\* message up under the id the workspace shows.
RetryStored(s, m) ==
    UpdateMessage(s, m, [i \in DOMAIN s.msgs |->
        IF s.msgs[i].state = "Failed" THEN [s.msgs[i] EXCEPT !.state = "Accepted"]
        ELSE s.msgs[i]])
AcknowledgeStored(s, m) ==
    UpdateMessage(s, m, [i \in DOMAIN s.msgs |-> [s.msgs[i] EXCEPT !.ack = TRUE]])

-----------------------------------------------------------------------------
(* Selecting.                                                              *)

\* A handler of the workspace leaves the session alone.
WorkspaceActs ==
    /\ UserActs
    /\ UNCHANGED <<app, nav, account, secrets, storeOpen, gone, reused>>

\* selectConversation() on the entries es and the store s.
Select(es, s, id) ==
    LET i == Find(es, id)
    IN  IF i = 0 THEN UNCHANGED chosen /\ entries' = es /\ store' = s
        ELSE /\ chosen' = [chosen EXCEPT !.conv = es[i].id]
             /\ entries' = [es EXCEPT ![i].unread = 0]
             /\ store' = IF es[i].unread > 0 THEN MarkRead(s, es[i].id) ELSE s

SelectConversation(id) ==
    /\ WorkspaceActs
    /\ Select(entries, store, id)
    /\ UNCHANGED <<messages, files, devices, next>>

SelectContact(u) ==
    /\ WorkspaceActs
    /\ LET i == SelectInSeq(entries, LAMBDA e : ~e.group /\ e.peer = u)
       IN  i # 0 /\ Select(entries, store, entries[i].id)
    /\ UNCHANGED <<messages, files, devices, next>>

SelectTransfer(t) ==
    /\ WorkspaceActs
    /\ t \in ShownTransfers
    /\ chosen' = [chosen EXCEPT !.transfer = t]
    /\ UNCHANGED <<store, entries, messages, files, devices, next>>

SetSearchQuery(q) ==
    /\ WorkspaceActs
    /\ chosen' = [chosen EXCEPT !.query = q]
    /\ UNCHANGED <<store, entries, messages, files, devices, next>>

SetDeliveryFailureSimulated(on) ==
    /\ WorkspaceActs
    /\ chosen' = [chosen EXCEPT !.failing = on]
    /\ UNCHANGED <<store, entries, messages, files, devices, next>>

-----------------------------------------------------------------------------
(* Sending.                                                                *)

\* selectedPeerKeyChanged(): a group looks at the address book, a direct
\* conversation at its own entry.
PeerKeyChanged(e) ==
    IF e.group
      THEN \E u \in e.members :
              Known(u) /\ store.contacts[u].status = "KeyChanged"
      ELSE e.status = "KeyChanged"

Message(n, c, state, urgent) ==
    [id |-> <<"msg", n>>, conv |-> c, state |-> state, urgent |-> urgent,
     ack |-> FALSE]

Sender == IF account.user = NoUser THEN Self ELSE account.user

\* sendMessage(): refused for a suspended or blocked peer; a simulated
\* failure leaves a failed message behind; otherwise it is staged in the
\* store, and the numbers are used up even when the store refuses.
SendMessage(urgent) ==
    /\ WorkspaceActs
    /\ entries # <<>>
    /\ LET e == entries[Current]
       IN  /\ ~PeerKeyChanged(e) /\ ~e.blocked
           /\ next' = [next EXCEPT !.msg = @ + 1]
           /\ \/ /\ chosen.failing
                 /\ messages' = Append(messages,
                        Message(next.msg + 1, e.id, "Failed", urgent))
                 /\ UNCHANGED store
              \/ /\ ~chosen.failing
                 /\ StageAllowed(e.id, Sender)
                 /\ store' = Staged(e.id, urgent)
                 /\ messages' = Append(messages,
                        Message(next.msg + 1, e.id, "Delivered", urgent))
              \/ /\ ~chosen.failing
                 /\ ~StageAllowed(e.id, Sender)
                 /\ UNCHANGED <<store, messages>>
    /\ UNCHANGED <<entries, files, devices, chosen>>

StageFile(urgent) ==
    /\ WorkspaceActs
    /\ entries # <<>>
    /\ LET c == entries[Current].id
       IN  /\ files' = <<[id |-> <<"tx", next.file + 1>>, conv |-> c,
                          status |-> "Verified"]>> \o files
           /\ messages' = Append(messages,
                  Message(next.msg + 1, c, "Verified", urgent))
    /\ chosen' = [chosen EXCEPT !.transfer = <<"tx", next.file + 1>>]
    /\ next' = [next EXCEPT !.file = @ + 1, !.msg = @ + 1]
    /\ UNCHANGED <<store, entries, devices>>

CancelTransfer(t) ==
    /\ WorkspaceActs
    /\ t \in ShownTransfers
    /\ LET i == SelectInSeq(files, LAMBDA f : f.id = t)
       IN  files' = [files EXCEPT ![i].status = "Cancelled"]
    /\ UNCHANGED <<store, entries, messages, devices, chosen, next>>

\* retryFailedMessage(): shown as delivered whatever the store says; the
\* store knows only the messages it was given under this id.
RetryMessage(m) ==
    /\ WorkspaceActs
    /\ messages[m].state = "Failed"
    /\ messages' = [messages EXCEPT ![m].state = "Delivered"]
    /\ store' = RetryStored(store, messages[m])
    /\ UNCHANGED <<entries, files, devices, chosen, next>>

DiscardMessage(m) ==
    /\ WorkspaceActs
    /\ messages' = RemoveAt(messages, m)
    /\ UNCHANGED <<store, entries, files, devices, chosen, next>>

AcknowledgeEmergency(m) ==
    /\ WorkspaceActs
    /\ messages[m].urgent
    /\ messages' = [messages EXCEPT ![m].ack = TRUE]
    /\ store' = AcknowledgeStored(store, messages[m])
    /\ UNCHANGED <<entries, files, devices, chosen, next>>

-----------------------------------------------------------------------------
(* Contacts and their keys.  A handler changes the first entry of the peer  *)
(* it names, or the selected one when it names nobody.                      *)

EntryFor(u) ==
    SelectInSeq(entries, LAMBDA e :
        e.peer = u \/ (u = NoUser /\ e.id = chosen.conv))

\* The entry at i and the contact of its peer get the same status.
SetStatus(i, status) ==
    /\ entries' = [entries EXCEPT ![i].status = status]
    /\ store' = ContactStatus(store, entries[i].peer, status)
    /\ UNCHANGED <<messages, files, devices, chosen, next>>

TogglePeerVerified(u) ==
    /\ WorkspaceActs
    /\ EntryFor(u) # 0
    /\ SetStatus(EntryFor(u), IF entries[EntryFor(u)].status = "Verified"
                                THEN "Unverified" ELSE "Verified")

SimulatePeerKeyChange(u) ==
    /\ WorkspaceActs
    /\ EntryFor(u) # 0
    /\ SetStatus(EntryFor(u), "KeyChanged")

AcceptAndVerifyPeerKey(u) ==
    /\ WorkspaceActs
    /\ EntryFor(u) # 0
    /\ SetStatus(EntryFor(u), "Verified")

TogglePeerBlocked(u) ==
    /\ WorkspaceActs
    /\ EntryFor(u) # 0
    /\ LET i == EntryFor(u)
       IN  /\ entries' = [entries EXCEPT ![i].blocked = ~@]
           /\ store' = ContactBlocked(store, entries[i].peer,
                                      ~entries[i].blocked)
    /\ UNCHANGED <<messages, files, devices, chosen, next>>

DirectEntry(id, u, status, unread) ==
    [id |-> id, peer |-> u, group |-> FALSE, status |-> status,
     blocked |-> FALSE, unread |-> unread, members |-> {Self, u}]

\* addContact() makes the id of the conversation from the user id: lower-cased
\* and without '@' and '.', so different users may get the same id.
ConvId(u) == <<"conv", Slug[u]>>

\* addContact(): nothing looks whether the peer or the id is known already; the
\* contact starts afresh, an entry is added at the end, and what the store
\* had under the id is overwritten.
AddContact(u) ==
    /\ UserActs
    /\ storeOpen
    /\ entries' = Append(entries, DirectEntry(ConvId(u), u, "Unverified", 0))
    /\ store' = SaveConversation(CreateContact(store, u), ConvId(u),
                                FALSE, {Self, u})
    /\ reused' = reused \union
          {e.id : e \in {f \in ToSet(entries) : f.id = ConvId(u) /\ f.peer # u}}
    /\ UNCHANGED <<app, nav, account, secrets, storeOpen, gone, messages, files,
                   devices, chosen, next>>

\* removeContact(): the contact and its direct conversations go.  The
\* selection is looked up after they have gone.
RemoveContact(u) ==
    /\ WorkspaceActs
    /\ Known(u)
    /\ store' = DeleteContact(store, u)
    /\ LET left == SelectSeq(entries, LAMBDA e : e.group \/ e.peer # u)
           now == Find(left, chosen.conv)
       IN  /\ entries' = left
           /\ chosen' = IF now # 0 /\ left[now].peer = u
                          THEN [chosen EXCEPT !.conv = left[1].id]
                          ELSE chosen
    /\ UNCHANGED <<messages, files, devices, next>>

-----------------------------------------------------------------------------
(* New conversations and the members of a group.                           *)

\* createDirectConversation(): an existing one is selected; a new one is
\* shown as verified and not stored.
CreateDirect(u) ==
    /\ WorkspaceActs
    /\ LET i == SelectInSeq(entries, LAMBDA e : ~e.group /\ e.peer = u)
           id == <<"direct", next.msg + 1>>
       IN  IF i # 0
             THEN Select(entries, store, entries[i].id) /\ UNCHANGED next
             ELSE /\ Select(Append(entries, DirectEntry(id, u, "Verified", 0)),
                            store, id)
                  /\ next' = [next EXCEPT !.msg = @ + 1]
    /\ UNCHANGED <<messages, files, devices>>

\* createGroupConversation(): the store files the group under an id of its
\* own, the entry gets another one.
CreateGroup(members) ==
    /\ WorkspaceActs
    /\ storeOpen
    /\ LET id == <<"group", next.msg + 1>>
       IN  Select(<<[id |-> id, peer |-> id, group |-> TRUE,
                     status |-> "Verified", blocked |-> FALSE, unread |-> 0,
                     members |-> {Self} \union members]>>
                    \o entries,
                  SaveConversation(store, <<"filed", next.msg + 1>>, TRUE,
                                   {Self} \union members),
                  id)
    /\ next' = [next EXCEPT !.msg = @ + 1]
    /\ UNCHANGED <<messages, files, devices>>

\* addParticipantToActiveGroup() and removeParticipantFromActiveGroup(): the
\* entry follows the user whatever the store answers, and a line is added to
\* the conversation.
SetMembers(e, members) ==
    /\ entries' = [entries EXCEPT ![Current].members = members]
    /\ messages' = Append(messages,
                          Message(next.msg + 1, e.id, "Verified", FALSE))
    /\ next' = [next EXCEPT !.msg = @ + 1]

AddParticipant(u) ==
    /\ WorkspaceActs
    /\ entries # <<>>
    /\ LET e == entries[Current]
       IN  /\ e.group /\ u \notin e.members
           /\ SetMembers(e, e.members \union {u})
           /\ store' = AddMember(store, e.id, u)
    /\ UNCHANGED <<files, devices, chosen>>

RemoveParticipant(u) ==
    /\ WorkspaceActs
    /\ entries # <<>>
    /\ LET e == entries[Current]
       IN  /\ e.group /\ u \in e.members
           /\ SetMembers(e, e.members \ {u})
           /\ store' = RemoveMember(store, e.id, u)
    /\ UNCHANGED <<files, devices, chosen>>

LeaveActiveGroup ==
    /\ WorkspaceActs
    /\ entries # <<>>
    /\ LET e == entries[Current]
           left == SelectSeq(entries, LAMBDA f : f.id # e.id)
           kept == RemoveMember(store, e.id, Self)
       IN  /\ e.group
           /\ IF left = <<>>
                THEN entries' = left /\ store' = kept /\ UNCHANGED chosen
                ELSE Select(left, kept, left[1].id)
    /\ UNCHANGED <<messages, files, devices, next>>

-----------------------------------------------------------------------------
(* The operator's devices, and the wipe.                                   *)

DeviceAt(d) == SelectInSeq(devices, LAMBDA x : x.id = d)

ApproveDevice(d) ==
    /\ WorkspaceActs
    /\ DeviceAt(d) # 0
    /\ devices' = [devices EXCEPT ![DeviceAt(d)].status = "Authorized",
                                  ![DeviceAt(d)].verified = TRUE]
    /\ UNCHANGED <<store, entries, messages, files, chosen, next>>

RevokeDevice(d) ==
    /\ WorkspaceActs
    /\ DeviceAt(d) # 0
    /\ ~devices[DeviceAt(d)].current
    /\ devices' = [devices EXCEPT ![DeviceAt(d)].status = "Revoked",
                                  ![DeviceAt(d)].verified = FALSE]
    /\ UNCHANGED <<store, entries, messages, files, chosen, next>>

PairNewDevice ==
    /\ WorkspaceActs
    /\ devices' = Append(devices, [id |-> <<"dev", next.device>>, status |-> "Pending",
                                   current |-> FALSE, verified |-> FALSE])
    /\ next' = [next EXCEPT !.device = @ + 1]
    /\ UNCHANGED <<store, entries, messages, files, chosen>>

\* The wipe of the session, and resetForEmergencyWipe() on its signal.
TriggerEmergencyWipe ==
    /\ WipeSession
    /\ gone' = gone \union Held
    /\ entries' = <<>> /\ messages' = <<>> /\ files' = <<>> /\ devices' = <<>>
    /\ chosen' = [chosen EXCEPT !.conv = None, !.transfer = None,
                                !.query = NoUser]
    /\ UNCHANGED <<store, next, reused>>

\* rotateSignedPrekey(): the current device counts as verified again.
RotateSignedPrekey ==
    /\ WorkspaceActs
    /\ devices' = [i \in DOMAIN devices |->
                      [devices[i] EXCEPT !.verified = @ \/ devices[i].current]]
    /\ UNCHANGED <<store, entries, messages, files, chosen, next>>

-----------------------------------------------------------------------------
\* What the operator does in a behaviour is drawn from one of the Focuses.
Init == /\ SessionInit
        /\ WorkInit
        /\ focus \in Focuses

DoContacts ==
    \/ \E u \in Peers : AddContact(u) \/ RemoveContact(u)
    \/ \E u \in Peers \union {NoUser} :
          \/ TogglePeerVerified(u) \/ TogglePeerBlocked(u)
          \/ SimulatePeerKeyChange(u) \/ AcceptAndVerifyPeerKey(u)

DoGroups ==
    \/ \E u \in Peers : AddParticipant(u) \/ RemoveParticipant(u)
    \/ \E members \in NewGroups : CreateGroup(members)
    \/ LeaveActiveGroup

DoSending ==
    \/ \E c \in {entries[i].id : i \in DOMAIN entries} \union {None} :
          SelectConversation(c)
    \/ \E u \in Peers : CreateDirect(u)
    \/ \E urgent \in BOOLEAN : SendMessage(urgent)

DoMessages ==
    \/ \E on \in BOOLEAN : SetDeliveryFailureSimulated(on)
    \/ \E m \in DOMAIN messages : \/ RetryMessage(m) \/ DiscardMessage(m)
                                  \/ AcknowledgeEmergency(m)

DoFiles ==
    \/ \E urgent \in BOOLEAN : StageFile(urgent)
    \/ \E t \in ShownTransfers : SelectTransfer(t) \/ CancelTransfer(t)
    \/ \E u \in Peers \union {NoUser} : SetSearchQuery(u)
    \/ \E u \in Peers : SelectContact(u)

DoDevices ==
    \/ \E d \in ShownDevices : ApproveDevice(d) \/ RevokeDevice(d)
    \/ PairNewDevice
    \/ RotateSignedPrekey

Next ==
    /\ UNCHANGED focus
    /\ \/ OpenWindow
       \/ "contacts" \in focus /\ DoContacts
       \/ "groups" \in focus /\ DoGroups
       \/ "sending" \in focus /\ DoSending
       \/ "messages" \in focus /\ DoMessages
       \/ "files" \in focus /\ DoFiles
       \/ "devices" \in focus /\ DoDevices
       \/ TriggerEmergencyWipe
       \/ RunApplication /\ UNCHANGED workVars
       \/ "session" \in focus /\ DoSession /\ UNCHANGED workVars

Spec == Init /\ [][Next]_vars

-----------------------------------------------------------------------------
TypeOK ==
    /\ SessionTypeOK
    /\ \A e \in ToSet(entries) : /\ e.status \in Statuses
                                 /\ e.blocked \in BOOLEAN
                                 /\ e.unread \in Nat
    /\ \A u \in DOMAIN store.contacts :
          store.contacts[u] \in [status : Statuses, blocked : BOOLEAN]

\* leaveActiveGroup() drops every entry with the id of the group, also that of
\* a contact whose id is the same.
LeftWithGroup(u) ==
    ConvId(u) \in reused /\ \A e \in ToSet(entries) : e.id # ConvId(u)

\* The address book and the workspace agree on whom the operator must not
\* write to: as long as the workspace is there, a contact that is blocked or
\* whose key has changed has a direct conversation that says so too, also when
\* the contact was added twice or removed and opened again; only a contact
\* whose entry went with a group of the same id has none
\* (workspace_view_model.cpp:1058-1087, 1193-1251, 1290-1394, 1528-1548).
BarredIsShown ==
    app.window /\ ~account.wiped =>
        \A u \in DOMAIN store.contacts \ {Self} :
            LET shown == {e \in ToSet(entries) : ~e.group /\ e.peer = u}
            IN  \/ LeftWithGroup(u)
                \/ /\ shown # {}
                   /\ store.contacts[u].blocked => \E e \in shown : e.blocked
                   /\ store.contacts[u].status = "KeyChanged" =>
                         \E e \in shown : e.status = "KeyChanged"

\* A message enters the local store only while the conversation it is filed
\* under is neither blocked nor suspended on the screen and no wipe has
\* happened, and nobody on the roster the operator sees is barred in the
\* address book.  The roster on the screen and the one the store checks are
\* kept apart and changed by different calls; they agree unless addContact()
\* gave the id of the conversation to another peer, and then the store looks
\* at that peer only (messaging_manager.cpp:209-262,
\* workspace_view_model.cpp:632-649, 901-975, 1221-1246).
StagingGuarded ==
    Len(store'.msgs) > Len(store.msgs) /\ store.msgs # <<>> =>
        LET c == Last(store'.msgs).conv
            e == entries[Find(entries, c)]
        IN  /\ e.id = c
            /\ ~account.wiped /\ ~e.blocked /\ ~PeerKeyChanged(e)
            /\ c \notin reused =>
                  \A u \in e.members \ {Self} :
                     u \in DOMAIN store.contacts => ~Barred(store.contacts[u])

\* After an emergency wipe the store answers nobody, no secret is kept unless a
\* new login brought one, and nothing the workspace held is held or shown
\* again, also after a new login and new entries (app_view_model.cpp:168-183,
\* emergency_manager.cpp:8-14, main.cpp:78-83).
WipedIsBlank ==
    account.wiped => /\ ~storeOpen
                     /\ ~account.auth => secrets = {}
                     /\ (Held \union Shown) \intersect gone = {}

\* The client's guards hold through every sequence of operations: restricted
\* views, the suspension of ADR-008 and blocks, and the emergency wipe.
ClientGuarded ==
    /\ [](TypeOK /\ RestrictedHidden /\ BarredIsShown /\ WipedIsBlank)
    /\ [][StagingGuarded]_vars
=============================================================================
