----------------------------- MODULE AuthProofs -----------------------------
(***************************************************************************)
(* Proofs about the auth service, for any number of server threads, of     *)
(* devices, sessions and tokens.                                           *)
(***************************************************************************)
EXTENDS AuthSessions, FiniteSetTheorems, WellFoundedInduction, TLAPS

(***************************************************************************)
(* The inductive invariant                                                 *)
(***************************************************************************)

Ops == {"idle", "register", "pair", "authorize", "update", "claim", "directory",
        "login", "validate", "refresh", "verify", "revoke"}
Ats == {"", "ok", "identity", "signed", "onetime", "challenge", "current", "rotate",
        "replenish", "lookup", "mark", "create", "stamp", "factor", "issue",
        "device", "session", "reuse", "count", "code", "complete", "promote",
        "clear", "sessions", "keys"}

CallType == [op : Ops, at : Ats, dev : Devices \cup {None}, id : Nat, n : Nat,
             late : BOOLEAN, todo : SUBSET Devices]

\* what the record of a call points to exists
InPlace(c) ==
    /\ c.op \notin {"idle", "claim", "directory"} => c.dev \in Devices
    /\ c.op = "login" =>
         /\ c.at \in {"create", "stamp", "factor", "challenge", "issue", "ok"}
         /\ c.at \in {"stamp", "factor", "challenge", "issue"} => c.id \in 1..Len(session)
    /\ c.op = "refresh" => c.id \in 1..Len(token)
    /\ c.op = "verify" =>
         /\ c.at \in {"count", "code", "complete", "promote", "clear"} =>
              c.id \in 1..Len(challenge)
         /\ c.at \in {"device", "issue"} => c.id \in 1..Len(session)

\* sessions, tokens, challenges and calls have their types, and every token,
\* challenge and call refers to rows that exist
Linked ==
    /\ session \in Seq(Session) /\ token \in Seq(Token) /\ challenge \in Seq(Challenge)
    /\ \A k \in 1..Len(token) : token[k].sess \in 1..Len(session)
    /\ \A c \in 1..Len(challenge) : challenge[c].sess \in 1..Len(session)
    /\ attempts \in Seq(Nat) /\ Len(attempts) = Len(challenge)
    /\ call \in [Threads -> CallType]
    /\ \A t \in Threads : InPlace(call[t])

\* t runs a call that may still issue the first tokens of session i: the login
\* that created it, or the verification that completed its challenge
ByLogin(t, i) ==
    /\ call[t].op = "login" /\ call[t].at \in {"stamp", "factor", "challenge", "issue"}
    /\ call[t].id = i
ByVerify(t, i) ==
    /\ call[t].op = "verify"
    /\ \/ call[t].at \in {"promote", "clear"} /\ challenge[call[t].id].sess = i
       \/ call[t].at \in {"device", "issue"} /\ call[t].id = i

Entitled(t, i) == ByLogin(t, i) \/ ByVerify(t, i)

HasToken(i) == \E k \in 1..Len(token) : token[k].sess = i
HasChallenge(i) == \E c \in 1..Len(challenge) : challenge[c].sess = i
Earned(i) == \E c \in 1..Len(challenge) : challenge[c].sess = i /\ challenge[c].status = "completed"

\* the first tokens of a session are issued once, and a token is replaced only
\* while it is the active one
FirstTokens ==
    /\ \A t, u \in Threads, i \in 1..Len(session) : Entitled(t, i) /\ Entitled(u, i) => t = u
    /\ \A t \in Threads, i \in 1..Len(session) :
          /\ Entitled(t, i) => ~HasToken(i)
          /\ ByLogin(t, i) => ~HasChallenge(i)
          /\ ByVerify(t, i) => Earned(i)
    /\ \A c, e \in 1..Len(challenge) : challenge[c].sess = challenge[e].sess => c = e
    /\ \A c \in 1..Len(challenge) :
          challenge[c].status = "pending" => ~HasToken(challenge[c].sess)
    /\ \A k, l \in 1..Len(token) :
          token[k].sess = token[l].sess /\ token[k].status = "active" /\ token[l].status = "active"
            => k = l

\* a late call is on its way to a check that will refuse it
Doomed(c) ==
    \/ c.op = "validate" /\ c.at = "device" /\ c.dev \in gone
    \/ /\ c.op = "verify" /\ c.dev \in gone
       /\ c.at \in {"count", "code", "complete", "promote", "clear", "device"}
    \/ /\ c.op = "refresh" /\ c.at = "reuse"
    \/ /\ c.op = "refresh" /\ c.at = "device"
       /\ c.dev \in gone \/ Ended(token[c.id].sess)
    \/ /\ c.op = "refresh" /\ c.at = "session" /\ Ended(token[c.id].sess)

LateCalls ==
    /\ \A d \in gone : deviceRow[d] = "revoked"
    /\ \A t \in Threads :
          /\ call[t].op = "revoke" /\ call[t].at \in {"sessions", "keys", "challenge"} =>
               deviceRow[call[t].dev] = "revoked"
          /\ call[t].late => Doomed(call[t])

Claiming(t) == call[t].op \in {"claim", "directory"} /\ call[t].at = "mark"

\* the prekeys: a row that is still active was handed to nobody, and the rows
\* locked are those of the claims about to mark them
Prekeys ==
    /\ \A k \in 1..Len(keyRow) : /\ keyRow[k].given <= 1
                                 /\ keyRow[k].status = "active" => keyRow[k].given = 0
    /\ \A t \in Threads : /\ call[t].at = "mark" => Claiming(t)
                          /\ Claiming(t) => call[t].id \in rowLock
    /\ \A t, u \in Threads : Claiming(t) /\ Claiming(u) /\ call[t].id = call[u].id => t = u
    /\ \A k \in rowLock : /\ k \in 1..Len(keyRow) /\ keyRow[k].status = "active"
                          /\ keyRow[k].kind = "onetime"
                          /\ \E t \in Threads : Claiming(t) /\ call[t].id = k

\* device d has exactly one active key, or never had one
One(d, kind) == \E k \in ActiveKeys(d, kind) : ActiveKeys(d, kind) = {k}
NoKey(d, kind) == \A k \in 1..Len(keyRow) : keyRow[k].device = d => keyRow[k].kind # kind

\* the device is known, and can be written to unless it is revoked
Reachable(d) ==
    /\ deviceRow[d] # "none"
    /\ deviceRow[d] # "revoked" => One(d, "identity") /\ One(d, "signed")

Registering(t, d) == call[t].op = "register" /\ call[t].dev = d

\* what a call about keys relies on: an enrolment is the only one of its device
\* and stored the keys it says it did, an update works for an enrolled device
\* and replaces a signed prekey of it
Held(t) ==
    /\ call[t].op = "register" =>
         /\ call[t].dev \notin complete /\ deviceRow[call[t].dev] # "none"
         /\ \A u \in Threads : Registering(u, call[t].dev) => t = u
         /\ call[t].at = "identity" =>
              NoKey(call[t].dev, "identity") /\ NoKey(call[t].dev, "signed")
         /\ call[t].at = "signed" =>
              /\ NoKey(call[t].dev, "signed")
              /\ deviceRow[call[t].dev] # "revoked" => One(call[t].dev, "identity")
         /\ call[t].at = "onetime" => Reachable(call[t].dev)
    /\ call[t].op = "update" => call[t].dev \in complete
    /\ call[t].op = "update" /\ call[t].at = "rotate" =>
         /\ call[t].id = 0 => deviceRow[call[t].dev] = "revoked"
         /\ call[t].id # 0 => /\ call[t].id \in 1..Len(keyRow)
                              /\ keyRow[call[t].id].kind = "signed"
                              /\ keyRow[call[t].id].device = call[t].dev

Bundles ==
    /\ \A d \in complete : Reachable(d)
    /\ \A d \in Devices : deviceRow[d] = "none" =>
          \A k \in 1..Len(keyRow) : keyRow[k].device # d
    /\ \A t \in Threads : Held(t)

Pairings ==
    \A d \in Devices : pairing[d].state = "open" => pairing[d].failed < MaxFailedPairingAttempts

-----------------------------------------------------------------------------
(***************************************************************************)
(* Calls                                                                   *)
(***************************************************************************)

\* everything but the call of thread t stays
Others(t) == \A u \in Threads : u # t => call'[u] = call[u]

\* the call of t goes on at another place, ends, or begins
Moves(t, at) ==
    /\ call' \in [Threads -> CallType] /\ Others(t)
    /\ call'[t].at = at /\ call'[t].op = call[t].op /\ call'[t].dev = call[t].dev
    /\ call'[t].id = call[t].id /\ call'[t].n = call[t].n
    /\ call'[t].late = call[t].late /\ call'[t].todo = call[t].todo
Begins(t, c) == call' \in [Threads -> CallType] /\ Others(t) /\ call'[t] = c
Ends(t) == Begins(t, Idle)

(* What the record of a call says. *)
LEMMA CallFields ==
    ASSUME NEW op \in Ops, NEW at \in Ats, NEW dev \in Devices \cup {None},
           NEW id \in Nat, NEW late \in BOOLEAN
    PROVE  /\ Call(op, at, dev, id, late) \in CallType
           /\ Call(op, at, dev, id, late).op = op /\ Call(op, at, dev, id, late).at = at
           /\ Call(op, at, dev, id, late).dev = dev /\ Call(op, at, dev, id, late).id = id
           /\ Call(op, at, dev, id, late).n = 0 /\ Call(op, at, dev, id, late).late = late
           /\ Call(op, at, dev, id, late).todo = {}
  BY DEF Call, CallType

(* A free thread. *)
LEMMA IdleFields ==
    /\ Idle \in CallType /\ Idle.op = "idle" /\ ~ Idle.late
    /\ Idle.at \notin {"ok", "mark"}
  BY DEF Idle, Call, CallType, Ops, Ats

(* The call of a thread has its type. *)
LEMMA CallFacts ==
    ASSUME Linked, NEW t \in Threads
    PROVE  /\ call[t] \in CallType /\ call[t].op \in Ops /\ call[t].at \in Ats
           /\ call[t].dev \in Devices \cup {None} /\ call[t].id \in Nat
           /\ call[t].n \in Nat /\ call[t].late \in BOOLEAN
           /\ call[t].todo \in SUBSET Devices /\ InPlace(call[t])
  BY DEF Linked, CallType

(* A call goes on, ... *)
LEMMA GotoDoes ==
    ASSUME Linked, NEW t \in Threads, NEW p \in Ats, Goto(t, p)
    PROVE  Moves(t, p)
<1>1. call[t] \in CallType /\ call \in [Threads -> CallType] BY DEF Linked
<1>2. call' = [call EXCEPT ![t] = [call[t] EXCEPT !.at = p]] BY DEF Goto
<1>3. [call[t] EXCEPT !.at = p] \in CallType BY <1>1 DEF CallType
<1>4. /\ call' \in [Threads -> CallType] /\ Others(t)
      /\ call'[t] = [call[t] EXCEPT !.at = p]
  BY <1>1, <1>2, <1>3 DEF Others
<1> QED BY <1>1, <1>4 DEF CallType, Moves

(* ... is replaced by another, ... *)
LEMMA SetDoes ==
    ASSUME Linked, NEW t \in Threads, NEW c \in CallType, call' = [call EXCEPT ![t] = c]
    PROVE  Begins(t, c)
  BY DEF Linked, Begins, Others

(* ... begins ... *)
LEMMA StartDoes ==
    ASSUME Linked, NEW t \in Threads, NEW c \in CallType, Start(t, c)
    PROVE  Begins(t, c)
  BY SetDoes DEF Start

(* ... and ends. *)
LEMMA LeaveDoes ==
    ASSUME Linked, NEW t \in Threads, Leave(t)
    PROVE  Ends(t)
  BY SetDoes, IdleFields DEF Leave, Ends

-----------------------------------------------------------------------------
(***************************************************************************)
(* Rows                                                                    *)
(***************************************************************************)

\* No table loses a row; what a row refers to stays, and what ended stays ended.
Grown ==
    /\ session' \in Seq(Session) /\ token' \in Seq(Token) /\ challenge' \in Seq(Challenge)
    /\ Len(session) <= Len(session') /\ Len(token) <= Len(token')
    /\ Len(challenge) <= Len(challenge')
    /\ \A i \in 1..Len(session) : /\ session'[i].dev = session[i].dev
                                  /\ Ended(i) => Ended(i)'
    /\ \A k \in 1..Len(token) :
          /\ token'[k].sess = token[k].sess
          /\ token'[k].status = "active" => token[k].status = "active"
    /\ \A c \in 1..Len(challenge) :
          /\ challenge'[c].sess = challenge[c].sess
          /\ challenge[c].status = "completed" => challenge'[c].status = "completed"
          /\ challenge'[c].status = "pending" => challenge[c].status = "pending"

\* No table gains a row either, and no session is promoted.
Level ==
    /\ Len(session') = Len(session) /\ Len(token') = Len(token)
    /\ Len(challenge') = Len(challenge)
    /\ \A i \in 1..Len(session) : session'[i].level = "mfa" => session[i].level = "mfa"

(* The rows and what they refer to. *)
LEMMA RowFacts ==
    ASSUME Linked
    PROVE  /\ session \in Seq(Session) /\ token \in Seq(Token) /\ challenge \in Seq(Challenge)
           /\ Len(session) \in Nat /\ Len(token) \in Nat /\ Len(challenge) \in Nat
           /\ DOMAIN session = 1..Len(session) /\ DOMAIN token = 1..Len(token)
           /\ DOMAIN challenge = 1..Len(challenge)
           /\ \A i \in 1..Len(session) : /\ session[i] \in Session /\ session[i].dev \in Devices
           /\ \A k \in 1..Len(token) : token[k] \in Token /\ token[k].sess \in 1..Len(session)
           /\ \A c \in 1..Len(challenge) : /\ challenge[c] \in Challenge
                                           /\ challenge[c].sess \in 1..Len(session)
<1>1. session \in Seq(Session) /\ token \in Seq(Token) /\ challenge \in Seq(Challenge)
  BY DEF Linked
<1>2. /\ \A i \in 1..Len(session) : session[i] \in Session
      /\ \A k \in 1..Len(token) : token[k] \in Token
      /\ \A c \in 1..Len(challenge) : challenge[c] \in Challenge
  BY <1>1
<1>3. \A i \in 1..Len(session) : session[i].dev \in Devices BY <1>2 DEF Session
<1>4. /\ Len(session) \in Nat /\ Len(token) \in Nat /\ Len(challenge) \in Nat
      /\ DOMAIN session = 1..Len(session) /\ DOMAIN token = 1..Len(token)
      /\ DOMAIN challenge = 1..Len(challenge)
  BY <1>1
<1>5. /\ \A k \in 1..Len(token) : token[k].sess \in 1..Len(session)
      /\ \A c \in 1..Len(challenge) : challenge[c].sess \in 1..Len(session)
  BY DEF Linked
<1> QED BY <1>1, <1>2, <1>3, <1>4, <1>5

(* A step that leaves the tables alone. *)
LEMMA RowsKept ==
    ASSUME Linked, session' = session, token' = token, challenge' = challenge
    PROVE  Grown /\ Level
  BY RowFacts DEF Grown, Level, Ended

(* A function that is a sequence of the same length. *)
LEMMA SameLength ==
    ASSUME NEW S, NEW n \in Nat, NEW f \in [1..n -> S]
    PROVE  f \in Seq(S) /\ Len(f) = n
  OBVIOUS

(* One row of a table is written. *)
LEMMA RowWritten ==
    ASSUME NEW S, NEW s \in Seq(S), NEW k \in 1..Len(s), NEW v \in S
    PROVE  /\ [s EXCEPT ![k] = v] \in Seq(S) /\ Len([s EXCEPT ![k] = v]) = Len(s)
           /\ [s EXCEPT ![k] = v][k] = v
           /\ \A j \in 1..Len(s) : j # k => [s EXCEPT ![k] = v][j] = s[j]
  OBVIOUS

(* A row is added to a table. *)
LEMMA RowAdded ==
    ASSUME NEW S, NEW s \in Seq(S), NEW v \in S
    PROVE  /\ Append(s, v) \in Seq(S) /\ Len(Append(s, v)) = Len(s) + 1
           /\ Append(s, v)[Len(s) + 1] = v
           /\ \A j \in 1..Len(s) : Append(s, v)[j] = s[j]
  OBVIOUS

(* Rows are added to a table. *)
LEMMA RowsJoined ==
    ASSUME NEW S, NEW s \in Seq(S), NEW r \in Seq(S)
    PROVE  /\ s \o r \in Seq(S) /\ Len(s \o r) = Len(s) + Len(r)
           /\ \A j \in 1..Len(s) : (s \o r)[j] = s[j]
           /\ \A j \in 1..Len(s) + Len(r) : j \notin 1..Len(s) => (s \o r)[j] = r[j - Len(s)]
<1>1. s \o r \in Seq(S) OBVIOUS
<1>2. Len(s \o r) = Len(s) + Len(r) OBVIOUS
<1>3. \A j \in 1..Len(s) : (s \o r)[j] = s[j] OBVIOUS
<1>4. \A j \in 1..Len(s) + Len(r) : j \notin 1..Len(s) => (s \o r)[j] = r[j - Len(s)] OBVIOUS
<1> QED BY <1>1, <1>2, <1>3, <1>4

(* Sessions end: by revocation or by a deadline. *)
LEMMA SessionsEnd ==
    ASSUME Linked, token' = token, challenge' = challenge,
           NEW ids, NEW how \in {"revoked", "expired"},
           session' = [i \in DOMAIN session |->
                         IF i \in ids THEN [session[i] EXCEPT !.status = how] ELSE session[i]]
    PROVE  Grown /\ Level
<1>1. \A i \in 1..Len(session) : [session[i] EXCEPT !.status = how] \in Session
  BY RowFacts DEF Session
<1>2. session' \in [1..Len(session) -> Session] BY <1>1, RowFacts
<1>3. session' \in Seq(Session) /\ Len(session') = Len(session) BY <1>2, SameLength, RowFacts
<1>4. \A i \in 1..Len(session) : /\ session'[i].dev = session[i].dev
                                 /\ session'[i].level = session[i].level
                                 /\ Ended(i) => Ended(i)'
  BY RowFacts DEF Session, Ended
<1> QED BY <1>3, <1>4, RowFacts DEF Grown, Level

(* RevokeThese ends the active ones among the given sessions. *)
LEMMA RevokeTheseDoes ==
    ASSUME Linked, token' = token, challenge' = challenge, NEW ids, RevokeThese(ids)
    PROVE  Grown /\ Level
<1> DEFINE which == {i \in ids : session[i].status = "active"}
<1>1. session' = [i \in DOMAIN session |->
                    IF i \in which THEN [session[i] EXCEPT !.status = "revoked"]
                    ELSE session[i]]
  BY DEF RevokeThese
<1> HIDE DEF which
<1> QED BY <1>1, SessionsEnd

(* A challenge fails. *)
LEMMA FailChallengeDoes ==
    ASSUME Linked, session' = session, token' = token,
           NEW c \in 1..Len(challenge), FailChallenge(c)
    PROVE  Grown /\ Level
<1> DEFINE v == [challenge[c] EXCEPT !.status = IF @ = "pending" THEN "failed" ELSE @]
<1>1. v \in Challenge /\ v.sess = challenge[c].sess
      /\ (challenge[c].status # "pending" => v.status = challenge[c].status)
      /\ v.status # "pending"
  BY RowFacts DEF Challenge
<1>2. challenge' = [challenge EXCEPT ![c] = v] BY DEF FailChallenge
<1> HIDE DEF v
<1>3. /\ challenge' \in Seq(Challenge) /\ Len(challenge') = Len(challenge)
      /\ challenge'[c] = v
      /\ \A j \in 1..Len(challenge) : j # c => challenge'[j] = challenge[j]
  BY <1>1, <1>2, RowFacts, RowWritten
<1> QED BY <1>1, <1>3, RowFacts DEF Grown, Level, Ended

-----------------------------------------------------------------------------
(***************************************************************************)
(* The steps of a call                                                     *)
(***************************************************************************)

\* neither the sessions nor what the revocation of a device wrote changes
Still == /\ session' = session /\ token' = token /\ challenge' = challenge
         /\ gone' = gone /\ deviceRow' = deviceRow

(* A login stamps its device, ... *)
LEMMA StampDeviceDoes ==
    ASSUME Linked, NEW t \in Threads, StampDevice(t)
    PROVE  /\ call[t].op = "login" /\ call[t].at = "stamp" /\ Still
           /\ Moves(t, "factor") \/ Ends(t)
<1>1. "factor" \in Ats BY DEF Ats
<1> QED BY <1>1, GotoDoes, LeaveDoes DEF StampDevice, At, Still, deviceVars, sessionVars,
            Ended

(* ... and looks for a second factor. *)
LEMMA IsMfaEnabledDoes ==
    ASSUME Linked, NEW t \in Threads, IsMfaEnabled(t)
    PROVE  /\ call[t].op = "login" /\ call[t].at = "factor" /\ Still
           /\ Moves(t, "challenge") \/ Moves(t, "issue")
<1>1. "challenge" \in Ats /\ "issue" \in Ats BY DEF Ats
<1> QED BY <1>1, GotoDoes, LeaveDoes DEF IsMfaEnabled, At, Still, deviceVars, sessionVars,
            Ended

(* A validation looks at the device. *)
LEMMA ValidateDeviceDoes ==
    ASSUME Linked, NEW t \in Threads, ValidateDevice(t)
    PROVE  /\ call[t].op = "validate" /\ call[t].at = "device" /\ Still
           /\ (Moves(t, "ok") /\ deviceRow[call[t].dev] = "active") \/ Ends(t)
<1>1. "ok" \in Ats BY DEF Ats
<1> QED BY <1>1, GotoDoes, LeaveDoes DEF ValidateDevice, At, Still, deviceVars,
            sessionVars, Ended

(* A refresh looks at the device, ... *)
LEMMA RefreshReadsDeviceDoes ==
    ASSUME Linked, NEW t \in Threads, RefreshReadsDevice(t)
    PROVE  /\ call[t].op = "refresh" /\ call[t].at = "device" /\ Still
           /\ (Moves(t, "session") /\ deviceRow[call[t].dev] = "active") \/ Ends(t)
<1>1. "session" \in Ats BY DEF Ats
<1> QED BY <1>1, GotoDoes, LeaveDoes DEF RefreshReadsDevice, At, Still, deviceVars,
            sessionVars, Ended

(* ... then at the session, ... *)
LEMMA RefreshReadsSessionDoes ==
    ASSUME Linked, NEW t \in Threads, RefreshReadsSession(t)
    PROVE  /\ call[t].op = "refresh" /\ call[t].at = "session" /\ Still
           /\ (Moves(t, "rotate") /\ ~Ended(token[call[t].id].sess)) \/ Ends(t)
<1>1. "rotate" \in Ats BY DEF Ats
<1> QED BY <1>1, GotoDoes, LeaveDoes DEF RefreshReadsSession, At, Still, deviceVars,
            sessionVars, Ended

(* ... and in the end stamps the device. *)
LEMMA RefreshStampsDoes ==
    ASSUME Linked, NEW t \in Threads, RefreshStamps(t)
    PROVE  /\ call[t].op = "refresh" /\ call[t].at = "stamp" /\ Still
           /\ Moves(t, "ok") \/ Ends(t)
<1>1. "ok" \in Ats BY DEF Ats
<1> QED BY <1>1, GotoDoes, LeaveDoes DEF RefreshStamps, At, Still, deviceVars,
            sessionVars, Ended

(* A verification looks at the device. *)
LEMMA VerifyReadsDeviceDoes ==
    ASSUME Linked, NEW t \in Threads, VerifyReadsDevice(t)
    PROVE  /\ call[t].op = "verify" /\ call[t].at = "device" /\ Still
           /\ (Moves(t, "issue") /\ deviceRow[call[t].dev] = "active") \/ Ends(t)
<1>1. "issue" \in Ats BY DEF Ats
<1> QED BY <1>1, GotoDoes, LeaveDoes DEF VerifyReadsDevice, At, Still, deviceVars,
            sessionVars, Ended

\* a call begins on a free thread
Opens(t, op, at, dev, id, late) ==
    /\ call' \in [Threads -> CallType] /\ Others(t)
    /\ call[t] = Idle
    /\ call'[t].op = op /\ call'[t].at = at /\ call'[t].dev = dev
    /\ call'[t].id = id /\ call'[t].late = late

(* Starting a call. *)
LEMMA OpensDoes ==
    ASSUME Linked, NEW t \in Threads, Free(t),
           NEW op \in Ops, NEW at \in Ats, NEW dev \in Devices \cup {None},
           NEW id \in Nat, NEW late \in BOOLEAN,
           Start(t, Call(op, at, dev, id, late))
    PROVE  Opens(t, op, at, dev, id, late)
<1> DEFINE c == Call(op, at, dev, id, late)
<1>1. /\ c \in CallType /\ c.op = op /\ c.at = at /\ c.dev = dev /\ c.id = id
      /\ c.late = late
  BY CallFields
<1> HIDE DEF c
<1>2. Begins(t, c) BY <1>1, StartDoes DEF c
<1> QED BY <1>1, <1>2 DEF Begins, Opens, Free

(* A login begins, ... *)
LEMMA AuthenticateDoes ==
    ASSUME Linked, NEW t \in Threads, NEW d \in Devices, Authenticate(t, d)
    PROVE  /\ Still /\ Opens(t, "login", "create", d, 0, Late(d))
           /\ deviceRow[d] = "active"
<1>1. "login" \in Ops /\ "create" \in Ats /\ 0 \in Nat /\ Late(d) \in BOOLEAN
  BY DEF Ops, Ats, Late
<1>2. Free(t) /\ Start(t, Call("login", "create", d, 0, Late(d))) /\ deviceRow[d] = "active"
  BY DEF Authenticate
<1>3. Still BY DEF Authenticate, Still, deviceVars, sessionVars
<1> QED BY <1>1, <1>2, <1>3, OpensDoes

(* ... a validation, ... *)
LEMMA ValidateSessionDoes ==
    ASSUME Linked, NEW t \in Threads, NEW i \in DOMAIN session, ValidateSession(t, i)
    PROVE  /\ Still
           /\ \E late \in BOOLEAN :
                /\ Opens(t, "validate", "device", session[i].dev, i, late)
                /\ late => session[i].dev \in gone
<1>1. /\ "validate" \in Ops /\ "device" \in Ats /\ i \in Nat
      /\ Late(session[i].dev) \in BOOLEAN /\ session[i].dev \in Devices
  BY RowFacts DEF Ops, Ats, Late
<1>2. Free(t) /\ Start(t, Call("validate", "device", session[i].dev, i, Late(session[i].dev)))
  BY DEF ValidateSession
<1>3. Still BY DEF ValidateSession, Still, deviceVars, sessionVars
<1>4. Opens(t, "validate", "device", session[i].dev, i, Late(session[i].dev))
  BY <1>1, <1>2, OpensDoes
<1> QED BY <1>1, <1>3, <1>4 DEF Late

(* ... a refresh, ... *)
LEMMA RefreshSessionDoes ==
    ASSUME Linked, NEW t \in Threads, NEW k \in DOMAIN token, RefreshSession(t, k)
    PROVE  /\ Still
           /\ \E at \in {"reuse", "device"}, d \in Devices, late \in BOOLEAN :
                /\ Opens(t, "refresh", at, d, k, late)
                /\ late => d \in gone \/ Ended(token[k].sess)
<1> DEFINE d == session[token[k].sess].dev
           late == Late(d) \/ Ended(token[k].sess)
           at == TokenVerdict(k)
<1>1. d \in Devices /\ late \in BOOLEAN /\ k \in Nat BY RowFacts DEF Late, Ended
<1>2. at \in {"reuse", "device"} BY DEF RefreshSession, TokenVerdict
<1>3. "refresh" \in Ops /\ at \in Ats BY <1>2 DEF Ops, Ats
<1>4. Free(t) /\ Start(t, Call("refresh", at, d, k, late)) BY DEF RefreshSession
<1>5. Still BY DEF RefreshSession, Still, deviceVars, sessionVars
<1>6. late => d \in gone \/ Ended(token[k].sess) BY DEF Late
<1> HIDE DEF at, d, late
<1>7. Opens(t, "refresh", at, d, k, late) BY <1>1, <1>3, <1>4, OpensDoes
<1> QED BY <1>1, <1>2, <1>5, <1>6, <1>7

(* ... a verification, unless its challenge ran out, ... *)
LEMMA VerifyMfaChallengeDoes ==
    ASSUME Linked, NEW t \in Threads, NEW c \in DOMAIN challenge, VerifyMfaChallenge(t, c)
    PROVE  /\ Grown /\ Level
           /\ session' = session /\ token' = token
           /\ gone' = gone /\ deviceRow' = deviceRow
           /\ \/ call' = call
              \/ /\ challenge' = challenge
                 /\ \E d \in Devices, late \in BOOLEAN :
                      /\ Opens(t, "verify", "count", d, c, late)
                      /\ late => d \in gone
<1> DEFINE d == session[challenge[c].sess].dev
           late == Late(d)
<1>1. d \in Devices /\ late \in BOOLEAN /\ c \in Nat /\ c \in 1..Len(challenge)
  BY RowFacts DEF Late
<1>2. "verify" \in Ops /\ "count" \in Ats BY DEF Ops, Ats
<1>3. /\ session' = session /\ token' = token
      /\ gone' = gone /\ deviceRow' = deviceRow
  BY DEF VerifyMfaChallenge, deviceVars
<1>4. CASE FailChallenge(c) /\ UNCHANGED call BY <1>1, <1>3, <1>4, FailChallengeDoes
<1>5. CASE Free(t) /\ Start(t, Call("verify", "count", d, c, late)) /\ UNCHANGED challenge
  <2>1. Grown /\ Level BY <1>3, <1>5, RowsKept
  <2> HIDE DEF d, late
  <2>2. Opens(t, "verify", "count", d, c, late) BY <1>1, <1>2, <1>5, OpensDoes
  <2>3. late => d \in gone BY DEF late, Late
  <2> QED BY <1>1, <1>3, <1>5, <2>1, <2>2, <2>3
<1> QED BY <1>4, <1>5 DEF VerifyMfaChallenge

(* ... and a revocation, unless the device is revoked already. *)
LEMMA RevokeDeviceDoes ==
    ASSUME Linked, NEW t \in Threads, NEW d \in Devices, RevokeDevice(t, d)
    PROVE  /\ session' = session /\ token' = token /\ challenge' = challenge
           /\ deviceRow' = deviceRow
           /\ \/ /\ call' = call /\ gone' = gone \cup {d} /\ deviceRow[d] = "revoked"
              \/ /\ gone' = gone /\ Opens(t, "revoke", "device", d, 0, FALSE)
<1>1. "revoke" \in Ops /\ "device" \in Ats /\ 0 \in Nat /\ FALSE \in BOOLEAN BY DEF Ops, Ats
<1>2. /\ session' = session /\ token' = token /\ challenge' = challenge
      /\ deviceRow' = deviceRow /\ Free(t)
  BY DEF RevokeDevice, deviceVars, sessionVars
<1>3. CASE deviceRow[d] = "revoked" /\ gone' = gone \cup {d} /\ UNCHANGED call BY <1>2, <1>3
<1>4. CASE Start(t, Call("revoke", "device", d, 0, FALSE)) /\ UNCHANGED gone
  BY <1>1, <1>2, <1>4, OpensDoes
<1> QED BY <1>3, <1>4 DEF RevokeDevice

\* the call of t goes on with another id
Turns(t, at, id) ==
    /\ call' \in [Threads -> CallType] /\ Others(t)
    /\ call'[t].op = call[t].op /\ call'[t].at = at /\ call'[t].dev = call[t].dev
    /\ call'[t].id = id /\ call'[t].late = call[t].late

(* A step that writes where a call is and what it works on. *)
LEMMA TurnsDoes ==
    ASSUME Linked, NEW t \in Threads, NEW p \in Ats, NEW id \in Nat,
           call' = [call EXCEPT ![t].at = p, ![t].id = id]
    PROVE  Turns(t, p, id)
<1> DEFINE c == [call[t] EXCEPT !.at = p, !.id = id]
<1>1. /\ c \in CallType /\ c.op = call[t].op /\ c.at = p /\ c.dev = call[t].dev
      /\ c.id = id /\ c.late = call[t].late
  BY CallFacts DEF CallType
<1>2. call' = [call EXCEPT ![t] = c] OBVIOUS
<1> HIDE DEF c
<1>3. Begins(t, c) BY <1>1, <1>2, SetDoes
<1> QED BY <1>1, <1>3 DEF Begins, Turns

(* A login stores its session, ... *)
LEMMA CreateSessionDoes ==
    ASSUME Linked, NEW t \in Threads, CreateSession(t)
    PROVE  /\ call[t].op = "login" /\ call[t].at = "create"
           /\ Turns(t, "stamp", Len(session) + 1)
           /\ Grown /\ Len(session') = Len(session) + 1
           /\ token' = token /\ challenge' = challenge
           /\ session'[Len(session) + 1].level = "primary"
           /\ \A i \in 1..Len(session) : session'[i] = session[i]
           /\ gone' = gone /\ deviceRow' = deviceRow
<1> DEFINE v == [dev |-> call[t].dev, status |-> "active", level |-> "primary"]
<1>1. call[t].op = "login" /\ call[t].at = "create" /\ call[t].dev \in Devices
  BY CallFacts DEF CreateSession, At, InPlace
<1>2. v \in Session /\ v.level = "primary" BY <1>1 DEF Session
<1>3. /\ session' = Append(session, v) /\ token' = token /\ challenge' = challenge
      /\ gone' = gone /\ deviceRow' = deviceRow
      /\ call' = [call EXCEPT ![t].at = "stamp", ![t].id = Len(session) + 1]
  BY DEF CreateSession, InsertSession, deviceVars
<1>4. "stamp" \in Ats /\ Len(session) + 1 \in Nat BY RowFacts DEF Ats
<1>5. Turns(t, "stamp", Len(session) + 1) BY <1>3, <1>4, TurnsDoes
<1> HIDE DEF v
<1>6. /\ session' \in Seq(Session) /\ Len(session') = Len(session) + 1
      /\ session'[Len(session) + 1] = v
      /\ \A i \in 1..Len(session) : session'[i] = session[i]
  BY <1>2, <1>3, RowFacts, RowAdded
<1>7. Grown BY <1>3, <1>6, RowFacts DEF Grown, Ended
<1> QED BY <1>1, <1>2, <1>3, <1>5, <1>6, <1>7

(* ... creates a challenge ... *)
LEMMA CreateChallengeDoes ==
    ASSUME Linked, NEW t \in Threads, CreateChallenge(t)
    PROVE  /\ call[t].op = "login" /\ call[t].at = "challenge" /\ Moves(t, "ok")
           /\ Grown /\ Len(challenge') = Len(challenge) + 1
           /\ session' = session /\ token' = token
           /\ challenge'[Len(challenge) + 1] = [sess |-> call[t].id, status |-> "pending"]
           /\ \A c \in 1..Len(challenge) : challenge'[c] = challenge[c]
           /\ gone' = gone /\ deviceRow' = deviceRow
           /\ attempts' = Append(attempts, 0)
<1> DEFINE v == [sess |-> call[t].id, status |-> "pending"]
<1>1. call[t].op = "login" /\ call[t].at = "challenge" BY DEF CreateChallenge, At
<1>2. v \in Challenge BY CallFacts DEF Challenge
<1>3. /\ challenge' = Append(challenge, v) /\ session' = session /\ token' = token
      /\ gone' = gone /\ deviceRow' = deviceRow /\ Goto(t, "ok")
      /\ attempts' = Append(attempts, 0)
  BY DEF CreateChallenge, InsertChallenge, deviceVars
<1>4. "ok" \in Ats BY DEF Ats
<1>5. Moves(t, "ok") BY <1>3, <1>4, GotoDoes
<1> HIDE DEF v
<1>6. /\ challenge' \in Seq(Challenge) /\ Len(challenge') = Len(challenge) + 1
      /\ challenge'[Len(challenge) + 1] = v
      /\ \A c \in 1..Len(challenge) : challenge'[c] = challenge[c]
  BY <1>2, <1>3, RowFacts, RowAdded
<1>7. Grown BY <1>3, <1>6, RowFacts DEF Grown, Ended
<1> QED BY <1>1, <1>3, <1>5, <1>6, <1>7 DEF v

(* ... or, like a verification, issues the first tokens. *)
LEMMA IssueInitialTokensDoes ==
    ASSUME Linked, NEW t \in Threads, IssueInitialTokens(t)
    PROVE  /\ call[t].op \in {"login", "verify"} /\ call[t].at = "issue" /\ Moves(t, "ok")
           /\ Grown /\ Len(token') = Len(token) + 1
           /\ session' = session /\ challenge' = challenge
           /\ token'[Len(token) + 1].sess = call[t].id
           /\ \A k \in 1..Len(token) : token'[k] = token[k]
           /\ gone' = gone /\ deviceRow' = deviceRow
<1> DEFINE v == [sess |-> call[t].id, status |-> "active", next |-> 0]
<1>1. call[t].op \in {"login", "verify"} /\ call[t].at = "issue" BY DEF IssueInitialTokens
<1>2. v \in Token /\ v.sess = call[t].id BY CallFacts DEF Token
<1>3. /\ token' = Append(token, v) /\ session' = session /\ challenge' = challenge
      /\ gone' = gone /\ deviceRow' = deviceRow /\ Goto(t, "ok")
  BY DEF IssueInitialTokens, InsertToken, deviceVars
<1>4. "ok" \in Ats BY DEF Ats
<1>5. Moves(t, "ok") BY <1>3, <1>4, GotoDoes
<1> HIDE DEF v
<1>6. /\ token' \in Seq(Token) /\ Len(token') = Len(token) + 1
      /\ token'[Len(token) + 1] = v
      /\ \A k \in 1..Len(token) : token'[k] = token[k]
  BY <1>2, <1>3, RowFacts, RowAdded
<1>7. Grown BY <1>3, <1>6, RowFacts DEF Grown, Ended
<1> QED BY <1>1, <1>2, <1>3, <1>5, <1>6, <1>7

(* A refresh replaces its token, if that is still active. *)
LEMMA RotateTokenAtomicDoes ==
    ASSUME Linked, NEW t \in Threads, RotateTokenAtomic(t)
    PROVE  /\ call[t].op = "refresh" /\ call[t].at = "rotate"
           /\ Grown /\ session' = session /\ challenge' = challenge
           /\ gone' = gone /\ deviceRow' = deviceRow
           /\ \/ token' = token /\ Ends(t)
              \/ /\ Moves(t, "stamp") /\ Len(token') = Len(token) + 1
                 /\ token[call[t].id].status = "active"
                 /\ token'[call[t].id].status = "rotated"
                 /\ token'[Len(token) + 1].sess = token[call[t].id].sess
                 /\ \A k \in 1..Len(token) : k # call[t].id => token'[k] = token[k]
<1> DEFINE k == call[t].id
           n == Len(token) + 1
           w == [token[k] EXCEPT !.status = "rotated", !.next = n]
           v == [sess |-> token[k].sess, status |-> "active", next |-> 0]
<1>1. call[t].op = "refresh" /\ call[t].at = "rotate" /\ k \in 1..Len(token)
  BY CallFacts DEF RotateTokenAtomic, At, InPlace
<1>2. /\ session' = session /\ challenge' = challenge
      /\ gone' = gone /\ deviceRow' = deviceRow
  BY DEF RotateTokenAtomic, deviceVars
<1>3. CASE UNCHANGED token /\ Leave(t)
  <2>1. Grown BY <1>2, <1>3, RowsKept
  <2> QED BY <1>1, <1>2, <1>3, <2>1, LeaveDoes
<1>4. CASE /\ Rotatable(k) /\ Goto(t, "stamp")
           /\ token' = Append([token EXCEPT ![k].status = "rotated", ![k].next = n],
                              [sess |-> token[k].sess, status |-> "active", next |-> 0])
  <2>1. token[k] \in Token /\ token[k].sess \in Nat /\ n \in Nat BY <1>1, RowFacts DEF Token
  <2>2. /\ w \in Token /\ w.status = "rotated" /\ w.sess = token[k].sess
        /\ v \in Token /\ v.sess = token[k].sess
    BY <2>1 DEF Token
  <2>3. token' = Append([token EXCEPT ![k] = w], v) BY <1>4
  <2> DEFINE s == [token EXCEPT ![k] = w]
  <2> HIDE DEF w, v
  <2>4. /\ s \in Seq(Token) /\ Len(s) = Len(token) /\ s[k] = w
        /\ \A j \in 1..Len(token) : j # k => s[j] = token[j]
    BY <1>1, <2>2, RowFacts, RowWritten
  <2>5. token' = Append(s, v) BY <2>3
  <2> HIDE DEF s
  <2>6. /\ token' \in Seq(Token) /\ Len(token') = Len(s) + 1
        /\ token'[Len(s) + 1] = v
        /\ \A j \in 1..Len(s) : token'[j] = s[j]
    BY <2>2, <2>4, <2>5, RowAdded
  <2>7. /\ Len(token') = Len(token) + 1 /\ token'[Len(token) + 1] = v /\ token'[k] = w
        /\ \A j \in 1..Len(token) : j # k => token'[j] = token[j]
    BY <1>1, <2>4, <2>6
  <2>8. Grown
    <3>1. \A j \in 1..Len(token) :
            /\ token'[j].sess = token[j].sess
            /\ token'[j].status = "active" => token[j].status = "active"
      BY <2>2, <2>7
    <3>2. Len(token) <= Len(token') BY <2>7, RowFacts
    <3> QED BY <1>2, <2>6, <3>1, <3>2, RowFacts DEF Grown, Ended
  <2>9. Moves(t, "stamp") BY <1>4, GotoDoes DEF Ats
  <2> QED BY <1>1, <1>2, <1>4, <2>2, <2>7, <2>8, <2>9 DEF Rotatable
<1> QED BY <1>1, <1>3, <1>4 DEF RotateTokenAtomic

(* A token shown again ends its session and the session's tokens. *)
LEMMA HandleTokenReuseDoes ==
    ASSUME Linked, NEW t \in Threads, HandleTokenReuse(t)
    PROVE  /\ call[t].op = "refresh" /\ call[t].at = "reuse" /\ Ends(t)
           /\ Grown /\ Level /\ challenge' = challenge
           /\ gone' = gone /\ deviceRow' = deviceRow
<1> DEFINE i == token[call[t].id].sess
           w == [session[i] EXCEPT !.status = "revoked"]
<1>1. call[t].op = "refresh" /\ call[t].at = "reuse" /\ i \in 1..Len(session)
  BY CallFacts, RowFacts DEF HandleTokenReuse, At, InPlace
<1>2. /\ challenge' = challenge /\ gone' = gone /\ deviceRow' = deviceRow
      /\ session' = [session EXCEPT ![i] = w] /\ Leave(t)
  BY DEF HandleTokenReuse, deviceVars
<1>3. w \in Session /\ w.dev = session[i].dev /\ w.level = session[i].level
      /\ w.status = "revoked"
  BY <1>1, RowFacts DEF Session
<1> HIDE DEF w
<1>4. /\ session' \in Seq(Session) /\ Len(session') = Len(session) /\ session'[i] = w
      /\ \A j \in 1..Len(session) : j # i => session'[j] = session[j]
  BY <1>1, <1>2, <1>3, RowFacts, RowWritten
<1>5. token' = [k \in 1..Len(token) |->
                  IF token[k].sess = i /\ token[k].status = "active"
                  THEN [token[k] EXCEPT !.status = "revoked"] ELSE token[k]]
  BY RowFacts DEF HandleTokenReuse
<1>6. \A k \in 1..Len(token) :
        LET v == [token[k] EXCEPT !.status = "revoked"]
        IN  v \in Token /\ v.sess = token[k].sess /\ v.status = "revoked"
  BY RowFacts DEF Token
<1> HIDE DEF i
<1>7. /\ token' \in [1..Len(token) -> Token]
      /\ \A k \in 1..Len(token) :
            /\ token'[k].sess = token[k].sess
            /\ token'[k].status = "active" => token[k].status = "active"
  BY <1>5, <1>6, RowFacts
<1>8. token' \in Seq(Token) /\ Len(token') = Len(token) BY <1>7, SameLength, RowFacts
<1>9. Grown /\ Level BY <1>1, <1>2, <1>3, <1>4, <1>7, <1>8, RowFacts DEF Grown, Level, Ended
<1> QED BY <1>1, <1>2, <1>9, LeaveDoes

(* A verification counts the attempt, ... *)
LEMMA CountAttemptDoes ==
    ASSUME Linked, NEW t \in Threads, CountAttempt(t)
    PROVE  /\ call[t].op = "verify" /\ call[t].at = "count"
           /\ Grown /\ Level /\ session' = session /\ token' = token
           /\ gone' = gone /\ deviceRow' = deviceRow
           /\ attempts' \in Seq(Nat) /\ Len(attempts') = Len(attempts)
           /\ Ends(t) \/ Turns(t, "code", call[t].id)
<1> DEFINE c == call[t].id
           n == attempts[c] + 1
<1>1. /\ call[t].op = "verify" /\ call[t].at = "count" /\ c \in 1..Len(challenge)
      /\ attempts \in Seq(Nat) /\ c \in 1..Len(attempts)
  BY CallFacts DEF CountAttempt, At, InPlace, Linked
<1>2. n \in Nat BY <1>1
<1>3. /\ session' = session /\ token' = token /\ gone' = gone /\ deviceRow' = deviceRow
      /\ attempts' = [attempts EXCEPT ![c] = n]
  BY DEF CountAttempt, deviceVars
<1>4. attempts' \in Seq(Nat) /\ Len(attempts') = Len(attempts)
  BY <1>1, <1>2, <1>3, RowWritten
<1>5. CASE FailChallenge(c) /\ Leave(t)
  <2>1. Grown /\ Level BY <1>1, <1>3, <1>5, FailChallengeDoes
  <2> QED BY <1>1, <1>3, <1>4, <1>5, <2>1, LeaveDoes
<1>6. CASE /\ call' = [call EXCEPT ![t].at = "code", ![t].n = n]
           /\ UNCHANGED <<challenge, calls>>
  <2> DEFINE r == [call[t] EXCEPT !.at = "code", !.n = n]
  <2>1. "code" \in Ats BY DEF Ats
  <2>2. call' = [call EXCEPT ![t] = r] BY <1>6
  <2> HIDE DEF n
  <2>3. /\ r \in CallType /\ r.op = call[t].op /\ r.at = "code" /\ r.dev = call[t].dev
        /\ r.id = call[t].id /\ r.late = call[t].late
    BY <1>2, <2>1, CallFacts DEF CallType
  <2> HIDE DEF r
  <2>4. Begins(t, r) BY <2>2, <2>3, SetDoes
  <2>5. Grown /\ Level BY <1>3, <1>6, RowsKept
  <2> QED BY <1>1, <1>3, <1>4, <2>3, <2>4, <2>5 DEF Begins, Turns
<1> QED BY <1>5, <1>6 DEF CountAttempt

(* ... a wrong code ends it, perhaps with its challenge, ... *)
LEMMA WrongFactorDoes ==
    ASSUME Linked, NEW t \in Threads, WrongFactor(t)
    PROVE  /\ call[t].op = "verify" /\ call[t].at = "code" /\ Ends(t)
           /\ Grown /\ Level /\ session' = session /\ token' = token
           /\ gone' = gone /\ deviceRow' = deviceRow /\ attempts' = attempts
<1>1. /\ call[t].op = "verify" /\ call[t].at = "code" /\ call[t].id \in 1..Len(challenge)
  BY CallFacts DEF WrongFactor, At, InPlace
<1>2. /\ session' = session /\ token' = token /\ gone' = gone /\ deviceRow' = deviceRow
      /\ attempts' = attempts /\ Leave(t)
      /\ FailChallenge(call[t].id) \/ challenge' = challenge
  BY DEF WrongFactor, deviceVars
<1>3. Grown /\ Level BY <1>1, <1>2, FailChallengeDoes, RowsKept
<1> QED BY <1>1, <1>2, <1>3, LeaveDoes

(* ... the right one lets it go on ... *)
LEMMA RightFactorDoes ==
    ASSUME Linked, NEW t \in Threads, RightFactor(t)
    PROVE  /\ call[t].op = "verify" /\ call[t].at = "code" /\ Moves(t, "complete")
           /\ Still /\ attempts' = attempts
  BY GotoDoes DEF RightFactor, At, Still, deviceVars, Ats

(* ... to complete its challenge, if that is still pending, ... *)
LEMMA CompleteChallengeDoes ==
    ASSUME Linked, NEW t \in Threads, CompleteChallenge(t)
    PROVE  /\ call[t].op = "verify" /\ call[t].at = "complete"
           /\ Grown /\ Level /\ session' = session /\ token' = token
           /\ gone' = gone /\ deviceRow' = deviceRow /\ attempts' = attempts
           /\ \/ challenge' = challenge /\ Ends(t)
              \/ /\ Moves(t, "promote") /\ challenge[call[t].id].status = "pending"
                 /\ challenge'[call[t].id].status = "completed"
                 /\ \A c \in 1..Len(challenge) : c # call[t].id => challenge'[c] = challenge[c]
<1> DEFINE c == call[t].id
           v == [challenge[c] EXCEPT !.status = "completed"]
<1>1. call[t].op = "verify" /\ call[t].at = "complete" /\ c \in 1..Len(challenge)
  BY CallFacts DEF CompleteChallenge, At, InPlace
<1>2. /\ session' = session /\ token' = token /\ gone' = gone /\ deviceRow' = deviceRow
      /\ attempts' = attempts
  BY DEF CompleteChallenge, deviceVars
<1>3. CASE UNCHANGED challenge /\ Leave(t)
  <2>1. Grown /\ Level BY <1>2, <1>3, RowsKept
  <2> QED BY <1>1, <1>2, <1>3, <2>1, LeaveDoes
<1>4. CASE /\ Completable(c) /\ Goto(t, "promote")
           /\ challenge' = [challenge EXCEPT ![c].status = IF @ = "pending" THEN "completed" ELSE @]
  <2>1. challenge[c].status = "pending" /\ challenge[c] \in Challenge
    BY <1>1, <1>4, RowFacts DEF Completable
  <2>2. challenge' = [challenge EXCEPT ![c] = v] BY <1>4, <2>1
  <2>3. v \in Challenge /\ v.sess = challenge[c].sess /\ v.status = "completed"
    BY <2>1 DEF Challenge
  <2> HIDE DEF v, c
  <2>4. /\ challenge' \in Seq(Challenge) /\ Len(challenge') = Len(challenge)
        /\ challenge'[c] = v
        /\ \A j \in 1..Len(challenge) : j # c => challenge'[j] = challenge[j]
    BY <1>1, <2>2, <2>3, RowFacts, RowWritten
  <2>5. Grown /\ Level
    <3>1. \A j \in 1..Len(challenge) :
            /\ challenge'[j].sess = challenge[j].sess
            /\ challenge[j].status = "completed" => challenge'[j].status = "completed"
            /\ challenge'[j].status = "pending" => challenge[j].status = "pending"
      BY <2>3, <2>4
    <3>2. /\ \A i \in 1..Len(session) : session'[i].dev = session[i].dev
          /\ \A i \in 1..Len(session) : Ended(i) => Ended(i)'
          /\ \A i \in 1..Len(session) : session'[i].level = "mfa" => session[i].level = "mfa"
      BY <1>2 DEF Ended
    <3>3. \A k \in 1..Len(token) :
            /\ token'[k].sess = token[k].sess
            /\ token'[k].status = "active" => token[k].status = "active"
      BY <1>2
    <3>4. /\ session' \in Seq(Session) /\ token' \in Seq(Token)
          /\ Len(session') = Len(session) /\ Len(token') = Len(token)
          /\ Len(session) \in Nat /\ Len(token) \in Nat /\ Len(challenge) \in Nat
      BY <1>2, RowFacts
    <3>5. Grown BY <2>4, <3>1, <3>2, <3>3, <3>4 DEF Grown
    <3> QED BY <2>4, <3>2, <3>4, <3>5 DEF Level
  <2>6. Moves(t, "promote") BY <1>4, GotoDoes DEF Ats
  <2> QED BY <1>1, <1>2, <2>1, <2>3, <2>4, <2>5, <2>6 DEF c
<1> QED BY <1>3, <1>4 DEF CompleteChallenge

(* ... raise the level of the session, if that is still active, ... *)
LEMMA PromoteSessionDoes ==
    ASSUME Linked, NEW t \in Threads, PromoteSession(t)
    PROVE  /\ call[t].op = "verify" /\ call[t].at = "promote"
           /\ Grown /\ Len(session') = Len(session) /\ token' = token /\ challenge' = challenge
           /\ gone' = gone /\ deviceRow' = deviceRow /\ attempts' = attempts
           /\ Ends(t) \/ Moves(t, "clear")
           /\ \A j \in 1..Len(session) :
                j # challenge[call[t].id].sess => session'[j] = session[j]
<1> DEFINE i == challenge[call[t].id].sess
           v == [session[i] EXCEPT !.level = "mfa"]
<1>1. call[t].op = "verify" /\ call[t].at = "promote" /\ i \in 1..Len(session)
  BY CallFacts, RowFacts DEF PromoteSession, At, InPlace
<1>2. /\ token' = token /\ challenge' = challenge /\ gone' = gone /\ deviceRow' = deviceRow
      /\ attempts' = attempts
  BY DEF PromoteSession, deviceVars
<1>3. CASE UNCHANGED session /\ Leave(t)
  <2>1. Grown BY <1>2, <1>3, RowsKept
  <2> QED BY <1>1, <1>2, <1>3, <2>1, LeaveDoes
<1>4. CASE session' = [session EXCEPT ![i].level = "mfa"] /\ Goto(t, "clear")
  <2>1. session' = [session EXCEPT ![i] = v] BY <1>4
  <2>2. v \in Session /\ v.dev = session[i].dev /\ v.status = session[i].status
    BY <1>1, RowFacts DEF Session
  <2> HIDE DEF v
  <2>3. /\ session' \in Seq(Session) /\ Len(session') = Len(session) /\ session'[i] = v
        /\ \A j \in 1..Len(session) : j # i => session'[j] = session[j]
    BY <1>1, <2>1, <2>2, RowFacts, RowWritten
  <2> HIDE DEF i
  <2>4. Grown BY <1>2, <2>2, <2>3, RowFacts DEF Grown, Ended
  <2>5. Moves(t, "clear") BY <1>4, GotoDoes DEF Ats
  <2> QED BY <1>1, <1>2, <2>3, <2>4, <2>5 DEF i
<1> QED BY <1>3, <1>4 DEF PromoteSession, UpdateAuthenticationLevel

(* ... and clear the attempts. *)
LEMMA ClearAttemptsDoes ==
    ASSUME Linked, NEW t \in Threads, ClearAttempts(t)
    PROVE  /\ call[t].op = "verify" /\ call[t].at = "clear" /\ Still
           /\ attempts' \in Seq(Nat) /\ Len(attempts') = Len(attempts)
           /\ Ends(t) \/ Turns(t, "device", challenge[call[t].id].sess)
<1> DEFINE i == challenge[call[t].id].sess
<1>1. /\ call[t].op = "verify" /\ call[t].at = "clear" /\ i \in 1..Len(session)
      /\ call[t].id \in 1..Len(attempts) /\ attempts \in Seq(Nat)
  BY CallFacts, RowFacts DEF ClearAttempts, At, InPlace, Linked
<1>2. Still /\ attempts' = [attempts EXCEPT ![call[t].id] = 0]
  BY DEF ClearAttempts, deviceVars, Still
<1>3. attempts' \in Seq(Nat) /\ Len(attempts') = Len(attempts) BY <1>1, <1>2, RowWritten
<1>4. CASE Leave(t) BY <1>1, <1>2, <1>3, <1>4, LeaveDoes
<1>5. CASE call' = [call EXCEPT ![t].at = "device", ![t].id = i]
  <2>1. "device" \in Ats /\ i \in Nat BY <1>1 DEF Ats
  <2> HIDE DEF i
  <2>2. Turns(t, "device", i) BY <1>5, <2>1, TurnsDoes
  <2> QED BY <1>1, <1>2, <1>3, <2>2 DEF i
<1> QED BY <1>4, <1>5 DEF ClearAttempts

(* A revocation writes the device row, ... *)
LEMMA RevokeDeviceRowDoes ==
    ASSUME Linked, NEW t \in Threads, RevokeDeviceRow(t)
    PROVE  /\ call[t].op = "revoke" /\ call[t].at = "device" /\ Moves(t, "sessions")
           /\ session' = session /\ token' = token /\ challenge' = challenge
           /\ attempts' = attempts /\ gone' = gone
           /\ deviceRow' = [deviceRow EXCEPT ![call[t].dev] = "revoked"]
  BY GotoDoes DEF RevokeDeviceRow, RevokeRow, At, sessionVars, Ats

(* ... the sessions of the device, unless that fails, ... *)
LEMMA RevokeAllDeviceSessionsDoes ==
    ASSUME Linked, NEW t \in Threads, RevokeAllDeviceSessions(t)
    PROVE  /\ call[t].op = "revoke" /\ call[t].at = "sessions" /\ Moves(t, "keys")
           /\ Grown /\ Level /\ token' = token /\ challenge' = challenge
           /\ attempts' = attempts /\ gone' = gone /\ deviceRow' = deviceRow
<1>1. /\ call[t].op = "revoke" /\ call[t].at = "sessions" /\ Goto(t, "keys")
      /\ token' = token /\ challenge' = challenge
      /\ attempts' = attempts /\ gone' = gone /\ deviceRow' = deviceRow
  BY DEF RevokeAllDeviceSessions, At, deviceVars
<1>2. Moves(t, "keys") BY <1>1, GotoDoes DEF Ats
<1>3. CASE session' = session BY <1>1, <1>2, <1>3, RowsKept
<1>4. CASE RevokeThese({i \in DOMAIN session : session[i].dev = call[t].dev})
  BY <1>1, <1>2, <1>4, RevokeTheseDoes
<1> QED BY <1>3, <1>4 DEF RevokeAllDeviceSessions

(* ... the keys, ... *)
LEMMA RevokeAllDeviceKeysDoes ==
    ASSUME Linked, NEW t \in Threads, RevokeAllDeviceKeys(t)
    PROVE  /\ call[t].op = "revoke" /\ call[t].at = "keys" /\ Moves(t, "challenge")
           /\ Still /\ attempts' = attempts
  BY GotoDoes DEF RevokeAllDeviceKeys, At, sessionVars, Still, Ats

(* ... and at its end the device is gone. *)
LEMMA EvictChallengeDoes ==
    ASSUME Linked, NEW t \in Threads, EvictChallenge(t)
    PROVE  /\ call[t].op = "revoke" /\ call[t].at = "challenge" /\ Ends(t)
           /\ session' = session /\ token' = token /\ challenge' = challenge
           /\ attempts' = attempts /\ deviceRow' = deviceRow
           /\ gone' = gone \cup {call[t].dev}
  BY LeaveDoes DEF EvictChallenge, At, sessionVars

-----------------------------------------------------------------------------
(***************************************************************************)
(* The steps of the calls about devices                                    *)
(***************************************************************************)

\* the rows of the devices, of their keys and of their pairings
Directory ==
    /\ deviceRow \in [Devices -> DeviceStatus]
    /\ keyRow \in Seq(Key) /\ rowLock \subseteq 1..Len(keyRow)
    /\ pairing \in [Devices -> Pairing]
    /\ complete \subseteq Devices /\ gone \subseteq Devices

\* nothing about the devices changes
Frozen == /\ deviceRow' = deviceRow /\ keyRow' = keyRow /\ rowLock' = rowLock
          /\ pairing' = pairing /\ complete' = complete /\ gone' = gone

(* The key rows. *)
LEMMA KeyFacts ==
    ASSUME Directory
    PROVE  /\ keyRow \in Seq(Key) /\ Len(keyRow) \in Nat /\ DOMAIN keyRow = 1..Len(keyRow)
           /\ \A k \in 1..Len(keyRow) :
                /\ keyRow[k] \in Key /\ keyRow[k].device \in Devices
                /\ keyRow[k].kind \in KeyKind /\ keyRow[k].status \in KeyStatus
                /\ keyRow[k].given \in Nat
           /\ \A k \in rowLock : k \in 1..Len(keyRow)
<1>1. keyRow \in Seq(Key) /\ rowLock \subseteq 1..Len(keyRow) BY DEF Directory
<1>2. \A k \in 1..Len(keyRow) : keyRow[k] \in Key BY <1>1
<1>3. Len(keyRow) \in Nat /\ DOMAIN keyRow = 1..Len(keyRow) BY <1>1
<1>4. \A k \in 1..Len(keyRow) :
        /\ keyRow[k].device \in Devices
        /\ keyRow[k].kind \in KeyKind /\ keyRow[k].status \in KeyStatus
        /\ keyRow[k].given \in Nat
  BY <1>2 DEF Key
<1> QED BY <1>1, <1>2, <1>3, <1>4

(* A set of numbers that is not empty has a least element ... *)
LEMMA LeastOf ==
    ASSUME NEW S, S \subseteq Nat, S # {}
    PROVE  \E m \in S : \A j \in S : m <= j
<1> DEFINE R == OpToRel(<, Nat)
<1>1. R = {p \in Nat \X Nat : p[1] < p[2]} BY DEF OpToRel
<1>2. PICK m \in S : \A j \in S : ~ (<<j, m>> \in R) BY WFMin, NatLessThanWellFounded
<1> HIDE DEF R
<1>3. ASSUME NEW j \in S PROVE m <= j
  <2>1. m \in Nat /\ j \in Nat /\ ~ (<<j, m>> \in R) BY <1>2
  <2>2. ~ (j < m) BY <1>1, <2>1
  <2> QED BY <2>1, <2>2
<1> QED BY <1>3

(* ... and a greatest one when it is bounded. *)
LEMMA GreatestOf ==
    ASSUME NEW n \in Nat, NEW S, S \subseteq 1..n, S # {}
    PROVE  \E m \in S : \A j \in S : j <= m
<1> DEFINE T == {i \in Nat : \A j \in S : j <= i}
<1>1. T \subseteq Nat /\ n \in T OBVIOUS
<1>2. PICK m \in T : \A i \in T : m <= i BY <1>1, LeastOf
<1>3. m \in Nat /\ \A j \in S : j \in Nat /\ j >= 1 /\ j <= m BY <1>2
<1>4. m \in S
  <2> SUFFICES ASSUME m \notin S PROVE FALSE OBVIOUS
  <2>1. \A j \in S : j <= m - 1 BY <1>3
  <2>2. m >= 1
    <3>1. PICK j \in S : TRUE OBVIOUS
    <3> QED BY <1>3, <3>1
  <2>3. m - 1 \in T BY <1>3, <2>1, <2>2
  <2> QED BY <1>2, <1>3, <2>3
<1> QED BY <1>3, <1>4

(* The lookups find an active key when there is one. *)
LEMMA NewestFound ==
    ASSUME Directory, NEW d, NEW kind
    PROVE  /\ Newest(d, kind) \in Nat
           /\ Newest(d, kind) = 0 <=> ActiveKeys(d, kind) = {}
           /\ Newest(d, kind) # 0 => Newest(d, kind) \in ActiveKeys(d, kind)
<1>1. ActiveKeys(d, kind) \subseteq 1..Len(keyRow) BY KeyFacts DEF ActiveKeys
<1>2. ASSUME ActiveKeys(d, kind) # {} PROVE Newest(d, kind) \in ActiveKeys(d, kind)
  <2>1. \E m \in ActiveKeys(d, kind) : \A j \in ActiveKeys(d, kind) : j <= m
    BY <1>1, <1>2, KeyFacts, GreatestOf
  <2> QED BY <1>2, <2>1 DEF Newest
<1>3. ActiveKeys(d, kind) = {} => Newest(d, kind) = 0 BY DEF Newest
<1>4. \A k \in ActiveKeys(d, kind) : k \in Nat /\ k # 0 BY <1>1, KeyFacts
<1> QED BY <1>2, <1>3, <1>4

(* A claim locks an active one-time prekey that nobody else has locked. *)
LEMMA LockFound ==
    ASSUME Directory, NEW d
    PROVE  /\ LockOneTimePrekey(d) \in Nat
           /\ LockOneTimePrekey(d) # 0 =>
                LockOneTimePrekey(d) \in ActiveKeys(d, "onetime") \ rowLock
<1> DEFINE free == ActiveKeys(d, "onetime") \ rowLock
<1>1. free \subseteq Nat BY KeyFacts DEF ActiveKeys
<1>2. CASE free = {} BY <1>2 DEF LockOneTimePrekey
<1>3. CASE free # {}
  <2>1. \E m \in free : \A j \in free : m <= j BY <1>1, <1>3, LeastOf
  <2>2. LockOneTimePrekey(d) \in free BY <1>3, <2>1 DEF LockOneTimePrekey
  <2> QED BY <1>1, <2>2
<1> QED BY <1>2, <1>3

(* The answer of a call goes out. *)
LEMMA ReturnDoes ==
    ASSUME Linked, NEW t \in Threads, Return(t)
    PROVE  Frozen /\ Ends(t) /\ call[t].at = "ok"
  BY LeaveDoes DEF Return, Frozen, deviceVars

(* An enrolment begins with the device row, ... *)
LEMMA RegisterDeviceDoes ==
    ASSUME Linked, Directory, NEW t \in Threads, NEW d \in Devices, NEW m \in BOOLEAN,
           RegisterDevice(t, d, m)
    PROVE  /\ \E id \in Nat : Opens(t, "register", "identity", d, id, FALSE)
           /\ deviceRow[d] = "none"
           /\ deviceRow' \in [Devices -> DeviceStatus] /\ deviceRow'[d] \in {"active", "pending"}
           /\ \A e \in Devices : e # d => deviceRow'[e] = deviceRow[e]
           /\ keyRow' = keyRow /\ rowLock' = rowLock /\ pairing' = pairing
           /\ complete' = complete /\ gone' = gone
<1> DEFINE id == IF m THEN 1 ELSE 0
           st == IF m THEN "active" ELSE "pending"
<1>1. "register" \in Ops /\ "identity" \in Ats /\ id \in Nat /\ FALSE \in BOOLEAN
  BY DEF Ops, Ats
<1>2. /\ Free(t) /\ Start(t, Call("register", "identity", d, id, FALSE))
      /\ deviceRow[d] = "none" /\ deviceRow' = [deviceRow EXCEPT ![d] = st]
      /\ keyRow' = keyRow /\ rowLock' = rowLock /\ pairing' = pairing
      /\ complete' = complete /\ gone' = gone
  BY DEF RegisterDevice, InsertDevice
<1>3. st \in DeviceStatus /\ st \in {"active", "pending"} BY DEF DeviceStatus
<1> HIDE DEF id, st
<1>4. Opens(t, "register", "identity", d, id, FALSE) BY <1>1, <1>2, OpensDoes
<1> QED BY <1>1, <1>2, <1>3, <1>4 DEF Directory

(* A new key row. *)
LEMMA NewKeyFields ==
    ASSUME NEW d \in Devices, NEW kind \in KeyKind
    PROVE  /\ NewKey(d, kind) \in Key /\ NewKey(d, kind).device = d
           /\ NewKey(d, kind).kind = kind /\ NewKey(d, kind).status = "active"
           /\ NewKey(d, kind).given = 0
  BY DEF NewKey, Key, KeyStatus

\* one key of device d is stored
Stores(d, kind) ==
    /\ keyRow' \in Seq(Key) /\ Len(keyRow') = Len(keyRow) + 1
    /\ \A k \in 1..Len(keyRow) : keyRow'[k] = keyRow[k]
    /\ keyRow'[Len(keyRow) + 1] = NewKey(d, kind)

(* StorePublicKey stores one. *)
LEMMA StorePublicKeyDoes ==
    ASSUME Directory, NEW d \in Devices, NEW kind \in KeyKind, StorePublicKey(d, kind)
    PROVE  Stores(d, kind)
<1> DEFINE v == NewKey(d, kind)
<1>1. v \in Key /\ keyRow' = Append(keyRow, v) BY NewKeyFields DEF StorePublicKey
<1> HIDE DEF v
<1> QED BY <1>1, KeyFacts, RowAdded DEF Stores, v

(* ... stores the identity key, ... *)
LEMMA StoreIdentityKeyDoes ==
    ASSUME Linked, Directory, NEW t \in Threads, StoreIdentityKey(t)
    PROVE  /\ call[t].op = "register" /\ call[t].at = "identity" /\ call[t].dev \in Devices
           /\ Moves(t, "signed") /\ Stores(call[t].dev, "identity")
           /\ deviceRow' = deviceRow /\ rowLock' = rowLock /\ pairing' = pairing
           /\ complete' = complete /\ gone' = gone
<1>1. call[t].op = "register" /\ call[t].at = "identity" /\ call[t].dev \in Devices
  BY CallFacts DEF StoreIdentityKey, At, InPlace
<1>2. "signed" \in Ats /\ "identity" \in KeyKind BY DEF Ats, KeyKind
<1> QED BY <1>1, <1>2, GotoDoes, StorePublicKeyDoes DEF StoreIdentityKey

(* ... the signed prekey, ... *)
LEMMA StoreSignedPrekeyDoes ==
    ASSUME Linked, Directory, NEW t \in Threads, StoreSignedPrekey(t)
    PROVE  /\ call[t].op = "register" /\ call[t].at = "signed" /\ call[t].dev \in Devices
           /\ Moves(t, "onetime") /\ Stores(call[t].dev, "signed")
           /\ deviceRow' = deviceRow /\ rowLock' = rowLock /\ pairing' = pairing
           /\ complete' = complete /\ gone' = gone
<1>1. call[t].op = "register" /\ call[t].at = "signed" /\ call[t].dev \in Devices
  BY CallFacts DEF StoreSignedPrekey, At, InPlace
<1>2. "onetime" \in Ats /\ "signed" \in KeyKind BY DEF Ats, KeyKind
<1> QED BY <1>1, <1>2, GotoDoes, StorePublicKeyDoes DEF StoreSignedPrekey

(* ... and the one-time prekeys one by one, ... *)
LEMMA StoreOneTimePrekeyDoes ==
    ASSUME Linked, Directory, NEW t \in Threads, StoreOneTimePrekey(t)
    PROVE  /\ call[t].op = "register" /\ call[t].at = "onetime" /\ call[t].dev \in Devices
           /\ Turns(t, "onetime", call[t].id) /\ Stores(call[t].dev, "onetime")
           /\ deviceRow' = deviceRow /\ rowLock' = rowLock /\ pairing' = pairing
           /\ complete' = complete /\ gone' = gone
<1> DEFINE n == call[t].n + 1
           c == [call[t] EXCEPT !.n = n]
<1>1. call[t].op = "register" /\ call[t].at = "onetime" /\ call[t].dev \in Devices
  BY CallFacts DEF StoreOneTimePrekey, At, InPlace
<1>2. "onetime" \in KeyKind /\ n \in Nat BY CallFacts DEF KeyKind
<1>3. call' = [call EXCEPT ![t] = c] BY DEF StoreOneTimePrekey
<1> HIDE DEF n
<1>4. /\ c \in CallType /\ c.op = call[t].op /\ c.at = call[t].at /\ c.dev = call[t].dev
      /\ c.id = call[t].id /\ c.late = call[t].late
  BY <1>2, CallFacts DEF CallType
<1> HIDE DEF c
<1>5. Begins(t, c) BY <1>3, <1>4, SetDoes
<1> QED BY <1>1, <1>2, <1>4, <1>5, StorePublicKeyDoes
         DEF StoreOneTimePrekey, Begins, Turns

(* ... until it is answered. *)
LEMMA EnrolmentEndsDoes ==
    ASSUME Linked, Directory, NEW t \in Threads, EnrolmentEnds(t)
    PROVE  /\ call[t].op = "register" /\ call[t].at = "onetime" /\ call[t].dev \in Devices
           /\ Ends(t) /\ complete' = complete \cup {call[t].dev}
           /\ \/ pairing' = pairing
              \/ pairing' = [pairing EXCEPT ![call[t].dev] = FreshPairing]
           /\ deviceRow' = deviceRow /\ keyRow' = keyRow /\ rowLock' = rowLock /\ gone' = gone
<1>1. call[t].op = "register" /\ call[t].at = "onetime" /\ call[t].dev \in Devices
  BY CallFacts DEF EnrolmentEnds, At, InPlace
<1> QED BY <1>1, LeaveDoes DEF EnrolmentEnds

(* Pairing and authorization begin, ... *)
LEMMA InitiateDevicePairingDoes ==
    ASSUME Linked, NEW t \in Threads, NEW d \in Devices, InitiateDevicePairing(t, d)
    PROVE  Frozen /\ Opens(t, "pair", "challenge", d, 0, FALSE)
<1>1. "pair" \in Ops /\ "challenge" \in Ats /\ 0 \in Nat /\ FALSE \in BOOLEAN BY DEF Ops, Ats
<1>2. Free(t) /\ Start(t, Call("pair", "challenge", d, 0, FALSE)) /\ Frozen
  BY DEF InitiateDevicePairing, Frozen, deviceVars
<1> QED BY <1>1, <1>2, OpensDoes

(* ... the one for a device that is pending, ... *)
LEMMA AuthorizeDeviceDoes ==
    ASSUME Linked, NEW t \in Threads, NEW d \in Devices, AuthorizeDevice(t, d)
    PROVE  Frozen /\ Opens(t, "authorize", "challenge", d, 0, FALSE)
<1>1. "authorize" \in Ops /\ "challenge" \in Ats /\ 0 \in Nat /\ FALSE \in BOOLEAN
  BY DEF Ops, Ats
<1>2. Free(t) /\ Start(t, Call("authorize", "challenge", d, 0, FALSE)) /\ Frozen
  BY DEF AuthorizeDevice, Frozen, deviceVars
<1> QED BY <1>1, <1>2, OpensDoes

(* ... a challenge is issued, ... *)
LEMMA IssueChallengeDoes ==
    ASSUME Linked, NEW t \in Threads, IssueChallenge(t)
    PROVE  /\ call[t].op = "pair" /\ call[t].dev \in Devices /\ Ends(t)
           /\ pairing' = [pairing EXCEPT ![call[t].dev] = FreshPairing]
           /\ deviceRow' = deviceRow /\ keyRow' = keyRow /\ rowLock' = rowLock
           /\ complete' = complete /\ gone' = gone
<1>1. call[t].op = "pair" /\ call[t].dev \in Devices
  BY CallFacts DEF IssueChallenge, At, InPlace
<1> QED BY <1>1, LeaveDoes DEF IssueChallenge

\* a device that was pending, and no other, may have become active
Authorizes(d) ==
    /\ deviceRow' \in [Devices -> DeviceStatus]
    /\ \A e \in Devices : e # d => deviceRow'[e] = deviceRow[e]
    /\ \/ deviceRow'[d] = deviceRow[d]
       \/ deviceRow[d] = "pending" /\ deviceRow'[d] = "active"

(* AuthorizeRow authorizes. *)
LEMMA AuthorizeRowDoes ==
    ASSUME Directory, NEW d \in Devices, AuthorizeRow(d)
    PROVE  Authorizes(d)
  BY DEF Directory, AuthorizeRow, Authorizes, DeviceStatus

(* ... the device is authorized by a step up ... *)
LEMMA AuthorizeByStepUpDoes ==
    ASSUME Linked, Directory, NEW t \in Threads, AuthorizeByStepUp(t)
    PROVE  /\ call[t].op = "authorize" /\ call[t].dev \in Devices /\ Ends(t)
           /\ Authorizes(call[t].dev)
           /\ \/ pairing' = pairing
              \/ pairing' = [pairing EXCEPT ![call[t].dev].state = "consumed"]
           /\ keyRow' = keyRow /\ rowLock' = rowLock
           /\ complete' = complete /\ gone' = gone
<1>1. call[t].op = "authorize" /\ call[t].dev \in Devices
  BY CallFacts DEF AuthorizeByStepUp, At, InPlace
<1> QED BY <1>1, LeaveDoes, AuthorizeRowDoes DEF AuthorizeByStepUp

(* ... or by the right code ... *)
LEMMA AuthorizeByCodeDoes ==
    ASSUME Linked, Directory, NEW t \in Threads, AuthorizeByCode(t)
    PROVE  /\ call[t].op = "authorize" /\ call[t].dev \in Devices /\ Ends(t)
           /\ Authorizes(call[t].dev)
           /\ pairing' = [pairing EXCEPT ![call[t].dev].state = "consumed"]
           /\ keyRow' = keyRow /\ rowLock' = rowLock
           /\ complete' = complete /\ gone' = gone
<1>1. call[t].op = "authorize" /\ call[t].dev \in Devices
  BY CallFacts DEF AuthorizeByCode, At, InPlace
<1> QED BY <1>1, LeaveDoes, AuthorizeRowDoes DEF AuthorizeByCode

(* ... and a wrong one is counted. *)
LEMMA WrongCodeDoes ==
    ASSUME Linked, NEW t \in Threads, WrongCode(t)
    PROVE  /\ call[t].op = "authorize" /\ call[t].dev \in Devices /\ Ends(t)
           /\ pairing[call[t].dev].state = "open"
           /\ pairing' = [pairing EXCEPT
                ![call[t].dev].failed = @ + 1,
                ![call[t].dev].state =
                    IF pairing[call[t].dev].failed + 1 >= MaxFailedPairingAttempts
                    THEN "locked" ELSE "open"]
           /\ deviceRow' = deviceRow /\ keyRow' = keyRow /\ rowLock' = rowLock
           /\ complete' = complete /\ gone' = gone
<1>1. call[t].op = "authorize" /\ call[t].dev \in Devices
  BY CallFacts DEF WrongCode, At, InPlace
<1> QED BY <1>1, LeaveDoes DEF WrongCode

(* An update of the prekeys begins on a device that is enrolled and active, *)
LEMMA UpdateCryptoPrekeysDoes ==
    ASSUME Linked, NEW t \in Threads, NEW d \in Devices, UpdateCryptoPrekeys(t, d)
    PROVE  /\ Frozen /\ d \in complete /\ deviceRow[d] = "active"
           /\ \E at \in {"current", "replenish"} : Opens(t, "update", at, d, 0, Late(d))
<1>1. /\ "update" \in Ops /\ {"current", "replenish"} \subseteq Ats /\ 0 \in Nat
      /\ Late(d) \in BOOLEAN
  BY DEF Ops, Ats, Late
<1>2. Frozen BY DEF UpdateCryptoPrekeys, Frozen, deviceVars
<1>3. Free(t) /\ d \in complete /\ deviceRow[d] = "active" BY DEF UpdateCryptoPrekeys
<1>4. PICK at \in {"current", "replenish"} : Start(t, Call("update", at, d, 0, Late(d)))
  BY DEF UpdateCryptoPrekeys
<1>5. Opens(t, "update", at, d, 0, Late(d)) BY <1>1, <1>3, <1>4, OpensDoes
<1> QED BY <1>2, <1>3, <1>5

(* looks up the current signed prekey, ... *)
LEMMA FindCurrentPrekeyDoes ==
    ASSUME Linked, Directory, NEW t \in Threads, FindCurrentPrekey(t)
    PROVE  /\ call[t].op = "update" /\ call[t].dev \in Devices /\ Frozen
           /\ \/ Ends(t)
              \/ Turns(t, "rotate", Newest(call[t].dev, "signed"))
<1>1. call[t].op = "update" /\ call[t].dev \in Devices
  BY CallFacts DEF FindCurrentPrekey, At, InPlace
<1>2. Frozen BY DEF FindCurrentPrekey, Frozen, deviceVars
<1>3. "rotate" \in Ats /\ Newest(call[t].dev, "signed") \in Nat BY NewestFound DEF Ats
<1>4. CASE Leave(t) BY <1>1, <1>2, <1>4, LeaveDoes
<1>5. CASE call' = [call EXCEPT ![t].at = "rotate", ![t].id = Newest(call[t].dev, "signed")]
  BY <1>1, <1>2, <1>3, <1>5, TurnsDoes
<1> QED BY <1>4, <1>5 DEF FindCurrentPrekey, FindActiveSignedPrekey

\* a signed prekey of device d takes the place of an active row
Replaces(old, d) ==
    /\ keyRow' \in Seq(Key) /\ Len(keyRow') = Len(keyRow) + 1
    /\ old \in 1..Len(keyRow) /\ keyRow[old].status = "active"
    /\ keyRow'[old] = [keyRow[old] EXCEPT !.status = "replaced"]
    /\ \A k \in 1..Len(keyRow) : k # old => keyRow'[k] = keyRow[k]
    /\ keyRow'[Len(keyRow) + 1] = NewKey(d, "signed")

(* ReplaceRow replaces. *)
LEMMA ReplaceRowDoes ==
    ASSUME Directory, NEW d \in Devices, NEW old \in 1..Len(keyRow), ReplaceRow(old, d)
    PROVE  Replaces(old, d)
<1> DEFINE w == [keyRow[old] EXCEPT !.status = "replaced"]
           v == NewKey(d, "signed")
           s == [keyRow EXCEPT ![old] = w]
<1>1. w \in Key BY KeyFacts DEF Key, KeyStatus
<1>2. v \in Key BY NewKeyFields DEF KeyKind
<1>3. keyRow' = Append(s, v) /\ keyRow[old].status = "active" BY DEF ReplaceRow
<1> HIDE DEF w, v
<1>4. /\ s \in Seq(Key) /\ Len(s) = Len(keyRow) /\ s[old] = w
      /\ \A j \in 1..Len(keyRow) : j # old => s[j] = keyRow[j]
  BY <1>1, KeyFacts, RowWritten
<1> HIDE DEF s
<1>5. /\ keyRow' \in Seq(Key) /\ Len(keyRow') = Len(s) + 1 /\ keyRow'[Len(s) + 1] = v
      /\ \A j \in 1..Len(s) : keyRow'[j] = s[j]
  BY <1>2, <1>3, <1>4, RowAdded
<1> QED BY <1>3, <1>4, <1>5 DEF Replaces, w, v

(* ... replaces it, ... *)
LEMMA ReplaceKeyDoes ==
    ASSUME Linked, Directory, NEW t \in Threads, ReplaceKey(t),
           call[t].id # 0 => call[t].id \in 1..Len(keyRow)
    PROVE  /\ call[t].op = "update" /\ call[t].at = "rotate" /\ call[t].dev \in Devices
           /\ Ends(t) \/ Moves(t, "replenish")
           /\ \/ keyRow' = keyRow
              \/ call[t].id = 0 /\ Stores(call[t].dev, "signed")
              \/ call[t].id # 0 /\ Replaces(call[t].id, call[t].dev)
           /\ deviceRow' = deviceRow /\ rowLock' = rowLock /\ pairing' = pairing
           /\ complete' = complete /\ gone' = gone
<1>1. call[t].op = "update" /\ call[t].at = "rotate" /\ call[t].dev \in Devices
  BY CallFacts DEF ReplaceKey, At, InPlace
<1>2. "replenish" \in Ats /\ "signed" \in KeyKind BY DEF Ats, KeyKind
<1>3. Ends(t) \/ Moves(t, "replenish") BY <1>2, LeaveDoes, GotoDoes DEF ReplaceKey
<1>4. /\ deviceRow' = deviceRow /\ rowLock' = rowLock /\ pairing' = pairing
      /\ complete' = complete /\ gone' = gone
  BY DEF ReplaceKey
<1>5. \/ keyRow' = keyRow
      \/ call[t].id = 0 /\ Stores(call[t].dev, "signed")
      \/ call[t].id # 0 /\ Replaces(call[t].id, call[t].dev)
  BY <1>1, <1>2, StorePublicKeyDoes, ReplaceRowDoes DEF ReplaceKey
<1> QED BY <1>1, <1>3, <1>4, <1>5

(* ... and uploads one-time prekeys. *)
LEMMA ReplenishOneTimePrekeysDoes ==
    ASSUME Linked, Directory, NEW t \in Threads, ReplenishOneTimePrekeys(t)
    PROVE  /\ call[t].op = "update" /\ call[t].dev \in Devices /\ Ends(t)
           /\ keyRow' \in Seq(Key) /\ Len(keyRow) <= Len(keyRow')
           /\ \A k \in 1..Len(keyRow) : keyRow'[k] = keyRow[k]
           /\ \A k \in 1..Len(keyRow') :
                k \notin 1..Len(keyRow) => keyRow'[k] = NewKey(call[t].dev, "onetime")
           /\ deviceRow' = deviceRow /\ rowLock' = rowLock /\ pairing' = pairing
           /\ complete' = complete /\ gone' = gone
<1> DEFINE v == NewKey(call[t].dev, "onetime")
           new == [i \in 1..Batch |-> v]
<1>1. call[t].op = "update" /\ call[t].dev \in Devices
  BY CallFacts DEF ReplenishOneTimePrekeys, At, InPlace
<1>2. v \in Key BY <1>1, NewKeyFields DEF KeyKind
<1>3. /\ keyRow' = keyRow \o new /\ Leave(t)
      /\ deviceRow' = deviceRow /\ rowLock' = rowLock /\ pairing' = pairing
      /\ complete' = complete /\ gone' = gone
  BY DEF ReplenishOneTimePrekeys, StoreOneTimePrekeys
<1> HIDE DEF v
<1>4. Batch \in Nat BY AuthDevicesAssumption
<1>5. new \in Seq(Key) /\ Len(new) = Batch /\ \A i \in 1..Batch : new[i] = v BY <1>2, <1>4
<1> HIDE DEF new
<1>6. /\ keyRow' \in Seq(Key) /\ Len(keyRow') = Len(keyRow) + Batch
      /\ \A k \in 1..Len(keyRow) : keyRow'[k] = keyRow[k]
      /\ \A k \in 1..Len(keyRow') : k \notin 1..Len(keyRow) => keyRow'[k] = v
  <2>1. keyRow \in Seq(Key) /\ Len(keyRow) \in Nat BY KeyFacts
  <2>2. /\ keyRow' \in Seq(Key) /\ Len(keyRow') = Len(keyRow) + Batch
        /\ \A k \in 1..Len(keyRow) : keyRow'[k] = keyRow[k]
    BY <1>3, <1>5, <2>1, RowsJoined
  <2>3. ASSUME NEW k \in 1..Len(keyRow'), k \notin 1..Len(keyRow) PROVE keyRow'[k] = v
    <3>1. k - Len(keyRow) \in 1..Batch BY <1>4, <2>1, <2>2, <2>3
    <3>2. keyRow'[k] = new[k - Len(keyRow)] BY <1>3, <1>5, <2>1, <2>2, <2>3, <3>1, RowsJoined
    <3> QED BY <1>5, <3>1, <3>2
  <2> QED BY <2>2, <2>3
<1> QED BY <1>1, <1>3, <1>4, <1>6, LeaveDoes, KeyFacts DEF v

(* A claim and a directory lookup begin on active devices, ... *)
LEMMA ClaimBegins ==
    ASSUME Linked, NEW t \in Threads, Free(t), NEW op \in {"claim", "directory"},
           NEW late \in BOOLEAN, NEW todo \in SUBSET Devices,
           Start(t, [Call(op, "lookup", None, 0, late) EXCEPT !.todo = todo])
    PROVE  Opens(t, op, "lookup", None, 0, late)
<1> DEFINE b == Call(op, "lookup", None, 0, late)
           c == [b EXCEPT !.todo = todo]
<1>1. op \in Ops /\ "lookup" \in Ats BY DEF Ops, Ats
<1>2. /\ b \in CallType /\ b.op = op /\ b.at = "lookup" /\ b.dev = None /\ b.id = 0
      /\ b.late = late
  BY <1>1, CallFields
<1>3. Start(t, c) OBVIOUS
<1> HIDE DEF b
<1>4. /\ c \in CallType /\ c.op = op /\ c.at = "lookup" /\ c.dev = None /\ c.id = 0
      /\ c.late = late
  BY <1>2 DEF CallType
<1> HIDE DEF c
<1>5. Begins(t, c) BY <1>3, <1>4, StartDoes
<1> QED BY <1>4, <1>5 DEF Begins, Opens, Free

(* ... a claim on one ... *)
LEMMA ClaimPrekeyBundleDoes ==
    ASSUME Linked, NEW t \in Threads, NEW d \in Devices, ClaimPrekeyBundle(t, d)
    PROVE  /\ Frozen /\ deviceRow[d] = "active"
           /\ Opens(t, "claim", "lookup", None, 0, Late(d))
<1>1. /\ Free(t) /\ deviceRow[d] = "active"
      /\ Start(t, [Call("claim", "lookup", None, 0, Late(d)) EXCEPT !.todo = {d}])
  BY DEF ClaimPrekeyBundle
<1>2. Late(d) \in BOOLEAN /\ {d} \in SUBSET Devices BY DEF Late
<1>3. Frozen BY DEF ClaimPrekeyBundle, Frozen, deviceVars
<1> QED BY <1>1, <1>2, <1>3, ClaimBegins

(* ... and a lookup on all of them. *)
LEMMA GetDeviceCryptoDirectoryDoes ==
    ASSUME Linked, NEW t \in Threads, GetDeviceCryptoDirectory(t)
    PROVE  /\ Frozen
           /\ \E late \in BOOLEAN :
                /\ Opens(t, "directory", "lookup", None, 0, late)
                /\ late => \E d \in Devices : deviceRow[d] = "active" /\ Late(d)
<1> DEFINE late == \E d \in ListActive : Late(d)
<1>1. Free(t) /\ Start(t, [Call("directory", "lookup", None, 0, late) EXCEPT !.todo = ListActive])
  BY DEF GetDeviceCryptoDirectory
<1>2. late \in BOOLEAN /\ ListActive \in SUBSET Devices
      /\ (late => \E d \in Devices : deviceRow[d] = "active" /\ Late(d))
  BY DEF ListActive
<1>3. Frozen BY DEF GetDeviceCryptoDirectory, Frozen, deviceVars
<1> HIDE DEF late
<1>4. Opens(t, "directory", "lookup", None, 0, late) BY <1>1, <1>2, ClaimBegins
<1> QED BY <1>2, <1>3, <1>4

(* A device is visited. *)
LEMMA VisitedFields ==
    ASSUME NEW c \in CallType, NEW d
    PROVE  /\ Visited(c, d) \in CallType /\ Visited(c, d).op = c.op
           /\ Visited(c, d).at \in {"ok", "lookup"} /\ Visited(c, d).dev = c.dev
           /\ Visited(c, d).id = c.id /\ Visited(c, d).late = c.late
<1> DEFINE p == IF c.todo = {d} THEN "ok" ELSE "lookup"
           s == c.todo \ {d}
<1>1. p \in {"ok", "lookup"} /\ p \in Ats /\ s \in SUBSET Devices BY DEF CallType, Ats
<1>2. Visited(c, d) = [c EXCEPT !.todo = s, !.at = p] BY DEF Visited
<1> HIDE DEF p, s
<1> QED BY <1>1, <1>2 DEF CallType

\* a call visits a device without taking a prekey, or locks one of its prekeys
Visits(t) ==
    \/ \E at \in {"ok", "lookup"} : Turns(t, at, call[t].id) /\ rowLock' = rowLock
    \/ \E d \in Devices, k \in 1..Len(keyRow) :
          /\ Turns(t, "mark", k) /\ rowLock' = rowLock \cup {k}
          /\ k \in ActiveKeys(d, "onetime") \ rowLock

(* A call whose record is that of a visited device. *)
LEMMA VisitedTurns ==
    ASSUME Linked, NEW t \in Threads, NEW d, call' = [call EXCEPT ![t] = Visited(@, d)]
    PROVE  \E at \in {"ok", "lookup"} : Turns(t, at, call[t].id)
<1> DEFINE c == Visited(call[t], d)
<1>1. /\ c \in CallType /\ c.op = call[t].op /\ c.at \in {"ok", "lookup"}
      /\ c.dev = call[t].dev /\ c.id = call[t].id /\ c.late = call[t].late
  BY CallFacts, VisitedFields
<1>2. call' = [call EXCEPT ![t] = c] OBVIOUS
<1> HIDE DEF c
<1>3. Begins(t, c) BY <1>1, <1>2, SetDoes
<1>4. Turns(t, c.at, call[t].id) BY <1>1, <1>3 DEF Begins, Turns
<1> QED BY <1>1, <1>4

(* Looking up a bundle visits the device. *)
LEMMA LookUpBundleDoes ==
    ASSUME Linked, Directory, NEW t \in Threads, NEW d \in Devices, LookUpBundle(t, d)
    PROVE  Visits(t)
<1> DEFINE k == LockOneTimePrekey(d)
           v == Visited(call[t], d)
           c == [v EXCEPT !.at = "mark", !.id = k]
<1>1. k \in Nat /\ (k # 0 => k \in ActiveKeys(d, "onetime") \ rowLock) BY LockFound
<1>2. CASE k = 0
  <2>1. call' = [call EXCEPT ![t] = Visited(@, d)] /\ rowLock' = rowLock
    BY <1>2 DEF LookUpBundle
  <2> QED BY <2>1, VisitedTurns DEF Visits
<1>3. CASE k # 0
  <2>1. rowLock' = rowLock \cup {k} BY <1>3 DEF LookUpBundle
  <2>2. call' = [call EXCEPT ![t] = c] BY <1>3 DEF LookUpBundle
  <2>3. /\ v \in CallType /\ v.op = call[t].op
        /\ v.dev = call[t].dev /\ v.late = call[t].late
    BY CallFacts, VisitedFields
  <2>4. "mark" \in Ats BY DEF Ats
  <2> HIDE DEF v, k
  <2>5. /\ c \in CallType /\ c.op = call[t].op /\ c.at = "mark" /\ c.dev = call[t].dev
        /\ c.id = k /\ c.late = call[t].late
    BY <1>1, <2>3, <2>4 DEF CallType
  <2> HIDE DEF c
  <2>6. Begins(t, c) BY <2>2, <2>5, SetDoes
  <2>7. Turns(t, "mark", k) BY <2>5, <2>6 DEF Begins, Turns
  <2>8. k \in 1..Len(keyRow) BY <1>1, <1>3, KeyFacts DEF ActiveKeys
  <2> QED BY <1>1, <1>3, <2>1, <2>7, <2>8 DEF Visits
<1> QED BY <1>2, <1>3

(* The two kinds of lookup. *)
LEMMA LooksUpDoes ==
    ASSUME Linked, Directory, NEW t \in Threads, ClaimLooksUp(t) \/ DirectoryLooksUp(t)
    PROVE  /\ call[t].op \in {"claim", "directory"} /\ call[t].at = "lookup"
           /\ Visits(t) \/ (Ends(t) /\ rowLock' = rowLock)
           /\ deviceRow' = deviceRow /\ keyRow' = keyRow /\ pairing' = pairing
           /\ complete' = complete /\ gone' = gone
<1>1. /\ call[t].op \in {"claim", "directory"} /\ call[t].at = "lookup"
      /\ deviceRow' = deviceRow /\ keyRow' = keyRow /\ pairing' = pairing
      /\ complete' = complete /\ gone' = gone
  BY DEF ClaimLooksUp, DirectoryLooksUp, At
<1>2. PICK d \in call[t].todo :
        \/ LookUpBundle(t, d)
        \/ Leave(t) /\ rowLock' = rowLock
        \/ call' = [call EXCEPT ![t] = Visited(@, d)] /\ rowLock' = rowLock
  BY DEF ClaimLooksUp, DirectoryLooksUp
<1>3. d \in Devices BY <1>2, CallFacts
<1>4. CASE LookUpBundle(t, d) BY <1>1, <1>3, <1>4, LookUpBundleDoes
<1>5. CASE Leave(t) /\ rowLock' = rowLock BY <1>1, <1>5, LeaveDoes
<1>6. CASE call' = [call EXCEPT ![t] = Visited(@, d)] /\ rowLock' = rowLock
  <2>1. Visits(t) BY <1>6, VisitedTurns DEF Visits
  <2> QED BY <1>1, <2>1
<1> QED BY <1>2, <1>4, <1>5, <1>6

(* The locked prekey is marked as claimed. *)
LEMMA MarkPrekeyClaimedDoes ==
    ASSUME Linked, Directory, NEW t \in Threads, MarkPrekeyClaimed(t),
           call[t].id \in 1..Len(keyRow)
    PROVE  /\ call[t].op \in {"claim", "directory"} /\ call[t].at = "mark"
           /\ \E at \in {"ok", "lookup"} : Moves(t, at)
           /\ keyRow' \in Seq(Key) /\ Len(keyRow') = Len(keyRow)
           /\ \A j \in 1..Len(keyRow) : j # call[t].id => keyRow'[j] = keyRow[j]
           /\ keyRow'[call[t].id].status = "claimed"
           /\ keyRow'[call[t].id].given = keyRow[call[t].id].given + 1
           /\ keyRow'[call[t].id].device = keyRow[call[t].id].device
           /\ keyRow'[call[t].id].kind = keyRow[call[t].id].kind
           /\ rowLock' = rowLock \ {call[t].id}
           /\ deviceRow' = deviceRow /\ pairing' = pairing
           /\ complete' = complete /\ gone' = gone
<1> DEFINE k == call[t].id
           g == keyRow[k].given + 1
           w == [keyRow[k] EXCEPT !.status = "claimed", !.given = g]
           at == IF call[t].todo = {} THEN "ok" ELSE "lookup"
<1>1. /\ call[t].op \in {"claim", "directory"} /\ call[t].at = "mark"
      /\ keyRow' = [keyRow EXCEPT ![k] = w] /\ rowLock' = rowLock \ {k} /\ Goto(t, at)
      /\ deviceRow' = deviceRow /\ pairing' = pairing
      /\ complete' = complete /\ gone' = gone
  BY DEF MarkPrekeyClaimed
<1>2. keyRow[k] \in Key /\ g \in Nat BY KeyFacts
<1> HIDE DEF g
<1>3. /\ w \in Key /\ w.status = "claimed" /\ w.given = g /\ w.kind = keyRow[k].kind
      /\ w.device = keyRow[k].device
  BY <1>2 DEF Key, KeyStatus
<1> HIDE DEF w
<1>4. /\ keyRow' \in Seq(Key) /\ Len(keyRow') = Len(keyRow) /\ keyRow'[k] = w
      /\ \A j \in 1..Len(keyRow) : j # k => keyRow'[j] = keyRow[j]
  BY <1>1, <1>3, KeyFacts, RowWritten
<1>5. at \in Ats /\ at \in {"ok", "lookup"} BY DEF Ats
<1>6. Moves(t, at) BY <1>1, <1>5, GotoDoes
<1> QED BY <1>1, <1>3, <1>4, <1>5, <1>6 DEF g

(* A call throws. *)
LEMMA CallThrowsDoes ==
    ASSUME Linked, NEW t \in Threads, CallThrows(t)
    PROVE  /\ Ends(t)
           /\ rowLock' = rowLock \ (IF call[t].at = "mark" THEN {call[t].id} ELSE {})
           /\ deviceRow' = deviceRow /\ keyRow' = keyRow /\ pairing' = pairing
           /\ complete' = complete /\ gone' = gone
  BY LeaveDoes DEF CallThrows

-----------------------------------------------------------------------------
(***************************************************************************)
(* The steps outside the calls                                             *)
(***************************************************************************)

\* the steps of Next that no thread takes
Outside ==
    \/ \E d \in Devices : PairingLapses(d) /\ UNCHANGED sessionVars
    \/ \E i \in DOMAIN session : RevokeSession(i)
    \/ RevokeAllUserSessions \/ ExpireStaleSessions \/ TimePasses
    \/ InitiateMfaEnrollment \/ ConfirmMfaEnrollment \/ DisableMfa
    \/ Restart

\* calls go on, or none is left
Halts == call' = [t \in Threads |-> Idle]

(* Stale sessions expire. *)
LEMMA ExpireStaleSessionsDoes ==
    ASSUME Linked, ExpireStaleSessions
    PROVE  Grown /\ Level
<1> DEFINE which == {i \in DOMAIN session : session[i].status = "active" /\ Passed("session", i)}
<1>1. session' = [i \in DOMAIN session |->
                    IF i \in which THEN [session[i] EXCEPT !.status = "expired"]
                    ELSE session[i]]
  BY DEF ExpireStaleSessions
<1>2. token' = token /\ challenge' = challenge BY DEF ExpireStaleSessions
<1> HIDE DEF which
<1> QED BY <1>1, <1>2, SessionsEnd

(* These steps add no row, and a restart ends all calls. *)
LEMMA OutsideDoes ==
    ASSUME Linked, Outside
    PROVE  /\ Grown /\ Level /\ token' = token /\ challenge' = challenge
           /\ gone' = gone /\ deviceRow' = deviceRow /\ keyRow' = keyRow /\ complete' = complete
           /\ call' = call \/ (Halts /\ rowLock' = {})
           /\ attempts' \in Seq(Nat) /\ Len(attempts') = Len(attempts)
<1>0. attempts \in Seq(Nat) BY DEF Linked
<1>1. ASSUME NEW d \in Devices, PairingLapses(d), UNCHANGED sessionVars PROVE
        /\ session' = session /\ token' = token /\ challenge' = challenge
        /\ gone' = gone /\ deviceRow' = deviceRow /\ keyRow' = keyRow /\ complete' = complete
        /\ call' = call /\ attempts' = attempts
  BY <1>1 DEF PairingLapses, sessionVars
<1>2. ASSUME NEW i \in DOMAIN session, RevokeSession(i) PROVE
        /\ token' = token /\ challenge' = challenge /\ RevokeThese({i})
        /\ gone' = gone /\ deviceRow' = deviceRow /\ keyRow' = keyRow /\ complete' = complete
        /\ call' = call /\ attempts' = attempts
  BY <1>2 DEF RevokeSession, RevokeOne, deviceVars
<1>3. ASSUME RevokeAllUserSessions PROVE
        /\ token' = token /\ challenge' = challenge /\ RevokeThese(DOMAIN session)
        /\ gone' = gone /\ deviceRow' = deviceRow /\ keyRow' = keyRow /\ complete' = complete
        /\ call' = call /\ attempts' = attempts
  BY <1>3 DEF RevokeAllUserSessions, deviceVars
<1>4. ASSUME ExpireStaleSessions PROVE
        /\ token' = token /\ challenge' = challenge
        /\ gone' = gone /\ deviceRow' = deviceRow /\ keyRow' = keyRow /\ complete' = complete
        /\ call' = call /\ attempts' = attempts
  BY <1>4 DEF ExpireStaleSessions, deviceVars
<1>5. ASSUME TimePasses PROVE
        /\ session' = session /\ token' = token /\ challenge' = challenge
        /\ gone' = gone /\ deviceRow' = deviceRow /\ keyRow' = keyRow /\ complete' = complete
        /\ call' = call /\ attempts' = attempts
  BY <1>5, Zenon DEF TimePasses, deviceVars
<1>6. ASSUME InitiateMfaEnrollment \/ ConfirmMfaEnrollment \/ DisableMfa PROVE
        /\ session' = session /\ token' = token /\ challenge' = challenge
        /\ gone' = gone /\ deviceRow' = deviceRow /\ keyRow' = keyRow /\ complete' = complete
        /\ call' = call /\ attempts' = attempts
  BY <1>6 DEF InitiateMfaEnrollment, ConfirmMfaEnrollment, DisableMfa, deviceVars
<1>7. ASSUME Restart PROVE
        /\ session' = session /\ token' = token /\ challenge' = challenge
        /\ gone' = gone /\ deviceRow' = deviceRow /\ keyRow' = keyRow /\ complete' = complete
        /\ Halts /\ rowLock' = {} /\ attempts' \in Seq(Nat) /\ Len(attempts') = Len(attempts)
  <2>1. attempts' \in [1..Len(attempts) -> Nat] /\ Len(attempts) \in Nat
    BY <1>0, <1>7 DEF Restart
  <2>2. attempts' \in Seq(Nat) /\ Len(attempts') = Len(attempts) BY <2>1, SameLength
  <2> QED BY <1>7, <2>2 DEF Restart, Halts
<1> QED BY <1>0, <1>1, <1>2, <1>3, <1>4, <1>5, <1>6, <1>7, RowsKept, RevokeTheseDoes,
            ExpireStaleSessionsDoes DEF Outside

-----------------------------------------------------------------------------
(***************************************************************************)
(* A step of a device call, seen from the sessions                         *)
(***************************************************************************)

\* the thread is not in a call about sessions afterwards, and no revocation
\* is undone
Aside(t) ==
    /\ call' \in [Threads -> CallType] /\ Others(t)
    /\ call'[t].op \notin {"login", "validate", "refresh", "verify", "revoke"}
    /\ InPlace(call[t])'
    /\ call'[t].late => \/ call[t].late /\ call'[t].op = call[t].op
                        \/ \E d \in gone : deviceRow[d] = "active"
    /\ gone' = gone /\ deviceRow' \in [Devices -> DeviceStatus]
    /\ \A d \in Devices : deviceRow[d] = "revoked" => deviceRow'[d] = "revoked"

(* The call begins, ... *)
LEMMA AsideOpens ==
    ASSUME NEW t \in Threads, NEW at, NEW dev \in Devices \cup {None}, NEW id, NEW late,
           NEW op \in {"register", "pair", "authorize", "update", "claim", "directory"},
           Opens(t, op, at, dev, id, late),
           op \notin {"claim", "directory"} => dev \in Devices,
           late => \E d \in gone : deviceRow[d] = "active",
           gone' = gone, deviceRow' \in [Devices -> DeviceStatus],
           \A d \in Devices : deviceRow[d] = "revoked" => deviceRow'[d] = "revoked"
    PROVE  Aside(t)
  BY DEF Opens, Aside, InPlace

(* ... goes on ... *)
LEMMA AsideGoes ==
    ASSUME Linked, NEW t \in Threads, NEW at, NEW id,
           call[t].op \in {"register", "pair", "authorize", "update", "claim", "directory"},
           Moves(t, at) \/ Turns(t, at, id),
           gone' = gone, deviceRow' \in [Devices -> DeviceStatus],
           \A d \in Devices : deviceRow[d] = "revoked" => deviceRow'[d] = "revoked"
    PROVE  Aside(t)
<1>1. InPlace(call[t]) BY CallFacts
<1> QED BY <1>1 DEF Moves, Turns, Aside, InPlace

(* ... or ends. *)
LEMMA AsideEnds ==
    ASSUME NEW t \in Threads, Ends(t),
           gone' = gone, deviceRow' \in [Devices -> DeviceStatus],
           \A d \in Devices : deviceRow[d] = "revoked" => deviceRow'[d] = "revoked"
    PROVE  Aside(t)
<1>1. /\ call' \in [Threads -> CallType] /\ Others(t)
      /\ call'[t].op = "idle" /\ ~ call'[t].late
  BY IdleFields, Zenon DEF Ends, Begins
<1>2. InPlace(call[t])' BY <1>1 DEF InPlace
<1> QED BY <1>1, <1>2 DEF Aside

(* Every step of a device call is such a step. *)
LEMMA AsideDoes ==
    ASSUME Linked, Directory, NEW t \in Threads, DeviceStep(t)
    PROVE  Aside(t)
<1>0. deviceRow \in [Devices -> DeviceStatus] BY DEF Directory
<1>1. CASE Return(t) BY <1>0, <1>1, ReturnDoes, AsideEnds DEF Frozen
<1>2. ASSUME NEW d \in Devices, NEW m \in BOOLEAN, RegisterDevice(t, d, m) PROVE Aside(t)
  <2>1. PICK id \in Nat : Opens(t, "register", "identity", d, id, FALSE)
    BY <1>2, RegisterDeviceDoes
  <2>2. /\ gone' = gone /\ deviceRow' \in [Devices -> DeviceStatus]
        /\ \A e \in Devices : deviceRow[e] = "revoked" => deviceRow'[e] = "revoked"
    BY <1>2, RegisterDeviceDoes
  <2> QED BY <2>1, <2>2, AsideOpens
<1>3. ASSUME NEW d \in Devices, InitiateDevicePairing(t, d) PROVE Aside(t)
  BY <1>0, <1>3, InitiateDevicePairingDoes, AsideOpens DEF Frozen
<1>4. ASSUME NEW d \in Devices, AuthorizeDevice(t, d) PROVE Aside(t)
  BY <1>0, <1>4, AuthorizeDeviceDoes, AsideOpens DEF Frozen
<1>5. ASSUME NEW d \in Devices, UpdateCryptoPrekeys(t, d) PROVE Aside(t)
  <2>1. PICK at \in {"current", "replenish"} : Opens(t, "update", at, d, 0, Late(d))
    BY <1>5, UpdateCryptoPrekeysDoes
  <2>2. Frozen /\ (Late(d) => \E e \in gone : deviceRow[e] = "active")
    BY <1>5, UpdateCryptoPrekeysDoes DEF Late
  <2> QED BY <1>0, <2>1, <2>2, AsideOpens DEF Frozen
<1>6. ASSUME NEW d \in Devices, ClaimPrekeyBundle(t, d) PROVE Aside(t)
  <2>1. Opens(t, "claim", "lookup", None, 0, Late(d)) BY <1>6, ClaimPrekeyBundleDoes
  <2>2. Frozen /\ (Late(d) => \E e \in gone : deviceRow[e] = "active")
    BY <1>6, ClaimPrekeyBundleDoes DEF Late
  <2> QED BY <1>0, <2>1, <2>2, AsideOpens DEF Frozen
<1>7. CASE GetDeviceCryptoDirectory(t)
  <2>1. PICK late \in BOOLEAN :
          /\ Opens(t, "directory", "lookup", None, 0, late)
          /\ late => \E d \in Devices : deviceRow[d] = "active" /\ Late(d)
    BY <1>7, GetDeviceCryptoDirectoryDoes
  <2>2. Frozen /\ (late => \E e \in gone : deviceRow[e] = "active")
    BY <1>7, <2>1, GetDeviceCryptoDirectoryDoes DEF Late
  <2> QED BY <1>0, <2>1, <2>2, AsideOpens DEF Frozen
<1>8. CASE StoreIdentityKey(t) BY <1>0, <1>8, StoreIdentityKeyDoes, AsideGoes
<1>9. CASE StoreSignedPrekey(t) BY <1>0, <1>9, StoreSignedPrekeyDoes, AsideGoes
<1>10. CASE StoreOneTimePrekey(t) BY <1>0, <1>10, StoreOneTimePrekeyDoes, AsideGoes
<1>11. CASE EnrolmentEnds(t) BY <1>0, <1>11, EnrolmentEndsDoes, AsideEnds
<1>12. CASE IssueChallenge(t) BY <1>0, <1>12, IssueChallengeDoes, AsideEnds
<1>13. CASE AuthorizeByStepUp(t) BY <1>13, AuthorizeByStepUpDoes, AsideEnds DEF Authorizes
<1>14. CASE AuthorizeByCode(t) BY <1>14, AuthorizeByCodeDoes, AsideEnds DEF Authorizes
<1>15. CASE WrongCode(t) BY <1>0, <1>15, WrongCodeDoes, AsideEnds
<1>16. CASE FindCurrentPrekey(t)
  BY <1>0, <1>16, FindCurrentPrekeyDoes, AsideEnds, AsideGoes DEF Frozen
<1>17. CASE ReplaceKey(t)
  <2>1. /\ call[t].op = "update" /\ deviceRow' = deviceRow /\ gone' = gone
        /\ Goto(t, "replenish") \/ Leave(t)
    BY <1>17 DEF ReplaceKey, At
  <2>0. "replenish" \in Ats BY DEF Ats
  <2>2. Moves(t, "replenish") \/ Ends(t) BY <2>0, <2>1, GotoDoes, LeaveDoes
  <2> QED BY <1>0, <2>1, <2>2, AsideEnds, AsideGoes
<1>18. CASE ReplenishOneTimePrekeys(t) BY <1>0, <1>18, ReplenishOneTimePrekeysDoes, AsideEnds
<1>19. CASE ClaimLooksUp(t) \/ DirectoryLooksUp(t)
  <2>1. /\ call[t].op \in {"claim", "directory"} /\ deviceRow' = deviceRow /\ gone' = gone
        /\ Visits(t) \/ Ends(t)
    BY <1>19, LooksUpDoes
  <2>2. CASE Ends(t) BY <1>0, <2>1, <2>2, AsideEnds
  <2>3. CASE Visits(t)
    <3>1. \E at, id : Turns(t, at, id) BY <2>3 DEF Visits
    <3> QED BY <1>0, <2>1, <3>1, AsideGoes
  <2> QED BY <2>1, <2>2, <2>3
<1>20. CASE MarkPrekeyClaimed(t)
  <2> DEFINE at == IF call[t].todo = {} THEN "ok" ELSE "lookup"
  <2>1. /\ call[t].op \in {"claim", "directory"} /\ deviceRow' = deviceRow /\ gone' = gone
        /\ Goto(t, at)
    BY <1>20 DEF MarkPrekeyClaimed
  <2>2. at \in Ats BY DEF Ats
  <2> HIDE DEF at
  <2>3. Moves(t, at) BY <2>1, <2>2, GotoDoes
  <2> QED BY <1>0, <2>1, <2>3, AsideGoes
<1>21. CASE CallThrows(t) BY <1>0, <1>21, CallThrowsDoes, AsideEnds
<1> QED BY <1>1, <1>2, <1>3, <1>4, <1>5, <1>6, <1>7, <1>8, <1>9, <1>10, <1>11, <1>12,
            <1>13, <1>14, <1>15, <1>16, <1>17, <1>18, <1>19, <1>20, <1>21 DEF DeviceStep

-----------------------------------------------------------------------------
(***************************************************************************)
(* Everything a row or a call refers to exists                             *)
(***************************************************************************)

(* What an unchanged call refers to stays, ... *)
LEMMA InPlaceKept ==
    ASSUME Linked, Grown, NEW u \in Threads, call'[u] = call[u]
    PROVE  InPlace(call[u])'
<1>1. InPlace(call[u]) /\ call[u].id \in Nat BY CallFacts
<1>2. /\ \A i \in 1..Len(session) : i \in 1..Len(session')
      /\ \A i \in 1..Len(token) : i \in 1..Len(token')
      /\ \A i \in 1..Len(challenge) : i \in 1..Len(challenge')
  BY RowFacts DEF Grown
<1> QED BY <1>1, <1>2 DEF InPlace

(* ... a call that ended refers to nothing, ... *)
LEMMA InPlaceIdle ==
    ASSUME NEW u, call'[u] = Idle
    PROVE  InPlace(call[u])'
<1>1. call'[u].op = "idle" BY IdleFields
<1> QED BY <1>1 DEF InPlace

(* ... and a call that goes on refers to what it referred to before. *)
LEMMA InPlaceMoved ==
    ASSUME Linked, Grown, NEW t \in Threads, NEW at,
           Moves(t, at) \/ Turns(t, at, call[t].id),
           call[t].op = "login" =>
             /\ at \in {"create", "stamp", "factor", "challenge", "issue", "ok"}
             /\ at \in {"stamp", "factor", "challenge", "issue"} =>
                  call[t].at \in {"stamp", "factor", "challenge", "issue"},
           call[t].op = "verify" =>
             /\ at \in {"count", "code", "complete", "promote", "clear"} =>
                  call[t].at \in {"count", "code", "complete", "promote", "clear"}
             /\ at \in {"device", "issue"} => call[t].at \in {"device", "issue"}
    PROVE  InPlace(call[t])'
<1>1. InPlace(call[t]) /\ call[t].id \in Nat BY CallFacts
<1>2. /\ \A i \in 1..Len(session) : i \in 1..Len(session')
      /\ \A i \in 1..Len(token) : i \in 1..Len(token')
      /\ \A i \in 1..Len(challenge) : i \in 1..Len(challenge')
  BY RowFacts DEF Grown
<1>3. /\ call'[t].op = call[t].op /\ call'[t].at = at /\ call'[t].dev = call[t].dev
      /\ call'[t].id = call[t].id
  BY DEF Moves, Turns
<1> QED BY <1>1, <1>2, <1>3 DEF InPlace

\* rows that are new refer to sessions
NewRows ==
    /\ \A k \in 1..Len(token') : k \notin 1..Len(token) => token'[k].sess \in 1..Len(session')
    /\ \A c \in 1..Len(challenge') :
          c \notin 1..Len(challenge) => challenge'[c].sess \in 1..Len(session')

(* No new rows. *)
LEMMA NoNewRows ==
    ASSUME Len(token') = Len(token), Len(challenge') = Len(challenge)
    PROVE  NewRows
  BY DEF NewRows

(* One step. *)
LEMMA LinkedStep ==
    ASSUME Linked, Grown, NewRows,
           attempts' \in Seq(Nat), Len(attempts') = Len(challenge'),
           call' \in [Threads -> CallType], \A u \in Threads : InPlace(call[u])'
    PROVE  Linked'
<1>1. session' \in Seq(Session) /\ token' \in Seq(Token) /\ challenge' \in Seq(Challenge)
  BY DEF Grown
<1>2. \A i \in 1..Len(session) : i \in 1..Len(session') BY RowFacts DEF Grown
<1>3. \A k \in 1..Len(token') : token'[k].sess \in 1..Len(session')
  BY <1>2, RowFacts DEF Grown, NewRows
<1>4. \A c \in 1..Len(challenge') : challenge'[c].sess \in 1..Len(session')
  BY <1>2, RowFacts DEF Grown, NewRows
<1> QED BY <1>1, <1>3, <1>4 DEF Linked

(* A step of one thread. *)
LEMMA LinkedThread ==
    ASSUME Linked, Grown, NewRows, NEW t \in Threads,
           attempts' \in Seq(Nat), Len(attempts') = Len(challenge'),
           call' \in [Threads -> CallType], Others(t), InPlace(call[t])'
    PROVE  Linked'
<1>1. ASSUME NEW u \in Threads PROVE InPlace(call[u])'
  <2>1. CASE u = t BY <2>1
  <2>2. CASE u # t BY <2>2, InPlaceKept DEF Others
  <2> QED BY <2>1, <2>2
<1> QED BY <1>1, LinkedStep

(* The attempts are kept in step with the challenges. *)
LEMMA AttemptsKept ==
    ASSUME Linked, NEW t \in Threads, SessionStep(t)
    PROVE  attempts' \in Seq(Nat) /\ Len(attempts') = Len(challenge')
<1>0. attempts \in Seq(Nat) /\ Len(attempts) = Len(challenge) BY DEF Linked
<1>1. ASSUME NEW d, Authenticate(t, d) \/ RevokeDevice(t, d)
      PROVE  attempts' = attempts /\ challenge' = challenge
  BY <1>1 DEF Authenticate, RevokeDevice, sessionVars
<1>2. ASSUME \/ CreateSession(t) \/ StampDevice(t) \/ IsMfaEnabled(t)
             \/ IssueInitialTokens(t) \/ ValidateDevice(t)
      PROVE  attempts' = attempts /\ challenge' = challenge
  BY <1>2, Zenon DEF CreateSession, StampDevice, IsMfaEnabled, IssueInitialTokens,
                     ValidateDevice, sessionVars
<1>3. ASSUME NEW i, ValidateSession(t, i) \/ RefreshSession(t, i)
      PROVE  attempts' = attempts /\ challenge' = challenge
  BY <1>3, Zenon DEF ValidateSession, RefreshSession, sessionVars
<1>4. ASSUME \/ RefreshReadsDevice(t) \/ RefreshReadsSession(t) \/ RotateTokenAtomic(t)
             \/ RefreshStamps(t) \/ HandleTokenReuse(t)
      PROVE  attempts' = attempts /\ challenge' = challenge
  BY <1>4 DEF RefreshReadsDevice, RefreshReadsSession, RotateTokenAtomic, RefreshStamps,
              HandleTokenReuse, sessionVars
<1>5. ASSUME \/ RightFactor(t) \/ PromoteSession(t) \/ VerifyReadsDevice(t)
             \/ RevokeDeviceRow(t) \/ RevokeAllDeviceSessions(t) \/ RevokeAllDeviceKeys(t)
             \/ EvictChallenge(t)
      PROVE  attempts' = attempts /\ challenge' = challenge
  BY <1>5 DEF RightFactor, PromoteSession, VerifyReadsDevice, RevokeDeviceRow,
              RevokeAllDeviceSessions, RevokeAllDeviceKeys, EvictChallenge, sessionVars
<1>6. ASSUME NEW c \in DOMAIN challenge, VerifyMfaChallenge(t, c)
      PROVE  attempts' = attempts /\ Len(challenge') = Len(challenge)
  <2>1. attempts' = attempts BY <1>6 DEF VerifyMfaChallenge
  <2> QED BY <1>6, <2>1, VerifyMfaChallengeDoes DEF Level
<1>7. CASE CreateChallenge(t)
  <2>1. attempts' = Append(attempts, 0) /\ Len(challenge') = Len(challenge) + 1
    BY <1>7, CreateChallengeDoes
  <2> QED BY <1>0, <2>1, RowAdded
<1>8. CASE CountAttempt(t) BY <1>0, <1>8, CountAttemptDoes DEF Level
<1>9. CASE WrongFactor(t) BY <1>0, <1>9, WrongFactorDoes DEF Level
<1>10. CASE CompleteChallenge(t) BY <1>0, <1>10, CompleteChallengeDoes DEF Level
<1>11. CASE ClearAttempts(t) BY <1>0, <1>11, ClearAttemptsDoes DEF Still
<1> QED BY <1>0, <1>1, <1>2, <1>3, <1>4, <1>5, <1>6, <1>7, <1>8, <1>9, <1>10, <1>11
         DEF SessionStep

\* rows are kept, and so is what the calls refer to
Follows(t) ==
    /\ Grown /\ NewRows
    /\ call' \in [Threads -> CallType] /\ Others(t) /\ InPlace(call[t])'

\* t does not get the right to issue tokens
Demoted(t) == \A i : /\ ByLogin(t, i)' => ByLogin(t, i)
                     /\ ByVerify(t, i)' => ByVerify(t, i)

\* no row is added, no level raised, and t gets no right to issue tokens
Quiet(t) == Level /\ Demoted(t)

(* A call ends, ... *)
LEMMA QuietEnds ==
    ASSUME Linked, NEW t \in Threads, Ends(t), Grown, Level
    PROVE  Follows(t) /\ Quiet(t)
<1>1. /\ call' \in [Threads -> CallType] /\ Others(t) /\ call'[t] = Idle
      /\ call'[t].op = "idle"
  BY IdleFields, Zenon DEF Ends, Begins
<1>2. InPlace(call[t])' BY <1>1, InPlaceIdle
<1>3. Demoted(t) BY <1>1 DEF Demoted, ByLogin, ByVerify
<1>4. NewRows BY NoNewRows DEF Level
<1> QED BY <1>1, <1>2, <1>3, <1>4 DEF Follows, Quiet

(* ... begins, ... *)
LEMMA QuietOpens ==
    ASSUME Linked, NEW t \in Threads, Grown, Level, NEW d \in Devices, NEW at, NEW id, NEW late,
           NEW op, Opens(t, op, at, d, id, late),
           \/ op = "login" /\ at = "create"
           \/ op = "validate"
           \/ op = "refresh" /\ id \in 1..Len(token)
           \/ op = "verify" /\ at = "count" /\ id \in 1..Len(challenge)
           \/ op = "revoke"
    PROVE  Follows(t) /\ Quiet(t)
<1>1. /\ call' \in [Threads -> CallType] /\ Others(t)
      /\ call'[t].op = op /\ call'[t].at = at /\ call'[t].dev = d /\ call'[t].id = id
  BY DEF Opens
<1>2. Len(token') = Len(token) /\ Len(challenge') = Len(challenge) BY DEF Level
<1>3. InPlace(call[t])' BY <1>1, <1>2 DEF InPlace
<1>4. Demoted(t) BY <1>1 DEF Demoted, ByLogin, ByVerify
<1> QED BY <1>1, <1>2, <1>3, <1>4, NoNewRows DEF Follows, Quiet

(* ... or goes on. *)
LEMMA QuietMoves ==
    ASSUME Linked, NEW t \in Threads, Grown, Level, NEW at,
           Moves(t, at) \/ Turns(t, at, call[t].id),
           call[t].op = "login" =>
             /\ at \in {"create", "stamp", "factor", "challenge", "issue", "ok"}
             /\ at \in {"stamp", "factor", "challenge", "issue"} =>
                  call[t].at \in {"stamp", "factor", "challenge", "issue"},
           call[t].op = "verify" =>
             /\ at \in {"count", "code", "complete"} => call[t].at \in {"count", "code", "complete"}
             /\ at \in {"promote", "clear"} => call[t].at \in {"promote", "clear"}
             /\ at \in {"device", "issue"} => call[t].at \in {"device", "issue"}
    PROVE  Follows(t) /\ Quiet(t)
<1>1. /\ call' \in [Threads -> CallType] /\ Others(t)
      /\ call'[t].op = call[t].op /\ call'[t].at = at /\ call'[t].id = call[t].id
  BY DEF Moves, Turns
<1>2. InPlace(call[t])' BY InPlaceMoved
<1>3. Demoted(t)
  <2>1. ASSUME NEW i, ByLogin(t, i)' PROVE ByLogin(t, i) BY <1>1, <2>1 DEF ByLogin
  <2>2. ASSUME NEW i, ByVerify(t, i)' PROVE ByVerify(t, i)
    <3>1. /\ call[t].op = "verify" /\ at = call'[t].at
          /\ \/ at \in {"promote", "clear"} /\ challenge'[call[t].id].sess = i
             \/ at \in {"device", "issue"} /\ call[t].id = i
      BY <1>1, <2>2 DEF ByVerify
    <3>2. CASE at \in {"promote", "clear"} /\ challenge'[call[t].id].sess = i
      <4>1. call[t].at \in {"promote", "clear"} /\ call[t].id \in 1..Len(challenge)
        BY <3>1, <3>2, CallFacts DEF InPlace
      <4>2. challenge[call[t].id].sess = i BY <3>2, <4>1 DEF Grown
      <4> QED BY <3>1, <4>1, <4>2 DEF ByVerify
    <3>3. CASE at \in {"device", "issue"} /\ call[t].id = i BY <3>1, <3>3 DEF ByVerify
    <3> QED BY <3>1, <3>2, <3>3
  <2> QED BY <2>1, <2>2 DEF Demoted
<1> QED BY <1>1, <1>2, <1>3, NoNewRows DEF Follows, Quiet, Level

\* the steps that are not quiet
Loud(t) == \/ CreateSession(t) \/ CreateChallenge(t) \/ IssueInitialTokens(t)
           \/ RotateTokenAtomic(t) \/ CompleteChallenge(t) \/ PromoteSession(t)

(* The steps that are not quiet keep rows and references, too. *)
LEMMA LoudFollows ==
    ASSUME Linked, NEW t \in Threads, Loud(t)
    PROVE  Follows(t)
<1>1. CASE CreateSession(t)
  <2>1. /\ Grown /\ call[t].op = "login" /\ Turns(t, "stamp", Len(session) + 1)
        /\ Len(session') = Len(session) + 1 /\ token' = token /\ challenge' = challenge
    BY <1>1, CreateSessionDoes
  <2>2. InPlace(call[t]) /\ Len(session) \in Nat BY CallFacts, RowFacts
  <2>3. InPlace(call[t])' BY <2>1, <2>2 DEF InPlace, Turns
  <2> QED BY <2>1, <2>3, NoNewRows DEF Turns, Follows
<1>2. CASE CreateChallenge(t)
  <2>1. /\ Grown /\ call[t].op = "login" /\ call[t].at = "challenge" /\ Moves(t, "ok")
        /\ session' = session /\ token' = token
        /\ Len(challenge') = Len(challenge) + 1
        /\ challenge'[Len(challenge) + 1] = [sess |-> call[t].id, status |-> "pending"]
    BY <1>2, CreateChallengeDoes
  <2>2. call[t].id \in 1..Len(session) /\ Len(challenge) \in Nat
    BY <2>1, CallFacts, RowFacts DEF InPlace
  <2>3. NewRows BY <2>1, <2>2 DEF NewRows
  <2>4. InPlace(call[t])' BY <2>1, InPlaceMoved
  <2> QED BY <2>1, <2>3, <2>4 DEF Moves, Follows
<1>3. CASE IssueInitialTokens(t)
  <2>1. /\ Grown /\ call[t].op \in {"login", "verify"} /\ call[t].at = "issue"
        /\ Moves(t, "ok") /\ session' = session /\ challenge' = challenge
        /\ Len(token') = Len(token) + 1 /\ token'[Len(token) + 1].sess = call[t].id
    BY <1>3, IssueInitialTokensDoes
  <2>2. call[t].id \in 1..Len(session) /\ Len(token) \in Nat
    BY <2>1, CallFacts, RowFacts DEF InPlace
  <2>3. NewRows BY <2>1, <2>2 DEF NewRows
  <2>4. InPlace(call[t])' BY <2>1, InPlaceMoved
  <2> QED BY <2>1, <2>3, <2>4 DEF Moves, Follows
<1>4. CASE RotateTokenAtomic(t)
  <2>1. /\ Grown /\ call[t].op = "refresh" /\ session' = session /\ challenge' = challenge
    BY <1>4, RotateTokenAtomicDoes
  <2>2. CASE token' = token /\ Ends(t)
    <3>1. Level BY <2>1, <2>2, RowsKept
    <3> QED BY <2>1, <2>2, <3>1, QuietEnds
  <2>3. CASE /\ Moves(t, "stamp") /\ Len(token') = Len(token) + 1
             /\ token'[Len(token) + 1].sess = token[call[t].id].sess
    <3>1. call[t].id \in 1..Len(token) /\ Len(token) \in Nat
      BY <2>1, CallFacts, RowFacts DEF InPlace
    <3>2. NewRows BY <2>1, <2>3, <3>1, RowFacts DEF NewRows
    <3>3. InPlace(call[t])' BY <2>1, <2>3, InPlaceMoved
    <3> QED BY <2>1, <2>3, <3>2, <3>3 DEF Moves, Follows
  <2> QED BY <1>4, <2>2, <2>3, RotateTokenAtomicDoes
<1>5. CASE CompleteChallenge(t)
  <2>1. Grown /\ Level /\ call[t].op = "verify" /\ call[t].at = "complete"
    BY <1>5, CompleteChallengeDoes
  <2>2. CASE Ends(t) BY <2>1, <2>2, QuietEnds
  <2>3. CASE Moves(t, "promote")
    <3>1. InPlace(call[t])' BY <2>1, <2>3, InPlaceMoved
    <3> QED BY <2>1, <2>3, <3>1, NoNewRows DEF Level, Moves, Follows
  <2> QED BY <1>5, <2>2, <2>3, CompleteChallengeDoes
<1>6. CASE PromoteSession(t)
  <2>1. /\ Grown /\ call[t].op = "verify" /\ call[t].at = "promote"
        /\ token' = token /\ challenge' = challenge
    BY <1>6, PromoteSessionDoes
  <2>2. NewRows BY <2>1, NoNewRows
  <2>3. CASE Ends(t)
    <3>1. /\ call' \in [Threads -> CallType] /\ Others(t) /\ call'[t] = Idle
      BY <2>3 DEF Ends, Begins
    <3> QED BY <2>1, <2>2, <3>1, InPlaceIdle DEF Follows
  <2>4. CASE Moves(t, "clear")
    <3>1. InPlace(call[t])' BY <2>1, <2>4, InPlaceMoved
    <3> QED BY <2>1, <2>2, <2>4, <3>1 DEF Moves, Follows
  <2> QED BY <1>6, <2>3, <2>4, PromoteSessionDoes
<1> QED BY <1>1, <1>2, <1>3, <1>4, <1>5, <1>6 DEF Loud

(* A call that stays where it is. *)
LEMMA QuietStays ==
    ASSUME Linked, NEW t \in Threads, Grown, Level, call' = call
    PROVE  Follows(t) /\ Quiet(t)
<1>1. Turns(t, call[t].at, call[t].id) BY DEF Linked, Turns, Others
<1>2. InPlace(call[t]) BY CallFacts
<1> QED BY <1>1, <1>2, QuietMoves DEF InPlace

(* A step of a call about sessions is quiet, or one of the six. *)
LEMMA SessionStepDoes ==
    ASSUME Linked, NEW t \in Threads, SessionStep(t)
    PROVE  Follows(t) /\ (Quiet(t) \/ Loud(t))
<1> DEFINE G == Follows(t) /\ (Quiet(t) \/ Loud(t))
<1>0. CASE Loud(t) BY <1>0, LoudFollows
<1>1. ASSUME Still PROVE Grown /\ Level BY <1>1, RowsKept DEF Still
<1>2. ASSUME NEW d \in ListUserDevices, Authenticate(t, d) PROVE G
  <2>1. d \in Devices BY DEF ListUserDevices
  <2> QED BY <1>1, <1>2, <2>1, AuthenticateDoes, QuietOpens
<1>3. ASSUME NEW d \in ListUserDevices, RevokeDevice(t, d) PROVE G
  <2>1. d \in Devices BY DEF ListUserDevices
  <2>2. Grown /\ Level BY <1>3, <2>1, RevokeDeviceDoes, RowsKept
  <2> QED BY <1>3, <2>1, <2>2, RevokeDeviceDoes, QuietOpens, QuietStays
<1>4. CASE StampDevice(t) BY <1>1, <1>4, StampDeviceDoes, QuietMoves, QuietEnds
<1>5. CASE IsMfaEnabled(t) BY <1>1, <1>5, IsMfaEnabledDoes, QuietMoves
<1>6. ASSUME NEW i \in DOMAIN session, ValidateSession(t, i) PROVE G
  <2>1. session[i].dev \in Devices BY RowFacts
  <2> QED BY <1>1, <1>6, <2>1, ValidateSessionDoes, QuietOpens
<1>7. CASE ValidateDevice(t) BY <1>1, <1>7, ValidateDeviceDoes, QuietMoves, QuietEnds
<1>8. ASSUME NEW k \in DOMAIN token, RefreshSession(t, k) PROVE G
  <2>1. Grown /\ Level /\ k \in 1..Len(token) BY <1>1, <1>8, RefreshSessionDoes, RowFacts
  <2>2. PICK at \in {"reuse", "device"}, d \in Devices, late \in BOOLEAN :
          Opens(t, "refresh", at, d, k, late)
    BY <1>8, RefreshSessionDoes
  <2> QED BY <2>1, <2>2, QuietOpens
<1>9. CASE RefreshReadsDevice(t) BY <1>1, <1>9, RefreshReadsDeviceDoes, QuietMoves, QuietEnds
<1>10. CASE RefreshReadsSession(t)
  BY <1>1, <1>10, RefreshReadsSessionDoes, QuietMoves, QuietEnds
<1>11. CASE RefreshStamps(t) BY <1>1, <1>11, RefreshStampsDoes, QuietMoves, QuietEnds
<1>12. CASE HandleTokenReuse(t) BY <1>12, HandleTokenReuseDoes, QuietEnds
<1>13. ASSUME NEW c \in DOMAIN challenge, VerifyMfaChallenge(t, c) PROVE G
  <2>1. Grown /\ Level /\ c \in 1..Len(challenge) BY <1>13, VerifyMfaChallengeDoes, RowFacts
  <2>2. CASE call' = call BY <2>1, <2>2, QuietStays
  <2>3. CASE \E d \in Devices, late \in BOOLEAN : Opens(t, "verify", "count", d, c, late)
    BY <2>1, <2>3, QuietOpens
  <2> QED BY <1>13, <2>2, <2>3, VerifyMfaChallengeDoes
<1>14. CASE CountAttempt(t)
  <2>1. Grown /\ Level /\ call[t].op = "verify" /\ call[t].at = "count"
    BY <1>14, CountAttemptDoes
  <2> QED BY <1>14, <2>1, CountAttemptDoes, QuietMoves, QuietEnds
<1>15. CASE WrongFactor(t) BY <1>15, WrongFactorDoes, QuietEnds
<1>16. CASE RightFactor(t) BY <1>1, <1>16, RightFactorDoes, QuietMoves
<1>17. CASE ClearAttempts(t)
  <2>1. Still /\ Grown /\ Level /\ call[t].op = "verify" /\ call[t].at = "clear"
    BY <1>1, <1>17, ClearAttemptsDoes
  <2>2. CASE Ends(t) BY <2>1, <2>2, QuietEnds
  <2>3. CASE Turns(t, "device", challenge[call[t].id].sess)
    <3>1. /\ call' \in [Threads -> CallType] /\ Others(t) /\ call'[t].op = "verify"
          /\ call'[t].at = "device" /\ call'[t].dev = call[t].dev
          /\ call'[t].id = challenge[call[t].id].sess
      BY <2>1, <2>3 DEF Turns
    <3>2. call[t].dev \in Devices /\ challenge[call[t].id].sess \in 1..Len(session)
      BY <2>1, CallFacts, RowFacts DEF InPlace
    <3>3. InPlace(call[t])' BY <2>1, <3>1, <3>2 DEF InPlace, Still
    <3>4. Demoted(t) BY <2>1, <3>1 DEF Demoted, ByLogin, ByVerify
    <3> QED BY <2>1, <3>1, <3>3, <3>4, NoNewRows DEF Follows, Quiet, Level
  <2> QED BY <1>17, <2>2, <2>3, ClearAttemptsDoes
<1>18. CASE VerifyReadsDevice(t) BY <1>1, <1>18, VerifyReadsDeviceDoes, QuietMoves, QuietEnds
<1>19. CASE RevokeDeviceRow(t)
  <2>1. Grown /\ Level BY <1>19, RevokeDeviceRowDoes, RowsKept
  <2> QED BY <1>19, <2>1, RevokeDeviceRowDoes, QuietMoves
<1>20. CASE RevokeAllDeviceSessions(t) BY <1>20, RevokeAllDeviceSessionsDoes, QuietMoves
<1>21. CASE RevokeAllDeviceKeys(t) BY <1>1, <1>21, RevokeAllDeviceKeysDoes, QuietMoves
<1>22. CASE EvictChallenge(t)
  <2>1. Grown /\ Level BY <1>22, EvictChallengeDoes, RowsKept
  <2> QED BY <1>22, <2>1, EvictChallengeDoes, QuietEnds
<1> QED BY <1>0, <1>2, <1>3, <1>4, <1>5, <1>6, <1>7, <1>8, <1>9, <1>10, <1>11, <1>12, <1>13,
            <1>14, <1>15, <1>16, <1>17, <1>18, <1>19, <1>20, <1>21, <1>22 DEF SessionStep, Loud

(* A step of a device call is quiet. *)
LEMMA AsideQuiet ==
    ASSUME Linked, NEW t \in Threads, Aside(t), UNCHANGED sessionVars
    PROVE  Follows(t) /\ Quiet(t)
<1>1. Grown /\ Level BY RowsKept DEF sessionVars
<1>2. Demoted(t) BY DEF Aside, Demoted, ByLogin, ByVerify
<1> QED BY <1>1, <1>2, NoNewRows DEF Aside, Follows, Quiet, Level

\* the steps of Next
ThreadStep(t) == SessionStep(t) \/ (DeviceStep(t) /\ UNCHANGED sessionVars)

(* A step is one of a thread or one outside the calls. *)
LEMMA NextSplits ==
    Next <=> (\E t \in Threads : ThreadStep(t)) \/ Outside
  BY Zenon DEF Next, ThreadStep, Outside

(* A step of a thread, seen from the sessions. *)
LEMMA ThreadStepDoes ==
    ASSUME Linked, Directory, NEW t \in Threads, ThreadStep(t)
    PROVE  Follows(t) /\ (Quiet(t) \/ Loud(t))
  BY SessionStepDoes, AsideDoes, AsideQuiet DEF ThreadStep

(* Every step keeps the references. *)
LEMMA LinkedNext ==
    ASSUME Linked, Directory, Next
    PROVE  Linked' /\ Grown
<1>1. ASSUME NEW t \in Threads, ThreadStep(t) PROVE Linked' /\ Grown
  <2>1. Follows(t) BY <1>1, ThreadStepDoes
  <2>2. attempts' \in Seq(Nat) /\ Len(attempts') = Len(challenge')
    BY <1>1, AttemptsKept DEF ThreadStep, sessionVars, Linked
  <2> QED BY <2>1, <2>2, LinkedThread DEF Follows
<1>2. ASSUME Outside PROVE Linked' /\ Grown
  <2>1. /\ Grown /\ token' = token /\ challenge' = challenge
        /\ attempts' \in Seq(Nat) /\ Len(attempts') = Len(challenge')
        /\ call' = call \/ Halts
    BY <1>2, OutsideDoes DEF Linked
  <2>2. NewRows BY <2>1, NoNewRows
  <2>3. call' \in [Threads -> CallType] BY <2>1, IdleFields, Zenon DEF Halts, Linked
  <2>4. ASSUME NEW u \in Threads PROVE InPlace(call[u])'
    <3>1. call'[u] = call[u] \/ call'[u] = Idle BY <2>1 DEF Halts
    <3> QED BY <2>1, <3>1, InPlaceKept, InPlaceIdle
  <2> QED BY <2>1, <2>2, <2>3, <2>4, LinkedStep
<1> QED BY <1>1, <1>2, NextSplits

-----------------------------------------------------------------------------
(***************************************************************************)
(* The first tokens of a session are issued once                           *)
(***************************************************************************)

(* Whoever does not step gets no right, ... *)
LEMMA DemotedOther ==
    ASSUME Linked, Grown, NEW u \in Threads, call'[u] = call[u]
    PROVE  Demoted(u)
<1>1. ASSUME NEW i, ByLogin(u, i)' PROVE ByLogin(u, i) BY <1>1 DEF ByLogin
<1>2. ASSUME NEW i, ByVerify(u, i)' PROVE ByVerify(u, i)
  <2>1. /\ call[u].op = "verify"
        /\ \/ call[u].at \in {"promote", "clear"} /\ challenge'[call[u].id].sess = i
           \/ call[u].at \in {"device", "issue"} /\ call[u].id = i
    BY <1>2 DEF ByVerify
  <2>2. call[u].at \in {"promote", "clear"} => call[u].id \in 1..Len(challenge)
    BY <2>1, CallFacts DEF InPlace
  <2> QED BY <2>1, <2>2 DEF ByVerify, Grown
<1> QED BY <1>1, <1>2 DEF Demoted

(* ... nor does a thread whose call ended. *)
LEMMA DemotedIdle ==
    ASSUME NEW u, call'[u] = Idle
    PROVE  Demoted(u)
<1>1. call'[u].op = "idle" BY IdleFields, Zenon
<1> QED BY <1>1 DEF Demoted, ByLogin, ByVerify

(* The sessions calls may issue tokens for exist. *)
LEMMA EntitledFacts ==
    ASSUME Linked, NEW t \in Threads, NEW i, Entitled(t, i)
    PROVE  i \in 1..Len(session)
<1>1. InPlace(call[t]) BY CallFacts
<1> QED BY <1>1, RowFacts DEF Entitled, ByLogin, ByVerify, InPlace

(* What is known of a session that a call may issue tokens for. *)
LEMMA FirstTokensFacts ==
    ASSUME Linked, FirstTokens, NEW t \in Threads, NEW i, Entitled(t, i)
    PROVE  /\ ~ HasToken(i)
           /\ ByLogin(t, i) => ~ HasChallenge(i)
           /\ ByVerify(t, i) => Earned(i)
           /\ \A u \in Threads : Entitled(u, i) => u = t
<1>1. i \in 1..Len(session) BY EntitledFacts
<1> QED BY <1>1 DEF FirstTokens, Entitled

(* Rights and challenges only grow with the rows. *)
LEMMA RowsStay ==
    ASSUME Linked, Grown
    PROVE  /\ \A i : Earned(i) => Earned(i)'
           /\ Len(token') = Len(token) => \A i : HasToken(i)' => HasToken(i)
           /\ Len(challenge') = Len(challenge) => \A i : HasChallenge(i)' => HasChallenge(i)
<1>1. ASSUME NEW i, Earned(i) PROVE Earned(i)'
  <2>1. PICK c \in 1..Len(challenge) : challenge[c].sess = i /\ challenge[c].status = "completed"
    BY <1>1 DEF Earned
  <2>2. /\ c \in 1..Len(challenge') /\ challenge'[c].sess = i
        /\ challenge'[c].status = "completed"
    BY <2>1, RowFacts DEF Grown
  <2> QED BY <2>2 DEF Earned
<1>2. Len(token') = Len(token) => \A i : HasToken(i)' => HasToken(i) BY DEF HasToken, Grown
<1>3. Len(challenge') = Len(challenge) => \A i : HasChallenge(i)' => HasChallenge(i)
  BY DEF HasChallenge, Grown
<1> QED BY <1>1, <1>2, <1>3

\* the parts of FirstTokens about the rows alone
OneChallenge ==
    /\ \A c, e \in 1..Len(challenge) : challenge[c].sess = challenge[e].sess => c = e
    /\ \A c \in 1..Len(challenge) :
          challenge[c].status = "pending" => ~HasToken(challenge[c].sess)
OneToken ==
    \A k, l \in 1..Len(token) :
       token[k].sess = token[l].sess /\ token[k].status = "active" /\ token[l].status = "active"
         => k = l

(* To show FirstTokens after a step. *)
LEMMA FirstTokensSplits ==
    ASSUME OneChallenge', OneToken', Linked',
           \A t \in Threads : \A i :
              /\ Entitled(t, i)' => ~HasToken(i)' /\ \A u \in Threads : Entitled(u, i)' => u = t
              /\ ByLogin(t, i)' => ~HasChallenge(i)'
              /\ ByVerify(t, i)' => Earned(i)'
    PROVE  FirstTokens'
  BY DEF FirstTokens, OneChallenge, OneToken

(* Nothing new. *)
LEMMA RowsAlone ==
    ASSUME Linked, FirstTokens, Grown
    PROVE  /\ Len(token') = Len(token) => OneToken'
           /\ Len(token') = Len(token) /\ Len(challenge') = Len(challenge) => OneChallenge'
<1>1. ASSUME Len(token') = Len(token) PROVE OneToken'
  BY <1>1 DEF OneToken, FirstTokens, Grown
<1>2. ASSUME Len(token') = Len(token), Len(challenge') = Len(challenge) PROVE OneChallenge'
  <2>1. \A i : HasToken(i)' => HasToken(i) BY <1>2, RowsStay
  <2> QED BY <1>2, <2>1 DEF OneChallenge, FirstTokens, Grown
<1> QED BY <1>1, <1>2

(* A step that adds no token and no challenge and gives no right. *)
LEMMA FirstTokensKept ==
    ASSUME Linked, FirstTokens, Grown, Linked',
           Len(token') = Len(token), Len(challenge') = Len(challenge),
           \A u \in Threads : Demoted(u)
    PROVE  FirstTokens'
<1>1. OneChallenge' /\ OneToken' BY RowsAlone
<1>2. ASSUME NEW t \in Threads, NEW i
      PROVE  /\ Entitled(t, i)' => ~HasToken(i)' /\ \A u \in Threads : Entitled(u, i)' => u = t
             /\ ByLogin(t, i)' => ~HasChallenge(i)'
             /\ ByVerify(t, i)' => Earned(i)'
  <2>1. \A u \in Threads : /\ ByLogin(u, i)' => ByLogin(u, i)
                           /\ ByVerify(u, i)' => ByVerify(u, i)
    BY DEF Demoted
  <2>2. \A u \in Threads : Entitled(u, i)' => Entitled(u, i) BY <2>1 DEF Entitled
  <2>3. ByLogin(t, i)' => Entitled(t, i) BY <2>1 DEF Entitled
  <2>4. ByVerify(t, i)' => Entitled(t, i) BY <2>1 DEF Entitled
  <2> QED BY <2>1, <2>2, <2>3, <2>4, FirstTokensFacts, RowsStay
<1> QED BY <1>1, <1>2, FirstTokensSplits

(* A new session belongs to the login that created it. *)
LEMMA FirstTokensCreateSession ==
    ASSUME Linked, FirstTokens, Linked', NEW t \in Threads, CreateSession(t), Grown,
           \A u \in Threads : u # t => Demoted(u)
    PROVE  FirstTokens'
<1> DEFINE n == Len(session) + 1
<1>1. /\ Turns(t, "stamp", n) /\ call[t].op = "login" /\ token' = token /\ challenge' = challenge
  BY CreateSessionDoes
<1>2. Len(session) \in Nat BY RowFacts
<1>3. OneChallenge' /\ OneToken' BY <1>1, RowsAlone
<1>4. ASSUME NEW i, i = n PROVE ~HasToken(i)' /\ ~HasChallenge(i)'
  <2>0. i \notin 1..Len(session) BY <1>2, <1>4
  <2>1. ~HasToken(i) /\ ~HasChallenge(i) BY <2>0, RowFacts, Zenon DEF HasToken, HasChallenge
  <2> QED BY <1>1, <2>1, RowsStay
<1>5. \A i : (ByLogin(t, i)' => i = n) /\ ~ByVerify(t, i)'
  BY <1>1 DEF Turns, ByLogin, ByVerify
<1>6. ASSUME NEW u \in Threads, u # t, NEW i, Entitled(u, i)'
      PROVE  Entitled(u, i) /\ i # n
  <2>1. Entitled(u, i) BY <1>6 DEF Demoted, Entitled
  <2>2. i \in 1..Len(session) BY <2>1, EntitledFacts
  <2> QED BY <1>2, <2>1, <2>2
<1>7. ASSUME NEW v \in Threads, NEW i
      PROVE  /\ Entitled(v, i)' => ~HasToken(i)' /\ \A u \in Threads : Entitled(u, i)' => u = v
             /\ ByLogin(v, i)' => ~HasChallenge(i)'
             /\ ByVerify(v, i)' => Earned(i)'
  <2>1. CASE v = t
    <3>1. Entitled(v, i)' => i = n BY <1>5, <2>1 DEF Entitled
    <3>2. ByLogin(v, i)' => i = n BY <1>5, <2>1
    <3>3. ~ByVerify(v, i)' BY <1>5, <2>1
    <3>4. \A u \in Threads : Entitled(u, i)' /\ i = n => u = v BY <1>6, <2>1
    <3> QED BY <1>4, <3>1, <3>2, <3>3, <3>4
  <2>2. CASE v # t
    <3>1. /\ ByLogin(v, i)' => ByLogin(v, i)
          /\ ByVerify(v, i)' => ByVerify(v, i)
      BY <2>2 DEF Demoted
    <3>2. /\ Entitled(v, i)' => Entitled(v, i) /\ i # n
          /\ ByLogin(v, i)' => Entitled(v, i)
          /\ ByVerify(v, i)' => Entitled(v, i)
      BY <1>6, <2>2, <3>1 DEF Entitled
    <3>3. i # n => ~Entitled(t, i)' BY <1>5 DEF Entitled
    <3>4. (HasToken(i)' => HasToken(i)) /\ (HasChallenge(i)' => HasChallenge(i))
          /\ (Earned(i) => Earned(i)')
      BY <1>1, RowsStay
    <3>5. ASSUME NEW u \in Threads, Entitled(u, i)', Entitled(v, i)' PROVE u = v
      BY <1>6, <3>2, <3>3, <3>5, FirstTokensFacts
    <3> QED BY <3>1, <3>2, <3>4, <3>5, FirstTokensFacts
  <2> QED BY <2>1, <2>2
<1> QED BY <1>3, <1>7, FirstTokensSplits

(* A challenge takes the right to issue tokens from the login that creates it. *)
LEMMA FirstTokensCreateChallenge ==
    ASSUME Linked, FirstTokens, Linked', NEW t \in Threads, CreateChallenge(t), Grown,
           \A u \in Threads : u # t => Demoted(u)
    PROVE  FirstTokens'
<1>1. PICK s : s = call[t].id OBVIOUS
<1>2. PICK n : n = Len(challenge) + 1 OBVIOUS
<1>3. /\ call[t].op = "login" /\ call[t].at = "challenge" /\ Moves(t, "ok")
      /\ token' = token /\ Len(challenge') = n
      /\ challenge'[n].sess = s
      /\ \A c \in 1..Len(challenge) : challenge'[c] = challenge[c]
  <2>1. /\ call[t].op = "login" /\ call[t].at = "challenge" /\ Moves(t, "ok")
        /\ token' = token /\ Len(challenge') = Len(challenge) + 1
        /\ challenge'[Len(challenge) + 1] = [sess |-> call[t].id, status |-> "pending"]
        /\ \A c \in 1..Len(challenge) : challenge'[c] = challenge[c]
    BY CreateChallengeDoes
  <2> QED BY <1>1, <1>2, <2>1
<1>4. ByLogin(t, s) /\ Entitled(t, s) BY <1>1, <1>3 DEF ByLogin, Entitled
<1>5. ~HasToken(s) /\ ~HasChallenge(s) /\ \A u \in Threads : Entitled(u, s) => u = t
  BY <1>4, FirstTokensFacts
<1>6. Len(challenge) \in Nat BY RowFacts
<1>7. \A c \in 1..Len(challenge') : c = n \/ c \in 1..Len(challenge) BY <1>2, <1>3, <1>6
<1>8. \A i : HasToken(i)' <=> HasToken(i) BY <1>3 DEF HasToken
<1>9. OneToken' BY <1>3, RowsAlone
<1>10. OneChallenge'
  <2>1. \A c \in 1..Len(challenge) : challenge'[c].sess # s BY <1>3, <1>5 DEF HasChallenge
  <2>2. \A c, e \in 1..Len(challenge') : challenge'[c].sess = challenge'[e].sess => c = e
    BY <1>3, <1>7, <2>1 DEF FirstTokens
  <2>3. \A c \in 1..Len(challenge') :
          challenge'[c].status = "pending" => ~HasToken(challenge'[c].sess)
    BY <1>3, <1>5, <1>7 DEF FirstTokens
  <2>4. \A c \in 1..Len(challenge') :
          challenge'[c].status = "pending" => ~HasToken(challenge[c].sess)'
    BY <1>3, <2>3 DEF HasToken
  <2> QED BY <2>2, <2>4 DEF OneChallenge
<1>11. \A i : ~Entitled(t, i)' BY <1>3 DEF Moves, Entitled, ByLogin, ByVerify
<1>12. ASSUME NEW v \in Threads, NEW i
       PROVE  /\ Entitled(v, i)' => ~HasToken(i)' /\ \A u \in Threads : Entitled(u, i)' => u = v
              /\ ByLogin(v, i)' => ~HasChallenge(i)'
              /\ ByVerify(v, i)' => Earned(i)'
  <2>1. CASE v = t BY <1>11, <2>1 DEF Entitled
  <2>2. CASE v # t
    <3>1. \A u \in Threads : Entitled(u, i)' => Entitled(u, i) /\ u # t
      BY <1>11 DEF Demoted, Entitled
    <3>2. /\ ByLogin(v, i)' => ByLogin(v, i) /\ Entitled(v, i)
          /\ ByVerify(v, i)' => ByVerify(v, i) /\ Entitled(v, i)
      BY <2>2 DEF Demoted, Entitled
    <3>3. Entitled(v, i) => i # s BY <1>5, <2>2
    <3>4. HasChallenge(i)' /\ i # s => HasChallenge(i) BY <1>3, <1>7 DEF HasChallenge
    <3>5. Earned(i) => Earned(i)' BY RowsStay
    <3> QED BY <1>8, <3>1, <3>2, <3>3, <3>4, <3>5, FirstTokensFacts
  <2> QED BY <2>1, <2>2
<1> QED BY <1>9, <1>10, <1>12, FirstTokensSplits

(* The first tokens take it from the call that issues them. *)
LEMMA FirstTokensIssued ==
    ASSUME Linked, FirstTokens, Linked', NEW t \in Threads, IssueInitialTokens(t), Grown,
           \A u \in Threads : u # t => Demoted(u)
    PROVE  FirstTokens'
<1>1. PICK s : s = call[t].id OBVIOUS
<1>2. PICK n : n = Len(token) + 1 OBVIOUS
<1>3. /\ call[t].op \in {"login", "verify"} /\ call[t].at = "issue" /\ Moves(t, "ok")
      /\ challenge' = challenge /\ Len(token') = n /\ token'[n].sess = s
      /\ \A k \in 1..Len(token) : token'[k] = token[k]
  BY <1>1, <1>2, IssueInitialTokensDoes
<1>4. Entitled(t, s) BY <1>1, <1>3 DEF ByLogin, ByVerify, Entitled
<1>5. /\ ~HasToken(s) /\ (~HasChallenge(s) \/ Earned(s))
      /\ \A u \in Threads : Entitled(u, s) => u = t
  BY <1>4, FirstTokensFacts DEF Entitled
<1>6. Len(token) \in Nat BY RowFacts
<1>7. \A k \in 1..Len(token') : k = n \/ k \in 1..Len(token) BY <1>2, <1>3, <1>6
<1>8. \A i : HasToken(i)' => HasToken(i) \/ i = s BY <1>3, <1>7 DEF HasToken
<1>9. OneToken'
  <2>1. \A k \in 1..Len(token) : token[k].sess # s BY <1>4, FirstTokensFacts DEF HasToken
  <2> QED BY <1>3, <1>7, <2>1 DEF OneToken, FirstTokens
<1>10. OneChallenge'
  <2>1. ASSUME NEW c \in 1..Len(challenge), challenge[c].status = "pending"
        PROVE  challenge[c].sess # s
    <3>1. CASE ~HasChallenge(s) BY <3>1 DEF HasChallenge
    <3>2. CASE Earned(s) BY <2>1, <3>2 DEF Earned, FirstTokens
    <3> QED BY <1>5, <3>1, <3>2
  <2>2. ASSUME NEW c \in 1..Len(challenge), challenge[c].status = "pending"
        PROVE  ~HasToken(challenge[c].sess)'
    <3>1. PICK i : i = challenge[c].sess OBVIOUS
    <3>2. ~HasToken(i) BY <2>2, <3>1 DEF FirstTokens
    <3>3. ~HasToken(i)' BY <1>8, <2>1, <2>2, <3>1, <3>2
    <3> QED BY <1>3, <3>1, <3>3 DEF HasToken
  <2> QED BY <1>3, <2>2 DEF OneChallenge, FirstTokens
<1>11. \A i : ~Entitled(t, i)' BY <1>3 DEF Moves, Entitled, ByLogin, ByVerify
<1>12. ASSUME NEW v \in Threads, NEW i
       PROVE  /\ Entitled(v, i)' => ~HasToken(i)' /\ \A u \in Threads : Entitled(u, i)' => u = v
              /\ ByLogin(v, i)' => ~HasChallenge(i)'
              /\ ByVerify(v, i)' => Earned(i)'
  <2>1. CASE v = t BY <1>11, <2>1 DEF Entitled
  <2>2. CASE v # t
    <3>1. \A u \in Threads : Entitled(u, i)' => Entitled(u, i) /\ u # t
      BY <1>11 DEF Demoted, Entitled
    <3>2. /\ ByLogin(v, i)' => ByLogin(v, i) /\ Entitled(v, i)
          /\ ByVerify(v, i)' => ByVerify(v, i) /\ Entitled(v, i)
      BY <2>2 DEF Demoted, Entitled
    <3>3. Entitled(v, i) => i # s BY <1>5, <2>2
    <3>4. HasChallenge(i)' => HasChallenge(i) BY <1>3, RowsStay
    <3>5. Earned(i) => Earned(i)' BY RowsStay
    <3> QED BY <1>8, <3>1, <3>2, <3>3, <3>4, <3>5, FirstTokensFacts
  <2> QED BY <2>1, <2>2
<1> QED BY <1>9, <1>10, <1>12, FirstTokensSplits

(* A rotation puts a token in the place of the active one. *)
LEMMA FirstTokensRotated ==
    ASSUME Linked, FirstTokens, Linked', NEW t \in Threads, RotateTokenAtomic(t), Grown,
           Moves(t, "stamp"), Len(token') = Len(token) + 1,
           token[call[t].id].status = "active", token'[call[t].id].status = "rotated",
           token'[Len(token) + 1].sess = token[call[t].id].sess,
           \A k \in 1..Len(token) : k # call[t].id => token'[k] = token[k],
           \A u \in Threads : u # t => Demoted(u)
    PROVE  FirstTokens'
<1>1. PICK n : n = Len(token) + 1 OBVIOUS
<1>2. PICK k : k = call[t].id OBVIOUS
<1>3. PICK s : s = token[k].sess OBVIOUS
<1>4. call[t].op = "refresh" /\ challenge' = challenge BY RotateTokenAtomicDoes
<1>5. k \in 1..Len(token) /\ Len(token) \in Nat
  BY <1>2, <1>4, CallFacts, RowFacts DEF InPlace
<1>6. \A j \in 1..Len(token') : j = n \/ j \in 1..Len(token) BY <1>1, <1>5
<1>7. /\ token'[n].sess = s /\ token'[k].status = "rotated" /\ token[k].status = "active"
      /\ \A j \in 1..Len(token) : j # k => token'[j] = token[j]
  BY <1>1, <1>2, <1>3
<1>8. \A i : HasToken(i)' => HasToken(i)
  <2>1. ASSUME NEW i, NEW j \in 1..Len(token'), token'[j].sess = i PROVE HasToken(i)
    <3>1. CASE j = n BY <1>3, <1>5, <1>7, <2>1, <3>1 DEF HasToken
    <3>2. CASE j \in 1..Len(token) BY <2>1, <3>2 DEF HasToken, Grown
    <3> QED BY <1>6, <3>1, <3>2
  <2> QED BY <2>1 DEF HasToken
<1>9. OneToken'
  <2>1. ASSUME NEW j \in 1..Len(token), token'[j].status = "active", token'[j].sess = s
        PROVE  FALSE
    <3>1. j # k /\ token[j] = token'[j] BY <1>7, <2>1
    <3>2. token[j].status = "active" /\ token[j].sess = token[k].sess BY <1>3, <2>1, <3>1
    <3>3. OneToken BY DEF FirstTokens, OneToken
    <3> QED BY <1>5, <1>7, <3>1, <3>2, <3>3 DEF OneToken
  <2>2. \A j \in 1..Len(token) : /\ token'[j].sess = token[j].sess
                                 /\ token'[j].status = "active" => token[j].status = "active"
    BY DEF Grown
  <2>3. ASSUME NEW a \in 1..Len(token'), NEW b \in 1..Len(token'),
               token'[a].sess = token'[b].sess,
               token'[a].status = "active", token'[b].status = "active"
        PROVE  a = b
    <3>1. CASE a \in 1..Len(token) /\ b \in 1..Len(token) BY <2>2, <2>3, <3>1 DEF FirstTokens
    <3>2. CASE a = n \/ b = n BY <1>6, <1>7, <2>1, <2>3, <3>2
    <3> QED BY <1>6, <3>1, <3>2
  <2> QED BY <2>3 DEF OneToken
<1>10. OneChallenge'
  <2>1. \A c \in 1..Len(challenge) :
          challenge[c].status = "pending" => ~HasToken(challenge[c].sess)'
    <3>1. ASSUME NEW c \in 1..Len(challenge), challenge[c].status = "pending"
          PROVE  ~HasToken(challenge[c].sess)'
      <4>1. PICK i : i = challenge[c].sess OBVIOUS
      <4>2. ~HasToken(i)' BY <1>8, <3>1, <4>1 DEF FirstTokens
      <4> QED BY <1>4, <4>1, <4>2 DEF HasToken
    <3> QED BY <3>1
  <2> QED BY <1>4, <2>1 DEF OneChallenge, FirstTokens
<1>11. \A i : ~Entitled(t, i)' BY <1>4 DEF Moves, Entitled, ByLogin, ByVerify
<1>12. ASSUME NEW v \in Threads, NEW i
       PROVE  /\ Entitled(v, i)' => ~HasToken(i)' /\ \A u \in Threads : Entitled(u, i)' => u = v
              /\ ByLogin(v, i)' => ~HasChallenge(i)'
              /\ ByVerify(v, i)' => Earned(i)'
  <2>1. CASE v = t BY <1>11, <2>1 DEF Entitled
  <2>2. CASE v # t
    <3>1. \A u \in Threads : Entitled(u, i)' => Entitled(u, i) BY <1>11 DEF Demoted, Entitled
    <3>2. /\ ByLogin(v, i)' => ByLogin(v, i) /\ Entitled(v, i)
          /\ ByVerify(v, i)' => ByVerify(v, i) /\ Entitled(v, i)
      BY <2>2 DEF Demoted, Entitled
    <3>3. HasChallenge(i)' => HasChallenge(i) BY <1>4, RowsStay
    <3>4. Earned(i) => Earned(i)' BY RowsStay
    <3> QED BY <1>8, <3>1, <3>2, <3>3, <3>4, FirstTokensFacts
  <2> QED BY <2>1, <2>2
<1> QED BY <1>9, <1>10, <1>12, FirstTokensSplits

(* A completed challenge gives it to the verification that completed it. *)
LEMMA FirstTokensCompleted ==
    ASSUME Linked, FirstTokens, Linked', NEW t \in Threads, CompleteChallenge(t), Grown,
           Moves(t, "promote"), challenge[call[t].id].status = "pending",
           challenge'[call[t].id].status = "completed",
           \A u \in Threads : u # t => Demoted(u)
    PROVE  FirstTokens'
<1>1. PICK c : c = call[t].id OBVIOUS
<1>2. PICK s : s = challenge[c].sess OBVIOUS
<1>3. /\ call[t].op = "verify" /\ call[t].at = "complete" /\ Level /\ token' = token
  BY CompleteChallengeDoes
<1>4. /\ c \in 1..Len(challenge) /\ challenge[c].status = "pending"
      /\ challenge'[c].status = "completed" /\ challenge'[c].sess = s
  BY <1>1, <1>2, <1>3, CallFacts DEF InPlace, Grown
<1>5. ~HasToken(s) BY <1>2, <1>4 DEF FirstTokens
<1>6. HasChallenge(s) /\ ~Earned(s) BY <1>2, <1>4 DEF HasChallenge, Earned, FirstTokens
<1>7. OneChallenge' /\ OneToken' BY <1>3, RowsAlone DEF Level
<1>8. Earned(s)' BY <1>3, <1>4 DEF Level, Earned
<1>9. \A i : /\ Entitled(t, i)' => i = s
             /\ ~ByLogin(t, i)'
  BY <1>1, <1>3, <1>4 DEF Moves, Entitled, ByLogin, ByVerify
<1>10. \A u \in Threads : ~Entitled(u, s) BY <1>6, FirstTokensFacts DEF Entitled
<1>11. ASSUME NEW v \in Threads, NEW i
       PROVE  /\ Entitled(v, i)' => ~HasToken(i)' /\ \A u \in Threads : Entitled(u, i)' => u = v
              /\ ByLogin(v, i)' => ~HasChallenge(i)'
              /\ ByVerify(v, i)' => Earned(i)'
  <2>0. ASSUME NEW u \in Threads, u # t
        PROVE  /\ Entitled(u, i)' => Entitled(u, i) /\ i # s
               /\ ByLogin(u, i)' => ByLogin(u, i) /\ Entitled(u, i)
               /\ ByVerify(u, i)' => ByVerify(u, i) /\ Entitled(u, i)
    BY <1>10, <2>0 DEF Demoted, Entitled
  <2>1. HasToken(i)' => HasToken(i) BY <1>3, RowsStay
  <2>2. CASE v = t
    <3>1. Entitled(v, i)' => i = s BY <1>9, <2>2
    <3>2. ~ByLogin(v, i)' BY <1>9, <2>2
    <3>3. ByVerify(v, i)' => i = s BY <3>1 DEF Entitled
    <3>4. i = s => Earned(i)' /\ ~HasToken(i)' BY <1>5, <1>8, <2>1
    <3>5. \A u \in Threads : Entitled(u, i)' /\ i = s => u = v BY <2>0, <2>2
    <3> QED BY <3>1, <3>2, <3>3, <3>4, <3>5
  <2>3. CASE v # t
    <3>1. HasChallenge(i)' => HasChallenge(i) BY <1>3, RowsStay DEF Level
    <3>2. Earned(i) => Earned(i)' BY RowsStay
    <3>3. Entitled(v, i)' => ~Entitled(t, i)' BY <1>9, <2>0, <2>3
    <3>4. ASSUME NEW u \in Threads, Entitled(u, i)', Entitled(v, i)' PROVE u = v
      BY <2>0, <2>3, <3>3, <3>4, FirstTokensFacts
    <3> QED BY <2>0, <2>1, <2>3, <3>1, <3>2, <3>4, FirstTokensFacts
  <2> QED BY <2>2, <2>3
<1> QED BY <1>7, <1>11, FirstTokensSplits

(* A step of a thread. *)
LEMMA FirstTokensThread ==
    ASSUME Linked, Directory, FirstTokens, Linked', NEW t \in Threads, ThreadStep(t)
    PROVE  FirstTokens'
<1>1. Follows(t) /\ Grown BY ThreadStepDoes DEF Follows
<1>2. \A u \in Threads : u # t => Demoted(u) BY <1>1, DemotedOther DEF Follows, Others
<1>3. ASSUME Quiet(t) PROVE FirstTokens'
  <2>1. \A u \in Threads : Demoted(u) BY <1>2, <1>3 DEF Quiet
  <2> QED BY <1>1, <1>3, <2>1, FirstTokensKept DEF Quiet, Level
<1>4. ASSUME CreateSession(t) PROVE FirstTokens'
  BY <1>1, <1>2, <1>4, FirstTokensCreateSession
<1>5. ASSUME CreateChallenge(t) PROVE FirstTokens'
  BY <1>1, <1>2, <1>5, FirstTokensCreateChallenge
<1>6. ASSUME IssueInitialTokens(t) PROVE FirstTokens' BY <1>1, <1>2, <1>6, FirstTokensIssued
<1>7. ASSUME RotateTokenAtomic(t) PROVE FirstTokens'
  <2>1. CASE token' = token /\ Ends(t)
    <3>1. Level BY <1>7, <2>1, RotateTokenAtomicDoes, RowsKept
    <3> QED BY <1>1, <1>3, <2>1, <3>1, QuietEnds
  <2>2. CASE ~(token' = token /\ Ends(t))
    <3>1. /\ Moves(t, "stamp") /\ Len(token') = Len(token) + 1
          /\ token[call[t].id].status = "active"
          /\ token'[call[t].id].status = "rotated"
          /\ token'[Len(token) + 1].sess = token[call[t].id].sess
          /\ \A k \in 1..Len(token) : k # call[t].id => token'[k] = token[k]
      BY <1>7, <2>2, RotateTokenAtomicDoes
    <3> QED BY <1>1, <1>2, <1>7, <3>1, FirstTokensRotated
  <2> QED BY <2>1, <2>2
<1>8. ASSUME CompleteChallenge(t) PROVE FirstTokens'
  <2>1. CASE Ends(t) BY <1>1, <1>3, <1>8, <2>1, CompleteChallengeDoes, QuietEnds
  <2>2. CASE /\ Moves(t, "promote") /\ challenge[call[t].id].status = "pending"
             /\ challenge'[call[t].id].status = "completed"
    BY <1>1, <1>2, <1>8, <2>2, FirstTokensCompleted
  <2> QED BY <1>8, <2>1, <2>2, CompleteChallengeDoes
<1>9. ASSUME PromoteSession(t) PROVE FirstTokens'
  <2>1. /\ call[t].op = "verify" /\ call[t].at = "promote"
        /\ token' = token /\ challenge' = challenge
        /\ Ends(t) \/ Moves(t, "clear")
    BY <1>9, PromoteSessionDoes
  <2>2. CASE Ends(t)
    <3>1. call'[t] = Idle BY <2>2 DEF Ends, Begins
    <3>2. \A u \in Threads : Demoted(u) BY <1>2, <3>1, DemotedIdle
    <3> QED BY <1>1, <2>1, <3>2, FirstTokensKept
  <2>3. CASE Moves(t, "clear")
    <3>1. Demoted(t) BY <2>1, <2>3 DEF Moves, Demoted, ByLogin, ByVerify
    <3> QED BY <1>1, <1>2, <2>1, <3>1, FirstTokensKept
  <2> QED BY <2>1, <2>2, <2>3
<1> QED BY <1>3, <1>4, <1>5, <1>6, <1>7, <1>8, <1>9, ThreadStepDoes DEF Loud

(* Every step. *)
LEMMA FirstTokensNext ==
    ASSUME Linked, Directory, FirstTokens, Next
    PROVE  FirstTokens'
<1>1. Linked' BY LinkedNext
<1>2. ASSUME Outside PROVE FirstTokens'
  <2>1. Grown /\ Level /\ (call' = call \/ Halts) BY <1>2, OutsideDoes
  <2>2. ASSUME NEW u \in Threads PROVE Demoted(u)
    <3>1. call'[u] = call[u] \/ call'[u] = Idle BY <2>1 DEF Halts
    <3> QED BY <2>1, <3>1, DemotedOther, DemotedIdle
  <2> QED BY <1>1, <2>1, <2>2, FirstTokensKept DEF Level
<1> QED BY <1>1, <1>2, NextSplits, FirstTokensThread

-----------------------------------------------------------------------------
(***************************************************************************)
(* The second factor                                                       *)
(***************************************************************************)

\* a raised level, and tokens behind a challenge, come from a completed one
SecondFactor ==
    /\ \A i \in 1..Len(session) : session[i].level = "mfa" => Earned(i)
    /\ \A k \in 1..Len(token) : HasChallenge(token[k].sess) => Earned(token[k].sess)

(* The parts of SecondFactor after a step. *)
LEMMA SecondFactorSplits ==
    ASSUME \A i \in 1..Len(session') : session'[i].level = "mfa" => Earned(i)',
           \A i : HasToken(i)' /\ HasChallenge(i)' => Earned(i)'
    PROVE  SecondFactor'
<1>1. ASSUME NEW k \in 1..Len(token'), HasChallenge(token[k].sess)'
      PROVE  Earned(token[k].sess)'
  <2>1. PICK i : i = token'[k].sess OBVIOUS
  <2>2. HasToken(i)' /\ HasChallenge(i)' BY <1>1, <2>1 DEF HasToken, HasChallenge
  <2>3. Earned(i)' BY <2>2
  <2> QED BY <2>1, <2>3 DEF Earned
<1> QED BY <1>1 DEF SecondFactor

(* Before the step. *)
LEMMA SecondFactorFacts ==
    ASSUME SecondFactor, NEW i, HasToken(i), HasChallenge(i)
    PROVE  Earned(i)
  BY DEF SecondFactor, HasToken

(* Every step. *)
LEMMA SecondFactorNext ==
    ASSUME Linked, Directory, FirstTokens, SecondFactor, Next
    PROVE  SecondFactor'
<1>0. Grown /\ \A i : Earned(i) => Earned(i)' BY LinkedNext, RowsStay
<1>1. ASSUME Level PROVE SecondFactor'
  <2>1. \A i \in 1..Len(session') : session'[i].level = "mfa" => Earned(i)'
    BY <1>0, <1>1 DEF Level, SecondFactor
  <2>2. \A i : HasToken(i)' /\ HasChallenge(i)' => Earned(i)'
    BY <1>0, <1>1, RowsStay, SecondFactorFacts DEF Level
  <2> QED BY <2>1, <2>2, SecondFactorSplits
<1>2. ASSUME session' = session, \A i : HasToken(i)' /\ HasChallenge(i)' => Earned(i)'
      PROVE  SecondFactor'
  <2>1. \A i \in 1..Len(session') : session'[i].level = "mfa" => Earned(i)'
    BY <1>0, <1>2 DEF SecondFactor
  <2> QED BY <1>2, <2>1, SecondFactorSplits
<1>3. ASSUME NEW t \in Threads, CreateSession(t) PROVE SecondFactor'
  <2>1. PICK n : n = Len(session) + 1 OBVIOUS
  <2>2. /\ Len(session') = n /\ session'[n].level = "primary"
        /\ \A i \in 1..Len(session) : session'[i] = session[i]
        /\ token' = token /\ challenge' = challenge /\ Len(session) \in Nat
    BY <1>3, <2>1, CreateSessionDoes, RowFacts
  <2>3. \A i \in 1..Len(session') : i = n \/ i \in 1..Len(session) BY <2>1, <2>2
  <2>4. \A i \in 1..Len(session') : session'[i].level = "mfa" => Earned(i)'
    BY <1>0, <2>2, <2>3 DEF SecondFactor
  <2>5. \A i : HasToken(i)' /\ HasChallenge(i)' => Earned(i)'
    BY <1>0, <2>2, RowsStay, SecondFactorFacts
  <2> QED BY <2>4, <2>5, SecondFactorSplits
<1>4. ASSUME NEW t \in Threads, CreateChallenge(t) PROVE SecondFactor'
  <2>1. PICK s : s = call[t].id OBVIOUS
  <2>2. PICK n : n = Len(challenge) + 1 OBVIOUS
  <2>3. /\ call[t].op = "login" /\ call[t].at = "challenge"
        /\ session' = session /\ token' = token /\ Len(challenge') = Len(challenge) + 1
        /\ challenge'[Len(challenge) + 1] = [sess |-> call[t].id, status |-> "pending"]
        /\ \A c \in 1..Len(challenge) : challenge'[c] = challenge[c]
    BY <1>4, CreateChallengeDoes
  <2>4. Entitled(t, s) BY <2>1, <2>3 DEF Entitled, ByLogin
  <2>5. ~HasToken(s) BY <2>4, FirstTokensFacts
  <2>6. challenge'[n].sess = s /\ Len(challenge') = n /\ Len(challenge) \in Nat
    BY <2>1, <2>2, <2>3, RowFacts
  <2>7. \A c \in 1..Len(challenge') : c = n \/ c \in 1..Len(challenge) BY <2>2, <2>6
  <2>8. \A i : HasToken(i)' => HasToken(i) BY <2>3 DEF HasToken
  <2>9. \A i : HasChallenge(i)' /\ i # s => HasChallenge(i)
    BY <2>3, <2>6, <2>7 DEF HasChallenge
  <2>10. \A i : HasToken(i)' /\ HasChallenge(i)' => Earned(i)'
    BY <1>0, <2>5, <2>8, <2>9, SecondFactorFacts
  <2> QED BY <1>2, <2>3, <2>10
<1>5. ASSUME NEW t \in Threads, IssueInitialTokens(t) PROVE SecondFactor'
  <2>1. PICK s : s = call[t].id OBVIOUS
  <2>2. PICK n : n = Len(token) + 1 OBVIOUS
  <2>3. /\ call[t].op \in {"login", "verify"} /\ call[t].at = "issue"
        /\ session' = session /\ challenge' = challenge
        /\ Len(token') = n /\ token'[n].sess = s /\ Len(token) \in Nat
        /\ \A k \in 1..Len(token) : token'[k] = token[k]
    BY <1>5, <2>1, <2>2, IssueInitialTokensDoes, RowFacts
  <2>4. Entitled(t, s) BY <2>1, <2>3 DEF Entitled, ByLogin, ByVerify
  <2>5. ~HasChallenge(s) \/ Earned(s) BY <2>4, FirstTokensFacts DEF Entitled
  <2>6. \A k \in 1..Len(token') : k = n \/ k \in 1..Len(token) BY <2>2, <2>3
  <2>7. \A i : HasToken(i)' => HasToken(i) \/ i = s BY <2>3, <2>6 DEF HasToken
  <2>8. \A i : HasChallenge(i)' => HasChallenge(i) BY <1>0, <2>3, RowsStay
  <2>9. \A i : HasToken(i)' /\ HasChallenge(i)' => Earned(i)'
    BY <1>0, <2>5, <2>7, <2>8, SecondFactorFacts
  <2> QED BY <1>2, <2>3, <2>9
<1>6. ASSUME NEW t \in Threads, RotateTokenAtomic(t) PROVE SecondFactor'
  <2>1. /\ call[t].op = "refresh" /\ session' = session /\ challenge' = challenge
    BY <1>6, RotateTokenAtomicDoes
  <2>2. CASE token' = token BY <1>1, <2>1, <2>2, RowsKept
  <2>3. CASE /\ Len(token') = Len(token) + 1
             /\ token'[Len(token) + 1].sess = token[call[t].id].sess
    <3>1. PICK n : n = Len(token) + 1 OBVIOUS
    <3>2. call[t].id \in 1..Len(token) /\ Len(token) \in Nat
      BY <2>1, CallFacts, RowFacts DEF InPlace
    <3>3. \A k \in 1..Len(token') : k = n \/ k \in 1..Len(token) BY <2>3, <3>1, <3>2
    <3>4. \A k \in 1..Len(token') : HasToken(token'[k].sess)
      BY <1>0, <2>3, <3>1, <3>2, <3>3 DEF HasToken, Grown
    <3>5. \A i : HasToken(i)' => HasToken(i)
      <4>1. ASSUME NEW i, HasToken(i)' PROVE HasToken(i)
        <5>1. PICK k \in 1..Len(token') : token'[k].sess = i BY <4>1 DEF HasToken
        <5> QED BY <3>4, <5>1
      <4> QED BY <4>1
    <3>6. \A i : HasChallenge(i)' => HasChallenge(i) BY <1>0, <2>1, RowsStay
    <3>7. \A i : HasToken(i)' /\ HasChallenge(i)' => Earned(i)'
      BY <1>0, <3>5, <3>6, SecondFactorFacts
    <3> QED BY <1>2, <2>1, <3>7
  <2> QED BY <1>6, <2>2, <2>3, RotateTokenAtomicDoes
<1>7. ASSUME NEW t \in Threads, CompleteChallenge(t) PROVE SecondFactor'
  BY <1>1, <1>7, CompleteChallengeDoes
<1>8. ASSUME NEW t \in Threads, PromoteSession(t) PROVE SecondFactor'
  <2>1. PICK s : s = challenge[call[t].id].sess OBVIOUS
  <2>2. /\ call[t].op = "verify" /\ call[t].at = "promote" /\ Len(session') = Len(session)
        /\ token' = token /\ challenge' = challenge
        /\ \A j \in 1..Len(session) : j # s => session'[j] = session[j]
    BY <1>8, <2>1, PromoteSessionDoes
  <2>3. ByVerify(t, s) /\ Entitled(t, s) BY <2>1, <2>2 DEF ByVerify, Entitled
  <2>4. Earned(s) BY <2>3, FirstTokensFacts
  <2>5. \A i \in 1..Len(session') : session'[i].level = "mfa" => Earned(i)'
    BY <1>0, <2>2, <2>4 DEF SecondFactor
  <2>6. \A i : HasToken(i)' /\ HasChallenge(i)' => Earned(i)'
    BY <1>0, <2>2, RowsStay, SecondFactorFacts
  <2> QED BY <2>5, <2>6, SecondFactorSplits
<1>9. ASSUME NEW t \in Threads, ThreadStep(t) PROVE SecondFactor'
  BY <1>1, <1>3, <1>4, <1>5, <1>6, <1>7, <1>8, <1>9, ThreadStepDoes DEF Loud, Quiet
<1> QED BY <1>1, <1>9, NextSplits, OutsideDoes

-----------------------------------------------------------------------------
(***************************************************************************)
(* Calls that come too late                                                *)
(***************************************************************************)

\* what LateCalls says of one thread
LatePart(t) ==
    /\ call[t].op = "revoke" /\ call[t].at \in {"sessions", "keys", "challenge"} =>
         deviceRow[call[t].dev] = "revoked"
    /\ call[t].late => Doomed(call[t])

\* no revocation is undone, and what is answered is revoked
Final ==
    /\ gone \subseteq gone' /\ \A d \in gone' : deviceRow'[d] = "revoked"
    /\ \A d \in Devices : deviceRow[d] = "revoked" => deviceRow'[d] = "revoked"

(* A step that leaves the devices alone, ... *)
LEMMA FinalKept ==
    ASSUME LateCalls, gone' = gone, deviceRow' = deviceRow
    PROVE  Final
  BY DEF LateCalls, Final

(* ... or writes them without undoing a revocation. *)
LEMMA FinalWritten ==
    ASSUME Directory, LateCalls, gone' = gone,
           \A d \in Devices : deviceRow[d] = "revoked" => deviceRow'[d] = "revoked"
    PROVE  Final
  BY DEF LateCalls, Final, Directory

(* A call that is doomed stays doomed. *)
LEMMA LateOther ==
    ASSUME Linked, Grown, LateCalls, Final, NEW u \in Threads, call'[u] = call[u]
    PROVE  LatePart(u)'
<1>1. InPlace(call[u]) /\ call[u].id \in Nat BY CallFacts
<1>2. ASSUME call[u].op = "revoke", call[u].at \in {"sessions", "keys", "challenge"}
      PROVE  deviceRow'[call[u].dev] = "revoked"
  BY <1>1, <1>2 DEF LateCalls, Final, InPlace
<1>3. ASSUME Doomed(call[u]), call[u].op = "refresh", Ended(token[call[u].id].sess)
      PROVE  Ended(token[call[u].id].sess)'
  <2>1. call[u].id \in 1..Len(token) BY <1>1, <1>3 DEF InPlace
  <2>2. PICK i : i = token[call[u].id].sess OBVIOUS
  <2>3. i \in 1..Len(session) /\ token'[call[u].id].sess = i
    BY <2>1, <2>2, RowFacts DEF Grown
  <2>4. Ended(i)' BY <1>3, <2>2, <2>3 DEF Grown
  <2> QED BY <2>3, <2>4 DEF Ended
<1>4. ASSUME Doomed(call[u]) PROVE Doomed(call[u])' BY <1>3, <1>4 DEF Doomed, Final
<1> QED BY <1>2, <1>4 DEF LatePart, LateCalls

(* A call that ended is not late. *)
LEMMA LateEnds ==
    ASSUME NEW u, call'[u] = Idle
    PROVE  LatePart(u)'
<1>1. call'[u].op = "idle" /\ ~ call'[u].late BY IdleFields, Zenon
<1> QED BY <1>1 DEF LatePart

(* One step of a thread. *)
LEMMA LateThread ==
    ASSUME Linked, Grown, LateCalls, Final, NEW t \in Threads, Others(t), LatePart(t)'
    PROVE  LateCalls'
<1>1. ASSUME NEW u \in Threads PROVE LatePart(u)' BY LateOther DEF Others
<1> QED BY <1>1 DEF LateCalls, LatePart, Final

(* A call that is late is doomed. *)
LEMMA LateFacts ==
    ASSUME LateCalls, NEW t \in Threads, call[t].late
    PROVE  /\ Doomed(call[t])
           /\ call[t].dev \in gone => deviceRow[call[t].dev] = "revoked"
  BY DEF LateCalls

(* A call that goes on where no doomed call is was not late. *)
LEMMA LateMoves ==
    ASSUME Linked, LateCalls, NEW t \in Threads, NEW at, NEW id,
           Moves(t, at) \/ Turns(t, at, id), call[t].op # "revoke",
           \/ call[t].op \notin {"validate", "verify", "refresh"}
           \/ call[t].at \in {"issue", "rotate", "stamp"}
           \/ call[t].op # "refresh" /\ deviceRow[call[t].dev] = "active"
           \/ call[t].op = "refresh" /\ call[t].at = "session" /\ ~Ended(token[call[t].id].sess)
    PROVE  LatePart(t)'
<1>1. call'[t].op = call[t].op /\ call'[t].late = call[t].late BY DEF Moves, Turns
<1>2. ~call[t].late
  <2> SUFFICES ASSUME call[t].late PROVE FALSE OBVIOUS
  <2>1. Doomed(call[t]) /\ (call[t].dev \in gone => deviceRow[call[t].dev] = "revoked")
    BY LateFacts
  <2> QED BY <2>1 DEF Doomed
<1> QED BY <1>1, <1>2 DEF LatePart

(* A verification that is late goes on towards the check of its device. *)
LEMMA LateVerifies ==
    ASSUME Linked, LateCalls, NEW t \in Threads, NEW at, NEW id,
           Moves(t, at) \/ Turns(t, at, id), call[t].op = "verify", gone' = gone,
           at \in {"count", "code", "complete", "promote", "clear", "device"}
    PROVE  LatePart(t)'
<1>1. /\ call'[t].op = "verify" /\ call'[t].late = call[t].late /\ call'[t].at = at
      /\ call'[t].dev = call[t].dev
  BY DEF Moves, Turns
<1>2. call[t].late => call[t].dev \in gone BY LateFacts DEF Doomed
<1> QED BY <1>1, <1>2 DEF LatePart, Doomed

(* Revocations. *)
LEMMA LateRevokes ==
    ASSUME Linked, LateCalls, NEW t \in Threads, NEW at, Moves(t, at), call[t].op = "revoke",
           deviceRow'[call[t].dev] = "revoked"
    PROVE  LatePart(t)'
<1>1. call'[t].op = "revoke" /\ call'[t].late = call[t].late /\ call'[t].dev = call[t].dev
  BY DEF Moves
<1>2. ~call[t].late BY LateFacts DEF Doomed
<1> QED BY <1>1, <1>2 DEF LatePart

(* Every step of a call about sessions. *)
LEMMA LateSession ==
    ASSUME Linked, Directory, LateCalls, NEW t \in Threads, SessionStep(t)
    PROVE  LatePart(t)' /\ Final
<1> DEFINE G == LatePart(t)' /\ Final
<1>0. ASSUME Ends(t) PROVE LatePart(t)' BY <1>0, LateEnds DEF Ends, Begins
<1>1. ASSUME Still PROVE Final BY <1>1, FinalKept DEF Still
<1>2. ASSUME NEW d \in ListUserDevices, Authenticate(t, d) PROVE G
  <2>1. d \in Devices BY DEF ListUserDevices
  <2>2. Still /\ Opens(t, "login", "create", d, 0, Late(d)) /\ deviceRow[d] = "active"
    BY <1>2, <2>1, AuthenticateDoes
  <2>3. ~Late(d) BY <2>2 DEF Late, LateCalls
  <2>4. call'[t].op = "login" /\ ~call'[t].late BY <2>2, <2>3 DEF Opens
  <2> QED BY <1>1, <2>2, <2>4 DEF LatePart
<1>3. ASSUME NEW d \in ListUserDevices, RevokeDevice(t, d) PROVE G
  <2>1. d \in Devices BY DEF ListUserDevices
  <2>2. CASE call' = call /\ gone' = gone \cup {d} /\ deviceRow[d] = "revoked"
    <3>1. session' = session /\ token' = token /\ challenge' = challenge /\ deviceRow' = deviceRow
      BY <1>3, <2>1, RevokeDeviceDoes
    <3>2. Final BY <2>2, <3>1 DEF Final, LateCalls
    <3>3. Grown BY <3>1, RowsKept
    <3> QED BY <2>2, <3>2, <3>3, LateOther
  <2>3. CASE gone' = gone /\ Opens(t, "revoke", "device", d, 0, FALSE)
    <3>1. deviceRow' = deviceRow BY <1>3, <2>1, RevokeDeviceDoes
    <3>2. LatePart(t)' BY <2>3 DEF Opens, LatePart
    <3> QED BY <2>3, <3>1, <3>2, FinalKept
  <2> QED BY <1>3, <2>1, <2>2, <2>3, RevokeDeviceDoes
<1>4. CASE CreateSession(t) BY <1>4, CreateSessionDoes, LateMoves, FinalKept
<1>5. CASE StampDevice(t) BY <1>0, <1>1, <1>5, StampDeviceDoes, LateMoves
<1>6. CASE IsMfaEnabled(t) BY <1>1, <1>6, IsMfaEnabledDoes, LateMoves
<1>7. CASE CreateChallenge(t) BY <1>7, CreateChallengeDoes, LateMoves, FinalKept
<1>8. CASE IssueInitialTokens(t) BY <1>8, IssueInitialTokensDoes, LateMoves, FinalKept
<1>9. ASSUME NEW i \in DOMAIN session, ValidateSession(t, i) PROVE G
  <2>1. Still BY <1>9, ValidateSessionDoes
  <2>2. PICK late \in BOOLEAN : /\ Opens(t, "validate", "device", session[i].dev, i, late)
                                /\ late => session[i].dev \in gone
    BY <1>9, ValidateSessionDoes
  <2> QED BY <1>1, <2>1, <2>2 DEF Opens, LatePart, Doomed, Still
<1>10. CASE ValidateDevice(t) BY <1>0, <1>1, <1>10, ValidateDeviceDoes, LateMoves
<1>11. ASSUME NEW k \in DOMAIN token, RefreshSession(t, k) PROVE G
  <2>1. Still BY <1>11, RefreshSessionDoes
  <2>2. PICK at \in {"reuse", "device"}, d \in Devices, late \in BOOLEAN :
              /\ Opens(t, "refresh", at, d, k, late)
              /\ late => d \in gone \/ Ended(token[k].sess)
    BY <1>11, RefreshSessionDoes
  <2>3. Ended(token[k].sess) => Ended(token[k].sess)' BY <2>1 DEF Still, Ended
  <2>4. /\ call'[t].op = "refresh" /\ call'[t].at \in {"reuse", "device"}
        /\ call'[t].dev = d /\ call'[t].id = k
        /\ call'[t].late => d \in gone' \/ Ended(token[call[t].id].sess)'
    BY <2>1, <2>2, <2>3 DEF Opens, Still, Ended
  <2>5. LatePart(t)' BY <2>4 DEF LatePart, Doomed
  <2> QED BY <1>1, <2>1, <2>5
<1>12. CASE RefreshReadsDevice(t)
  <2>1. /\ call[t].op = "refresh" /\ call[t].at = "device" /\ Still
        /\ (Moves(t, "session") /\ deviceRow[call[t].dev] = "active") \/ Ends(t)
    BY <1>12, RefreshReadsDeviceDoes
  <2>2. CASE Moves(t, "session") /\ deviceRow[call[t].dev] = "active"
    <3>1. call[t].late => Ended(token[call[t].id].sess) BY <2>1, <2>2, LateFacts DEF Doomed
    <3>2. call[t].late => Ended(token[call[t].id].sess)'
      BY <2>1, <2>2, <3>1 DEF Ended, Still, Moves
    <3>3. /\ call'[t].op = "refresh" /\ call'[t].at = "session"
          /\ call'[t].late = call[t].late
      BY <2>1, <2>2 DEF Moves
    <3>4. LatePart(t)' BY <3>2, <3>3 DEF LatePart, Doomed
    <3> QED BY <1>1, <2>1, <3>4
  <2> QED BY <1>0, <1>1, <2>1, <2>2
<1>13. CASE RefreshReadsSession(t) BY <1>0, <1>1, <1>13, RefreshReadsSessionDoes, LateMoves
<1>14. CASE RotateTokenAtomic(t) BY <1>0, <1>14, RotateTokenAtomicDoes, LateMoves, FinalKept
<1>15. CASE RefreshStamps(t) BY <1>0, <1>1, <1>15, RefreshStampsDoes, LateMoves
<1>16. CASE HandleTokenReuse(t) BY <1>0, <1>16, HandleTokenReuseDoes, FinalKept
<1>17. ASSUME NEW c \in DOMAIN challenge, VerifyMfaChallenge(t, c) PROVE G
  <2>1. /\ Grown /\ session' = session /\ token' = token
        /\ gone' = gone /\ deviceRow' = deviceRow
    BY <1>17, VerifyMfaChallengeDoes
  <2>2. Final BY <2>1, FinalKept
  <2>3. CASE call' = call BY <2>1, <2>2, <2>3, LateOther
  <2>4. CASE \E d \in Devices, late \in BOOLEAN :
               Opens(t, "verify", "count", d, c, late) /\ (late => d \in gone)
    BY <2>1, <2>2, <2>4 DEF Opens, LatePart, Doomed
  <2> QED BY <1>17, <2>3, <2>4, VerifyMfaChallengeDoes
<1>18. CASE CountAttempt(t) BY <1>0, <1>18, CountAttemptDoes, LateVerifies, FinalKept
<1>19. CASE WrongFactor(t) BY <1>0, <1>19, WrongFactorDoes, FinalKept
<1>20. CASE RightFactor(t) BY <1>1, <1>20, RightFactorDoes, LateVerifies DEF Still
<1>21. CASE CompleteChallenge(t)
  BY <1>0, <1>21, CompleteChallengeDoes, LateVerifies, FinalKept
<1>22. CASE PromoteSession(t) BY <1>0, <1>22, PromoteSessionDoes, LateVerifies, FinalKept
<1>23. CASE ClearAttempts(t) BY <1>0, <1>1, <1>23, ClearAttemptsDoes, LateVerifies DEF Still
<1>24. CASE VerifyReadsDevice(t) BY <1>0, <1>1, <1>24, VerifyReadsDeviceDoes, LateMoves
<1>25. CASE RevokeDeviceRow(t)
  <2>1. /\ call[t].op = "revoke" /\ Moves(t, "sessions") /\ gone' = gone
        /\ deviceRow' = [deviceRow EXCEPT ![call[t].dev] = "revoked"]
    BY <1>25, RevokeDeviceRowDoes
  <2>2. call[t].dev \in Devices /\ deviceRow \in [Devices -> DeviceStatus]
    BY <2>1, CallFacts DEF InPlace, Directory
  <2>3. /\ deviceRow'[call[t].dev] = "revoked"
        /\ \A d \in Devices : deviceRow[d] = "revoked" => deviceRow'[d] = "revoked"
    BY <2>1, <2>2
  <2> QED BY <2>1, <2>3, LateRevokes, FinalWritten
<1>26. CASE RevokeAllDeviceSessions(t)
  <2>1. /\ call[t].op = "revoke" /\ call[t].at = "sessions" /\ Moves(t, "keys")
        /\ gone' = gone /\ deviceRow' = deviceRow
    BY <1>26, RevokeAllDeviceSessionsDoes
  <2>2. deviceRow'[call[t].dev] = "revoked" BY <2>1 DEF LateCalls
  <2> QED BY <2>1, <2>2, LateRevokes, FinalKept
<1>27. CASE RevokeAllDeviceKeys(t)
  <2>1. /\ call[t].op = "revoke" /\ call[t].at = "keys" /\ Moves(t, "challenge") /\ Still
    BY <1>27, RevokeAllDeviceKeysDoes
  <2>2. deviceRow'[call[t].dev] = "revoked" BY <2>1 DEF LateCalls, Still
  <2> QED BY <1>1, <2>1, <2>2, LateRevokes
<1>28. CASE EvictChallenge(t)
  <2>1. /\ call[t].op = "revoke" /\ call[t].at = "challenge" /\ Ends(t)
        /\ deviceRow' = deviceRow /\ gone' = gone \cup {call[t].dev}
    BY <1>28, EvictChallengeDoes
  <2>2. deviceRow[call[t].dev] = "revoked" BY <2>1 DEF LateCalls
  <2>3. Final BY <2>1, <2>2 DEF Final, LateCalls
  <2> QED BY <1>0, <2>1, <2>3
<1>29. QED
  BY <1>2, <1>3, <1>4, <1>5, <1>6, <1>7, <1>8, <1>9, <1>10, <1>11, <1>12, <1>13, <1>14, <1>15,
     <1>16, <1>17, <1>18, <1>19, <1>20, <1>21, <1>22, <1>23, <1>24, <1>25, <1>26, <1>27, <1>28
  DEF SessionStep

(* Every step. *)
LEMMA LateNext ==
    ASSUME Linked, Directory, LateCalls, Next
    PROVE  LateCalls' /\ Final
<1>0. Grown BY LinkedNext
<1>1. ASSUME NEW t \in Threads, SessionStep(t) PROVE LateCalls' /\ Final
  <2>1. Others(t) BY <1>1, SessionStepDoes DEF Follows
  <2>2. LatePart(t)' /\ Final BY <1>1, LateSession
  <2> QED BY <1>0, <2>1, <2>2, LateThread
<1>2. ASSUME NEW t \in Threads, DeviceStep(t) PROVE LateCalls' /\ Final
  <2>1. Aside(t) BY <1>2, AsideDoes
  <2>2. Final /\ Others(t) BY <2>1, FinalWritten DEF Aside
  <2>3. ~call'[t].late
    <3>1. \A d \in gone : deviceRow[d] # "active" BY DEF LateCalls
    <3>2. call[t].late => call[t].op \in {"validate", "verify", "refresh"}
      BY LateFacts DEF Doomed
    <3>3. call'[t].late => call[t].late /\ call'[t].op = call[t].op BY <2>1, <3>1 DEF Aside
    <3> QED BY <2>1, <3>2, <3>3 DEF Aside
  <2>4. LatePart(t)' BY <2>1, <2>3 DEF Aside, LatePart
  <2> QED BY <1>0, <2>2, <2>4, LateThread
<1>3. ASSUME Outside PROVE LateCalls' /\ Final
  <2>1. Grown /\ gone' = gone /\ deviceRow' = deviceRow /\ (call' = call \/ Halts)
    BY <1>3, OutsideDoes
  <2>2. Final BY <2>1, FinalKept
  <2>3. ASSUME NEW u \in Threads PROVE LatePart(u)'
    <3>1. call'[u] = call[u] \/ call'[u] = Idle BY <2>1 DEF Halts
    <3> QED BY <2>1, <2>2, <3>1, LateOther, LateEnds
  <2> QED BY <2>2, <2>3 DEF LateCalls, LatePart, Final
<1> QED BY <1>1, <1>2, <1>3, NextSplits DEF ThreadStep

-----------------------------------------------------------------------------
(***************************************************************************)
(* Session calls, seen from the devices                                    *)
(***************************************************************************)

\* the thread is in no call about keys
Calm(t) == /\ call[t].op \notin {"register", "update", "claim", "directory"}
           /\ call[t].at # "mark"

(* A free thread is in none. *)
LEMMA CalmIdle ==
    ASSUME NEW t
    PROVE  /\ call[t] = Idle => Calm(t)
           /\ call'[t] = Idle => Calm(t)'
  BY IdleFields, Zenon DEF Calm

(* A session call begins, ... *)
LEMMA CalmOpens ==
    ASSUME NEW t, NEW op, NEW at, NEW dev, NEW id, NEW late, Opens(t, op, at, dev, id, late),
           op \in {"login", "validate", "refresh", "verify", "revoke"}, at # "mark"
    PROVE  call[t].op \notin {"register", "update", "claim", "directory"} /\ Calm(t)'
<1>1. call[t].op \notin {"register", "update", "claim", "directory"}
  BY CalmIdle DEF Opens, Calm
<1>2. call'[t].op = op /\ call'[t].at = at BY DEF Opens
<1> QED BY <1>1, <1>2 DEF Calm

(* ... goes on ... *)
LEMMA CalmMoves ==
    ASSUME NEW t, NEW at, NEW id, Moves(t, at) \/ Turns(t, at, id), at # "mark",
           call[t].op \in {"login", "validate", "refresh", "verify", "revoke"}
    PROVE  call[t].op \notin {"register", "update", "claim", "directory"} /\ Calm(t)'
  BY DEF Moves, Turns, Calm

(* ... and ends. *)
LEMMA CalmEnds ==
    ASSUME NEW t, Ends(t),
           call[t].op \in {"login", "validate", "refresh", "verify", "revoke"}
    PROVE  call[t].op \notin {"register", "update", "claim", "directory"} /\ Calm(t)'
  BY CalmIdle DEF Ends, Begins

(* A step of a session call is in no call about keys before or after. *)
LEMMA SessionCalm ==
    ASSUME Linked, NEW t \in Threads, SessionStep(t)
    PROVE  call[t].op \notin {"register", "update", "claim", "directory"} /\ Calm(t)'
<1> DEFINE G == call[t].op \notin {"register", "update", "claim", "directory"} /\ Calm(t)'
<1>0. ASSUME Free(t), call' = call PROVE G BY <1>0, CalmIdle DEF Free, Calm
<1>1. ASSUME NEW d \in ListUserDevices, Authenticate(t, d) PROVE G
  <2>1. d \in Devices BY DEF ListUserDevices
  <2> QED BY <1>1, <2>1, AuthenticateDoes, CalmOpens
<1>2. ASSUME NEW d \in ListUserDevices, RevokeDevice(t, d) PROVE G
  <2>1. d \in Devices BY DEF ListUserDevices
  <2>2. Free(t) BY <1>2 DEF RevokeDevice
  <2> QED BY <1>0, <1>2, <2>1, <2>2, RevokeDeviceDoes, CalmOpens
<1>3. CASE CreateSession(t) BY <1>3, CreateSessionDoes, CalmMoves
<1>4. CASE StampDevice(t) BY <1>4, StampDeviceDoes, CalmMoves, CalmEnds
<1>5. CASE IsMfaEnabled(t) BY <1>5, IsMfaEnabledDoes, CalmMoves
<1>6. CASE CreateChallenge(t) BY <1>6, CreateChallengeDoes, CalmMoves
<1>7. CASE IssueInitialTokens(t) BY <1>7, IssueInitialTokensDoes, CalmMoves
<1>8. ASSUME NEW i \in DOMAIN session, ValidateSession(t, i) PROVE G
  BY <1>8, ValidateSessionDoes, CalmOpens
<1>9. CASE ValidateDevice(t) BY <1>9, ValidateDeviceDoes, CalmMoves, CalmEnds
<1>10. ASSUME NEW k \in DOMAIN token, RefreshSession(t, k) PROVE G
  <2>1. PICK at \in {"reuse", "device"}, d \in Devices, late \in BOOLEAN :
          Opens(t, "refresh", at, d, k, late)
    BY <1>10, RefreshSessionDoes
  <2> QED BY <2>1, CalmOpens
<1>11. CASE RefreshReadsDevice(t) BY <1>11, RefreshReadsDeviceDoes, CalmMoves, CalmEnds
<1>12. CASE RefreshReadsSession(t) BY <1>12, RefreshReadsSessionDoes, CalmMoves, CalmEnds
<1>13. CASE RotateTokenAtomic(t) BY <1>13, RotateTokenAtomicDoes, CalmMoves, CalmEnds
<1>14. CASE RefreshStamps(t) BY <1>14, RefreshStampsDoes, CalmMoves, CalmEnds
<1>15. CASE HandleTokenReuse(t) BY <1>15, HandleTokenReuseDoes, CalmEnds
<1>16. ASSUME NEW c \in DOMAIN challenge, VerifyMfaChallenge(t, c) PROVE G
  <2>1. Free(t) BY <1>16 DEF VerifyMfaChallenge
  <2>2. \/ call' = call
        \/ \E d \in Devices, late \in BOOLEAN : Opens(t, "verify", "count", d, c, late)
    BY <1>16, VerifyMfaChallengeDoes
  <2> QED BY <1>0, <2>1, <2>2, CalmOpens
<1>17. CASE CountAttempt(t) BY <1>17, CountAttemptDoes, CalmMoves, CalmEnds
<1>18. CASE WrongFactor(t) BY <1>18, WrongFactorDoes, CalmEnds
<1>19. CASE RightFactor(t) BY <1>19, RightFactorDoes, CalmMoves
<1>20. CASE CompleteChallenge(t) BY <1>20, CompleteChallengeDoes, CalmMoves, CalmEnds
<1>21. CASE PromoteSession(t) BY <1>21, PromoteSessionDoes, CalmMoves, CalmEnds
<1>22. CASE ClearAttempts(t) BY <1>22, ClearAttemptsDoes, CalmMoves, CalmEnds
<1>23. CASE VerifyReadsDevice(t) BY <1>23, VerifyReadsDeviceDoes, CalmMoves, CalmEnds
<1>24. CASE RevokeDeviceRow(t) BY <1>24, RevokeDeviceRowDoes, CalmMoves
<1>25. CASE RevokeAllDeviceSessions(t) BY <1>25, RevokeAllDeviceSessionsDoes, CalmMoves
<1>26. CASE RevokeAllDeviceKeys(t) BY <1>26, RevokeAllDeviceKeysDoes, CalmMoves
<1>27. CASE EvictChallenge(t) BY <1>27, EvictChallengeDoes, CalmEnds
<1>28. QED
  BY <1>1, <1>2, <1>3, <1>4, <1>5, <1>6, <1>7, <1>8, <1>9, <1>10, <1>11, <1>12, <1>13, <1>14,
     <1>15, <1>16, <1>17, <1>18, <1>19, <1>20, <1>21, <1>22, <1>23, <1>24, <1>25, <1>26, <1>27
  DEF SessionStep

(* Only three of these steps write the tables of the devices. *)
LEMMA SessionLeavesDevices ==
    ASSUME NEW t \in Threads, SessionStep(t)
    PROVE  \/ deviceVars' = deviceVars
           \/ RevokeDeviceRow(t) \/ RevokeAllDeviceKeys(t) \/ EvictChallenge(t)
<1>1. ASSUME NEW d, Authenticate(t, d) \/ RevokeDevice(t, d) PROVE deviceVars' = deviceVars
  BY <1>1, Zenon DEF Authenticate, RevokeDevice
<1>2. ASSUME \/ CreateSession(t) \/ StampDevice(t) \/ IsMfaEnabled(t)
             \/ IssueInitialTokens(t) \/ CreateChallenge(t) \/ ValidateDevice(t)
      PROVE  deviceVars' = deviceVars
  BY <1>2, Zenon DEF CreateSession, StampDevice, IsMfaEnabled, IssueInitialTokens,
     CreateChallenge,
              ValidateDevice
<1>3. ASSUME NEW i, ValidateSession(t, i) \/ RefreshSession(t, i) \/ VerifyMfaChallenge(t, i)
      PROVE  deviceVars' = deviceVars
  BY <1>3, Zenon DEF ValidateSession, RefreshSession, VerifyMfaChallenge
<1>4. ASSUME \/ RefreshReadsDevice(t) \/ RefreshReadsSession(t) \/ RotateTokenAtomic(t)
             \/ RefreshStamps(t) \/ HandleTokenReuse(t)
      PROVE  deviceVars' = deviceVars
  BY <1>4, Zenon DEF RefreshReadsDevice, RefreshReadsSession, RotateTokenAtomic,
     RefreshStamps,
              HandleTokenReuse
<1>5. ASSUME \/ CountAttempt(t) \/ WrongFactor(t) \/ RightFactor(t) \/ CompleteChallenge(t)
             \/ PromoteSession(t) \/ ClearAttempts(t) \/ VerifyReadsDevice(t)
             \/ RevokeAllDeviceSessions(t)
      PROVE  deviceVars' = deviceVars
  BY <1>5, Zenon DEF CountAttempt, WrongFactor, RightFactor, CompleteChallenge,
     PromoteSession,
              ClearAttempts, VerifyReadsDevice, RevokeAllDeviceSessions
<1> QED BY <1>1, <1>2, <1>3, <1>4, <1>5 DEF SessionStep

-----------------------------------------------------------------------------
(***************************************************************************)
(* One-time prekeys are handed out once                                    *)
(***************************************************************************)

(* The revocation of the keys of a device. *)
LEMMA RevokeKeysOfDoes ==
    ASSUME Directory, NEW d, RevokeKeysOf(d)
    PROVE  /\ keyRow' \in Seq(Key) /\ Len(keyRow') = Len(keyRow)
           /\ \A k \in 1..Len(keyRow) :
                /\ keyRow'[k].device = keyRow[k].device /\ keyRow'[k].kind = keyRow[k].kind
                /\ keyRow'[k].given = keyRow[k].given
                /\ keyRow'[k].status = "active" => keyRow[k].status = "active"
                /\ keyRow[k].device # d => keyRow'[k] = keyRow[k]
           /\ \A k \in rowLock : keyRow'[k] = keyRow[k]
<1>1. keyRow' = [k \in 1..Len(keyRow) |->
                   IF keyRow[k].device = d /\ keyRow[k].status = "active"
                   THEN [keyRow[k] EXCEPT !.status = "revoked"] ELSE keyRow[k]]
  BY KeyFacts DEF RevokeKeysOf
<1>2. \A k \in 1..Len(keyRow) :
        LET v == [keyRow[k] EXCEPT !.status = "revoked"]
        IN  /\ v \in Key /\ v.device = keyRow[k].device /\ v.kind = keyRow[k].kind
            /\ v.given = keyRow[k].given /\ v.status = "revoked"
  BY KeyFacts DEF Key, KeyStatus
<1>3. keyRow' \in [1..Len(keyRow) -> Key] BY <1>1, <1>2, KeyFacts
<1>4. keyRow' \in Seq(Key) /\ Len(keyRow') = Len(keyRow) BY <1>3, SameLength, KeyFacts
<1>5. \A k \in 1..Len(keyRow) :
        /\ keyRow'[k].device = keyRow[k].device /\ keyRow'[k].kind = keyRow[k].kind
        /\ keyRow'[k].given = keyRow[k].given
        /\ keyRow'[k].status = "active" => keyRow[k].status = "active"
        /\ keyRow[k].device # d => keyRow'[k] = keyRow[k]
  BY <1>1, <1>2
<1>6. \A k \in rowLock : keyRow[k].device # d BY DEF RevokeKeysOf
<1> QED BY <1>4, <1>5, <1>6, KeyFacts

\* rows are kept but for their status, locked ones altogether, and new ones were
\* handed to nobody
Untaken ==
    /\ Len(keyRow) <= Len(keyRow') /\ Len(keyRow') \in Nat
    /\ \A k \in 1..Len(keyRow) : /\ keyRow'[k].given = keyRow[k].given
                                 /\ keyRow'[k].status = "active" => keyRow[k].status = "active"
    /\ \A k \in 1..Len(keyRow') : k \notin 1..Len(keyRow) => keyRow'[k].given = 0
    /\ \A k \in rowLock : keyRow'[k] = keyRow[k]

(* No key is written, ... *)
LEMMA UntakenSame ==
    ASSUME Directory, keyRow' = keyRow
    PROVE  Untaken
  BY KeyFacts DEF Untaken

(* ... a key is stored, ... *)
LEMMA UntakenStores ==
    ASSUME Directory, NEW d \in Devices, NEW kind \in KeyKind, Stores(d, kind)
    PROVE  Untaken
<1>1. NewKey(d, kind).given = 0 BY NewKeyFields
<1>2. /\ Len(keyRow) \in Nat /\ Len(keyRow') = Len(keyRow) + 1
      /\ \A k \in 1..Len(keyRow) : keyRow'[k] = keyRow[k]
      /\ keyRow'[Len(keyRow) + 1].given = 0
  BY <1>1, KeyFacts DEF Stores
<1>3. \A k \in 1..Len(keyRow') : k \notin 1..Len(keyRow) => k = Len(keyRow) + 1 BY <1>2
<1> QED BY <1>2, <1>3, KeyFacts DEF Untaken

(* ... or replaced. *)
LEMMA UntakenReplaces ==
    ASSUME Directory, NEW d \in Devices, NEW old, old \notin rowLock, Replaces(old, d)
    PROVE  Untaken
<1>1. NewKey(d, "signed").given = 0 BY NewKeyFields DEF KeyKind
<1>2. /\ Len(keyRow) \in Nat /\ Len(keyRow') = Len(keyRow) + 1 /\ old \in 1..Len(keyRow)
      /\ \A k \in 1..Len(keyRow) : k # old => keyRow'[k] = keyRow[k]
      /\ keyRow'[Len(keyRow) + 1].given = 0
      /\ keyRow[old].status = "active"
      /\ keyRow'[old] = [keyRow[old] EXCEPT !.status = "replaced"]
  BY <1>1, KeyFacts DEF Replaces
<1>3. \A k \in 1..Len(keyRow') : k \notin 1..Len(keyRow) => k = Len(keyRow) + 1 BY <1>2
<1>4. keyRow'[old].given = keyRow[old].given /\ keyRow'[old].status = "replaced"
  BY <1>2, KeyFacts DEF Key
<1>5. \A k \in 1..Len(keyRow) : /\ keyRow'[k].given = keyRow[k].given
                                /\ keyRow'[k].status = "active" => keyRow[k].status = "active"
  BY <1>2, <1>4
<1> QED BY <1>2, <1>3, <1>5, KeyFacts DEF Untaken

(* Claims are those of the threads that do not step. *)
LEMMA PrekeysKept ==
    ASSUME Directory, Prekeys, Untaken, rowLock' = rowLock, NEW t \in Threads, Others(t),
           ~Claiming(t), ~Claiming(t)', call'[t].at # "mark"
    PROVE  Prekeys'
<1>1. \A u \in Threads : (Claiming(u)' <=> Claiming(u)) BY DEF Others, Claiming
<1>2. \A u \in Threads : Claiming(u) => call'[u] = call[u] BY DEF Others
<1>3. \A u \in Threads : call'[u].at = "mark" => Claiming(u)' BY <1>1 DEF Others, Prekeys
<1>4. \A k \in 1..Len(keyRow') : /\ keyRow'[k].given <= 1
                                 /\ keyRow'[k].status = "active" => keyRow'[k].given = 0
  BY DEF Prekeys, Untaken
<1>5. \A k \in rowLock : k \in 1..Len(keyRow') BY KeyFacts DEF Untaken
<1>6. \A k \in rowLock : /\ keyRow'[k].status = "active" /\ keyRow'[k].kind = "onetime"
                         /\ \E u \in Threads : Claiming(u)' /\ call'[u].id = k
  BY <1>1, <1>2 DEF Prekeys, Untaken
<1>7. \A u \in Threads : Claiming(u)' => call'[u].id \in rowLock' BY <1>1, <1>2 DEF Prekeys
<1>8. \A u, v \in Threads : Claiming(u)' /\ Claiming(v)' /\ call'[u].id = call'[v].id => u = v
  BY <1>1, <1>2 DEF Prekeys
<1> QED BY <1>3, <1>4, <1>5, <1>6, <1>7, <1>8 DEF Prekeys

(* A thread in a call about no keys claims none. *)
LEMMA CalmClaims ==
    ASSUME NEW t
    PROVE  /\ call[t].op \notin {"register", "update", "claim", "directory"} => ~Claiming(t)
           /\ Calm(t)' => ~Claiming(t)' /\ call'[t].at # "mark"
  BY DEF Calm, Claiming

(* Session steps. *)
LEMMA PrekeysSession ==
    ASSUME Linked, Directory, Prekeys, NEW t \in Threads, SessionStep(t)
    PROVE  Prekeys'
<1>1. ~Claiming(t) /\ ~Claiming(t)' /\ call'[t].at # "mark" BY SessionCalm, CalmClaims
<1>2. Others(t) BY SessionStepDoes DEF Follows
<1>3. CASE deviceVars' = deviceVars \/ RevokeDeviceRow(t) \/ EvictChallenge(t)
  <2>1. keyRow' = keyRow /\ rowLock' = rowLock
    BY <1>3 DEF deviceVars, RevokeDeviceRow, EvictChallenge
  <2> QED BY <1>1, <1>2, <2>1, UntakenSame, PrekeysKept
<1>4. CASE RevokeAllDeviceKeys(t)
  <2>1. RevokeKeysOf(call[t].dev) /\ rowLock' = rowLock BY <1>4 DEF RevokeAllDeviceKeys
  <2>2. Untaken BY <2>1, RevokeKeysOfDoes, KeyFacts DEF Untaken
  <2> QED BY <1>1, <1>2, <2>1, <2>2, PrekeysKept
<1> QED BY <1>3, <1>4, SessionLeavesDevices

(* A call that ended claims nothing, ... *)
LEMMA PrekeysEnds ==
    ASSUME Linked, Directory, Prekeys, Untaken, rowLock' = rowLock, NEW t \in Threads,
           ~Claiming(t), Ends(t)
    PROVE  Prekeys'
<1>1. call'[t] = Idle /\ Others(t) BY DEF Ends, Begins
<1> QED BY <1>1, CalmIdle, CalmClaims, PrekeysKept

(* ... nor does one that begins ... *)
LEMMA PrekeysOpens ==
    ASSUME Linked, Directory, Prekeys, Untaken, rowLock' = rowLock, NEW t \in Threads,
           NEW op, NEW at, NEW d, NEW id, NEW late, Opens(t, op, at, d, id, late), at # "mark"
    PROVE  Prekeys'
<1>1. call[t] = Idle /\ Others(t) /\ call'[t].at = at BY DEF Opens
<1>2. ~Claiming(t) BY <1>1, CalmIdle, CalmClaims DEF Calm
<1>3. ~Claiming(t)' BY <1>1 DEF Claiming
<1> QED BY <1>1, <1>2, <1>3, PrekeysKept

(* ... or goes on elsewhere. *)
LEMMA PrekeysMoves ==
    ASSUME Linked, Directory, Prekeys, Untaken, rowLock' = rowLock, NEW t \in Threads,
           ~Claiming(t), NEW at, NEW id, Moves(t, at) \/ Turns(t, at, id), at # "mark"
    PROVE  Prekeys'
<1>1. Others(t) /\ call'[t].at = at BY DEF Moves, Turns
<1>2. ~Claiming(t)' BY <1>1 DEF Claiming
<1> QED BY <1>1, <1>2, PrekeysKept

(* A claim locks a row, ... *)
LEMMA PrekeysLocked ==
    ASSUME Linked, Directory, Prekeys, NEW t \in Threads, ~Claiming(t),
           call[t].op \in {"claim", "directory"}, keyRow' = keyRow,
           NEW d, NEW k \in 1..Len(keyRow), Turns(t, "mark", k), rowLock' = rowLock \cup {k},
           k \in ActiveKeys(d, "onetime") \ rowLock
    PROVE  Prekeys'
<1>1. /\ Others(t) /\ Claiming(t)' /\ call'[t].id = k BY DEF Turns, Claiming
<1>2. \A u \in Threads : u # t => (Claiming(u)' <=> Claiming(u)) /\ call'[u] = call[u]
  BY <1>1 DEF Others, Claiming
<1>3. keyRow[k].status = "active" /\ keyRow[k].kind = "onetime" /\ k \notin rowLock
  BY DEF ActiveKeys
<1>4. \A u \in Threads : call'[u].at = "mark" => Claiming(u)' BY <1>1, <1>2 DEF Prekeys
<1>5. \A u \in Threads : Claiming(u)' => call'[u].id \in rowLock' BY <1>1, <1>2 DEF Prekeys
<1>6. \A u \in Threads : u # t /\ Claiming(u)' => call'[u].id # k BY <1>2, <1>3 DEF Prekeys
<1>7. \A u, v \in Threads : Claiming(u)' /\ Claiming(v)' /\ call'[u].id = call'[v].id => u = v
  BY <1>1, <1>2, <1>6 DEF Prekeys
<1>8. \A j \in rowLock' : j = k \/ j \in rowLock OBVIOUS
<1>9. \A j \in rowLock : \E u \in Threads : Claiming(u)' /\ call'[u].id = j
  BY <1>2 DEF Prekeys
<1>10. \A j \in rowLock' : /\ j \in 1..Len(keyRow') /\ keyRow'[j].status = "active"
                           /\ keyRow'[j].kind = "onetime"
  BY <1>3, <1>8 DEF Prekeys
<1>11. \A j \in rowLock' : \E u \in Threads : Claiming(u)' /\ call'[u].id = j
  BY <1>1, <1>8, <1>9
<1>12. \A j \in 1..Len(keyRow') : /\ keyRow'[j].given <= 1
                                  /\ keyRow'[j].status = "active" => keyRow'[j].given = 0
  BY DEF Prekeys
<1> QED BY <1>4, <1>5, <1>7, <1>10, <1>11, <1>12 DEF Prekeys

(* ... and lets it go, handed out or not. *)
LEMMA PrekeysReleased ==
    ASSUME Linked, Directory, Prekeys, NEW t \in Threads, Claiming(t), Others(t),
           call'[t].at # "mark", rowLock' = rowLock \ {call[t].id},
           Len(keyRow') = Len(keyRow),
           \A j \in 1..Len(keyRow) : j # call[t].id => keyRow'[j] = keyRow[j],
           keyRow' = keyRow \/ /\ keyRow'[call[t].id].status = "claimed"
                               /\ keyRow'[call[t].id].given = keyRow[call[t].id].given + 1
    PROVE  Prekeys'
<1>1. PICK k : k = call[t].id OBVIOUS
<1>2. /\ k \in rowLock /\ k \in 1..Len(keyRow) /\ keyRow[k].status = "active"
      /\ keyRow[k].given = 0
  BY <1>1 DEF Prekeys
<1>3. ~Claiming(t)' BY DEF Claiming
<1>4. \A u \in Threads : u # t => (Claiming(u)' <=> Claiming(u)) /\ call'[u] = call[u]
  BY DEF Others, Claiming
<1>5. \A u \in Threads : call'[u].at = "mark" => Claiming(u)' BY <1>4 DEF Prekeys
<1>6. \A u \in Threads : Claiming(u) /\ u # t => call[u].id # k BY <1>1 DEF Prekeys
<1>7. \A u \in Threads : Claiming(u)' => call'[u].id \in rowLock'
  BY <1>1, <1>3, <1>4, <1>6 DEF Prekeys
<1>8. \A u, v \in Threads : Claiming(u)' /\ Claiming(v)' /\ call'[u].id = call'[v].id => u = v
  BY <1>3, <1>4 DEF Prekeys
<1>9. \A j \in rowLock' : j \in rowLock /\ j # k BY <1>1
<1>10. \A j \in rowLock' : /\ j \in 1..Len(keyRow') /\ keyRow'[j].status = "active"
                           /\ keyRow'[j].kind = "onetime"
  BY <1>1, <1>9 DEF Prekeys
<1>11. ASSUME NEW j \in rowLock' PROVE \E u \in Threads : Claiming(u)' /\ call'[u].id = j
  <2>1. PICK u \in Threads : Claiming(u) /\ call[u].id = j BY <1>9 DEF Prekeys
  <2>2. u # t BY <1>1, <1>9, <2>1
  <2> QED BY <1>4, <2>1, <2>2
<1>12. \A j \in 1..Len(keyRow') : /\ keyRow'[j].given <= 1
                                  /\ keyRow'[j].status = "active" => keyRow'[j].given = 0
  BY <1>1, <1>2 DEF Prekeys
<1> QED BY <1>5, <1>7, <1>8, <1>10, <1>11, <1>12 DEF Prekeys

(* Device steps. *)
LEMMA PrekeysDevice ==
    ASSUME Linked, Directory, Prekeys, Bundles, NEW t \in Threads, DeviceStep(t)
    PROVE  Prekeys'
<1>0. ASSUME call[t].op \notin {"claim", "directory"} PROVE ~Claiming(t) BY <1>0 DEF Claiming
<1>1. ASSUME call[t].at # "mark" PROVE ~Claiming(t) BY <1>1 DEF Claiming
<1>2. ASSUME Frozen PROVE Untaken /\ rowLock' = rowLock BY <1>2, UntakenSame DEF Frozen
<1>3. CASE Return(t) BY <1>1, <1>2, <1>3, ReturnDoes, PrekeysEnds
<1>4. ASSUME NEW d \in Devices, NEW m \in BOOLEAN, RegisterDevice(t, d, m) PROVE Prekeys'
  <2>1. PICK id \in Nat : Opens(t, "register", "identity", d, id, FALSE)
    BY <1>4, RegisterDeviceDoes
  <2>2. keyRow' = keyRow /\ rowLock' = rowLock BY <1>4, RegisterDeviceDoes
  <2> QED BY <2>1, <2>2, UntakenSame, PrekeysOpens
<1>5. ASSUME NEW d \in Devices, InitiateDevicePairing(t, d) PROVE Prekeys'
  BY <1>2, <1>5, InitiateDevicePairingDoes, PrekeysOpens
<1>6. ASSUME NEW d \in Devices, AuthorizeDevice(t, d) PROVE Prekeys'
  BY <1>2, <1>6, AuthorizeDeviceDoes, PrekeysOpens
<1>7. ASSUME NEW d \in Devices, UpdateCryptoPrekeys(t, d) PROVE Prekeys'
  <2>1. PICK at \in {"current", "replenish"} : Opens(t, "update", at, d, 0, Late(d))
    BY <1>7, UpdateCryptoPrekeysDoes
  <2>2. Untaken /\ rowLock' = rowLock BY <1>2, <1>7, UpdateCryptoPrekeysDoes
  <2> QED BY <2>1, <2>2, PrekeysOpens
<1>8. ASSUME NEW d \in Devices, ClaimPrekeyBundle(t, d) PROVE Prekeys'
  BY <1>2, <1>8, ClaimPrekeyBundleDoes, PrekeysOpens
<1>9. CASE GetDeviceCryptoDirectory(t)
  <2>1. PICK late \in BOOLEAN : Opens(t, "directory", "lookup", None, 0, late)
    BY <1>9, GetDeviceCryptoDirectoryDoes
  <2>2. Untaken /\ rowLock' = rowLock BY <1>2, <1>9, GetDeviceCryptoDirectoryDoes
  <2> QED BY <2>1, <2>2, PrekeysOpens
<1>10. \A kind \in {"identity", "signed", "onetime"} : kind \in KeyKind BY DEF KeyKind
<1>11. CASE StoreIdentityKey(t)
  <2>1. Untaken BY <1>10, <1>11, StoreIdentityKeyDoes, UntakenStores
  <2> QED BY <1>0, <1>11, <2>1, StoreIdentityKeyDoes, PrekeysMoves
<1>12. CASE StoreSignedPrekey(t)
  <2>1. Untaken BY <1>10, <1>12, StoreSignedPrekeyDoes, UntakenStores
  <2> QED BY <1>0, <1>12, <2>1, StoreSignedPrekeyDoes, PrekeysMoves
<1>13. CASE StoreOneTimePrekey(t)
  <2>1. Untaken BY <1>10, <1>13, StoreOneTimePrekeyDoes, UntakenStores
  <2> QED BY <1>0, <1>13, <2>1, StoreOneTimePrekeyDoes, PrekeysMoves
<1>14. CASE EnrolmentEnds(t) BY <1>0, <1>14, EnrolmentEndsDoes, UntakenSame, PrekeysEnds
<1>15. CASE IssueChallenge(t) BY <1>0, <1>15, IssueChallengeDoes, UntakenSame, PrekeysEnds
<1>16. CASE AuthorizeByStepUp(t)
  BY <1>0, <1>16, AuthorizeByStepUpDoes, UntakenSame, PrekeysEnds
<1>17. CASE AuthorizeByCode(t) BY <1>0, <1>17, AuthorizeByCodeDoes, UntakenSame, PrekeysEnds
<1>18. CASE WrongCode(t) BY <1>0, <1>18, WrongCodeDoes, UntakenSame, PrekeysEnds
<1>19. CASE FindCurrentPrekey(t)
  BY <1>0, <1>2, <1>19, FindCurrentPrekeyDoes, PrekeysEnds, PrekeysMoves
<1>20. CASE ReplaceKey(t)
  <2>0. call[t].op = "update" /\ call[t].at = "rotate" BY <1>20 DEF ReplaceKey, At
  <2>1. call[t].id # 0 => /\ call[t].id \in 1..Len(keyRow) /\ keyRow[call[t].id].kind = "signed"
    BY <2>0 DEF Bundles, Held
  <2>2. /\ call[t].dev \in Devices /\ rowLock' = rowLock
        /\ Ends(t) \/ Moves(t, "replenish")
        /\ \/ keyRow' = keyRow
           \/ Stores(call[t].dev, "signed")
           \/ call[t].id # 0 /\ Replaces(call[t].id, call[t].dev)
    BY <1>20, <2>1, ReplaceKeyDoes
  <2>3. call[t].id # 0 => call[t].id \notin rowLock BY <2>1 DEF Prekeys
  <2>4. Untaken BY <1>10, <2>2, <2>3, UntakenSame, UntakenStores, UntakenReplaces
  <2> QED BY <1>0, <2>0, <2>2, <2>4, PrekeysEnds, PrekeysMoves
<1>21. CASE ReplenishOneTimePrekeys(t)
  <2>1. /\ call[t].op = "update" /\ Ends(t) /\ rowLock' = rowLock
        /\ keyRow' \in Seq(Key) /\ Len(keyRow) <= Len(keyRow')
        /\ \A k \in 1..Len(keyRow) : keyRow'[k] = keyRow[k]
        /\ \A k \in 1..Len(keyRow') :
             k \notin 1..Len(keyRow) => keyRow'[k] = NewKey(call[t].dev, "onetime")
        /\ NewKey(call[t].dev, "onetime").given = 0
    BY <1>10, <1>21, ReplenishOneTimePrekeysDoes, NewKeyFields
  <2>2. Untaken BY <2>1, KeyFacts DEF Untaken
  <2> QED BY <1>0, <2>1, <2>2, PrekeysEnds
<1>22. CASE ClaimLooksUp(t) \/ DirectoryLooksUp(t)
  <2>1. /\ call[t].op \in {"claim", "directory"} /\ call[t].at = "lookup" /\ keyRow' = keyRow
        /\ Visits(t) \/ (Ends(t) /\ rowLock' = rowLock)
    BY <1>22, LooksUpDoes
  <2>2. ~Claiming(t) /\ Untaken BY <1>1, <2>1, UntakenSame
  <2>3. CASE Ends(t) /\ rowLock' = rowLock BY <2>2, <2>3, PrekeysEnds
  <2>4. CASE \E at \in {"ok", "lookup"} : Turns(t, at, call[t].id) /\ rowLock' = rowLock
    BY <2>2, <2>4, PrekeysMoves
  <2>5. CASE \E d \in Devices, k \in 1..Len(keyRow) :
               /\ Turns(t, "mark", k) /\ rowLock' = rowLock \cup {k}
               /\ k \in ActiveKeys(d, "onetime") \ rowLock
    BY <2>1, <2>2, <2>5, PrekeysLocked
  <2> QED BY <2>1, <2>3, <2>4, <2>5 DEF Visits
<1>23. CASE MarkPrekeyClaimed(t)
  <2>1. Claiming(t) BY <1>23 DEF MarkPrekeyClaimed, Claiming
  <2>2. call[t].id \in 1..Len(keyRow) BY <2>1 DEF Prekeys
  <2>3. PICK at \in {"ok", "lookup"} : Moves(t, at) BY <1>23, <2>2, MarkPrekeyClaimedDoes
  <2>4. Others(t) /\ call'[t].at # "mark" BY <2>3 DEF Moves
  <2>5. /\ rowLock' = rowLock \ {call[t].id} /\ Len(keyRow') = Len(keyRow)
        /\ \A j \in 1..Len(keyRow) : j # call[t].id => keyRow'[j] = keyRow[j]
        /\ keyRow'[call[t].id].status = "claimed"
        /\ keyRow'[call[t].id].given = keyRow[call[t].id].given + 1
    BY <1>23, <2>2, MarkPrekeyClaimedDoes
  <2> QED BY <2>1, <2>4, <2>5, PrekeysReleased
<1>24. CASE CallThrows(t)
  <2>1. /\ Ends(t) /\ keyRow' = keyRow
        /\ rowLock' = rowLock \ (IF call[t].at = "mark" THEN {call[t].id} ELSE {})
    BY <1>24, CallThrowsDoes
  <2>2. CASE call[t].at = "mark"
    <3>1. Claiming(t) /\ rowLock' = rowLock \ {call[t].id} BY <2>1, <2>2 DEF Prekeys
    <3>2. Others(t) /\ call'[t] = Idle BY <2>1 DEF Ends, Begins
    <3>3. call'[t].at # "mark" BY <3>2, IdleFields, Zenon
    <3> QED BY <2>1, <3>1, <3>2, <3>3, PrekeysReleased
  <2>3. CASE call[t].at # "mark"
    <3>1. rowLock' = rowLock BY <2>1, <2>3
    <3> QED BY <1>1, <2>1, <2>3, <3>1, UntakenSame, PrekeysEnds
  <2> QED BY <2>2, <2>3
<1>25. QED
  BY <1>3, <1>4, <1>5, <1>6, <1>7, <1>8, <1>9, <1>11, <1>12, <1>13, <1>14, <1>15, <1>16,
     <1>17,
     <1>18, <1>19, <1>20, <1>21, <1>22, <1>23, <1>24 DEF DeviceStep

(* Every step. *)
LEMMA PrekeysNext ==
    ASSUME Linked, Directory, Prekeys, Bundles, Next
    PROVE  Prekeys'
<1>1. ASSUME Outside PROVE Prekeys'
  <2>1. keyRow' = keyRow /\ (call' = call \/ (Halts /\ rowLock' = {})) BY <1>1, OutsideDoes
  <2>2. CASE Halts /\ rowLock' = {}
    <3>1. ASSUME NEW u \in Threads PROVE ~Claiming(u)' /\ call'[u].at # "mark"
      BY <2>2, CalmIdle, CalmClaims DEF Halts
    <3> QED BY <2>1, <2>2, <3>1 DEF Prekeys
  <2>3. CASE call' = call
    <3>1. rowLock' = rowLock \/ (Halts /\ rowLock' = {})
      BY <1>1, Zenon DEF Outside, PairingLapses, RevokeSession, RevokeAllUserSessions,
         ExpireStaleSessions, TimePasses, InitiateMfaEnrollment, ConfirmMfaEnrollment,
         DisableMfa, Restart, Halts, deviceVars
    <3> QED BY <2>1, <2>2, <2>3, <3>1 DEF Prekeys, Claiming
  <2> QED BY <2>1, <2>2, <2>3
<1> QED BY <1>1, NextSplits, PrekeysSession, PrekeysDevice DEF ThreadStep

-----------------------------------------------------------------------------
(***************************************************************************)
(* Enrolled devices keep their keys                                        *)
(***************************************************************************)

(* Held, said of a device that does not change: an enrolment, ... *)
LEMMA HeldRegisters ==
    ASSUME NEW t \in Threads, NEW d, call'[t].op = "register", call'[t].dev = d,
           d \notin complete', deviceRow'[d] # "none",
           \A u \in Threads : Registering(u, d)' => t = u,
           call'[t].at = "identity" => NoKey(d, "identity")' /\ NoKey(d, "signed")',
           call'[t].at = "signed" => /\ NoKey(d, "signed")'
                                     /\ deviceRow'[d] # "revoked" => One(d, "identity")',
           call'[t].at = "onetime" => Reachable(d)'
    PROVE  Held(t)'
  BY DEF Held, NoKey, One, Reachable, ActiveKeys, Registering

(* ... an update, ... *)
LEMMA HeldUpdates ==
    ASSUME NEW t \in Threads, NEW d, NEW id, call'[t].op = "update", call'[t].dev = d,
           call'[t].id = id, d \in complete',
           call'[t].at = "rotate" =>
             /\ id = 0 => deviceRow'[d] = "revoked"
             /\ id # 0 => /\ id \in 1..Len(keyRow') /\ keyRow'[id].kind = "signed"
                          /\ keyRow'[id].device = d
    PROVE  Held(t)'
  BY DEF Held

(* ... or another call. *)
LEMMA HeldCalmly ==
    ASSUME NEW t \in Threads
    PROVE  /\ call'[t].op \notin {"register", "update"} => Held(t)'
           /\ call'[t] = Idle => Held(t)'
<1>1. call'[t].op \notin {"register", "update"} => Held(t)' BY DEF Held
<1>2. call'[t] = Idle => call'[t].op = "idle" BY IdleFields, Zenon
<1> QED BY <1>1, <1>2

(* What an enrolment knows. *)
LEMMA HeldFacts ==
    ASSUME Bundles, NEW t \in Threads, NEW d, d = call[t].dev
    PROVE  /\ call[t].op = "register" =>
                /\ d \notin complete /\ deviceRow[d] # "none"
                /\ \A u \in Threads : Registering(u, d) => t = u
                /\ call[t].at = "identity" => NoKey(d, "identity") /\ NoKey(d, "signed")
                /\ call[t].at = "signed" =>
                     NoKey(d, "signed") /\ (deviceRow[d] # "revoked" => One(d, "identity"))
                /\ call[t].at = "onetime" => Reachable(d)
           /\ call[t].op = "update" => d \in complete
  BY DEF Bundles, Held

\* the keys of a kind that device e has stay as they are
Kept(e, kind) ==
    /\ ActiveKeys(e, kind)' = ActiveKeys(e, kind)
    /\ NoKey(e, kind) => NoKey(e, kind)'

(* Rows of other devices or of another kind do not matter. *)
LEMMA KeptElsewhere ==
    ASSUME Directory, keyRow' \in Seq(Key), Len(keyRow) <= Len(keyRow'), NEW e, NEW kind,
           \A k \in 1..Len(keyRow) :
             /\ keyRow'[k].device = keyRow[k].device /\ keyRow'[k].kind = keyRow[k].kind
             /\ keyRow[k].device = e /\ keyRow[k].kind = kind => keyRow'[k] = keyRow[k],
           \A k \in 1..Len(keyRow') : k \notin 1..Len(keyRow) =>
             keyRow'[k].device # e \/ keyRow'[k].kind # kind
    PROVE  Kept(e, kind)
<1>1. /\ DOMAIN keyRow = 1..Len(keyRow) /\ DOMAIN keyRow' = 1..Len(keyRow')
      /\ Len(keyRow) \in Nat /\ Len(keyRow') \in Nat
  BY KeyFacts
<1>2. \A k \in 1..Len(keyRow) : k \in 1..Len(keyRow') BY <1>1
<1>3. ASSUME NEW k PROVE k \in ActiveKeys(e, kind)' <=> k \in ActiveKeys(e, kind)
  BY <1>1, <1>2 DEF ActiveKeys
<1>4. NoKey(e, kind) => NoKey(e, kind)' BY <1>1, <1>2 DEF NoKey
<1> QED BY <1>3, <1>4 DEF Kept

(* A table that does not change keeps them. *)
LEMMA KeptSame ==
    ASSUME keyRow' = keyRow, NEW e, NEW kind
    PROVE  Kept(e, kind)
  BY DEF Kept, ActiveKeys, NoKey

(* Kept keys are as many as they were. *)
LEMMA KeptOne ==
    ASSUME NEW e, NEW kind, Kept(e, kind), One(e, kind)
    PROVE  One(e, kind)'
  BY DEF Kept, One

(* Storing the key of one kind keeps the others, ... *)
LEMMA StoresKeeps ==
    ASSUME Directory, NEW d \in Devices, NEW kind \in KeyKind, Stores(d, kind),
           NEW e, NEW other, e # d \/ other # kind
    PROVE  Kept(e, other)
<1>1. NewKey(d, kind).device = d /\ NewKey(d, kind).kind = kind BY NewKeyFields
<1>2. \A k \in 1..Len(keyRow') : k \notin 1..Len(keyRow) => k = Len(keyRow) + 1
  BY KeyFacts DEF Stores
<1>3. keyRow' \in Seq(Key) /\ Len(keyRow) <= Len(keyRow') BY KeyFacts DEF Stores
<1>4. \A k \in 1..Len(keyRow') : k \notin 1..Len(keyRow) =>
           keyRow'[k].device # e \/ keyRow'[k].kind # other
  BY <1>1, <1>2 DEF Stores
<1>5. \A k \in 1..Len(keyRow) : keyRow'[k] = keyRow[k] BY DEF Stores
<1> QED BY <1>3, <1>4, <1>5, KeptElsewhere

(* ... and the first of its kind is the only one. *)
LEMMA StoresFirst ==
    ASSUME Directory, NEW d \in Devices, NEW kind \in KeyKind, Stores(d, kind),
           ActiveKeys(d, kind) = {}
    PROVE  One(d, kind)'
<1>1. /\ NewKey(d, kind).device = d /\ NewKey(d, kind).kind = kind
      /\ NewKey(d, kind).status = "active"
  BY NewKeyFields
<1>2. /\ Len(keyRow) \in Nat /\ DOMAIN keyRow = 1..Len(keyRow)
      /\ DOMAIN keyRow' = 1..Len(keyRow') /\ Len(keyRow') = Len(keyRow) + 1
  BY KeyFacts DEF Stores
<1>3. ASSUME NEW k \in DOMAIN keyRow'
      PROVE  k \in ActiveKeys(d, kind)' <=> k = Len(keyRow) + 1
  <2>1. CASE k \in 1..Len(keyRow) BY <1>2, <2>1 DEF Stores, ActiveKeys
  <2>2. CASE k = Len(keyRow) + 1 BY <1>1, <1>2, <2>2 DEF Stores, ActiveKeys
  <2> QED BY <1>2, <2>1, <2>2
<1>4. ActiveKeys(d, kind)' = {Len(keyRow) + 1}
  <2>1. ActiveKeys(d, kind)' \subseteq DOMAIN keyRow' BY DEF ActiveKeys
  <2> QED BY <1>2, <1>3, <2>1
<1> QED BY <1>4 DEF One

(* A device without keys has no active ones. *)
LEMMA NoneActive ==
    ASSUME Directory, NEW d, NEW kind, NoKey(d, kind)
    PROVE  ActiveKeys(d, kind) = {}
  BY KeyFacts DEF NoKey, ActiveKeys

(* Replacing the only signed prekey leaves one, ... *)
LEMMA ReplacesOne ==
    ASSUME Directory, NEW d \in Devices, NEW old, Replaces(old, d), One(d, "signed"),
           keyRow[old].kind = "signed", keyRow[old].device = d
    PROVE  One(d, "signed")'
<1>0. "signed" \in KeyKind BY DEF KeyKind
<1>1. /\ NewKey(d, "signed").device = d /\ NewKey(d, "signed").kind = "signed"
      /\ NewKey(d, "signed").status = "active"
  BY <1>0, NewKeyFields
<1>2. /\ Len(keyRow) \in Nat /\ DOMAIN keyRow = 1..Len(keyRow)
      /\ DOMAIN keyRow' = 1..Len(keyRow') /\ Len(keyRow') = Len(keyRow) + 1
      /\ old \in 1..Len(keyRow)
  BY KeyFacts DEF Replaces
<1>3. ActiveKeys(d, "signed") = {old}
  <2>1. old \in ActiveKeys(d, "signed") BY <1>2 DEF Replaces, ActiveKeys
  <2> QED BY <2>1 DEF One
<1>4. keyRow'[old].status # "active"
  <2>1. keyRow[old] \in Key BY <1>2, KeyFacts
  <2> QED BY <2>1 DEF Replaces, Key
<1>5. ASSUME NEW k \in DOMAIN keyRow'
      PROVE  k \in ActiveKeys(d, "signed")' <=> k = Len(keyRow) + 1
  <2>1. CASE k \in 1..Len(keyRow) /\ k # old
    <3>1. keyRow'[k] = keyRow[k] /\ k \notin ActiveKeys(d, "signed")
      BY <1>3, <2>1 DEF Replaces
    <3> QED BY <1>2, <2>1, <3>1 DEF ActiveKeys
  <2>2. CASE k = old BY <1>2, <1>4, <2>2 DEF ActiveKeys
  <2>3. CASE k = Len(keyRow) + 1 BY <1>1, <1>2, <2>3 DEF Replaces, ActiveKeys
  <2> QED BY <1>2, <2>1, <2>2, <2>3
<1>6. ActiveKeys(d, "signed")' = {Len(keyRow) + 1}
  <2>1. ActiveKeys(d, "signed")' \subseteq DOMAIN keyRow' BY DEF ActiveKeys
  <2> QED BY <1>2, <1>5, <2>1
<1> QED BY <1>6 DEF One

(* ... and touches no other key. *)
LEMMA ReplacesKeeps ==
    ASSUME Directory, NEW d \in Devices, NEW old, Replaces(old, d),
           keyRow[old].kind = "signed", keyRow[old].device = d,
           NEW e, NEW other, e # d \/ other # "signed"
    PROVE  Kept(e, other)
<1>0. "signed" \in KeyKind BY DEF KeyKind
<1>1. NewKey(d, "signed").device = d /\ NewKey(d, "signed").kind = "signed"
  BY <1>0, NewKeyFields
<1>2. \A k \in 1..Len(keyRow') : k \notin 1..Len(keyRow) => k = Len(keyRow) + 1
  BY KeyFacts DEF Replaces
<1>3. keyRow' \in Seq(Key) /\ Len(keyRow) <= Len(keyRow') BY KeyFacts DEF Replaces
<1>4. \A k \in 1..Len(keyRow') : k \notin 1..Len(keyRow) =>
           keyRow'[k].device # e \/ keyRow'[k].kind # other
  BY <1>1, <1>2 DEF Replaces
<1>5. keyRow'[old].device = keyRow[old].device /\ keyRow'[old].kind = keyRow[old].kind
  <2>1. keyRow[old] \in Key BY KeyFacts DEF Replaces
  <2> QED BY <2>1 DEF Replaces, Key
<1>6. \A k \in 1..Len(keyRow) :
           /\ keyRow'[k].device = keyRow[k].device /\ keyRow'[k].kind = keyRow[k].kind
           /\ keyRow[k].device = e /\ keyRow[k].kind = other => keyRow'[k] = keyRow[k]
  BY <1>5 DEF Replaces
<1> QED BY <1>3, <1>4, <1>6, KeptElsewhere

(* A step keeps Bundles when it keeps the keys of the devices that are     *)
(* enrolled or that another thread is enrolling, and what its own call     *)
(* relies on.                                                              *)
LEMMA BundlesStep ==
    ASSUME Linked, Directory, Bundles, NEW t \in Threads, Others(t), Held(t)',
           keyRow' \in Seq(Key), Len(keyRow) <= Len(keyRow'), complete' \subseteq Devices,
           \A e \in Devices : /\ deviceRow[e] # "none" => deviceRow'[e] # "none"
                              /\ deviceRow[e] = "revoked" => deviceRow'[e] = "revoked",
           \A k \in 1..Len(keyRow) :
             keyRow'[k].device = keyRow[k].device /\ keyRow'[k].kind = keyRow[k].kind,
           \A k \in 1..Len(keyRow') : k \notin 1..Len(keyRow) =>
             deviceRow'[keyRow'[k].device] # "none",
           complete \subseteq complete',
           \A e \in complete' : e \notin complete => Reachable(e)' /\ Registering(t, e),
           \A e \in complete, kind \in {"identity", "signed"} :
             deviceRow'[e] # "revoked" /\ One(e, kind) => One(e, kind)',
           \A u \in Threads, e \in Devices, kind \in {"identity", "signed"} :
             u # t /\ Registering(u, e) =>
               /\ NoKey(e, kind) => NoKey(e, kind)'
               /\ deviceRow'[e] # "revoked" /\ One(e, kind) => One(e, kind)',
           \A e \in Devices : Registering(t, e)' => Registering(t, e) \/ deviceRow[e] = "none"
    PROVE  Bundles'
<1>0. complete \subseteq Devices BY DEF Directory
<1>1. ASSUME NEW e \in complete' PROVE Reachable(e)'
  <2>1. CASE e \in complete
    <3>1. Reachable(e) /\ e \in Devices BY <1>0, <2>1 DEF Bundles
    <3> QED BY <2>1, <3>1 DEF Reachable
  <2> QED BY <2>1
<1>2. ASSUME NEW e \in Devices, deviceRow'[e] = "none", NEW k \in 1..Len(keyRow')
      PROVE  keyRow'[k].device # e
  <2>1. CASE k \in 1..Len(keyRow) BY <1>2, <2>1 DEF Bundles
  <2> QED BY <1>2, <2>1
<1>3. ASSUME NEW u \in Threads, u # t PROVE Held(u)'
  <2>1. PICK d : d = call[u].dev OBVIOUS
  <2>2. call'[u] = call[u] /\ call'[u].dev = d BY <1>3, <2>1 DEF Others
  <2>3. CASE call[u].op = "register"
    <3>1. d \in Devices BY <2>1, <2>3, CallFacts DEF InPlace
    <3>2. Registering(u, d) BY <2>1, <2>3 DEF Registering
    <3>3. /\ d \notin complete /\ deviceRow[d] # "none"
          /\ \A v \in Threads : Registering(v, d) => u = v
          /\ call[u].at = "identity" => NoKey(d, "identity") /\ NoKey(d, "signed")
          /\ call[u].at = "signed" =>
               NoKey(d, "signed") /\ (deviceRow[d] # "revoked" => One(d, "identity"))
          /\ call[u].at = "onetime" => Reachable(d)
      BY <2>1, <2>3, HeldFacts
    <3>4. d \notin complete' BY <1>3, <3>3
    <3>5. \A v \in Threads : Registering(v, d)' => u = v
      <4>1. \A v \in Threads : v # t => (Registering(v, d)' <=> Registering(v, d))
        BY DEF Others, Registering
      <4> QED BY <3>1, <3>3, <4>1
    <3>6. \A kind \in {"identity", "signed"} :
             /\ NoKey(d, kind) => NoKey(d, kind)'
             /\ deviceRow'[d] # "revoked" /\ One(d, kind) => One(d, kind)'
      BY <1>3, <3>1, <3>2
    <3>7. deviceRow'[d] # "none" /\ (deviceRow'[d] # "revoked" => deviceRow[d] # "revoked")
      BY <3>1, <3>3
    <3>8. Reachable(d) => Reachable(d)' BY <3>6, <3>7 DEF Reachable
    <3> QED BY <2>2, <2>3, <3>3, <3>4, <3>5, <3>6, <3>7, <3>8, HeldRegisters
  <2>4. CASE call[u].op = "update"
    <3>1. d \in complete' /\ d \in Devices BY <1>0, <2>1, <2>4, HeldFacts
    <3>2. call[u].at = "rotate" =>
            /\ call[u].id = 0 => deviceRow[d] = "revoked"
            /\ call[u].id # 0 => /\ call[u].id \in 1..Len(keyRow)
                                 /\ keyRow[call[u].id].kind = "signed"
                                 /\ keyRow[call[u].id].device = d
      BY <2>1, <2>4 DEF Bundles, Held
    <3>3. \A k \in 1..Len(keyRow) : k \in 1..Len(keyRow') BY KeyFacts
    <3> QED BY <2>2, <2>4, <3>1, <3>2, <3>3, HeldUpdates
  <2> QED BY <2>2, <2>3, <2>4, HeldCalmly
<1> QED BY <1>1, <1>2, <1>3 DEF Bundles

(* Steps that write no key. *)
LEMMA BundlesLeft ==
    ASSUME Linked, Directory, Bundles, NEW t \in Threads, Others(t), Held(t)',
           keyRow' = keyRow, complete' = complete,
           \A e \in Devices : /\ deviceRow[e] # "none" => deviceRow'[e] # "none"
                              /\ deviceRow[e] = "revoked" => deviceRow'[e] = "revoked",
           \A e \in Devices : Registering(t, e)' => Registering(t, e) \/ deviceRow[e] = "none"
    PROVE  Bundles'
<1>1. \A e, kind : Kept(e, kind) BY KeptSame
<1>2. \A e, kind : /\ NoKey(e, kind) => NoKey(e, kind)'
                   /\ One(e, kind) => One(e, kind)'
  BY <1>1, KeptOne DEF Kept
<1>3. keyRow \in Seq(Key) /\ Len(keyRow) <= Len(keyRow) /\ complete \subseteq Devices
  BY KeyFacts DEF Directory
<1> QED BY <1>2, <1>3, BundlesStep

(* The call that is about keys no longer, ... *)
LEMMA BundlesCalm ==
    ASSUME Linked, Directory, Bundles, NEW t \in Threads, Others(t),
           call'[t].op \notin {"register", "update"} \/ call'[t] = Idle,
           keyRow' = keyRow, complete' = complete,
           \A e \in Devices : /\ deviceRow[e] # "none" => deviceRow'[e] # "none"
                              /\ deviceRow[e] = "revoked" => deviceRow'[e] = "revoked"
    PROVE  Bundles'
<1>1. call'[t].op # "register" BY IdleFields, Zenon
<1>2. \A e \in Devices : ~Registering(t, e)' BY <1>1 DEF Registering
<1> QED BY <1>2, HeldCalmly, BundlesLeft

(* ... ends, ... *)
LEMMA BundlesEnds ==
    ASSUME Linked, Directory, Bundles, NEW t \in Threads, Ends(t), Frozen
    PROVE  Bundles'
<1>1. Others(t) /\ call'[t] = Idle BY DEF Ends, Begins
<1> QED BY <1>1, BundlesCalm DEF Frozen

(* ... or is of another kind. *)
LEMMA BundlesOpens ==
    ASSUME Linked, Directory, Bundles, NEW t \in Threads, Frozen,
           NEW op, NEW at, NEW d, NEW id, NEW late, Opens(t, op, at, d, id, late),
           op \notin {"register", "update"}
    PROVE  Bundles'
<1>1. Others(t) /\ call'[t].op \notin {"register", "update"} BY DEF Opens
<1> QED BY <1>1, BundlesCalm DEF Frozen

(* Steps of the sessions. *)
LEMMA BundlesSession ==
    ASSUME Linked, Directory, LateCalls, Bundles, NEW t \in Threads, SessionStep(t)
    PROVE  Bundles'
<1>1. Others(t) /\ call'[t].op \notin {"register", "update"}
  BY SessionCalm, SessionStepDoes DEF Follows, Calm
<1>2. CASE deviceVars' = deviceVars \/ EvictChallenge(t)
  <2>1. keyRow' = keyRow /\ complete' = complete /\ deviceRow' = deviceRow
    BY <1>2 DEF deviceVars, EvictChallenge
  <2> QED BY <1>1, <2>1, BundlesCalm
<1>3. CASE RevokeDeviceRow(t)
  <2>1. /\ keyRow' = keyRow /\ complete' = complete
        /\ deviceRow' = [deviceRow EXCEPT ![call[t].dev] = "revoked"]
    BY <1>3 DEF RevokeDeviceRow, RevokeRow
  <2>2. \A e \in Devices : deviceRow'[e] = deviceRow[e] \/ deviceRow'[e] = "revoked"
    BY <2>1 DEF Directory
  <2> QED BY <1>1, <2>1, <2>2, BundlesCalm
<1>4. CASE RevokeAllDeviceKeys(t)
  <2>1. PICK d : d = call[t].dev OBVIOUS
  <2>2. /\ RevokeKeysOf(d) /\ deviceRow' = deviceRow /\ complete' = complete
        /\ deviceRow[d] = "revoked"
    BY <1>4, <2>1, RevokeAllDeviceKeysDoes DEF RevokeAllDeviceKeys, LateCalls
  <2>3. /\ keyRow' \in Seq(Key) /\ Len(keyRow') = Len(keyRow)
        /\ \A k \in 1..Len(keyRow) :
             /\ keyRow'[k].device = keyRow[k].device /\ keyRow'[k].kind = keyRow[k].kind
             /\ keyRow[k].device # d => keyRow'[k] = keyRow[k]
    BY <2>2, RevokeKeysOfDoes
  <2>4. Len(keyRow) <= Len(keyRow') /\ complete' \subseteq Devices
    BY <2>2, <2>3, KeyFacts DEF Directory
  <2>5. ASSUME NEW e, NEW kind, e # d PROVE Kept(e, kind) BY <2>3, <2>4, <2>5, KeptElsewhere
  <2>6. ASSUME NEW e, NEW kind, NoKey(e, kind) PROVE NoKey(e, kind)' BY <2>3, <2>6 DEF NoKey
  <2>7. ASSUME NEW e, NEW kind, deviceRow'[e] # "revoked", One(e, kind) PROVE One(e, kind)'
    BY <2>2, <2>5, <2>7, KeptOne
  <2>8. \A e \in Devices : ~Registering(t, e)' BY <1>1 DEF Registering
  <2> QED BY <1>1, <2>2, <2>3, <2>4, <2>6, <2>7, <2>8, HeldCalmly, BundlesStep
<1> QED BY <1>2, <1>3, <1>4, SessionLeavesDevices

(* A key is stored by the enrolment of its device, *)
LEMMA BundlesStores ==
    ASSUME Linked, Directory, Bundles, NEW t \in Threads, Others(t), Held(t)',
           NEW d \in Devices, NEW kind \in KeyKind, Stores(d, kind), d = call[t].dev,
           call[t].op = "register", call'[t].op = "register", call'[t].dev = d,
           deviceRow' = deviceRow, complete' = complete
    PROVE  Bundles'
<1>1. /\ d \notin complete /\ deviceRow[d] # "none"
      /\ \A u \in Threads : Registering(u, d) => t = u
  BY HeldFacts
<1>2. ASSUME NEW e, NEW other, e # d PROVE
        /\ NoKey(e, other) => NoKey(e, other)'
        /\ One(e, other) => One(e, other)'
  BY <1>2, StoresKeeps, KeptOne DEF Kept
<1>3. /\ keyRow' \in Seq(Key) /\ Len(keyRow) <= Len(keyRow') /\ complete \subseteq Devices
      /\ \A k \in 1..Len(keyRow) : keyRow'[k] = keyRow[k]
  BY KeyFacts DEF Directory, Stores
<1>4. NewKey(d, kind).device = d BY NewKeyFields
<1>5. \A k \in 1..Len(keyRow') : k \notin 1..Len(keyRow) => keyRow'[k].device = d
  BY <1>4, KeyFacts DEF Stores
<1>6. \A e \in Devices : Registering(t, e)' => Registering(t, e) BY DEF Registering
<1> QED BY <1>1, <1>2, <1>3, <1>5, <1>6, BundlesStep

(* a signed prekey by an update of an enrolled device, in place of the old *)
(* one or when the device is revoked, ...                                  *)
LEMMA BundlesRotates ==
    ASSUME Linked, Directory, Bundles, NEW t \in Threads, ReplaceKey(t)
    PROVE  Bundles'
<1>0. call[t].op = "update" /\ call[t].at = "rotate" BY DEF ReplaceKey, At
<1>1. PICK d, old : d = call[t].dev /\ old = call[t].id OBVIOUS
<1>2. /\ d \in complete
      /\ old = 0 => deviceRow[d] = "revoked"
      /\ old # 0 => old \in 1..Len(keyRow) /\ keyRow[old].kind = "signed" /\ keyRow[old].device = d
  BY <1>0, <1>1 DEF Bundles, Held
<1>3. /\ d \in Devices /\ (Ends(t) \/ Moves(t, "replenish"))
      /\ deviceRow' = deviceRow /\ complete' = complete
      /\ \/ keyRow' = keyRow
         \/ old = 0 /\ Stores(d, "signed")
         \/ old # 0 /\ Replaces(old, d)
  BY <1>1, <1>2, ReplaceKeyDoes
<1>4. Others(t) BY <1>3 DEF Ends, Begins, Moves
<1>5. Held(t)' /\ \A e \in Devices : ~Registering(t, e)'
  <2>1. CASE Ends(t)
    <3>1. call'[t] = Idle BY <2>1 DEF Ends, Begins
    <3>2. call'[t].op # "register" BY <3>1, IdleFields, Zenon
    <3> QED BY <3>1, <3>2, HeldCalmly DEF Registering
  <2>2. CASE Moves(t, "replenish")
    <3>1. /\ call'[t].op = "update" /\ call'[t].at = "replenish" /\ call'[t].dev = d
          /\ call'[t].id = old
      BY <1>0, <1>1, <2>2 DEF Moves
    <3> QED BY <1>2, <1>3, <3>1, HeldUpdates DEF Registering
  <2> QED BY <1>3, <2>1, <2>2
<1>6. "signed" \in KeyKind /\ complete \subseteq Devices BY DEF KeyKind, Directory
<1>7. \A u \in Threads : ~Registering(u, d) BY <1>2, HeldFacts DEF Registering
<1>8. deviceRow[d] # "none" BY <1>2 DEF Bundles, Reachable
<1>9. NewKey(d, "signed").device = d BY <1>3, <1>6, NewKeyFields
<1>10. CASE keyRow' = keyRow BY <1>3, <1>4, <1>5, <1>10, BundlesLeft
<1>11. CASE old = 0 /\ Stores(d, "signed")
  <2>1. ASSUME NEW e, NEW other, e # d \/ other # "signed" PROVE
          /\ NoKey(e, other) => NoKey(e, other)'
          /\ One(e, other) => One(e, other)'
    BY <1>3, <1>6, <1>11, <2>1, StoresKeeps, KeptOne DEF Kept
  <2>2. /\ keyRow' \in Seq(Key) /\ Len(keyRow) <= Len(keyRow')
        /\ \A k \in 1..Len(keyRow) : keyRow'[k] = keyRow[k]
        /\ \A k \in 1..Len(keyRow') : k \notin 1..Len(keyRow) => keyRow'[k].device = d
    BY <1>9, <1>11, KeyFacts DEF Stores
  <2>3. \A e \in complete, other \in {"identity", "signed"} :
          deviceRow'[e] # "revoked" /\ One(e, other) => One(e, other)'
    BY <1>2, <1>3, <1>11, <2>1
  <2> QED BY <1>3, <1>4, <1>5, <1>6, <1>7, <1>8, <2>1, <2>2, <2>3, BundlesStep
<1>12. CASE old # 0 /\ Replaces(old, d)
  <2>1. ASSUME NEW e, NEW other, e # d \/ other # "signed" PROVE
          /\ NoKey(e, other) => NoKey(e, other)'
          /\ One(e, other) => One(e, other)'
    BY <1>2, <1>3, <1>12, <2>1, ReplacesKeeps, KeptOne DEF Kept
  <2>2. One(d, "signed") => One(d, "signed")' BY <1>2, <1>3, <1>12, ReplacesOne
  <2>3. /\ keyRow' \in Seq(Key) /\ Len(keyRow) <= Len(keyRow')
        /\ \A k \in 1..Len(keyRow') : k \notin 1..Len(keyRow) => keyRow'[k].device = d
    BY <1>9, <1>12, KeyFacts DEF Replaces
  <2>4. keyRow'[old].device = keyRow[old].device /\ keyRow'[old].kind = keyRow[old].kind
    <3>1. keyRow[old] \in Key BY <1>2, <1>12, KeyFacts
    <3> QED BY <1>12, <3>1 DEF Replaces, Key
  <2>5. \A k \in 1..Len(keyRow) :
          keyRow'[k].device = keyRow[k].device /\ keyRow'[k].kind = keyRow[k].kind
    BY <1>12, <2>4 DEF Replaces
  <2> QED BY <1>3, <1>4, <1>5, <1>6, <1>7, <1>8, <2>1, <2>2, <2>3, <2>5, BundlesStep
<1> QED BY <1>3, <1>10, <1>11, <1>12

(* ... and one-time prekeys do not matter. *)
LEMMA BundlesOneTime ==
    ASSUME Linked, Directory, Bundles, NEW t \in Threads, Others(t), Held(t)',
           \A e \in Devices : Registering(t, e)' => Registering(t, e),
           deviceRow' = deviceRow, complete' = complete,
           keyRow' \in Seq(Key), Len(keyRow) <= Len(keyRow'),
           \A k \in 1..Len(keyRow) :
             /\ keyRow'[k].device = keyRow[k].device /\ keyRow'[k].kind = keyRow[k].kind
             /\ keyRow[k].kind # "onetime" => keyRow'[k] = keyRow[k],
           \A k \in 1..Len(keyRow') : k \notin 1..Len(keyRow) =>
             keyRow'[k].kind = "onetime" /\ deviceRow[keyRow'[k].device] # "none"
    PROVE  Bundles'
<1>1. ASSUME NEW e, NEW kind \in {"identity", "signed"} PROVE Kept(e, kind) BY KeptElsewhere
<1>2. \A e : \A kind \in {"identity", "signed"} :
        /\ NoKey(e, kind) => NoKey(e, kind)'
        /\ One(e, kind) => One(e, kind)'
  BY <1>1, KeptOne DEF Kept
<1>3. complete \subseteq Devices BY DEF Directory
<1> QED BY <1>2, <1>3, BundlesStep

(* Steps of the devices. *)
LEMMA BundlesDevice ==
    ASSUME Linked, Directory, Prekeys, Bundles, NEW t \in Threads, DeviceStep(t)
    PROVE  Bundles'
<1>0. ASSUME Frozen PROVE
        \A e \in Devices : /\ deviceRow[e] # "none" => deviceRow'[e] # "none"
                           /\ deviceRow[e] = "revoked" => deviceRow'[e] = "revoked"
  BY <1>0 DEF Frozen
<1>1. CASE Return(t) BY <1>1, ReturnDoes, BundlesEnds
<1>2. ASSUME NEW d \in Devices, NEW m \in BOOLEAN, RegisterDevice(t, d, m) PROVE Bundles'
  <2>1. PICK id \in Nat : Opens(t, "register", "identity", d, id, FALSE)
    BY <1>2, RegisterDeviceDoes
  <2>2. /\ deviceRow[d] = "none" /\ deviceRow'[d] \in {"active", "pending"}
        /\ \A e \in Devices : e # d => deviceRow'[e] = deviceRow[e]
        /\ keyRow' = keyRow /\ complete' = complete
    BY <1>2, RegisterDeviceDoes
  <2>3. /\ Others(t) /\ call'[t].op = "register" /\ call'[t].dev = d
        /\ call'[t].at = "identity"
    BY <2>1 DEF Opens
  <2>4. \A u \in Threads : ~Registering(u, d) BY <2>2, HeldFacts DEF Registering
  <2>5. \A u \in Threads : Registering(u, d)' => t = u BY <2>3, <2>4 DEF Registering, Others
  <2>6. \A kind : NoKey(d, kind)' BY <2>2 DEF NoKey, Bundles
  <2>7. d \notin complete' BY <2>2 DEF Bundles, Reachable
  <2>8. Held(t)' BY <2>2, <2>3, <2>5, <2>6, <2>7, HeldRegisters
  <2>9. \A e \in Devices : Registering(t, e)' => deviceRow[e] = "none"
    BY <2>2, <2>3 DEF Registering
  <2> QED BY <2>2, <2>3, <2>8, <2>9, BundlesLeft
<1>3. ASSUME NEW d \in Devices, InitiateDevicePairing(t, d) PROVE Bundles'
  BY <1>3, InitiateDevicePairingDoes, BundlesOpens
<1>4. ASSUME NEW d \in Devices, AuthorizeDevice(t, d) PROVE Bundles'
  BY <1>4, AuthorizeDeviceDoes, BundlesOpens
<1>5. ASSUME NEW d \in Devices, UpdateCryptoPrekeys(t, d) PROVE Bundles'
  <2>1. PICK at \in {"current", "replenish"} : Opens(t, "update", at, d, 0, Late(d))
    BY <1>5, UpdateCryptoPrekeysDoes
  <2>2. Frozen /\ d \in complete BY <1>5, UpdateCryptoPrekeysDoes
  <2>3. /\ Others(t) /\ call'[t].op = "update" /\ call'[t].at # "rotate"
        /\ call'[t].dev = d /\ call'[t].id = 0
    BY <2>1 DEF Opens
  <2>4. Held(t)' /\ \A e \in Devices : ~Registering(t, e)'
    BY <2>2, <2>3, HeldUpdates DEF Frozen, Registering
  <2> QED BY <1>0, <2>2, <2>3, <2>4, BundlesLeft DEF Frozen
<1>6. ASSUME NEW d \in Devices, ClaimPrekeyBundle(t, d) PROVE Bundles'
  BY <1>6, ClaimPrekeyBundleDoes, BundlesOpens
<1>7. CASE GetDeviceCryptoDirectory(t)
  <2>1. PICK late \in BOOLEAN : Opens(t, "directory", "lookup", None, 0, late)
    BY <1>7, GetDeviceCryptoDirectoryDoes
  <2> QED BY <1>7, <2>1, GetDeviceCryptoDirectoryDoes, BundlesOpens
<1>8. PICK d : d = call[t].dev OBVIOUS
<1>9. "identity" \in KeyKind /\ "signed" \in KeyKind /\ "onetime" \in KeyKind BY DEF KeyKind
<1>10. ASSUME call[t].op = "register", Others(t), call'[t].op = "register",
              call'[t].dev = call[t].dev
       PROVE  \A u \in Threads : Registering(u, d)' => t = u
  <2>1. \A u \in Threads : Registering(u, d) => t = u BY <1>8, <1>10, HeldFacts
  <2> QED BY <2>1 , <1>10 DEF Others, Registering
<1>11. CASE StoreIdentityKey(t)
  <2>1. /\ call[t].op = "register" /\ call[t].at = "identity" /\ d \in Devices
        /\ Moves(t, "signed") /\ Stores(d, "identity")
        /\ deviceRow' = deviceRow /\ complete' = complete
    BY <1>8, <1>11, StoreIdentityKeyDoes
  <2>2. /\ Others(t) /\ call'[t].op = "register" /\ call'[t].dev = d
        /\ call'[t].at = "signed"
    BY <1>8, <2>1 DEF Moves
  <2>3. /\ d \notin complete /\ deviceRow[d] # "none"
        /\ NoKey(d, "identity") /\ NoKey(d, "signed")
    BY <1>8, <2>1, HeldFacts
  <2>4. One(d, "identity")' BY <1>9, <2>1, <2>3, NoneActive, StoresFirst
  <2>5. NoKey(d, "signed")' BY <1>9, <2>1, <2>3, StoresKeeps DEF Kept
  <2>6. Held(t)' BY <1>8, <1>10, <2>1, <2>2, <2>3, <2>4, <2>5, HeldRegisters
  <2> QED BY <1>8, <1>9, <2>1, <2>2, <2>6, BundlesStores
<1>12. CASE StoreSignedPrekey(t)
  <2>1. /\ call[t].op = "register" /\ call[t].at = "signed" /\ d \in Devices
        /\ Moves(t, "onetime") /\ Stores(d, "signed")
        /\ deviceRow' = deviceRow /\ complete' = complete
    BY <1>8, <1>12, StoreSignedPrekeyDoes
  <2>2. /\ Others(t) /\ call'[t].op = "register" /\ call'[t].dev = d
        /\ call'[t].at = "onetime"
    BY <1>8, <2>1 DEF Moves
  <2>3. /\ d \notin complete /\ deviceRow[d] # "none" /\ NoKey(d, "signed")
        /\ deviceRow[d] # "revoked" => One(d, "identity")
    BY <1>8, <2>1, HeldFacts
  <2>4. One(d, "signed")' BY <1>9, <2>1, <2>3, NoneActive, StoresFirst
  <2>5. deviceRow'[d] # "revoked" => One(d, "identity")'
    BY <1>9, <2>1, <2>3, StoresKeeps, KeptOne
  <2>6. Reachable(d)' BY <2>1, <2>3, <2>4, <2>5 DEF Reachable
  <2>7. Held(t)' BY <1>8, <1>10, <2>1, <2>2, <2>3, <2>6, HeldRegisters
  <2> QED BY <1>8, <1>9, <2>1, <2>2, <2>7, BundlesStores
<1>13. CASE StoreOneTimePrekey(t)
  <2>1. /\ call[t].op = "register" /\ call[t].at = "onetime" /\ d \in Devices
        /\ Turns(t, "onetime", call[t].id) /\ Stores(d, "onetime")
        /\ deviceRow' = deviceRow /\ complete' = complete
    BY <1>8, <1>13, StoreOneTimePrekeyDoes
  <2>2. /\ Others(t) /\ call'[t].op = "register" /\ call'[t].dev = d
        /\ call'[t].at = "onetime"
    BY <1>8, <2>1 DEF Turns
  <2>3. d \notin complete /\ deviceRow[d] # "none" /\ Reachable(d) BY <1>8, <2>1, HeldFacts
  <2>4. \A kind \in {"identity", "signed"} : One(d, kind) => One(d, kind)'
    BY <1>9, <2>1, StoresKeeps, KeptOne
  <2>5. Reachable(d)' BY <2>1, <2>3, <2>4 DEF Reachable
  <2>6. Held(t)' BY <1>8, <1>10, <2>1, <2>2, <2>3, <2>5, HeldRegisters
  <2> QED BY <1>8, <1>9, <2>1, <2>2, <2>6, BundlesStores
<1>14. CASE EnrolmentEnds(t)
  <2>1. /\ call[t].op = "register" /\ call[t].at = "onetime" /\ d \in Devices /\ Ends(t)
        /\ complete' = complete \cup {d} /\ deviceRow' = deviceRow /\ keyRow' = keyRow
    BY <1>8, <1>14, EnrolmentEndsDoes
  <2>2. Others(t) /\ call'[t] = Idle BY <2>1 DEF Ends, Begins
  <2>3. call'[t].op # "register" BY <2>2, IdleFields, Zenon
  <2>4. Reachable(d) /\ Registering(t, d) BY <1>8, <2>1, HeldFacts DEF Registering
  <2>5. \A e, kind : (NoKey(e, kind) => NoKey(e, kind)') /\ (One(e, kind) => One(e, kind)')
    BY <2>1, KeptSame, KeptOne DEF Kept
  <2>6. Reachable(d)' BY <2>1, <2>4, <2>5 DEF Reachable
  <2>7. keyRow \in Seq(Key) /\ Len(keyRow) <= Len(keyRow) /\ complete' \subseteq Devices
    BY <2>1, KeyFacts DEF Directory
  <2>8. \A e \in Devices : ~Registering(t, e)' BY <2>3 DEF Registering
  <2>9. \A e \in complete' : e \notin complete => Reachable(e)' /\ Registering(t, e)
    BY <2>1, <2>4, <2>6
  <2>10. complete \subseteq complete' BY <2>1
  <2> QED BY <2>1, <2>2, <2>5, <2>7, <2>8, <2>9, <2>10, HeldCalmly, BundlesStep
<1>15. CASE IssueChallenge(t) \/ WrongCode(t)
  <2>1. Ends(t) /\ keyRow' = keyRow /\ complete' = complete /\ deviceRow' = deviceRow
    BY <1>15, IssueChallengeDoes, WrongCodeDoes
  <2> QED BY <2>1, BundlesCalm DEF Ends, Begins
<1>16. CASE AuthorizeByStepUp(t) \/ AuthorizeByCode(t)
  <2>1. d \in Devices /\ Ends(t) /\ Authorizes(d) /\ keyRow' = keyRow /\ complete' = complete
    BY <1>8, <1>16, AuthorizeByStepUpDoes, AuthorizeByCodeDoes
  <2>2. \A e \in Devices : /\ deviceRow[e] # "none" => deviceRow'[e] # "none"
                           /\ deviceRow[e] = "revoked" => deviceRow'[e] = "revoked"
    BY <2>1 DEF Authorizes
  <2> QED BY <2>1, <2>2, BundlesCalm DEF Ends, Begins
<1>17. CASE FindCurrentPrekey(t)
  <2>1. /\ call[t].op = "update" /\ d \in Devices /\ Frozen
        /\ Ends(t) \/ Turns(t, "rotate", Newest(d, "signed"))
    BY <1>8, <1>17, FindCurrentPrekeyDoes
  <2>2. CASE Ends(t) BY <2>1, <2>2, BundlesEnds
  <2>3. CASE Turns(t, "rotate", Newest(d, "signed"))
    <3>1. PICK id : id = Newest(d, "signed") OBVIOUS
    <3>2. /\ Others(t) /\ call'[t].op = "update" /\ call'[t].dev = d /\ call'[t].id = id
      BY <1>8, <2>1, <2>3, <3>1 DEF Turns
    <3>3. d \in complete BY <1>8, <2>1, HeldFacts
    <3>4. id # 0 => id \in ActiveKeys(d, "signed") BY <3>1, NewestFound
    <3>5. id # 0 => id \in 1..Len(keyRow) /\ keyRow[id].kind = "signed" /\ keyRow[id].device = d
      BY <3>4, KeyFacts DEF ActiveKeys
    <3>6. id = 0 => deviceRow[d] = "revoked"
      <4>1. id = 0 => ~One(d, "signed") BY <3>1, NewestFound DEF One
      <4> QED BY <3>3, <4>1 DEF Bundles, Reachable
    <3>7. Held(t)' /\ \A e \in Devices : ~Registering(t, e)'
      BY <2>1, <3>2, <3>3, <3>5, <3>6, HeldUpdates DEF Frozen, Registering
    <3> QED BY <1>0, <2>1, <3>2, <3>7, BundlesLeft DEF Frozen
  <2> QED BY <2>1, <2>2, <2>3
<1>18. CASE ReplaceKey(t) BY <1>18, BundlesRotates
<1>19. CASE ReplenishOneTimePrekeys(t)
  <2>1. /\ call[t].op = "update" /\ d \in Devices /\ Ends(t)
        /\ keyRow' \in Seq(Key) /\ Len(keyRow) <= Len(keyRow')
        /\ \A k \in 1..Len(keyRow) : keyRow'[k] = keyRow[k]
        /\ \A k \in 1..Len(keyRow') : k \notin 1..Len(keyRow) => keyRow'[k] = NewKey(d, "onetime")
        /\ deviceRow' = deviceRow /\ complete' = complete
    BY <1>8, <1>19, ReplenishOneTimePrekeysDoes
  <2>2. NewKey(d, "onetime").device = d /\ NewKey(d, "onetime").kind = "onetime"
    BY <1>9, <2>1, NewKeyFields
  <2>3. deviceRow[d] # "none" BY <1>8, <2>1, HeldFacts DEF Bundles, Reachable
  <2>4. Others(t) /\ call'[t] = Idle BY <2>1 DEF Ends, Begins
  <2>5. call'[t].op # "register" BY <2>4, IdleFields, Zenon
  <2>6. Held(t)' /\ \A e \in Devices : ~Registering(t, e)'
    BY <2>4, <2>5, HeldCalmly DEF Registering
  <2> QED BY <2>1, <2>2, <2>3, <2>4, <2>6, BundlesOneTime
<1>20. CASE ClaimLooksUp(t) \/ DirectoryLooksUp(t)
  <2>1. /\ call[t].op \in {"claim", "directory"} /\ keyRow' = keyRow
        /\ deviceRow' = deviceRow /\ complete' = complete
        /\ Visits(t) \/ Ends(t)
    BY <1>20, LooksUpDoes
  <2>2. Others(t) /\ (call'[t].op \notin {"register", "update"} \/ call'[t] = Idle)
    BY <2>1 DEF Visits, Turns, Ends, Begins
  <2> QED BY <2>1, <2>2, BundlesCalm
<1>21. CASE MarkPrekeyClaimed(t)
  <2>1. Claiming(t) BY <1>21 DEF MarkPrekeyClaimed, Claiming
  <2>2. call[t].id \in 1..Len(keyRow) /\ keyRow[call[t].id].kind = "onetime"
    BY <2>1 DEF Prekeys
  <2>3. PICK at \in {"ok", "lookup"} : Moves(t, at) BY <1>21, <2>2, MarkPrekeyClaimedDoes
  <2>4. Others(t) /\ call'[t].op \notin {"register", "update"}
    BY <2>1, <2>3 DEF Moves, Claiming
  <2>5. /\ keyRow' \in Seq(Key) /\ Len(keyRow') = Len(keyRow)
        /\ \A k \in 1..Len(keyRow) :
             /\ keyRow'[k].device = keyRow[k].device /\ keyRow'[k].kind = keyRow[k].kind
             /\ keyRow[k].kind # "onetime" => keyRow'[k] = keyRow[k]
        /\ deviceRow' = deviceRow /\ complete' = complete
    BY <1>21, <2>2, MarkPrekeyClaimedDoes
  <2>6. Held(t)' /\ \A e \in Devices : ~Registering(t, e)'
    BY <2>4, HeldCalmly DEF Registering
  <2>7. Len(keyRow) <= Len(keyRow') BY <2>5, KeyFacts
  <2> QED BY <2>4, <2>5, <2>6, <2>7, BundlesOneTime
<1>22. CASE CallThrows(t)
  <2>1. Ends(t) /\ keyRow' = keyRow /\ complete' = complete /\ deviceRow' = deviceRow
    BY <1>22, CallThrowsDoes
  <2> QED BY <2>1, BundlesCalm DEF Ends, Begins
<1>23. QED
  BY <1>1, <1>2, <1>3, <1>4, <1>5, <1>6, <1>7, <1>11, <1>12, <1>13, <1>14, <1>15, <1>16,
     <1>17,
     <1>18, <1>19, <1>20, <1>21, <1>22 DEF DeviceStep

(* Every step. *)
LEMMA BundlesNext ==
    ASSUME Linked, Directory, LateCalls, Prekeys, Bundles, Next
    PROVE  Bundles'
<1>1. ASSUME Outside PROVE Bundles'
  <2>1. /\ keyRow' = keyRow /\ deviceRow' = deviceRow /\ complete' = complete
        /\ call' = call \/ Halts
    BY <1>1, OutsideDoes
  <2>2. \A e, kind : One(e, kind)' <=> One(e, kind) BY <2>1 DEF One, ActiveKeys
  <2>3. \A e \in complete' : Reachable(e)' BY <2>1, <2>2 DEF Bundles, Reachable
  <2>4. ASSUME NEW u \in Threads PROVE Held(u)'
    <3>1. CASE call' = call
      BY <2>1, <3>1 DEF Bundles, Held, NoKey, One, ActiveKeys, Reachable, Registering
    <3>2. CASE Halts BY <3>2, HeldCalmly DEF Halts
    <3> QED BY <2>1, <3>1, <3>2
  <2> QED BY <2>1, <2>3, <2>4 DEF Bundles
<1> QED BY <1>1, NextSplits, BundlesSession, BundlesDevice DEF ThreadStep

-----------------------------------------------------------------------------
(***************************************************************************)
(* The tables of the devices and the memory of the process                 *)
(***************************************************************************)

\* the pairing challenges have their type, and one that is open has attempts left
Paired == pairing \in [Devices -> Pairing] /\ Pairings

(* One challenge is written. *)
LEMMA PairingWritten ==
    ASSUME Paired, NEW d, NEW v \in Pairing, v.state = "open" => v.failed < MaxFailedPairingAttempts,
           pairing' = [pairing EXCEPT ![d] = v]
    PROVE  Paired'
<1>1. pairing \in [Devices -> Pairing] BY DEF Paired
<1>2. pairing' \in [Devices -> Pairing] BY <1>1
<1>3. \A e \in Devices : pairing'[e] = v \/ pairing'[e] = pairing[e] BY <1>1
<1>4. \A e \in Devices : pairing'[e].state = "open" => pairing'[e].failed < MaxFailedPairingAttempts
  BY <1>3 DEF Paired, Pairings
<1> QED BY <1>2, <1>4 DEF Paired, Pairings

(* A new challenge, a removed one ... *)
LEMMA PairingReset ==
    ASSUME Paired, NEW d,
           \/ pairing' = pairing
           \/ pairing' = [pairing EXCEPT ![d] = FreshPairing]
           \/ pairing' = [pairing EXCEPT ![d] = NoPairing]
    PROVE  Paired'
<1>1. /\ FreshPairing \in Pairing /\ FreshPairing.failed < MaxFailedPairingAttempts
      /\ NoPairing \in Pairing /\ NoPairing.state # "open"
  BY AuthDevicesAssumption DEF FreshPairing, NoPairing, Pairing
<1>2. pairing' = pairing => Paired' BY DEF Paired, Pairings
<1> HIDE DEF FreshPairing, NoPairing
<1> QED BY <1>1, <1>2, PairingWritten

(* ... a consumed one, ... *)
LEMMA PairingConsumed ==
    ASSUME Paired, NEW d \in Devices, pairing' = [pairing EXCEPT ![d].state = "consumed"]
    PROVE  Paired'
<1> DEFINE v == [pairing[d] EXCEPT !.state = "consumed"]
<1>1. pairing[d] \in Pairing BY DEF Paired
<1>2. v \in Pairing /\ v.state # "open" BY <1>1 DEF Pairing
<1>3. pairing' = [pairing EXCEPT ![d] = v] BY DEF Paired
<1> HIDE DEF v
<1> QED BY <1>2, <1>3, PairingWritten

(* ... one that lapses ... *)
LEMMA PairingLapsesDoes ==
    ASSUME Paired, NEW d \in Devices, PairingLapses(d)
    PROVE  Paired'
<1> DEFINE v == [pairing[d] EXCEPT !.lapsed = TRUE]
<1>1. pairing[d] \in Pairing /\ (pairing[d].state = "open" =>
                                   pairing[d].failed < MaxFailedPairingAttempts)
  BY DEF Paired, Pairings
<1>2. v \in Pairing /\ v.state = pairing[d].state /\ v.failed = pairing[d].failed
  BY <1>1 DEF Pairing
<1>3. pairing' = [pairing EXCEPT ![d] = v] BY DEF Paired, PairingLapses
<1> HIDE DEF v
<1> QED BY <1>1, <1>2, <1>3, PairingWritten

(* ... and one with a wrong code, which locks at the last attempt. *)
LEMMA PairingFails ==
    ASSUME Linked, Paired, NEW t \in Threads, WrongCode(t)
    PROVE  Paired'
<1>1. PICK d : d = call[t].dev OBVIOUS
<1> DEFINE n == pairing[d].failed + 1
           s == IF n >= MaxFailedPairingAttempts THEN "locked" ELSE "open"
           v == [pairing[d] EXCEPT !.failed = n, !.state = s]
<1>2. /\ d \in Devices /\ pairing[d].state = "open"
      /\ pairing' = [pairing EXCEPT ![d].failed = @ + 1, ![d].state = s]
  BY <1>1, WrongCodeDoes
<1>3. /\ pairing[d] \in Pairing /\ pairing[d].failed < MaxFailedPairingAttempts
      /\ MaxFailedPairingAttempts \in Nat
  BY <1>2, AuthDevicesAssumption DEF Paired, Pairings
<1>4. n \in 0..MaxFailedPairingAttempts BY <1>3 DEF Pairing
<1>5. s \in {"open", "locked"} /\ (s = "open" => n < MaxFailedPairingAttempts) BY <1>3, <1>4
<1>6. pairing' = [pairing EXCEPT ![d] = v] BY <1>2 DEF Paired
<1> HIDE DEF n, s
<1>7. v \in Pairing /\ v.state = s /\ v.failed = n BY <1>3, <1>4, <1>5 DEF Pairing
<1> HIDE DEF v
<1> QED BY <1>5, <1>6, <1>7, PairingWritten

(* Every step of a device call. *)
LEMMA PairedDevice ==
    ASSUME Linked, Directory, Bundles, Prekeys, Paired, NEW t \in Threads, DeviceStep(t)
    PROVE  Paired'
<1>0. ASSUME pairing' = pairing PROVE Paired' BY <1>0 DEF Paired, Pairings
<1>1. CASE Return(t) BY <1>0, <1>1, ReturnDoes DEF Frozen
<1>2. ASSUME NEW d \in Devices, NEW m \in BOOLEAN, RegisterDevice(t, d, m) PROVE Paired'
  BY <1>0, <1>2 DEF RegisterDevice
<1>3. ASSUME NEW d \in Devices, InitiateDevicePairing(t, d) \/ AuthorizeDevice(t, d)
             \/ UpdateCryptoPrekeys(t, d) \/ ClaimPrekeyBundle(t, d) PROVE Paired'
  BY <1>0, <1>3, InitiateDevicePairingDoes, AuthorizeDeviceDoes, UpdateCryptoPrekeysDoes,
     ClaimPrekeyBundleDoes DEF Frozen
<1>4. CASE GetDeviceCryptoDirectory(t) BY <1>0, <1>4, GetDeviceCryptoDirectoryDoes DEF Frozen
<1>5. CASE StoreIdentityKey(t) \/ StoreSignedPrekey(t) \/ StoreOneTimePrekey(t)
  BY <1>0, <1>5 DEF StoreIdentityKey, StoreSignedPrekey, StoreOneTimePrekey
<1>6. CASE EnrolmentEnds(t) \/ IssueChallenge(t)
  BY <1>6, EnrolmentEndsDoes, IssueChallengeDoes, PairingReset
<1>7. CASE AuthorizeByStepUp(t) \/ AuthorizeByCode(t)
  BY <1>0, <1>7, AuthorizeByStepUpDoes, AuthorizeByCodeDoes, PairingConsumed
<1>8. CASE WrongCode(t) BY <1>8, PairingFails
<1>9. CASE FindCurrentPrekey(t) \/ ReplaceKey(t) \/ ReplenishOneTimePrekeys(t)
  BY <1>0, <1>9, Zenon DEF FindCurrentPrekey, ReplaceKey, ReplenishOneTimePrekeys, deviceVars
<1>10. CASE ClaimLooksUp(t) \/ DirectoryLooksUp(t) \/ MarkPrekeyClaimed(t) \/ CallThrows(t)
  BY <1>0, <1>10, LooksUpDoes, Zenon DEF MarkPrekeyClaimed, CallThrows
<1> QED BY <1>1, <1>2, <1>3, <1>4, <1>5, <1>6, <1>7, <1>8, <1>9, <1>10 DEF DeviceStep

(* The revocations that were answered are of devices of the account. *)
LEMMA SessionGone ==
    ASSUME Linked, Directory, NEW t \in Threads, SessionStep(t)
    PROVE  gone' \subseteq Devices
<1>0. gone \subseteq Devices BY DEF Directory
<1>1. ASSUME NEW d \in ListUserDevices, RevokeDevice(t, d) PROVE gone' \subseteq Devices
  <2>1. d \in Devices BY DEF ListUserDevices
  <2>2. gone' = gone \/ gone' = gone \cup {d} BY <1>1, Zenon DEF RevokeDevice
  <2> QED BY <1>0, <2>1, <2>2
<1>2. CASE EvictChallenge(t)
  <2>1. gone' = gone \cup {call[t].dev} /\ call[t].op = "revoke" BY <1>2, EvictChallengeDoes
  <2>2. call[t].dev \in Devices BY <2>1, CallFacts DEF InPlace
  <2> QED BY <1>0, <2>1, <2>2
<1>3. ASSUME NEW d, Authenticate(t, d) PROVE gone' = gone BY <1>3, Zenon DEF Authenticate
<1>4. ASSUME \/ CreateSession(t) \/ StampDevice(t) \/ IsMfaEnabled(t)
             \/ IssueInitialTokens(t) \/ CreateChallenge(t) \/ ValidateDevice(t)
      PROVE  gone' = gone
  BY <1>4, Zenon DEF CreateSession, StampDevice, IsMfaEnabled, IssueInitialTokens,
     CreateChallenge,
              ValidateDevice
<1>5. ASSUME NEW i, ValidateSession(t, i) \/ RefreshSession(t, i) \/ VerifyMfaChallenge(t, i)
      PROVE  gone' = gone
  BY <1>5, Zenon DEF ValidateSession, RefreshSession, VerifyMfaChallenge
<1>6. ASSUME \/ RefreshReadsDevice(t) \/ RefreshReadsSession(t) \/ RotateTokenAtomic(t)
             \/ RefreshStamps(t) \/ HandleTokenReuse(t)
      PROVE  gone' = gone
  BY <1>6, Zenon DEF RefreshReadsDevice, RefreshReadsSession, RotateTokenAtomic,
     RefreshStamps,
              HandleTokenReuse
<1>7. ASSUME \/ CountAttempt(t) \/ WrongFactor(t) \/ RightFactor(t) \/ CompleteChallenge(t)
             \/ PromoteSession(t) \/ ClearAttempts(t) \/ VerifyReadsDevice(t)
             \/ RevokeAllDeviceSessions(t) \/ RevokeDeviceRow(t) \/ RevokeAllDeviceKeys(t)
      PROVE  gone' = gone
  BY <1>7, Zenon DEF CountAttempt, WrongFactor, RightFactor, CompleteChallenge,
     PromoteSession,
              ClearAttempts, VerifyReadsDevice, RevokeAllDeviceSessions, RevokeDeviceRow,
              RevokeAllDeviceKeys
<1> QED BY <1>0, <1>1, <1>2, <1>3, <1>4, <1>5, <1>6, <1>7 DEF SessionStep

(* The key rows and the enrolled devices keep their types. *)
LEMMA RowsTyped ==
    ASSUME Linked, Directory, Prekeys, Bundles, NEW t \in Threads, DeviceStep(t)
    PROVE  keyRow' \in Seq(Key) /\ complete' \subseteq Devices
<1>0. keyRow \in Seq(Key) /\ complete \subseteq Devices BY DEF Directory
<1>1. CASE Return(t) \/ GetDeviceCryptoDirectory(t)
  BY <1>0, <1>1, ReturnDoes, GetDeviceCryptoDirectoryDoes DEF Frozen
<1>2. ASSUME NEW d \in Devices, NEW m \in BOOLEAN, RegisterDevice(t, d, m)
      PROVE  keyRow' = keyRow /\ complete' = complete
  BY <1>2 DEF RegisterDevice
<1>3. ASSUME NEW d \in Devices, InitiateDevicePairing(t, d) \/ AuthorizeDevice(t, d)
             \/ UpdateCryptoPrekeys(t, d) \/ ClaimPrekeyBundle(t, d)
      PROVE  keyRow' = keyRow /\ complete' = complete
  BY <1>3, InitiateDevicePairingDoes, AuthorizeDeviceDoes, UpdateCryptoPrekeysDoes,
     ClaimPrekeyBundleDoes DEF Frozen
<1>4. CASE StoreIdentityKey(t) \/ StoreSignedPrekey(t) \/ StoreOneTimePrekey(t)
  BY <1>0, <1>4, StoreIdentityKeyDoes, StoreSignedPrekeyDoes,
     StoreOneTimePrekeyDoes DEF Stores
<1>5. CASE EnrolmentEnds(t) BY <1>0, <1>5, EnrolmentEndsDoes
<1>6. CASE IssueChallenge(t) \/ AuthorizeByStepUp(t) \/ AuthorizeByCode(t) \/ WrongCode(t)
  BY <1>0, <1>6, IssueChallengeDoes, AuthorizeByStepUpDoes, AuthorizeByCodeDoes, WrongCodeDoes
<1>7. CASE FindCurrentPrekey(t) BY <1>0, <1>7, FindCurrentPrekeyDoes DEF Frozen
<1>8. CASE ReplaceKey(t)
  <2>1. call[t].op = "update" /\ call[t].at = "rotate" BY <1>8 DEF ReplaceKey, At
  <2>2. call[t].id # 0 => call[t].id \in 1..Len(keyRow) BY <2>1 DEF Bundles, Held
  <2> QED BY <1>0, <1>8, <2>2, ReplaceKeyDoes DEF Stores, Replaces
<1>9. CASE ReplenishOneTimePrekeys(t) BY <1>0, <1>9, ReplenishOneTimePrekeysDoes
<1>10. CASE ClaimLooksUp(t) \/ DirectoryLooksUp(t) \/ CallThrows(t)
  BY <1>0, <1>10, LooksUpDoes, CallThrowsDoes
<1>11. CASE MarkPrekeyClaimed(t)
  <2>1. Claiming(t) BY <1>11 DEF MarkPrekeyClaimed, Claiming
  <2>2. call[t].id \in 1..Len(keyRow) BY <2>1 DEF Prekeys
  <2> QED BY <1>0, <1>11, <2>2, MarkPrekeyClaimedDoes
<1> QED BY <1>0, <1>1, <1>2, <1>3, <1>4, <1>5, <1>6, <1>7, <1>8, <1>9, <1>10, <1>11
         DEF DeviceStep

(* Every step keeps the tables. *)
LEMMA DirectoryNext ==
    ASSUME Linked, Directory, Prekeys, Bundles, Paired, Next
    PROVE  Directory' /\ Paired'
<1>0. Prekeys' BY PrekeysNext
<1>1. rowLock' \subseteq 1..Len(keyRow') BY <1>0 DEF Prekeys
<1>2. ASSUME NEW t \in Threads, SessionStep(t)
      PROVE  /\ deviceRow' \in [Devices -> DeviceStatus] /\ keyRow' \in Seq(Key)
             /\ complete' \subseteq Devices /\ gone' \subseteq Devices /\ Paired'
  <2>1. gone' \subseteq Devices BY <1>2, SessionGone
  <2>2. CASE deviceVars' = deviceVars
    BY <2>1, <2>2 DEF deviceVars, Directory, Paired, Pairings
  <2>3. CASE RevokeDeviceRow(t)
    <3>1. deviceRow' = [deviceRow EXCEPT ![call[t].dev] = "revoked"]
      BY <2>3, RevokeDeviceRowDoes
    <3>2. keyRow' = keyRow /\ complete' = complete /\ pairing' = pairing
      BY <2>3 DEF RevokeDeviceRow
    <3>3. deviceRow' \in [Devices -> DeviceStatus] BY <3>1 DEF Directory, DeviceStatus
    <3> QED BY <2>1, <3>2, <3>3 DEF Directory, Paired, Pairings
  <2>4. CASE RevokeAllDeviceKeys(t)
    <3>1. RevokeKeysOf(call[t].dev) BY <2>4 DEF RevokeAllDeviceKeys
    <3>2. deviceRow' = deviceRow /\ complete' = complete /\ pairing' = pairing
      BY <2>4 DEF RevokeAllDeviceKeys
    <3> QED BY <2>1, <3>1, <3>2, RevokeKeysOfDoes DEF Directory, Paired, Pairings
  <2>5. CASE EvictChallenge(t)
    <3>1. pairing' = [pairing EXCEPT ![call[t].dev] = NoPairing] BY <2>5 DEF EvictChallenge
    <3>2. deviceRow' = deviceRow /\ complete' = complete /\ keyRow' = keyRow
      BY <2>5 DEF EvictChallenge
    <3> QED BY <2>1, <3>1, <3>2, PairingReset DEF Directory
  <2> QED BY <1>2, <2>2, <2>3, <2>4, <2>5, SessionLeavesDevices
<1>3. ASSUME NEW t \in Threads, DeviceStep(t)
      PROVE  /\ deviceRow' \in [Devices -> DeviceStatus] /\ keyRow' \in Seq(Key)
             /\ complete' \subseteq Devices /\ gone' \subseteq Devices /\ Paired'
  BY <1>3, AsideDoes, RowsTyped, PairedDevice DEF Aside, Directory
<1>4. ASSUME Outside
      PROVE  /\ deviceRow' \in [Devices -> DeviceStatus] /\ keyRow' \in Seq(Key)
             /\ complete' \subseteq Devices /\ gone' \subseteq Devices /\ Paired'
  <2>1. /\ deviceRow' \in [Devices -> DeviceStatus] /\ keyRow' \in Seq(Key)
        /\ complete' \subseteq Devices /\ gone' \subseteq Devices
    BY <1>4, OutsideDoes DEF Directory
  <2>2. CASE \E d \in Devices : PairingLapses(d) BY <2>1, <2>2, PairingLapsesDoes
  <2>3. CASE Restart
    <3>1. pairing' = [d \in Devices |-> NoPairing] BY <2>3 DEF Restart
    <3>2. NoPairing \in Pairing /\ NoPairing.state # "open"
      BY AuthDevicesAssumption DEF NoPairing, Pairing
    <3> HIDE DEF NoPairing
    <3>3. Paired' BY <3>1, <3>2 DEF Paired, Pairings
    <3> QED BY <2>1, <3>3
  <2>4. CASE pairing' = pairing BY <2>1, <2>4 DEF Paired, Pairings
  <2>5. \/ pairing' = pairing \/ Restart \/ \E d \in Devices : PairingLapses(d)
    BY <1>4, Zenon DEF Outside, RevokeSession, RevokeAllUserSessions, ExpireStaleSessions,
       TimePasses, InitiateMfaEnrollment, ConfirmMfaEnrollment, DisableMfa, deviceVars
  <2> QED BY <2>2, <2>3, <2>4, <2>5
<1>5. /\ deviceRow' \in [Devices -> DeviceStatus] /\ keyRow' \in Seq(Key)
      /\ complete' \subseteq Devices /\ gone' \subseteq Devices /\ Paired'
  BY <1>2, <1>3, <1>4, NextSplits DEF ThreadStep
<1> QED BY <1>1, <1>5 DEF Directory, Paired

\* the rows and the memory about the second factor, and the deadlines
Memory ==
    /\ mfaRow \in Seq(MfaStatus) /\ recovery \subseteq RecoveryCodes
    /\ lastStep \in TimeSteps \cup {0} /\ lapsed \subseteq Deadline

\* none of it changes
Remembered == /\ mfaRow' = mfaRow /\ recovery' = recovery /\ lastStep' = lastStep
              /\ lapsed' = lapsed

(* Session calls write none of it, except for the right code. *)
LEMMA SessionRemembers ==
    ASSUME NEW t \in Threads, SessionStep(t)
    PROVE  Remembered \/ RightFactor(t)
<1>1. ASSUME NEW d, Authenticate(t, d) \/ RevokeDevice(t, d) PROVE Remembered
  BY <1>1, Zenon DEF Authenticate, RevokeDevice, sessionVars, Remembered
<1>2. ASSUME \/ CreateSession(t) \/ StampDevice(t) \/ IsMfaEnabled(t)
             \/ IssueInitialTokens(t) \/ CreateChallenge(t) \/ ValidateDevice(t)
      PROVE  Remembered
  BY <1>2, Zenon DEF CreateSession, StampDevice, IsMfaEnabled, IssueInitialTokens,
              CreateChallenge, ValidateDevice, sessionVars, Remembered
<1>3. ASSUME NEW i, ValidateSession(t, i) \/ RefreshSession(t, i) \/ VerifyMfaChallenge(t, i)
      PROVE  Remembered
  BY <1>3, Zenon DEF ValidateSession, RefreshSession, VerifyMfaChallenge, sessionVars,
     Remembered
<1>4. ASSUME \/ RefreshReadsDevice(t) \/ RefreshReadsSession(t) \/ RotateTokenAtomic(t)
             \/ RefreshStamps(t) \/ HandleTokenReuse(t)
      PROVE  Remembered
  BY <1>4, Zenon DEF RefreshReadsDevice, RefreshReadsSession, RotateTokenAtomic,
     RefreshStamps,
              HandleTokenReuse, sessionVars, Remembered
<1>5. ASSUME \/ CountAttempt(t) \/ WrongFactor(t) \/ CompleteChallenge(t)
             \/ PromoteSession(t) \/ ClearAttempts(t) \/ VerifyReadsDevice(t)
      PROVE  Remembered
  BY <1>5, Zenon DEF CountAttempt, WrongFactor, CompleteChallenge, PromoteSession,
              ClearAttempts, VerifyReadsDevice, sessionVars, Remembered
<1>6. ASSUME \/ RevokeDeviceRow(t) \/ RevokeAllDeviceSessions(t) \/ RevokeAllDeviceKeys(t)
             \/ EvictChallenge(t)
      PROVE  Remembered
  BY <1>6, Zenon DEF RevokeDeviceRow, RevokeAllDeviceSessions, RevokeAllDeviceKeys,
              EvictChallenge, sessionVars, Remembered
<1> QED BY <1>1, <1>2, <1>3, <1>4, <1>5, <1>6 DEF SessionStep

(* Every step. *)
LEMMA MemoryNext ==
    ASSUME Linked, Memory, Next
    PROVE  Memory'
<1>0. ASSUME Remembered PROVE Memory' BY <1>0 DEF Remembered, Memory
<1>1. ASSUME NEW t \in Threads, RightFactor(t) PROVE Memory'
  <2>1. mfaRow' = mfaRow /\ lapsed' = lapsed BY <1>1 DEF RightFactor
  <2>2. \/ lastStep' \in TimeSteps /\ recovery' = recovery
        \/ recovery' \subseteq recovery /\ lastStep' = lastStep
    BY <1>1 DEF RightFactor, TotpMatches, RecoveryMatches
  <2> QED BY <2>1, <2>2 DEF Memory
<1>2. ASSUME NEW t \in Threads, ThreadStep(t) PROVE Memory'
  BY <1>0, <1>1, <1>2, SessionRemembers DEF ThreadStep, sessionVars, Remembered
<1>3. ASSUME NEW d \in Devices, PairingLapses(d), UNCHANGED sessionVars PROVE Memory'
  BY <1>0, <1>3 DEF sessionVars, Remembered
<1>4. ASSUME (\E i \in DOMAIN session : RevokeSession(i)) \/ RevokeAllUserSessions
             \/ ExpireStaleSessions
      PROVE  Memory'
  BY <1>0, <1>4, Zenon DEF RevokeSession, RevokeAllUserSessions, ExpireStaleSessions,
     Remembered
<1>5. ASSUME TimePasses PROVE Memory'
  <2>1. PICK d \in {<<"session", i>> : i \in DOMAIN session}
            \cup {<<"token", i>> : i \in DOMAIN token}
            \cup {<<"grace", i>> : i \in {j \in DOMAIN token : token[j].status = "rotated"}}
            \cup {<<"challenge", i>> : i \in DOMAIN challenge} :
          lapsed' = lapsed \cup {d}
    BY <1>5, Zenon DEF TimePasses
  <2>2. /\ \A i \in DOMAIN session : i \in Nat
        /\ \A i \in DOMAIN token : i \in Nat
        /\ \A i \in DOMAIN challenge : i \in Nat
    BY RowFacts
  <2>3. d \in Deadline BY <2>1, <2>2 DEF Deadline
  <2>4. mfaRow' = mfaRow /\ recovery' = recovery /\ lastStep' = lastStep
    BY <1>5, Zenon DEF TimePasses
  <2> QED BY <2>1, <2>3, <2>4 DEF Memory
<1>6. ASSUME InitiateMfaEnrollment PROVE Memory'
  <2>1. mfaRow' = Append(mfaRow, "pending") /\ "pending" \in MfaStatus
    BY <1>6 DEF InitiateMfaEnrollment, StoreMfaConfiguration, MfaStatus
  <2>2. mfaRow' \in Seq(MfaStatus) BY <2>1 DEF Memory
  <2> QED BY <1>6, <2>2 DEF InitiateMfaEnrollment, Memory
<1>7. ASSUME ConfirmMfaEnrollment \/ DisableMfa PROVE Memory'
  <2>1. PICK i \in DOMAIN mfaRow, s \in MfaStatus : mfaRow' = [mfaRow EXCEPT ![i] = s]
    BY <1>7 DEF ConfirmMfaEnrollment, ConfirmEnrollment, EnableMfaRow, DisableMfa,
       DisableFactor,
                DisableMfaRow, MfaStatus
  <2>2. mfaRow' \in Seq(MfaStatus) BY <2>1, RowWritten DEF Memory
  <2>3. /\ lapsed' = lapsed /\ recovery' \in {RecoveryCodes, {}}
        /\ lastStep' = lastStep \/ lastStep' = 0
    BY <1>7 DEF ConfirmMfaEnrollment, ConfirmEnrollment, DisableMfa, DisableFactor
  <2> QED BY <2>2, <2>3 DEF Memory
<1>8. ASSUME Restart PROVE Memory' BY <1>8 DEF Restart, Memory
<1> QED BY <1>2, <1>3, <1>4, <1>5, <1>6, <1>7, <1>8, NextSplits DEF Outside

-----------------------------------------------------------------------------
(***************************************************************************)
(* The initial state                                                       *)
(***************************************************************************)

(* The keys of an enrolled device. *)
LEMMA SeedFields ==
    ASSUME NEW d \in Devices, NEW n \in 1..Batch + 2
    PROVE  SeedOf(d)[n] = NewKey(d, IF n = 1 THEN "identity"
                                    ELSE IF n = 2 THEN "signed" ELSE "onetime")
<1>1. /\ NewKey(d, "identity") \in Key /\ NewKey(d, "signed") \in Key
      /\ NewKey(d, "onetime") \in Key /\ Batch \in Nat
  BY NewKeyFields, AuthDevicesAssumption DEF KeyKind
<1> DEFINE a == NewKey(d, "identity")
           b == NewKey(d, "signed")
           c == NewKey(d, "onetime")
           s == <<a, b>>
           r == [i \in 1..Batch |-> c]
<1>2. SeedOf(d) = s \o r BY DEF SeedOf
<1>3. a \in Key /\ b \in Key /\ c \in Key BY <1>1
<1> HIDE DEF a, b, c
<1>4. s \in Seq(Key) /\ Len(s) = 2 /\ s[1] = a /\ s[2] = b BY <1>3
<1>5. r \in Seq(Key) /\ Len(r) = Batch /\ \A i \in 1..Batch : r[i] = c
  BY <1>1, <1>3, SameLength
<1> HIDE DEF s, r
<1>6. /\ \A j \in 1..2 : (s \o r)[j] = s[j]
      /\ \A j \in 1..2 + Batch : j \notin 1..2 => (s \o r)[j] = r[j - 2]
  <2>1. /\ \A j \in 1..Len(s) : (s \o r)[j] = s[j]
        /\ \A j \in 1..Len(s) + Len(r) : j \notin 1..Len(s) => (s \o r)[j] = r[j - Len(s)]
    BY <1>4, <1>5, RowsJoined, Zenon
  <2> QED BY <1>4, <1>5, <2>1
<1>7. CASE n \in 1..2
  <2>1. CASE n = 1 BY <1>2, <1>4, <1>6, <2>1 DEF a
  <2>2. CASE n = 2
    <3>1. SeedOf(d)[2] = b
      <4>1. 2 \in 1..2 OBVIOUS
      <4>2. (s \o r)[2] = s[2] BY <1>6, <4>1, Zenon
      <4> QED BY <1>2, <1>4, <4>2, Zenon
    <3>2. (IF n = 1 THEN "identity" ELSE IF n = 2 THEN "signed" ELSE "onetime") = "signed"
      BY <2>2
    <3> QED BY <2>2, <3>1, <3>2, Zenon DEF b
  <2> QED BY <1>7, <2>1, <2>2
<1>8. CASE n \notin 1..2
  <2>1. n \in 1..2 + Batch /\ n - 2 \in 1..Batch /\ n # 1 /\ n # 2 BY <1>1, <1>8
  <2> QED BY <1>2, <1>5, <1>6, <1>8, <2>1 DEF c
<1> QED BY <1>7, <1>8

(* A finite set is the range of the sequence made of it. *)
LEMMA SetToSeqDoes ==
    ASSUME NEW S, IsFiniteSet(S)
    PROVE  /\ Cardinality(S) \in Nat /\ SetToSeq(S) \in [1..Cardinality(S) -> S]
           /\ \A i, j \in 1..Cardinality(S) : SetToSeq(S)[i] = SetToSeq(S)[j] => i = j
           /\ \A x \in S : \E i \in 1..Cardinality(S) : SetToSeq(S)[i] = x
<1>1. PICK n : n = Cardinality(S) OBVIOUS
<1>2. n \in Nat /\ ExistsBijection(1..n, S) BY <1>1, FS_CardinalityType
<1>3. \E f \in [1..n -> S] : IsInjective(f)
  BY <1>2 DEF ExistsBijection, Bijection, Injection, IsInjective
<1>4. SetToSeq(S) \in [1..n -> S] /\ IsInjective(SetToSeq(S)) BY <1>1, <1>3 DEF SetToSeq
<1>5. PICK f : f = SetToSeq(S) OBVIOUS
<1>6. f \in Injection(1..n, S) BY <1>4, <1>5 DEF Injection
<1>7. Cardinality(1..n) = n BY <1>2, FS_Interval
<1>8. f \in Surjection(1..n, S) BY <1>1, <1>6, <1>7, FS_Injection
<1>9. \A x \in S : \E i \in 1..n : f[i] = x BY <1>8 DEF Surjection
<1>10. \A i, j \in 1..n : f[i] = f[j] => i = j BY <1>4, <1>5 DEF IsInjective
<1> QED BY <1>1, <1>2, <1>4, <1>5, <1>9, <1>10

\* exactly one row is of device d and of the kind
Sole(rows, d, kind) ==
    \E k \in 1..Len(rows) : \A j \in 1..Len(rows) :
        (rows[j].device = d /\ rows[j].kind = kind) <=> j = k

(* The key rows at the start: an identity key and a signed prekey of every *)
(* enrolled device, and one-time prekeys.                                  *)
LEMMA SeededFacts ==
    /\ SeededRows \in Seq(Key)
    /\ \A k \in 1..Len(SeededRows) : /\ SeededRows[k].status = "active"
                                     /\ SeededRows[k].given = 0
                                     /\ SeededRows[k].device \in Enrolled
    /\ \A d \in Enrolled : Sole(SeededRows, d, "identity") /\ Sole(SeededRows, d, "signed")
<1>1. PICK S : S = Enrolled \X (1..Batch + 2) OBVIOUS
<1>2. Batch \in Nat /\ Enrolled \subseteq Devices /\ IsFiniteSet(Enrolled)
  BY AuthDevicesAssumption
<1>3. IsFiniteSet(S)
  <2>1. 1 \in Int /\ Batch + 2 \in Int BY <1>2
  <2>2. IsFiniteSet(1..Batch + 2) BY <2>1, FS_Interval
  <2> QED BY <1>1, <1>2, <2>2, FS_Product, Zenon
<1>4. PICK n, f : n = Cardinality(S) /\ f = SetToSeq(S) OBVIOUS
<1>5. /\ n \in Nat /\ f \in [1..n -> S]
      /\ \A i, j \in 1..n : f[i] = f[j] => i = j
      /\ \A x \in S : \E i \in 1..n : f[i] = x
  BY <1>3, <1>4, SetToSeqDoes
<1> DEFINE Kind(m) == IF m = 1 THEN "identity" ELSE IF m = 2 THEN "signed" ELSE "onetime"
<1>6. SeededRows = [i \in 1..n |-> SeedOf(f[i][1])[f[i][2]]]
  BY <1>1, <1>4, <1>5 DEF SeededRows
<1>7. ASSUME NEW i \in 1..n
      PROVE  f[i] \in S /\ f[i][1] \in Enrolled /\ f[i][1] \in Devices /\ f[i][2] \in 1..Batch + 2
  BY <1>1, <1>2, <1>5
<1>8. ASSUME NEW i \in 1..n PROVE SeededRows[i] = NewKey(f[i][1], Kind(f[i][2]))
  <2>1. SeededRows[i] = SeedOf(f[i][1])[f[i][2]] BY <1>6
  <2> QED BY <1>7, <2>1, SeedFields
<1>9. \A m : Kind(m) \in KeyKind BY DEF KeyKind
<1>10. /\ \A m : Kind(m) = "identity" <=> m = 1
       /\ \A m : Kind(m) = "signed" <=> m = 2
  OBVIOUS
<1> HIDE DEF Kind
<1>11. ASSUME NEW i \in 1..n
       PROVE  /\ SeededRows[i] \in Key /\ SeededRows[i].device = f[i][1]
              /\ SeededRows[i].kind = Kind(f[i][2]) /\ SeededRows[i].status = "active"
              /\ SeededRows[i].given = 0
  BY <1>7, <1>8, <1>9, NewKeyFields
<1>12. SeededRows \in Seq(Key) /\ Len(SeededRows) = n
  <2>1. SeededRows \in [1..n -> Key] BY <1>6, <1>11
  <2> QED BY <1>5, <2>1, SameLength
<1>13. ASSUME NEW d \in Enrolled, NEW m \in 1..2
       PROVE  \E k \in 1..n : \A j \in 1..n : f[j][1] = d /\ f[j][2] = m <=> j = k
  <2>1. <<d, m>> \in S BY <1>1, <1>2
  <2>2. PICK k \in 1..n : f[k] = <<d, m>> BY <1>5, <2>1
  <2>3. ASSUME NEW j \in 1..n, f[j][1] = d, f[j][2] = m PROVE j = k
    <3>1. f[j] \in Enrolled \X (1..Batch + 2) BY <1>1, <1>7
    <3>2. f[j] = <<d, m>> BY <2>3, <3>1
    <3> QED BY <1>5, <2>2, <3>2
  <2> QED BY <2>2, <2>3
<1>14. ASSUME NEW d \in Enrolled, NEW kind \in {"identity", "signed"}
       PROVE  Sole(SeededRows, d, kind)
  <2>1. PICK m \in 1..2 : \A x : Kind(x) = kind <=> x = m
    <3>1. CASE kind = "identity" BY <1>10, <3>1
    <3>2. CASE kind = "signed" BY <1>10, <3>2
    <3> QED BY <3>1, <3>2
  <2>2. PICK k \in 1..n : \A j \in 1..n : f[j][1] = d /\ f[j][2] = m <=> j = k BY <1>13
  <2>3. \A j \in 1..n : (SeededRows[j].device = d /\ SeededRows[j].kind = kind) <=> j = k
    BY <1>11, <2>1, <2>2
  <2> QED BY <1>12, <2>3 DEF Sole
<1> QED BY <1>7, <1>11, <1>12, <1>14

\* the inductive invariant
Inv == /\ Linked /\ Directory /\ FirstTokens /\ SecondFactor /\ LateCalls
       /\ Prekeys /\ Bundles /\ Paired /\ Memory

(* It holds at the start: no call runs, and only the enrolled devices have rows. *)
LEMMA InvInit ==
    Init => Inv
<1> SUFFICES ASSUME Init PROVE Inv OBVIOUS
<1>1. /\ session = <<>> /\ token = <<>> /\ challenge = <<>> /\ attempts = <<>>
      /\ gone = {} /\ rowLock = {} /\ complete = Enrolled /\ keyRow = SeededRows
      /\ call = [t \in Threads |-> Idle]
  BY DEF Init, DevicesInit
<1>2. \A t \in Threads : call[t] = Idle BY <1>1
<1>3. \A t \in Threads : call[t].op = "idle" /\ ~call[t].late /\ call[t].at # "mark"
  BY <1>2, IdleFields, Zenon
<1>4. Linked
  <2>1. /\ session \in Seq(Session) /\ token \in Seq(Token) /\ challenge \in Seq(Challenge)
        /\ attempts \in Seq(Nat) /\ Len(session) = 0 /\ Len(token) = 0
        /\ Len(challenge) = 0 /\ Len(attempts) = 0
    BY <1>1
  <2>2. call \in [Threads -> CallType] BY <1>1, IdleFields, Zenon
  <2>3. \A t \in Threads : InPlace(call[t]) BY <1>3 DEF InPlace
  <2> QED BY <2>1, <2>2, <2>3 DEF Linked
<1>5. Len(session) = 0 /\ Len(token) = 0 /\ Len(challenge) = 0 BY <1>1
<1>6. FirstTokens /\ SecondFactor BY <1>5 DEF FirstTokens, SecondFactor
<1>7. LateCalls BY <1>1, <1>3 DEF LateCalls
<1>8. Enrolled \subseteq Devices /\ MaxFailedPairingAttempts \in Nat BY AuthDevicesAssumption
<1>9. \A d \in Devices : deviceRow[d] = IF d \in Enrolled THEN "active" ELSE "none"
  BY DEF Init, DevicesInit
<1>10. Paired
  <2>1. pairing = [d \in Devices |-> NoPairing] BY DEF Init, DevicesInit
  <2>2. NoPairing \in Pairing /\ NoPairing.state # "open" BY <1>8 DEF NoPairing, Pairing
  <2> HIDE DEF NoPairing
  <2> QED BY <2>1, <2>2 DEF Paired, Pairings
<1>11. Directory
  <2>1. deviceRow \in [Devices -> DeviceStatus] BY DEF Init, DevicesInit, DeviceStatus
  <2> QED BY <1>1, <1>8, <1>10, <2>1, SeededFacts DEF Directory, Paired
<1>12. Prekeys
  <2>1. \A t \in Threads : ~Claiming(t) /\ call[t].at # "mark" BY <1>3 DEF Claiming
  <2> QED BY <1>1, <2>1, SeededFacts DEF Prekeys
<1>13. Bundles
  <2>1. ASSUME NEW d \in Enrolled, NEW kind \in {"identity", "signed"} PROVE One(d, kind)
    <3>0. Sole(keyRow, d, kind) BY <1>1, SeededFacts
    <3>1. PICK k \in 1..Len(keyRow) : \A j \in 1..Len(keyRow) :
            (keyRow[j].device = d /\ keyRow[j].kind = kind) <=> j = k
      BY <3>0 DEF Sole
    <3>2. \A j \in 1..Len(keyRow) : keyRow[j].status = "active" BY <1>1, SeededFacts
    <3>3. DOMAIN keyRow = 1..Len(keyRow) BY <1>11, KeyFacts
    <3>4. ActiveKeys(d, kind) = {k} BY <3>1, <3>2, <3>3 DEF ActiveKeys
    <3> QED BY <3>4 DEF One
  <2>2. \A d \in complete : Reachable(d) BY <1>1, <1>8, <1>9, <2>1 DEF Reachable
  <2>3. ASSUME NEW d \in Devices, deviceRow[d] = "none", NEW k \in 1..Len(keyRow)
        PROVE  keyRow[k].device # d
    BY <1>1, <1>9, <2>3, SeededFacts
  <2>4. \A t \in Threads : Held(t) BY <1>3 DEF Held
  <2> QED BY <2>2, <2>3, <2>4 DEF Bundles
<1>14. Memory
  <2>1. mfaRow \in Seq(MfaStatus) BY AuthSessionsAssumption DEF Init
  <2> QED BY <2>1 DEF Init, Memory
<1> QED BY <1>4, <1>6, <1>7, <1>10, <1>11, <1>12, <1>13, <1>14 DEF Inv

(* Every step keeps it, or changes nothing. *)
LEMMA InvNext ==
    Inv /\ [Next]_vars => Inv'
<1> SUFFICES ASSUME Inv, [Next]_vars PROVE Inv' OBVIOUS
<1>1. CASE Next
  BY <1>1, LinkedNext, DirectoryNext, FirstTokensNext, SecondFactorNext, LateNext,
     PrekeysNext,
     BundlesNext, MemoryNext DEF Inv
<1>2. CASE UNCHANGED vars
  <2>1. /\ deviceRow' = deviceRow /\ keyRow' = keyRow /\ rowLock' = rowLock
        /\ pairing' = pairing /\ complete' = complete /\ gone' = gone /\ call' = call
        /\ session' = session /\ token' = token /\ mfaRow' = mfaRow /\ challenge' = challenge
        /\ attempts' = attempts /\ recovery' = recovery /\ lastStep' = lastStep
        /\ lapsed' = lapsed
    BY <1>2 DEF vars, deviceVars, sessionVars
  <2>2. Linked' /\ Directory' /\ Memory' /\ Paired'
    BY <2>1 DEF Inv, Linked, InPlace, Directory, Memory, Paired, Pairings
  <2>3. FirstTokens'
    BY <2>1 DEF Inv, FirstTokens, Entitled, ByLogin, ByVerify, HasToken, HasChallenge, Earned
  <2>4. SecondFactor' BY <2>1 DEF Inv, SecondFactor, HasChallenge, Earned
  <2>5. LateCalls' BY <2>1 DEF Inv, LateCalls, Doomed, Ended
  <2>6. Prekeys' BY <2>1 DEF Inv, Prekeys, Claiming
  <2>7. Bundles'
    BY <2>1 DEF Inv, Bundles, Held, Reachable, One, NoKey, ActiveKeys, Registering
  <2> QED BY <2>2, <2>3, <2>4, <2>5, <2>6, <2>7 DEF Inv
<1> QED BY <1>1, <1>2

(* So it holds in every state. *)
LEMMA Invariance ==
    Spec => []Inv
  BY InvInit, InvNext, PTL DEF Spec

-----------------------------------------------------------------------------
(***************************************************************************)
(* The properties                                                          *)
(***************************************************************************)

(* However logins, verifications and refreshes race, a session has at most *)
(* one refresh token that can still be used.                               *)
THEOREM TokensAreSingle ==
    Spec => []OneLiveToken
<1>1. Inv => OneLiveToken
  <2> SUFFICES ASSUME Inv, NEW i \in DOMAIN session
               PROVE  Cardinality({k \in DOMAIN token : /\ token[k].sess = i
                                                        /\ token[k].status = "active"}) <= 1
    BY DEF OneLiveToken
  <2> DEFINE live == {k \in DOMAIN token : token[k].sess = i /\ token[k].status = "active"}
  <2>1. DOMAIN token = 1..Len(token) BY RowFacts DEF Inv
  <2>2. \A k, l \in live : k = l BY <2>1 DEF Inv, FirstTokens
  <2>3. CASE live = {} BY <2>3, FS_EmptySet
  <2>4. CASE live # {}
    <3>1. PICK k \in live : TRUE BY <2>4
    <3>2. live = {k} BY <2>2, <3>1
    <3>3. Cardinality({k}) = 1 BY FS_Singleton
    <3> QED BY <3>2, <3>3
  <2> QED BY <2>3, <2>4
<1> QED BY <1>1, Invariance, PTL

(* A session's level, and the tokens of a session with a challenge, come   *)
(* from a challenge that was completed.                                    *)
THEOREM FactorsAreEarned ==
    Spec => []SecondFactorIsEarned
<1>1. Inv => SecondFactorIsEarned
  <2> SUFFICES ASSUME Inv PROVE SecondFactorIsEarned OBVIOUS
  <2>1. /\ DOMAIN session = 1..Len(session) /\ DOMAIN token = 1..Len(token)
        /\ DOMAIN challenge = 1..Len(challenge)
    BY RowFacts DEF Inv
  <2> QED BY <2>1 DEF Inv, SecondFactor, SecondFactorIsEarned, HasChallenge, Earned
<1> QED BY <1>1, Invariance, PTL

(* A call that came in after the revocation of its device was answered, or *)
(* a refresh that came in after its session ended, never succeeds.         *)
THEOREM LateCallsFail ==
    Spec => []NoLateSuccess
<1>1. Inv => NoLateSuccess BY DEF Inv, LateCalls, Doomed, NoLateSuccess
<1> QED BY <1>1, Invariance, PTL

(* Revoked devices, ended sessions and spent tokens stay so. *)
THEOREM EndingIsFinal ==
    Spec => EndedIsFinal
<1> DEFINE A == /\ \A d \in Devices : deviceRow[d] = "revoked" => deviceRow'[d] = "revoked"
                /\ \A i \in DOMAIN session : Ended(i) => session'[i].status # "active"
                /\ \A k \in DOMAIN token : token[k].status # "active" =>
                     token'[k].status # "active"
<1>1. Inv /\ [Next]_vars => [A]_vars
  <2> SUFFICES ASSUME Inv, Next PROVE A OBVIOUS
  <2>1. Grown /\ Final BY LinkedNext, LateNext DEF Inv
  <2>2. DOMAIN session = 1..Len(session) /\ DOMAIN token = 1..Len(token) BY RowFacts DEF Inv
  <2> QED BY <2>1, <2>2 DEF Grown, Final, Ended
<1> QED BY <1>1, Invariance, PTL DEF Spec, EndedIsFinal

(* An enrolled, active device can be written to. *)
LEMMA Complete ==
    ASSUME Inv
    PROVE  DirectoryComplete
<1> SUFFICES ASSUME NEW d \in complete, deviceRow[d] = "active"
             PROVE  /\ GetCryptoIdentity(d) = "OK"
                    /\ Cardinality(ActiveKeys(d, "signed")) = 1
                    /\ ~GetPrekeyInventoryStatus(d).inventory.needs_rotation
  BY DEF DirectoryComplete
<1>1. One(d, "identity") /\ One(d, "signed") BY DEF Inv, Bundles, Reachable
<1>2. FindActiveIdentityKey(d) # 0 /\ FindActiveSignedPrekey(d) # 0
  BY <1>1, NewestFound DEF Inv, One, FindActiveIdentityKey, FindActiveSignedPrekey
<1>3. CryptoIdentity(d) = "success" BY <1>2 DEF CryptoIdentity, HasBundle
<1>4. GetCryptoIdentity(d) = "OK" BY <1>3 DEF GetCryptoIdentity
<1>5. Cardinality(ActiveKeys(d, "signed")) = 1 BY <1>1, FS_Singleton DEF One
<1>6. GetPrekeyInventoryStatus(d) = [code |-> "OK", inventory |-> GetInventoryStatus(d)]
  BY DEF GetPrekeyInventoryStatus
<1>7. ~GetInventoryStatus(d).needs_rotation BY <1>2 DEF GetInventoryStatus
<1> QED BY <1>4, <1>5, <1>6, <1>7

(* The tables stay consistent across racing calls, failing transactions    *)
(* and restarts: rows are well formed, one-time prekeys are handed out     *)
(* once, and every enrolled device has an identity key and exactly one     *)
(* current signed prekey.                                                  *)
THEOREM TablesStayConsistent ==
    Spec => []TablesConsistent
<1>1. Inv => TablesConsistent
  <2> SUFFICES ASSUME Inv PROVE TablesConsistent OBVIOUS
  <2>1. DOMAIN keyRow = 1..Len(keyRow) BY KeyFacts DEF Inv
  <2>2. TypeOK BY <2>1 DEF Inv, TypeOK, Linked, Directory, Memory
  <2>3. HandedOutOnce BY <2>1 DEF Inv, HandedOutOnce, Prekeys
  <2> QED BY <2>2, <2>3, Complete DEF TablesConsistent
<1> QED BY <1>1, Invariance, PTL
====
