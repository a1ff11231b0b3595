---------------------------- MODULE AuthSessions ----------------------------
(***************************************************************************)
(* The session side of the auth service: login, session validation and     *)
(* revocation, rotation of refresh tokens, multi-factor challenges, and    *)
(* device revocation, which reaches from the devices into the sessions.    *)
(* Runs beside the calls of AuthDevices over the same rows and threads.    *)
(***************************************************************************)
EXTENDS AuthDevices

CONSTANTS MfaAtStart,    \* statuses of the account's MFA rows at the start
          MaxChallengeAttempts,
          TimeSteps,     \* TOTP time steps a code can match
          RecoveryCodes, \* the codes handed out at enrolment
          MaxSessions, MaxTokens, MaxMfaRows  \* bounds: rows of the tables

MfaStatus == {"pending", "enabled", "disabled"}

ASSUME AuthSessionsAssumption ==
    /\ {MaxChallengeAttempts, MaxSessions, MaxTokens, MaxMfaRows} \subseteq Nat
    /\ TimeSteps \subseteq Nat \ {0}
    /\ MfaAtStart \subseteq Seq(MfaStatus)

VARIABLES session,       \* sessions
          token,         \* refresh_tokens
          mfaRow,        \* status of each row of mfa_configurations
          challenge,     \* mfa_challenges
          attempts,      \* challenge_attempts_, in memory
          recovery,      \* user_recovery_codes_, in memory
          lastStep,      \* last_used_time_steps_, in memory; 0 is "none"
          lapsed         \* deadlines that have passed

sessionVars == <<session, token, mfaRow, challenge, attempts, recovery, lastStep, lapsed>>
vars == <<deviceVars, gone, call, calls, sessionVars>>

Session == [dev : Devices, status : {"active", "revoked", "expired"}, level : {"primary", "mfa"}]
\* next: the token that replaced this one, 0 while none has
Token == [sess : Nat, status : {"active", "rotated", "revoked"}, next : Nat]
Challenge == [sess : Nat, status : {"pending", "completed", "failed"}]

Deadline == {"session", "token", "grace", "challenge"} \X Nat
Passed(kind, i) == <<kind, i>> \in lapsed

Init ==
    /\ DevicesInit
    /\ session = <<>> /\ token = <<>> /\ challenge = <<>> /\ attempts = <<>>
    /\ mfaRow \in MfaAtStart
    /\ recovery = IF \E i \in DOMAIN mfaRow : mfaRow[i] = "enabled" THEN RecoveryCodes ELSE {}
    /\ lastStep = 0
    /\ lapsed = {}

-----------------------------------------------------------------------------
(* Session rows                                                            *)

Ended(i) == session[i].status # "active"

\* UPDATE sessions SET session_status = 'Revoked' WHERE ... AND session_status = 'Active'
RevokeThese(ids) ==
    session' = [i \in DOMAIN session |->
                  IF i \in ids /\ session[i].status = "active"
                  THEN [session[i] EXCEPT !.status = "revoked"] ELSE session[i]]

\* a session that is not found or not active is refused
RevokeOne(i) == session[i].status = "active" /\ RevokeThese({i})

RevokeSession(i) ==
    /\ calls < MaxCalls /\ calls' = calls + 1
    /\ RevokeOne(i)
    /\ UNCHANGED <<deviceVars, gone, call, token, mfaRow, challenge, attempts, recovery, lastStep, lapsed>>

\* revoke_all_user_sessions, one statement over the account's sessions
RevokeAllUserSessions ==
    /\ calls < MaxCalls /\ calls' = calls + 1
    /\ \E i \in DOMAIN session : session[i].status = "active"
    /\ RevokeThese(DOMAIN session)
    /\ UNCHANGED <<deviceVars, gone, call, token, mfaRow, challenge, attempts, recovery, lastStep, lapsed>>

\* expire_stale_sessions
ExpireStaleSessions ==
    /\ \E i \in DOMAIN session : session[i].status = "active" /\ Passed("session", i)
    /\ session' = [i \in DOMAIN session |->
                     IF session[i].status = "active" /\ Passed("session", i)
                     THEN [session[i] EXCEPT !.status = "expired"] ELSE session[i]]
    /\ UNCHANGED <<deviceVars, gone, call, calls, token, mfaRow, challenge, attempts, recovery, lastStep, lapsed>>

\* a deadline of an existing row passes
TimePasses ==
    /\ calls < MaxCalls /\ calls' = calls + 1
    /\ \E d \in {<<"session", i>> : i \in DOMAIN session} \cup {<<"token", i>> : i \in DOMAIN token}
              \cup {<<"grace", i>> : i \in {j \in DOMAIN token : token[j].status = "rotated"}}
              \cup {<<"challenge", i>> : i \in DOMAIN challenge} :
          d \notin lapsed /\ lapsed' = lapsed \cup {d}
    /\ UNCHANGED <<deviceVars, gone, call, session, token, mfaRow, challenge, attempts, recovery, lastStep>>

-----------------------------------------------------------------------------
(* Authenticate: the device is looked up, the session stored, the device   *)
(* stamped, then either a challenge or tokens                              *)

Authenticate(t, d) ==
    /\ Free(t)
    /\ d \in complete
    /\ deviceRow[d] = "active"
    /\ Start(t, Call("login", "create", d, 0, Late(d)))
    /\ UNCHANGED <<deviceVars, gone, sessionVars>>

InsertSession(d) ==
    /\ Len(session) < MaxSessions
    /\ session' = Append(session, [dev |-> d, status |-> "active", level |-> "primary"])

CreateSession(t) ==
    /\ At(t, "login", "create")
    /\ InsertSession(call[t].dev)
    /\ call' = [call EXCEPT ![t].at = "stamp", ![t].id = Len(session) + 1]
    /\ UNCHANGED <<deviceVars, gone, calls, token, mfaRow, challenge, attempts, recovery, lastStep, lapsed>>

\* update_last_authenticated throws on a revoked device
StampDevice(t) ==
    /\ At(t, "login", "stamp")
    /\ IF deviceRow[call[t].dev] = "revoked" THEN Leave(t) ELSE Goto(t, "factor")
    /\ UNCHANGED <<deviceVars, gone, sessionVars>>

\* SELECT ... WHERE user_id without an order: any of the account's rows
FindMfaConfig(status) == IF mfaRow = <<>> THEN status = "none"
                         ELSE \E i \in DOMAIN mfaRow : mfaRow[i] = status

IsMfaEnabled(t) ==
    /\ At(t, "login", "factor")
    /\ \/ FindMfaConfig("enabled") /\ Goto(t, "challenge")
       \/ (\E s \in {"none", "pending", "disabled"} : FindMfaConfig(s)) /\ Goto(t, "issue")
    /\ UNCHANGED <<deviceVars, gone, sessionVars>>

InsertChallenge(i) == challenge' = Append(challenge, [sess |-> i, status |-> "pending"])

CreateChallenge(t) ==
    /\ At(t, "login", "challenge")
    /\ InsertChallenge(call[t].id)
    /\ attempts' = Append(attempts, 0)
    /\ Goto(t, "ok")
    /\ UNCHANGED <<deviceVars, gone, session, token, mfaRow, recovery, lastStep, lapsed>>

InsertToken(i) == /\ Len(token) < MaxTokens
                  /\ token' = Append(token, [sess |-> i, status |-> "active", next |-> 0])

\* issue_initial_tokens looks at the session as the call remembers it
IssueInitialTokens(t) ==
    /\ call[t].op \in {"login", "verify"} /\ call[t].at = "issue"
    /\ InsertToken(call[t].id)
    /\ Goto(t, "ok")
    /\ UNCHANGED <<deviceVars, gone, session, mfaRow, challenge, attempts, recovery, lastStep, lapsed>>

-----------------------------------------------------------------------------
(* ValidateSession: the session, then its device                           *)

ValidateSession(t, i) ==
    /\ Free(t)
    /\ i \in DOMAIN session
    /\ session[i].status = "active" /\ ~Passed("session", i)
    /\ Start(t, Call("validate", "device", session[i].dev, i, Late(session[i].dev)))
    /\ UNCHANGED <<deviceVars, gone, sessionVars>>

ValidateDevice(t) ==
    /\ At(t, "validate", "device")
    /\ IF deviceRow[call[t].dev] = "active" THEN Goto(t, "ok") ELSE Leave(t)
    /\ UNCHANGED <<deviceVars, gone, sessionVars>>

-----------------------------------------------------------------------------
(* RefreshSession                                                          *)

\* what refresh_tokens does with a token: reuse after the grace period is
\* punished, within it refused
TokenVerdict(k) ==
    CASE token[k].status = "rotated" /\ Passed("grace", k) -> "reuse"
      [] token[k].status = "active" /\ ~Passed("token", k) -> "device"
      [] OTHER -> "refused"

RefreshSession(t, k) ==
    /\ Free(t)
    /\ k \in DOMAIN token
    /\ TokenVerdict(k) # "refused"
    /\ LET i == token[k].sess
       IN  Start(t, Call("refresh", TokenVerdict(k), session[i].dev, k, Late(session[i].dev) \/ Ended(i)))
    /\ UNCHANGED <<deviceVars, gone, sessionVars>>

\* A mutant of RefreshReadsDevice: the device is not looked at.
RefreshTrustsDevice(t) ==
    /\ At(t, "refresh", "device")
    /\ Goto(t, "rotate")
    /\ UNCHANGED <<deviceVars, gone, sessionVars>>

RefreshReadsDevice(t) ==
    /\ At(t, "refresh", "device")
    /\ IF deviceRow[call[t].dev] = "active" THEN Goto(t, "session") ELSE Leave(t)
    /\ UNCHANGED <<deviceVars, gone, sessionVars>>

RefreshReadsSession(t) ==
    LET i == token[call[t].id].sess IN
    /\ At(t, "refresh", "session")
    /\ IF session[i].status = "active" /\ ~Passed("session", i) THEN Goto(t, "rotate") ELSE Leave(t)
    /\ UNCHANGED <<deviceVars, gone, sessionVars>>

\* A mutant of Rotatable: the token's status is not read under the lock.
RotatableUnchecked(k) == ~Passed("token", k)

\* the checks of rotate_token_atomic after SELECT ... FOR UPDATE
Rotatable(k) == token[k].status = "active" /\ ~Passed("token", k)

\* insert the new token and mark the old one rotated, in one transaction
RotateTokenAtomic(t) ==
    LET k == call[t].id IN
    /\ At(t, "refresh", "rotate")
    /\ IF Rotatable(k)
       THEN /\ Len(token) < MaxTokens
            /\ token' = Append([token EXCEPT ![k].status = "rotated", ![k].next = Len(token) + 1],
                               [sess |-> token[k].sess, status |-> "active", next |-> 0])
            /\ Goto(t, "stamp")
       ELSE UNCHANGED token /\ Leave(t)
    /\ UNCHANGED <<deviceVars, gone, session, mfaRow, challenge, attempts, recovery, lastStep, lapsed>>

\* touch_session_activity never fails the call; stamping a revoked device does
RefreshStamps(t) ==
    /\ At(t, "refresh", "stamp")
    /\ IF deviceRow[call[t].dev] = "revoked" THEN Leave(t) ELSE Goto(t, "ok")
    /\ UNCHANGED <<deviceVars, gone, sessionVars>>

\* handle_token_reuse in one transaction; its failure is swallowed
HandleTokenReuse(t) ==
    LET i == token[call[t].id].sess IN
    /\ At(t, "refresh", "reuse")
    /\ session' = [session EXCEPT ![i].status = "revoked"]
    /\ token' = [k \in DOMAIN token |-> IF token[k].sess = i /\ token[k].status = "active"
                                        THEN [token[k] EXCEPT !.status = "revoked"] ELSE token[k]]
    /\ Leave(t)
    /\ UNCHANGED <<deviceVars, gone, mfaRow, challenge, attempts, recovery, lastStep, lapsed>>

-----------------------------------------------------------------------------
(* VerifyMfaChallenge                                                      *)

\* UPDATE mfa_challenges SET 'Failed' WHERE ... AND challenge_status = 'Pending'
FailChallenge(c) == challenge' = [challenge EXCEPT ![c].status = IF @ = "pending" THEN "failed" ELSE @]

VerifyMfaChallenge(t, c) ==
    /\ Free(t)
    /\ c \in DOMAIN challenge /\ challenge[c].status = "pending"
    /\ IF Passed("challenge", c)
       THEN FailChallenge(c) /\ calls' = calls + 1 /\ UNCHANGED call
       ELSE /\ Start(t, Call("verify", "count", session[challenge[c].sess].dev, c,
                             Late(session[challenge[c].sess].dev)))
            /\ UNCHANGED challenge
    /\ UNCHANGED <<deviceVars, gone, session, token, mfaRow, attempts, recovery, lastStep, lapsed>>

CountAttempt(t) ==
    LET c == call[t].id
        n == attempts[c] + 1
    IN
    /\ At(t, "verify", "count")
    /\ attempts' = [attempts EXCEPT ![c] = n]
    /\ IF n > MaxChallengeAttempts THEN FailChallenge(c) /\ Leave(t)
       ELSE /\ call' = [call EXCEPT ![t].at = "code", ![t].n = n]
            /\ UNCHANGED <<challenge, calls>>
    /\ UNCHANGED <<deviceVars, gone, session, token, mfaRow, recovery, lastStep, lapsed>>

\* a code that does not match, or repeats the last time step (a factor that is
\* no longer enabled ends the call without a write, as CallThrows does)
WrongFactor(t) ==
    /\ At(t, "verify", "code")
    /\ FindMfaConfig("enabled")
    /\ IF call[t].n >= MaxChallengeAttempts THEN FailChallenge(call[t].id) ELSE UNCHANGED challenge
    /\ Leave(t)
    /\ UNCHANGED <<deviceVars, gone, session, token, mfaRow, attempts, recovery, lastStep, lapsed>>

\* a code of a time step other than the last one used, or an unused recovery
\* code, which is taken out of the pool
TotpMatches == \E s \in TimeSteps \ {lastStep} : lastStep' = s /\ UNCHANGED recovery
RecoveryMatches == \E r \in recovery : recovery' = recovery \ {r} /\ UNCHANGED lastStep

RightFactor(t) ==
    /\ At(t, "verify", "code")
    /\ FindMfaConfig("enabled")
    /\ TotpMatches \/ RecoveryMatches
    /\ Goto(t, "complete")
    /\ UNCHANGED <<deviceVars, gone, session, token, mfaRow, challenge, attempts, lapsed>>

\* A mutant of Completable: an update that matches no row is not an error.
CompletableAlways(c) == TRUE

\* UPDATE ... SET 'Completed' WHERE 'Pending' AND expires_at > now, else throw
Completable(c) == challenge[c].status = "pending" /\ ~Passed("challenge", c)

CompleteChallenge(t) ==
    LET c == call[t].id IN
    /\ At(t, "verify", "complete")
    /\ IF Completable(c)
       THEN challenge' = [challenge EXCEPT ![c].status = IF @ = "pending" THEN "completed" ELSE @]
            /\ Goto(t, "promote")
       ELSE UNCHANGED challenge /\ Leave(t)
    /\ UNCHANGED <<deviceVars, gone, session, token, mfaRow, attempts, recovery, lastStep, lapsed>>

\* update_authentication_level throws unless the session is active
UpdateAuthenticationLevel(i) == /\ session[i].status = "active"
                                /\ session' = [session EXCEPT ![i].level = "mfa"]

PromoteSession(t) ==
    LET i == challenge[call[t].id].sess IN
    /\ At(t, "verify", "promote")
    /\ IF session[i].status = "active"
       THEN UpdateAuthenticationLevel(i) /\ Goto(t, "clear")
       ELSE UNCHANGED session /\ Leave(t)
    /\ UNCHANGED <<deviceVars, gone, token, mfaRow, challenge, attempts, recovery, lastStep, lapsed>>

\* the attempts are cleared, then the handler validates the session again
ClearAttempts(t) ==
    LET i == challenge[call[t].id].sess IN
    /\ At(t, "verify", "clear")
    /\ attempts' = [attempts EXCEPT ![call[t].id] = 0]
    /\ IF session[i].status = "active" /\ ~Passed("session", i)
       THEN call' = [call EXCEPT ![t].at = "device", ![t].id = i] /\ UNCHANGED calls
       ELSE Leave(t)
    /\ UNCHANGED <<deviceVars, gone, session, token, mfaRow, challenge, recovery, lastStep, lapsed>>

VerifyReadsDevice(t) ==
    /\ At(t, "verify", "device")
    /\ IF deviceRow[call[t].dev] = "active" THEN Goto(t, "issue") ELSE Leave(t)
    /\ UNCHANGED <<deviceVars, gone, sessionVars>>

-----------------------------------------------------------------------------
(* Enrolment in multi-factor authentication.  Each is a read followed by   *)
(* an update guarded by the row's version, so it acts as one step.         *)

StoreMfaConfiguration == Len(mfaRow) < MaxMfaRows /\ mfaRow' = Append(mfaRow, "pending")
EnableMfaRow(i) == mfaRow[i] = "pending" /\ mfaRow' = [mfaRow EXCEPT ![i] = "enabled"]
DisableMfaRow(i) == mfaRow[i] = "enabled" /\ mfaRow' = [mfaRow EXCEPT ![i] = "disabled"]

\* the level the gateway vouches for is that of a session of the account
IsCallerMfaVerified == \E i \in DOMAIN session : session[i].level = "mfa"

InitiateMfaEnrollment ==
    /\ calls < MaxCalls /\ calls' = calls + 1
    /\ \E s \in {"none", "pending", "disabled"} : FindMfaConfig(s)
    /\ StoreMfaConfiguration
    /\ UNCHANGED <<deviceVars, gone, call, session, token, challenge, attempts, recovery, lastStep, lapsed>>

\* a first code is shown; recovery codes are made and kept in memory
ConfirmEnrollment == (\E i \in DOMAIN mfaRow : EnableMfaRow(i)) /\ recovery' = RecoveryCodes

ConfirmMfaEnrollment ==
    /\ calls < MaxCalls /\ calls' = calls + 1
    /\ ConfirmEnrollment
    /\ UNCHANGED <<deviceVars, gone, call, session, token, challenge, attempts, lastStep, lapsed>>

\* a code is shown; what memory holds about the user goes
DisableFactor == (\E i \in DOMAIN mfaRow : DisableMfaRow(i)) /\ recovery' = {} /\ lastStep' = 0

DisableMfa ==
    /\ calls < MaxCalls /\ calls' = calls + 1
    /\ IsCallerMfaVerified
    /\ DisableFactor
    /\ UNCHANGED <<deviceVars, gone, call, session, token, challenge, attempts, lapsed>>

-----------------------------------------------------------------------------
(* RevokeDevice: device, sessions, keys and challenge, one after another.  *)
(* A device that is already revoked is answered at once.                   *)

RevokeDevice(t, d) ==
    /\ Free(t)
    /\ IF deviceRow[d] = "revoked"
       THEN gone' = gone \cup {d} /\ calls' = calls + 1 /\ UNCHANGED call
       ELSE Start(t, Call("revoke", "device", d, 0, FALSE)) /\ UNCHANGED gone
    /\ UNCHANGED <<deviceVars, sessionVars>>

RevokeRow(d) == deviceRow' = [deviceRow EXCEPT ![d] = "revoked"]

RevokeDeviceRow(t) ==
    /\ At(t, "revoke", "device")
    /\ RevokeRow(call[t].dev)
    /\ Goto(t, "sessions")
    /\ UNCHANGED <<keyRow, rowLock, pairing, complete, gone, sessionVars>>

\* the result is ignored: a database error here does not stop the call
RevokeAllDeviceSessions(t) ==
    /\ At(t, "revoke", "sessions")
    /\ \/ RevokeThese({i \in DOMAIN session : session[i].dev = call[t].dev})
       \/ UNCHANGED session
    /\ Goto(t, "keys")
    /\ UNCHANGED <<deviceVars, gone, token, mfaRow, challenge, attempts, recovery, lastStep, lapsed>>

\* waits for rows locked by a claim
RevokeKeysOf(d) ==
    /\ \A k \in rowLock : keyRow[k].device # d
    /\ keyRow' = [k \in DOMAIN keyRow |-> IF keyRow[k].device = d /\ keyRow[k].status = "active"
                                          THEN [keyRow[k] EXCEPT !.status = "revoked"] ELSE keyRow[k]]

RevokeAllDeviceKeys(t) ==
    /\ At(t, "revoke", "keys")
    /\ RevokeKeysOf(call[t].dev)
    /\ Goto(t, "challenge")
    /\ UNCHANGED <<deviceRow, rowLock, pairing, complete, gone, sessionVars>>

EvictChallenge(t) ==
    /\ At(t, "revoke", "challenge")
    /\ pairing' = [pairing EXCEPT ![call[t].dev] = NoPairing]
    /\ gone' = gone \cup {call[t].dev}
    /\ Leave(t)
    /\ UNCHANGED <<deviceRow, keyRow, rowLock, complete, sessionVars>>

-----------------------------------------------------------------------------
\* the process restarts: calls, locks and everything kept in memory are lost
Restart ==
    /\ calls < MaxCalls /\ calls' = calls + 1
    /\ call' = [t \in Threads |-> Idle]
    /\ rowLock' = {}
    /\ pairing' = [d \in Devices |-> NoPairing]
    /\ attempts' = [c \in DOMAIN attempts |-> 0]
    /\ recovery' = {} /\ lastStep' = 0
    /\ UNCHANGED <<deviceRow, keyRow, complete, gone, session, token, mfaRow, challenge, lapsed>>

SessionStep(t) ==
    \/ \E d \in ListUserDevices : Authenticate(t, d) \/ RevokeDevice(t, d)
    \/ CreateSession(t) \/ StampDevice(t) \/ IsMfaEnabled(t) \/ CreateChallenge(t) \/ IssueInitialTokens(t)
    \/ \E i \in DOMAIN session : ValidateSession(t, i)
    \/ ValidateDevice(t)
    \/ \E k \in DOMAIN token : RefreshSession(t, k)
    \/ RefreshReadsDevice(t) \/ RefreshReadsSession(t) \/ RotateTokenAtomic(t) \/ RefreshStamps(t)
    \/ HandleTokenReuse(t)
    \/ \E c \in DOMAIN challenge : VerifyMfaChallenge(t, c)
    \/ CountAttempt(t) \/ WrongFactor(t) \/ RightFactor(t)
    \/ CompleteChallenge(t) \/ PromoteSession(t) \/ ClearAttempts(t) \/ VerifyReadsDevice(t)
    \/ RevokeDeviceRow(t) \/ RevokeAllDeviceSessions(t) \/ RevokeAllDeviceKeys(t) \/ EvictChallenge(t)

Next ==
    \/ \E t \in Threads : SessionStep(t) \/ (DeviceStep(t) /\ UNCHANGED sessionVars)
    \/ \E d \in Devices : PairingLapses(d) /\ UNCHANGED sessionVars
    \/ \E i \in DOMAIN session : RevokeSession(i)
    \/ RevokeAllUserSessions \/ ExpireStaleSessions \/ TimePasses
    \/ InitiateMfaEnrollment \/ ConfirmMfaEnrollment \/ DisableMfa
    \/ Restart

Spec == Init /\ [][Next]_vars

-----------------------------------------------------------------------------
(* Properties                                                              *)

\* rows, memory and calls are well formed
TypeOK ==
    /\ deviceRow \in [Devices -> DeviceStatus]
    /\ keyRow \in Seq(Key) /\ rowLock \subseteq DOMAIN keyRow
    /\ pairing \in [Devices -> Pairing]
    /\ complete \subseteq Devices /\ gone \subseteq Devices
    /\ session \in Seq(Session) /\ token \in Seq(Token) /\ challenge \in Seq(Challenge)
    /\ mfaRow \in Seq(MfaStatus) /\ attempts \in Seq(Nat) /\ Len(attempts) = Len(challenge)
    /\ recovery \subseteq RecoveryCodes /\ lastStep \in TimeSteps \cup {0}
    /\ lapsed \subseteq Deadline

\* However refreshes race, a session has at most one refresh token that can
\* still be used (rotate_token_atomic under FOR UPDATE and its status checks,
\* one set of first tokens per session).
OneLiveToken ==
    \A i \in DOMAIN session :
        Cardinality({k \in DOMAIN token : token[k].sess = i /\ token[k].status = "active"}) <= 1

\* A call that arrives after the revocation of its device was answered, or a
\* refresh that arrives after its session ended, never succeeds: sessions
\* stored by a login that overtook the revocation are stopped by the checks of
\* establish_session, validate_session, refresh_tokens and the prekey lookups.
NoLateSuccess == \A t \in Threads : call[t].at = "ok" => ~call[t].late

\* The assurance level of a session and, when a challenge was created for it,
\* its tokens come only from a challenge that was completed: never from one
\* that failed or ran out while its code was being checked.
SecondFactorIsEarned ==
    LET earned(i) == \E c \in DOMAIN challenge : challenge[c].sess = i /\ challenge[c].status = "completed"
    IN /\ \A i \in DOMAIN session : session[i].level = "mfa" => earned(i)
       /\ \A k \in DOMAIN token :
             (\E c \in DOMAIN challenge : challenge[c].sess = token[k].sess) => earned(token[k].sess)

\* A one-time prekey is handed to at most one caller, across concurrent claims
\* and directory lookups (SKIP LOCKED, and the row marked before the commit).
HandedOutOnce == \A k \in DOMAIN keyRow : keyRow[k].given <= 1

\* A device whose enrolment was answered and that is active can always be
\* written to: it has an identity key and exactly one current signed prekey,
\* whatever rotations race or fail.
DirectoryComplete ==
    \A d \in complete : deviceRow[d] = "active" =>
        /\ GetCryptoIdentity(d) = "OK"
        /\ Cardinality(ActiveKeys(d, "signed")) = 1
        /\ ~GetPrekeyInventoryStatus(d).inventory.needs_rotation

\* A revoked device never becomes active again, an ended session never becomes
\* active again and a spent token is never usable again, even when the step
\* that decided to write was taken before the revocation.
EndedIsFinal ==
    [][/\ \A d \in Devices : deviceRow[d] = "revoked" => deviceRow'[d] = "revoked"
       /\ \A i \in DOMAIN session : Ended(i) => session'[i].status # "active"
       /\ \A k \in DOMAIN token : token[k].status # "active" => token'[k].status # "active"]_vars

\* The tables stay consistent across racing calls, failing transactions and restarts:
\* rows are well formed, prekeys are handed out once, every enrolled device is complete.
TablesConsistent == TypeOK /\ HandedOutOnce /\ DirectoryComplete
=============================================================================
