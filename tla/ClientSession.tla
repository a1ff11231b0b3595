---------------------------- MODULE ClientSession ----------------------------
(***************************************************************************)
(* The desktop client around its workspace: the lifecycle of the           *)
(* application, the views a user may be shown, the login with its second   *)
(* factor, logout and the emergency wipe.  Everything runs on the thread   *)
(* of the user interface, one handler after the other.                     *)
(***************************************************************************)
EXTENDS Integers, Sequences, FiniteSets, FiniteSetsExt

CONSTANTS
    Operators,      \* names that may be typed into the login form
    NoUser,         \* the empty user name
    MaxHistory,     \* bound on the views kept for "back"
    MaxOps          \* bound on the operations of a user

ASSUME ClientAssumption ==
    /\ NoUser \notin Operators
    /\ MaxHistory \in Nat
    /\ MaxOps \in Nat

VARIABLES
    app,        \* the application: lifecycle, synchronisation, gateway, window
    nav,        \* the navigation controller
    account,    \* who is logged in, the pending second factor, the wipe
    secrets,    \* keys of the secure storage that hold a value
    storeOpen,  \* whether the local store answers
    ops         \* operations done so far

sessionVars == <<app, nav, account, secrets, storeOpen, ops>>

Views == {"Unauthenticated", "MfaVerification", "MainWorkspace", "Settings",
          "EmergencyMode", "StyleGuide"}
Sections == {"Messages", "Contacts", "Files"}
Lifecycles == {"Uninitialized", "Initializing", "Running", "Terminated"}
Secrets == {"session_auth_token"}

IsRestricted(view) == view \in {"MainWorkspace", "Settings"}

SessionInit ==
    /\ app = [lifecycle |-> "Uninitialized", syncing |-> FALSE,
              connected |-> FALSE, window |-> FALSE]
    /\ nav = [view |-> "Unauthenticated", section |-> "Messages",
              history |-> <<>>, auth |-> FALSE]
    /\ account = [user |-> NoUser, auth |-> FALSE, pending |-> NoUser,
                  wiped |-> FALSE, verified |-> FALSE]
    /\ secrets = {}
    /\ storeOpen = TRUE
    /\ ops = 0

-----------------------------------------------------------------------------
(* The application.                                                        *)

\* initialize(): an invalid configuration ends the application.  The gateway
\* client in use answers every probe, and opening the store cannot fail.
Initialize(valid) ==
    /\ app.lifecycle = "Uninitialized"
    /\ IF valid
         THEN /\ storeOpen' = TRUE
              /\ app' = [app EXCEPT !.lifecycle = "Initializing",
                                    !.connected = TRUE]
         ELSE /\ app' = [app EXCEPT !.lifecycle = "Terminated"]
              /\ UNCHANGED storeOpen
    /\ UNCHANGED <<nav, account, secrets, ops>>

Start ==
    /\ app.lifecycle = "Initializing"
    /\ app' = [app EXCEPT !.lifecycle = "Running", !.syncing = TRUE]
    /\ UNCHANGED <<nav, account, secrets, storeOpen, ops>>

\* After the event loop has ended.
Shutdown ==
    /\ app.window
    /\ app' = [lifecycle |-> "Terminated", syncing |-> FALSE,
               connected |-> FALSE, window |-> FALSE]
    /\ storeOpen' = FALSE
    /\ UNCHANGED <<nav, account, secrets, ops>>

\* A handler of the user interface: the window is there and the user still
\* has an operation to spend.
UserActs ==
    /\ app.window
    /\ ops < MaxOps
    /\ ops' = ops + 1

-----------------------------------------------------------------------------
(* The navigation controller.                                              *)

\* reset(): forget the way here.
Reset(n, view) == [n EXCEPT !.view = view, !.history = <<>>,
                            !.section = "Messages"]

SetAuthenticated(n, auth) ==
    LET changed == [n EXCEPT !.auth = auth]
    IN  IF n.auth # auth /\ ~auth /\ IsRestricted(n.view)
          THEN Reset(changed, "Unauthenticated")
          ELSE changed

\* What navigateTo() leaves behind: nothing changes when the view is already
\* shown or is denied.
Navigated(n, view) ==
    IF n.view = view \/ (~n.auth /\ IsRestricted(view)) THEN n
    ELSE [n EXCEPT !.view = view, !.history = Append(n.history, n.view)]

NavigateTo(view) ==
    /\ UserActs
    /\ Len(nav.history) < MaxHistory
    /\ nav' = Navigated(nav, view)
    /\ UNCHANGED <<app, account, secrets, storeOpen>>

NavigateToSection(section) ==
    /\ UserActs
    /\ nav.auth
    /\ Len(nav.history) < MaxHistory
    /\ nav' = [Navigated(nav, "MainWorkspace") EXCEPT !.section = section]
    /\ UNCHANGED <<app, account, secrets, storeOpen>>

\* The newest view of the history that may be shown; the restricted ones
\* above it are dropped with it.
NavigateBack ==
    /\ UserActs
    /\ nav.history # <<>>
    /\ LET shown == {i \in DOMAIN nav.history :
                        nav.auth \/ ~IsRestricted(nav.history[i])}
       IN  nav' = IF shown = {} THEN [nav EXCEPT !.history = <<>>]
                  ELSE [nav EXCEPT
                          !.view = nav.history[Max(shown)],
                          !.history = SubSeq(nav.history, 1, Max(shown) - 1)]
    /\ UNCHANGED <<app, account, secrets, storeOpen>>

-----------------------------------------------------------------------------
(* Login, second factor, logout and wipe.                                  *)

\* requestLogin() and, within it, AuthManager::authenticate(): an empty name
\* is refused, every other one is let in and gets a session token.
LoggedIn(user) ==
    IF user = NoUser THEN UNCHANGED <<nav, account, secrets>>
    ELSE /\ account' = [account EXCEPT !.user = user, !.auth = TRUE,
                                       !.pending = NoUser]
         /\ secrets' = secrets \union {"session_auth_token"}
         /\ nav' = Reset(SetAuthenticated(nav, TRUE), "MainWorkspace")

RequestLogin(user) ==
    /\ UserActs
    /\ LoggedIn(user)
    /\ UNCHANGED <<app, storeOpen>>

BeginMfaChallenge(user) ==
    /\ UserActs
    /\ user # NoUser
    /\ Len(nav.history) < MaxHistory
    /\ account' = [account EXCEPT !.pending = user]
    /\ nav' = Navigated(nav, "MfaVerification")
    /\ UNCHANGED <<app, secrets, storeOpen>>

\* Six digits are enough; with nothing pending a default name is used.
SubmitMfaCode(sixDigits, default) ==
    /\ UserActs
    /\ IF sixDigits
         THEN LoggedIn(IF account.pending = NoUser THEN default
                       ELSE account.pending)
         ELSE UNCHANGED <<nav, account, secrets>>
    /\ UNCHANGED <<app, storeOpen>>

CancelMfaChallenge ==
    /\ UserActs
    /\ account' = [account EXCEPT !.pending = NoUser]
    /\ nav' = Reset(nav, "Unauthenticated")
    /\ UNCHANGED <<app, secrets, storeOpen>>

RequestLogout ==
    /\ UserActs
    /\ account' = [account EXCEPT !.user = NoUser, !.auth = FALSE,
                                  !.pending = NoUser]
    /\ secrets' = secrets \ {"session_auth_token"}
    /\ nav' = Reset(SetAuthenticated(nav, FALSE), "Unauthenticated")
    /\ UNCHANGED <<app, storeOpen>>

SetIdentityVerified(verified) ==
    /\ UserActs
    /\ account' = [account EXCEPT !.verified = verified]
    /\ UNCHANGED <<app, nav, secrets, storeOpen>>

\* Logout, then the emergency manager closes the store and deletes the
\* secrets (also an identity key, which nothing stores).  The workspace blanks itself on the signal this raises.
WipeSession ==
    /\ UserActs
    /\ account' = [user |-> NoUser, auth |-> FALSE, pending |-> NoUser,
                   wiped |-> TRUE, verified |-> FALSE]
    /\ secrets' = secrets \ Secrets
    /\ storeOpen' = FALSE
    /\ nav' = Reset(SetAuthenticated(nav, FALSE), "EmergencyMode")
    /\ UNCHANGED app

RunApplication ==
    \/ \E valid \in BOOLEAN : Initialize(valid)
    \/ Start
    \/ Shutdown

DoSession ==
    \/ \E v \in Views : NavigateTo(v)
    \/ \E s \in Sections : NavigateToSection(s)
    \/ NavigateBack
    \/ \E u \in Operators \union {NoUser} : RequestLogin(u)
    \/ \E u \in Operators : BeginMfaChallenge(u)
    \/ \E six \in BOOLEAN, u \in Operators : SubmitMfaCode(six, u)
    \/ CancelMfaChallenge
    \/ RequestLogout
    \/ \E b \in BOOLEAN : SetIdentityVerified(b)

SessionTypeOK ==
    /\ app \in [lifecycle : Lifecycles, syncing : BOOLEAN,
                connected : BOOLEAN, window : BOOLEAN]
    /\ nav \in [view : Views, section : Sections, history : Seq(Views),
                auth : BOOLEAN]
    /\ account \in [user : Operators \union {NoUser}, auth : BOOLEAN,
                    pending : Operators \union {NoUser}, wiped : BOOLEAN,
                    verified : BOOLEAN]
    /\ secrets \subseteq Secrets
    /\ storeOpen \in BOOLEAN
    /\ ops \in 0..MaxOps

\* A view of the workspace or its settings is on the screen only for a user
\* the auth manager knows, whatever way of logins, logouts and steps back led
\* to it (navigation_controller.cpp:96-112, app_view_model.cpp:157-183).
RestrictedHidden ==
    /\ nav.auth = account.auth
    /\ IsRestricted(nav.view) => account.auth
=============================================================================
