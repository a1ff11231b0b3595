---------------------------- MODULE GatewayRoutes ----------------------------
(***************************************************************************)
(* The routes of the HTTP gateway: what the security policy asks of a      *)
(* request and how the proxy handler behind the route uses the resilience  *)
(* objects.  A route is a record without its name, so that two handlers    *)
(* which differ only in the message they translate are the same value.     *)
(*                                                                         *)
(*   svc      workload category of the bulkhead, and the breaker           *)
(*   access   RouteAccess of the rule that matches the path                *)
(*   scopes   who holds a scope the rule asks for: every token the remote  *)
(*            validator accepts, only an MFA verified one, or none         *)
(*   bound    the rule requires a device binding                           *)
(*   proxied  a downstream call is made (health checks and stubs: not)     *)
(*   retried  the call goes through RetryPolicy::execute                   *)
(*   idem     the OperationIdempotency the handler passes                  *)
(*   early    a path parameter is checked before the bulkhead              *)
(*   checked  the body is checked after the breaker admitted the request   *)
(*   mfa      the handler itself asks for an MFA verified caller           *)
(*   owned    the answer is refused when it is another user's              *)
(*   guarded  the call is registered under its request id for cancellation *)
(*   stream   the body is produced chunk by chunk after the handler        *)
(***************************************************************************)

Levels == {"PRIMARY", "MFA_VERIFIED"}
Contexts == [level : Levels, device : BOOLEAN]

Route == [svc : {"auth", "messaging", "files", "emergency"},
          access : {"Public", "Protected", "Sensitive"},
          scopes : {"all", "mfa", "none"},
          bound : BOOLEAN, proxied : BOOLEAN, retried : BOOLEAN,
          idem : {"SAFE_READONLY", "NON_IDEMPOTENT"},
          early : BOOLEAN, checked : BOOLEAN, mfa : BOOLEAN, owned : BOOLEAN,
          guarded : BOOLEAN, stream : BOOLEAN]

(* A request the policy has no rule for is Protected: the default. *)
DefaultRoute ==
  [svc |-> "auth", access |-> "Protected", scopes |-> "all", bound |-> FALSE,
   proxied |-> TRUE, retried |-> FALSE, idem |-> "NON_IDEMPOTENT",
   early |-> FALSE, checked |-> FALSE, mfa |-> FALSE, owned |-> FALSE,
   guarded |-> TRUE, stream |-> FALSE]

(* What RouteSecurityRule asks of an authenticated caller; both the        *)
(* authentication and the authorization middleware evaluate it.            *)
Permits(r, ctx) ==
  /\ r.access = "Sensitive" => ctx.level = "MFA_VERIFIED"
  /\ r.bound => ctx.device
  /\ \/ r.scopes = "all"
     \/ r.scopes = "mfa" /\ ctx.level = "MFA_VERIFIED"

-----------------------------------------------------------------------------
(* AuthProxyHandler: every call goes through the retry policy.             *)
AuthRoute == [DefaultRoute EXCEPT !.retried = TRUE]
AuthQuery == [AuthRoute EXCEPT !.idem = "SAFE_READONLY"]
AuthCommand == [AuthRoute EXCEPT !.checked = TRUE]
SensitiveCommand == [AuthCommand EXCEPT !.access = "Sensitive", !.mfa = TRUE]

HandleLogin == [AuthCommand EXCEPT !.access = "Public"]
HandleRefresh == [AuthCommand EXCEPT !.access = "Public"]
HandleRevoke == AuthCommand
HandleGetMe == AuthQuery
HandleRegisterDevice == AuthCommand
HandleGetDeviceCryptoDirectory == AuthRoute
HandleGetCryptoIdentity == AuthQuery
HandleUpdateCryptoPrekeys == AuthCommand
HandleGetPrekeyInventory == [AuthQuery EXCEPT !.checked = TRUE]
HandleClaimDevicePrekey == AuthRoute
HandleInitiateMfaEnrollment == AuthCommand
HandleConfirmMfaEnrollment == AuthCommand
HandleVerifyMfaChallenge == AuthCommand
HandleDisableMfa == SensitiveCommand
HandleListDevices == AuthQuery
HandleGetDevice == [AuthQuery EXCEPT !.owned = TRUE]
HandleInitiateDevicePairing == AuthCommand
HandleAuthorizeDevice == SensitiveCommand
HandleRevokeDevice == SensitiveCommand

(* The alias POST /api/v1/auth/device/register has a rule of its own.      *)
RegisterDeviceAlias == [HandleRegisterDevice EXCEPT !.access = "Sensitive",
                                                    !.scopes = "mfa",
                                                    !.bound = TRUE]

AuthRoutes == {HandleLogin, HandleRefresh, HandleRevoke, HandleGetMe,
               HandleRegisterDevice, HandleGetDeviceCryptoDirectory,
               HandleGetCryptoIdentity, HandleUpdateCryptoPrekeys,
               HandleGetPrekeyInventory, HandleClaimDevicePrekey,
               HandleInitiateMfaEnrollment, HandleConfirmMfaEnrollment,
               HandleVerifyMfaChallenge, HandleDisableMfa, HandleListDevices,
               HandleGetDevice, HandleInitiateDevicePairing,
               HandleAuthorizeDevice, HandleRevokeDevice, RegisterDeviceAlias}

-----------------------------------------------------------------------------
(* MessagingProxyHandler: one attempt, not registered for cancellation.    *)
MessagingQuery == [DefaultRoute EXCEPT !.svc = "messaging", !.guarded = FALSE]
MessagingCommand == [MessagingQuery EXCEPT !.checked = TRUE]

HandleCreateConversation == MessagingCommand
HandleGetConversation == MessagingQuery
HandleListConversations == MessagingQuery
HandleAddParticipant == MessagingCommand
HandleRemoveParticipant == MessagingQuery
HandleLeaveConversation == MessagingQuery
HandleUpdateMetadata == MessagingCommand
HandleSendMessage == MessagingCommand
HandleAcknowledgeDelivery == MessagingCommand
HandleSendReadReceipt == MessagingCommand
HandleGetDeliveryStatus == MessagingQuery
HandleSyncMessages == MessagingCommand
HandleGetSyncCursor == MessagingCommand
HandleUpdateSyncCursor == MessagingCommand
HandleUpdatePresence == MessagingCommand
HandleGetPresence == MessagingQuery
HandleBatchGetPresence == MessagingCommand

MessagingRoutes == {HandleCreateConversation, HandleGetConversation,
                    HandleListConversations, HandleAddParticipant,
                    HandleRemoveParticipant, HandleLeaveConversation,
                    HandleUpdateMetadata, HandleSendMessage,
                    HandleAcknowledgeDelivery, HandleSendReadReceipt,
                    HandleGetDeliveryStatus, HandleSyncMessages,
                    HandleGetSyncCursor, HandleUpdateSyncCursor,
                    HandleUpdatePresence, HandleGetPresence,
                    HandleBatchGetPresence}

-----------------------------------------------------------------------------
(* FilesProxyHandler: one attempt, cancellable.                            *)
FilesCommand == [DefaultRoute EXCEPT !.svc = "files", !.checked = TRUE]
FilesLookup == [DefaultRoute EXCEPT !.svc = "files"]

HandleUploadInit == FilesCommand
HandleUploadChunk == FilesCommand
HandleUploadFinalize == FilesCommand
HandleUploadCancel == FilesCommand
HandleGetMetadata == FilesLookup
HandleDownloadChunk == [FilesLookup EXCEPT !.early = TRUE]
HandleStreamingDownload == [FilesLookup EXCEPT !.stream = TRUE]
HandleDeleteFile == FilesLookup

FilesRoutes == {HandleUploadInit, HandleUploadChunk, HandleUploadFinalize,
                HandleUploadCancel, HandleGetMetadata, HandleDownloadChunk,
                HandleStreamingDownload, HandleDeleteFile}

-----------------------------------------------------------------------------
(* GatewayRouteRegistrar: health checks, and the routes that only exist as *)
(* stubs; the remote validator grants nobody the audit scope.              *)
HealthRoute == [DefaultRoute EXCEPT !.svc = "emergency", !.access = "Public",
                                    !.proxied = FALSE]
MessagingStub == [MessagingQuery EXCEPT !.proxied = FALSE]
AuditStub == [MessagingStub EXCEPT !.access = "Sensitive", !.scopes = "none"]

(* A path no route matches: no rule either, and no handler. *)
Unmatched == [DefaultRoute EXCEPT !.proxied = FALSE]

StubRoutes == {HealthRoute, MessagingStub, AuditStub, Unmatched}

AllRoutes == AuthRoutes \cup MessagingRoutes \cup FilesRoutes \cup StubRoutes
=============================================================================
