------------------------------- MODULE WebAuthn -------------------------------
(***************************************************************************)
(* WebAuthnApi (auth-js): registering and authenticating with a WebAuthn   *)
(* factor, ceremonies of the browser, and the WebAuthnAbortService that    *)
(* lets one of them run at a time.  The requests are those of the MFA API, *)
(* see AuthApi for what they do to the session.  The browser and the auth  *)
(* server are external.                                                    *)
(***************************************************************************)
EXTENDS Naturals, FiniteSets

CONSTANTS
    Ceremony,               \* calls of register and authenticate, each made once
    Name,                   \* friendly names of factors
    None

VARIABLES
    step,                   \* where a call is
    kind,                   \* "register", "authenticate"
    name,                   \* the friendly name a call registers, or the factor it uses
    ownSignal,              \* calls that were given a signal by the application
    controller,             \* the call whose controller webAuthnAbortService has, or None
    aborted,                \* calls whose signal is aborted
    result,                 \* "none", "ok", "error", or a WebAuthn error code
    verified                \* the server: names of verified factors

vars == <<step, kind, name, ownSignal, controller, aborted, result, verified>>

Init ==
    /\ step = [c \in Ceremony |-> "new"] /\ kind = [c \in Ceremony |-> "authenticate"]
    /\ name = [c \in Ceremony |-> None]
    /\ ownSignal = {} /\ aborted = {} /\ controller = None
    /\ result = [c \in Ceremony |-> "none"]
    /\ verified \in SUBSET Name
-----------------------------------------------------------------------------
Goes(c, from, to) == step[c] = from /\ step' = [step EXCEPT ![c] = to]
Ends(c, from, how) == Goes(c, from, "done") /\ result' = [result EXCEPT ![c] = how]

Begins(c, what, n, to) ==
    /\ \/ Goes(c, "new", to) /\ UNCHANGED result
       \/ Ends(c, "new", "error")           \* no rpId, or no support in the browser
    /\ kind' = [kind EXCEPT ![c] = what] /\ name' = [name EXCEPT ![c] = n]
    /\ ownSignal' \in {ownSignal, ownSignal \cup {c}}
    /\ UNCHANGED <<controller, aborted, verified>>

register(c, n) == Begins(c, "register", n, "enrolling")
authenticate(c, n) == n \in verified /\ Begins(c, "authenticate", n, "challenging")

\* _enroll; the server refuses a name that a verified factor has.
Enroll(c) ==
    /\ \/ name[c] \notin verified /\ Goes(c, "enrolling", "challenging")
       \/ Goes(c, "enrolling", "listing")
    /\ UNCHANGED <<kind, name, ownSignal, controller, aborted, result, verified>>

\* What _register does after an enrollment that failed, for whatever reason: a factor of this
\* name that is not unverified is unenrolled, if the requests succeed.
UnenrollOfThatName(c) ==
    /\ Ends(c, "listing", "error")
    /\ verified' \in {verified, verified \ {name[c]}}
    /\ UNCHANGED <<kind, name, ownSignal, controller, aborted>>

\* Variant to refute: a new signal and no word to the call that had the last one.
SilentSignal(c) == controller' = c /\ UNCHANGED aborted

\* createNewAbortSignal.
CreateNewAbortSignal(c) ==
    /\ controller' = c
    /\ aborted' = aborted \cup ({controller} \ {None})

\* _challenge: the answer comes, and the ceremony begins at once.
Challenge(c) ==
    /\ \/ /\ Goes(c, "challenging", "ceremony")
          /\ IF c \in ownSignal THEN UNCHANGED <<controller, aborted>> ELSE CreateNewAbortSignal(c)
          /\ UNCHANGED result
       \/ Ends(c, "challenging", "error") /\ UNCHANGED <<controller, aborted>>
    /\ UNCHANGED <<kind, name, ownSignal, verified>>

\* createCredential, getCredential: a credential, or nothing that could be used.
Credential(c) ==
    /\ c \notin aborted
    /\ \/ Goes(c, "ceremony", "verifying") /\ UNCHANGED result
       \/ Ends(c, "ceremony", "error")
    /\ UNCHANGED <<kind, name, ownSignal, controller, aborted, verified>>

\* What the browser says, and what the options or the page have wrong of what that is due to,
\* the first in the order of the checks.
Failure ==
    [name : {"AbortError", "ConstraintError", "InvalidStateError", "NotAllowedError",
             "NotSupportedError", "SecurityError", "TypeError", "UnknownError"},
     wrong : {"nothing", "resident key required", "conditional verification required",
              "verification required", "no public-key parameter", "invalid domain", "other domain",
              "length of user id"}]

Passed == "ERROR_PASSTHROUGH_SEE_CAUSE_PROPERTY"

identifyRegistrationError(e) ==
    CASE e.name = "AbortError" -> "ERROR_CEREMONY_ABORTED"
      [] e.name = "ConstraintError" /\ e.wrong = "resident key required" ->
            "ERROR_AUTHENTICATOR_MISSING_DISCOVERABLE_CREDENTIAL_SUPPORT"
      [] e.name = "ConstraintError" /\ e.wrong = "conditional verification required" ->
            "ERROR_AUTO_REGISTER_USER_VERIFICATION_FAILURE"
      [] e.name = "ConstraintError" /\ e.wrong = "verification required" ->
            "ERROR_AUTHENTICATOR_MISSING_USER_VERIFICATION_SUPPORT"
      [] e.name = "InvalidStateError" -> "ERROR_AUTHENTICATOR_PREVIOUSLY_REGISTERED"
      [] e.name = "NotSupportedError" ->
            IF e.wrong = "no public-key parameter" THEN "ERROR_MALFORMED_PUBKEYCREDPARAMS"
            ELSE "ERROR_AUTHENTICATOR_NO_SUPPORTED_PUBKEYCREDPARAMS_ALG"
      [] e.name = "SecurityError" /\ e.wrong = "invalid domain" -> "ERROR_INVALID_DOMAIN"
      [] e.name = "SecurityError" /\ e.wrong = "other domain" -> "ERROR_INVALID_RP_ID"
      [] e.name = "TypeError" /\ e.wrong = "length of user id" -> "ERROR_INVALID_USER_ID_LENGTH"
      [] e.name = "UnknownError" -> "ERROR_AUTHENTICATOR_GENERAL_ERROR"
      [] OTHER -> Passed

identifyAuthenticationError(e) ==
    CASE e.name = "AbortError" -> "ERROR_CEREMONY_ABORTED"
      [] e.name = "SecurityError" /\ e.wrong = "invalid domain" -> "ERROR_INVALID_DOMAIN"
      [] e.name = "SecurityError" /\ e.wrong = "other domain" -> "ERROR_INVALID_RP_ID"
      [] e.name = "UnknownError" -> "ERROR_AUTHENTICATOR_GENERAL_ERROR"
      [] OTHER -> Passed

ErrorCode == {identifyRegistrationError(e) : e \in Failure}
AuthenticationErrorCode == {identifyAuthenticationError(e) : e \in Failure}
Aborted == "ERROR_CEREMONY_ABORTED"

\* An aborted ceremony is rejected for it; a ceremony may also fail of its own accord, and the
\* signal of the application has an end of its own.
CeremonyFails(c) ==
    /\ \E code \in IF kind[c] = "register" THEN ErrorCode ELSE AuthenticationErrorCode :
          /\ c \in aborted => code = Aborted
          /\ code = Aborted => c \in aborted \cup ownSignal
          /\ Ends(c, "ceremony", code)
    /\ UNCHANGED <<kind, name, ownSignal, controller, aborted, verified>>

\* cancelCeremony, called by the application.
CancelCeremony ==
    /\ controller # None
    /\ aborted' = aborted \cup {controller} /\ controller' = None
    /\ UNCHANGED <<step, kind, name, ownSignal, result, verified>>

\* _verify.
Verify(c) ==
    /\ \/ /\ Ends(c, "verifying", "ok")
          /\ verified' = IF kind[c] = "register" THEN verified \cup {name[c]} ELSE verified
       \/ Ends(c, "verifying", "error") /\ UNCHANGED verified
    /\ UNCHANGED <<kind, name, ownSignal, controller, aborted>>

Next ==
    \/ \E c \in Ceremony :
          \/ \E n \in Name : register(c, n) \/ authenticate(c, n)
          \/ Enroll(c) \/ UnenrollOfThatName(c) \/ Challenge(c) \/ Credential(c)
          \/ CeremonyFails(c) \/ Verify(c)
    \/ CancelCeremony

Spec == Init /\ [][Next]_vars
-----------------------------------------------------------------------------
TypeOK ==
    /\ step \in [Ceremony ->
          {"new", "enrolling", "listing", "challenging", "ceremony", "verifying", "done"}]
    /\ kind \in [Ceremony -> {"register", "authenticate"}]
    /\ name \in [Ceremony -> Name \cup {None}]
    /\ ownSignal \subseteq Ceremony /\ aborted \subseteq Ceremony
    /\ controller \in Ceremony \cup {None} /\ verified \subseteq Name

\* Of the ceremonies under way that use the signal of the service at most one is not told to
\* end, and it is the one that cancelCeremony reaches; and nobody tells a ceremony that has a
\* signal of its own.
OneCeremony ==
    /\ \A c \in Ceremony \ (ownSignal \cup aborted) : step[c] = "ceremony" => controller = c
    /\ aborted \cap ownSignal = {}
=============================================================================
