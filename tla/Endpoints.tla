----------------------------- MODULE Endpoints -----------------------------
(***************************************************************************)
(* What /authorize and /oauth/token of rsc-mock check before they touch    *)
(* the store, and in which order (rsc-mock: oauth/authorize.rs,            *)
(* oauth/token.rs, oauth/client_auth.rs, form.rs).  What the store then    *)
(* does is the subject of OAuthStore; here it grants or refuses.           *)
(*                                                                         *)
(* Params maps the name of a parameter to its values in order of           *)
(* appearance.  "blank" is the empty value, which counts as missing.       *)
(***************************************************************************)
EXTENDS Sequences, FiniteSetsExt

CONSTANTS
  Clients,       \* id of a registered client -> [secret, uris]
  AuthorizeRequests,  \* [kind, method, decision, params]
  TokenRequests  \* [kind, method, isForm, body, scheme, id, secret, params]

(* The parameters that each endpoint reads. *)
AuthorizeParameters == {"client_id", "redirect_uri", "response_type",
                        "code_challenge", "code_challenge_method", "state"}
KnownParameters == {"grant_type", "client_id", "client_secret", "code",
                    "redirect_uri", "code_verifier", "refresh_token"}

AuthorizeRequest ==
  [kind : {"authorize"}, method : STRING, decision : {"approve", "deny"},
   params : [AuthorizeParameters -> Seq(STRING)]]
TokenRequest ==
  [kind : {"token"}, method : STRING, isForm : BOOLEAN, body : STRING,
   scheme : {"none", "unusable", "basic"}, id : STRING, secret : STRING,
   params : [KnownParameters -> Seq(STRING)]]

(* A client is one that a request can name, and a redirect URI an absolute *)
(* one (MockConfig::validate).                                             *)
ASSUME EndpointsAssumption ==
  /\ DOMAIN Clients \subseteq STRING
  /\ \A id \in DOMAIN Clients : id # "blank" /\ "blank" \notin Clients[id].uris
  /\ AuthorizeRequests \subseteq AuthorizeRequest
  /\ TokenRequests \subseteq TokenRequest

(* For the provers, to which a literal is just a value. *)
ASSUME LiteralsAreStrings ==
  {"blank", "stranger", "token", "refresh_token", "client_credentials", "password"}
    \subseteq STRING

VARIABLES
  request,       \* the one that is handled
  answer         \* [error, to, state]; to: where it redirects, or "nowhere"
vars == <<request, answer>>

Nothing == [error |-> "pending", to |-> "nowhere", state |-> << >>]

Init ==
  /\ request \in AuthorizeRequests \cup TokenRequests
  /\ answer = Nothing

-----------------------------------------------------------------------------
(* form.rs.  Mutants, below, are bugs this code could have had.            *)

Contains(p, name) == p[name] # << >>
Value(p, name) == IF Contains(p, name) THEN Head(p[name]) ELSE "blank"
Missing(p, name) == Value(p, name) = "blank"
Repeated(p, name) == Len(p[name]) > 1

(* The `?'s and early returns of a handler, each with its condition. *)
FirstError(checks) ==
  LET failed == {i \in DOMAIN checks : checks[i][1]} IN
  IF failed = {} THEN "none" ELSE checks[Min(failed)][2]

-----------------------------------------------------------------------------
(* GET /authorize                                                          *)

(* Mutant: a URI that is registered for any client. *)
RegisteredUri_Anyones(p) ==
  \E id \in DOMAIN Clients : Value(p, "redirect_uri") \in Clients[id].uris

RegisteredUri(p) ==
  /\ Value(p, "client_id") \in DOMAIN Clients
  /\ Value(p, "redirect_uri") \in Clients[Value(p, "client_id")].uris

(* These are answered without a redirect. *)
TrustChecks(r) ==
  << <<r.method \notin {"GET", "HEAD"},                 "method_not_allowed">>,
     <<Repeated(r.params, "client_id"),                 "invalid_request">>,
     <<Value(r.params, "client_id") \notin DOMAIN Clients, "invalid_client">>,
     <<Repeated(r.params, "redirect_uri"),              "invalid_request">>,
     <<~RegisteredUri(r.params),                        "invalid_request">> >>

(* validate: these are reported to the client by redirect. *)
ParameterChecks(r) ==
  << <<Repeated(r.params, "response_type"),             "invalid_request">>,
     <<Missing(r.params, "response_type"),              "invalid_request">>,
     <<Value(r.params, "response_type") # "code",       "unsupported_response_type">>,
     <<Repeated(r.params, "code_challenge"),            "invalid_request">>,
     <<Value(r.params, "code_challenge") # "challenge", "invalid_request">>,
     <<Repeated(r.params, "code_challenge_method"),     "invalid_request">>,
     <<Value(r.params, "code_challenge_method") # "S256", "invalid_request">>,
     <<Repeated(r.params, "state"),                     "invalid_request">> >>

UserCheck(r) == << <<r.decision = "deny", "access_denied">> >>

(* Mutant: the user is asked first. *)
ValidityChecks_UserFirst(r) == UserCheck(r) \o ParameterChecks(r)

ValidityChecks(r) == ParameterChecks(r) \o UserCheck(r)

(* Redirect: `state' is the first one, even when empty. *)
AuthorizeAnswer(r) ==
  IF FirstError(TrustChecks(r)) # "none"
  THEN [Nothing EXCEPT !.error = FirstError(TrustChecks(r))]
  ELSE [error |-> FirstError(ValidityChecks(r)),
        to    |-> Value(r.params, "redirect_uri"),
        state |-> IF Contains(r.params, "state") THEN <<Head(r.params["state"])>> ELSE << >>]

-----------------------------------------------------------------------------
(* POST /oauth/token                                                       *)

(* Mutant: an unusable header is as good as none. *)
UsesHeader_IfUsable(r) == r.scheme = "basic"

(* A header that is there is the attempt, usable or not. *)
UsesHeader(r) == r.scheme # "none"

(* Mutant: the owner of an unknown id in a header is told so. *)
AuthChecks_Enumerate(r) ==
  IF UsesHeader(r)
  THEN << <<r.scheme = "unusable",                      "invalid_client">>,
          <<r.id \notin DOMAIN Clients \/ Contains(r.params, "client_secret"),
                                                        "invalid_request">>,
          <<Value(r.params, "client_id") \notin {"blank", r.id}, "invalid_client">> >>
  ELSE << <<\E name \in {"client_id", "client_secret"} : Missing(r.params, name),
                                                        "invalid_client">> >>

(* authenticate, before the secret is compared. *)
AuthChecks(r) ==
  IF UsesHeader(r)
  THEN << <<r.scheme = "unusable",                      "invalid_client">>,
          <<Contains(r.params, "client_secret"),        "invalid_request">>,
          <<Value(r.params, "client_id") \notin {"blank", r.id}, "invalid_client">> >>
  ELSE << <<\E name \in {"client_id", "client_secret"} : Missing(r.params, name),
                                                        "invalid_client">> >>

Matches(id, secret) == id \in DOMAIN Clients /\ Clients[id].secret = secret
Authenticated(r) ==
  IF UsesHeader(r) THEN Matches(r.id, r.secret)
  ELSE Matches(Value(r.params, "client_id"), Value(r.params, "client_secret"))

Required(grant) ==
  CASE grant = "authorization_code" -> {"code", "redirect_uri", "code_verifier"}
    [] grant = "refresh_token"      -> {"refresh_token"}
    [] OTHER                        -> {}

GrantChecks(r) ==
  LET grant == Value(r.params, "grant_type") IN
  << <<grant = "blank",                                      "invalid_request">>,
     <<grant \notin {"authorization_code", "refresh_token", "client_credentials"},
                                                        "unsupported_grant">>,
     <<\E name \in Required(grant) : Missing(r.params, name), "invalid_request">>,
     <<grant = "client_credentials" /\ ~UsesHeader(r),  "invalid_client">> >>

(* The request line, the headers, the body, and duplicates in it. *)
FormChecks(r) ==
  << <<r.method # "POST",                               "method_not_allowed">>,
     <<~r.isForm,                                       "unsupported_media_type">>,
     <<r.body = "oversized",                             "payload_too_large">>,
     <<r.body = "broken",                               "invalid_request">>,
     <<\E name \in KnownParameters : Repeated(r.params, name), "invalid_request">> >>

(* Mutant: the grant is looked at first. *)
TokenChecks_GrantFirst(r) ==
  FormChecks(r) \o GrantChecks(r) \o AuthChecks(r) \o << <<~Authenticated(r), "invalid_client">> >>

TokenChecks(r) ==
  FormChecks(r) \o AuthChecks(r) \o << <<~Authenticated(r), "invalid_client">> >> \o GrantChecks(r)

TokenAnswer(r) == [Nothing EXCEPT !.error = FirstError(TokenChecks(r))]

-----------------------------------------------------------------------------
Authorize ==
  /\ request.kind = "authorize"
  /\ answer' = AuthorizeAnswer(request)

(* The store has the last word on a code or a refresh token. *)
Token ==
  /\ request.kind = "token"
  /\ \/ answer' = TokenAnswer(request)
     \/ /\ TokenAnswer(request).error = "none"
        /\ Required(Value(request.params, "grant_type")) # {}
        /\ answer' = [Nothing EXCEPT !.error = "invalid_grant"]

Next == answer = Nothing /\ (Authorize \/ Token) /\ UNCHANGED request
Spec == Init /\ [][Next]_vars

-----------------------------------------------------------------------------
(* B13, B20: the user agent is only ever sent to a URI that is registered  *)
(* for the client, both being named exactly once.                          *)
NoOpenRedirect ==
  answer.to # "nowhere" =>
    \E c \in DOMAIN Clients : /\ answer.to \in Clients[c].uris
                             /\ request.params["client_id"] = <<c>>
                             /\ request.params["redirect_uri"] = <<answer.to>>

(* B19: the user is asked about requests that are valid otherwise, and     *)
(* about nothing else.                                                     *)
UserLast ==
  request.kind = "authorize" /\ answer # Nothing =>
    LET as(decision) == AuthorizeAnswer([request EXCEPT !.decision = decision]) IN
    IF as("approve").error = "none"
    THEN as("deny") = [as("approve") EXCEPT !.error = "access_denied"]
    ELSE as("deny") = as("approve")

Single(p) == \A name \in KnownParameters : Len(p[name]) <= 1

(* The request proves who its client is, in one way. *)
Proven(r) ==
  \E c \in DOMAIN Clients :
    \/ /\ r.scheme = "basic" /\ r.id = c /\ r.secret = Clients[c].secret
       /\ r.params["client_secret"] = << >>
       /\ r.params["client_id"] \in {<< >>, <<"blank">>, <<c>>}
    \/ /\ r.scheme = "none"
       /\ r.params["client_id"] = <<c>> /\ r.params["client_secret"] = <<Clients[c].secret>>

(* B26, B29, B30: what reaches the store says nothing twice and proves its *)
(* client in exactly one way; a header is never passed over.               *)
ProvenOnce ==
  request.kind = "token" /\ answer.error \in {"none", "invalid_grant"} =>
    Single(request.params) /\ Proven(request)

(* B32: who has not proven a client learns nothing about grants: whatever  *)
(* the parameters of the grant, the answer is the same.                    *)
NoOracle ==
  request.kind = "token" /\ answer # Nothing
    /\ Single(request.params) /\ ~Proven(request) =>
      \A grant \in {"blank", "refresh_token", "client_credentials", "password"},
         token \in {"blank", "token"} :
        answer = TokenAnswer([request EXCEPT !.params["grant_type"] = <<grant>>,
                                             !.params["refresh_token"] = <<token>>])

(* B28: neither does one learn which clients exist, whichever client one  *)
(* names, in a Basic header or in the body.                                *)
NoEnumeration ==
  request.kind = "token" /\ answer # Nothing
    /\ Single(request.params) /\ ~Proven(request) =>
      \A id \in DOMAIN Clients \cup {"stranger"},
         named \in {<< >>, <<"blank">>, <<"stranger">>} \cup {<<c>> : c \in DOMAIN Clients} :
        LET body  == [request EXCEPT !.params["client_id"] = named]
            other == IF request.scheme = "basic" THEN [body EXCEPT !.id = id] ELSE body IN
        ~Proven(other) => TokenAnswer(other) = answer
=============================================================================
