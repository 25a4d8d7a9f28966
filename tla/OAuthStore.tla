----------------------------- MODULE OAuthStore -----------------------------
(***************************************************************************)
(* The authorization server of rsc-mock: the store of codes and tokens     *)
(* (oauth/store.rs), the endpoints that drive it (oauth/authorize.rs,      *)
(* oauth/token.rs) and the handle the tests hold (server.rs).              *)
(*                                                                         *)
(* Each handler touches the state inside one critical section, so each is  *)
(* one action; requests of any clients, correct, mistaken or repeated,     *)
(* come in any order.  A redirect URI and a PKCE pair are one "binding":   *)
(* what a token request must repeat of the authorization request.          *)
(***************************************************************************)
EXTENDS Integers, FiniteSets

CONSTANTS
  Clients,        \* registered clients
  Bindings,       \* redirect URI and code challenge of an authorization
  Creds,          \* random strings: codes, access tokens, refresh tokens
  CodeLifetime,   \* authorization_code_lifetime
  TokenLifetime,  \* access_token_lifetime
  None,           \* the family of an app token
  EndOfTime,      \* where the saturating clock stops
  MaxFamilies     \* bound of the model

ASSUME OAuthAssumption ==
  /\ CodeLifetime \in Nat /\ TokenLifetime \in Nat
  /\ EndOfTime \in Nat /\ MaxFamilies \in Nat
  /\ None \notin Nat

VARIABLES
  clock, userDecision,
  codes, access, refresh,  \* credentials issued, with what is known of each
  revoked,                 \* revoked_families
  nextFamily

storeVars == <<codes, access, refresh, revoked, nextFamily>>
vars == <<clock, userDecision, storeVars>>

Family == 0 .. MaxFamilies - 1
Code == [client : Clients, binding : Bindings, issuedAt : Nat, family : Family,
         redeemed : BOOLEAN]
AccessToken == [kind : {"user", "app"}, client : Clients, expiresAt : Nat,
                family : Family \cup {None}]
RefreshToken == [client : Clients, family : Family, spent : BOOLEAN]
TypeOK ==
  /\ clock \in 0 .. EndOfTime
  /\ userDecision \in {"approve", "deny"}
  /\ codes \in [DOMAIN codes -> Code] /\ DOMAIN codes \subseteq Creds
  /\ access \in [DOMAIN access -> AccessToken] /\ DOMAIN access \subseteq Creds
  /\ refresh \in [DOMAIN refresh -> RefreshToken] /\ DOMAIN refresh \subseteq Creds
  /\ revoked \subseteq Family
  /\ nextFamily \in 0 .. MaxFamilies

Empty == [c \in {} |-> {}]

Init ==
  /\ clock = 0
  /\ userDecision \in {"approve", "deny"}
  /\ codes = Empty /\ access = Empty /\ refresh = Empty
  /\ revoked = {} /\ nextFamily = 0

(* Mutant: the clock is not saturating. *)
Add_Overflows(t, d) == t + d

(* Duration::saturating_add *)
Add(t, d) == IF t + d > EndOfTime THEN EndOfTime ELSE t + d

(* HashMap::insert *)
Insert(map, key, value) ==
  [k \in DOMAIN map \cup {key} |-> IF k = key THEN value ELSE map[k]]

(* What random_credential may return and fresh_credential accepts.  Any of *)
(* them is as good as another, so one is enough.                           *)
Unused == Creds \ (DOMAIN codes \cup DOMAIN access \cup DOMAIN refresh)
Fresh == CHOOSE c \in Unused : TRUE
Fresh2 == CHOOSE d \in Unused \ {Fresh} : TRUE
TwoUnused == Unused # {} /\ Unused \ {Fresh} # {}

(* token_info is Some: known, not revoked, time left. *)
IsValid(a) ==
  /\ a \in DOMAIN access
  /\ access[a].family \notin revoked
  /\ clock < access[a].expiresAt

-----------------------------------------------------------------------------
(* Mutants: bugs this code could have had.                                 *)

(* Any authenticated client may redeem a code. *)
Owned_ByAnyone(k, c) == c \in DOMAIN codes

(* A refresh token of a revoked session still works. *)
Usable_Revoked(k, r) ==
  r \in DOMAIN refresh /\ refresh[r].client = k /\ ~refresh[r].spent

(* New tokens prolong the session's old ones. *)
IssueUserTokens_Prolongs(k, f, others) ==
  /\ TwoUnused
  /\ access' = [a \in DOMAIN access \cup {Fresh} |->
                  IF a = Fresh \/ access[a].family = f
                  THEN [kind |-> "user", client |-> k,
                        expiresAt |-> Add(clock, TokenLifetime), family |-> f]
                  ELSE access[a]]
  /\ refresh' = Insert(others, Fresh2,
                       [client |-> k, family |-> f, spent |-> FALSE])

-----------------------------------------------------------------------------
IssueCode(k, b) ==
  /\ nextFamily < MaxFamilies /\ Unused # {}
  /\ codes' = Insert(codes, Fresh,
                 [client |-> k, binding |-> b, issuedAt |-> clock,
                  family |-> nextFamily, redeemed |-> FALSE])
  /\ nextFamily' = nextFamily + 1

(* A valid request to /authorize.  The others, and token requests that are *)
(* malformed or whose client is not authenticated, reach no state.         *)
Authorize(k, b) ==
  \/ /\ userDecision = "deny"
     /\ UNCHANGED <<clock, userDecision, storeVars>>
  \/ /\ userDecision = "approve"
     /\ IssueCode(k, b)
     /\ UNCHANGED <<clock, userDecision, access, refresh, revoked>>

(* The answer is invalid_grant. *)
InvalidGrant == UNCHANGED <<codes, access, refresh>>

(* A token has the full lifetime from issuance. *)
InsertAccessToken(kind, k, f) ==
  access' = Insert(access, Fresh, [kind |-> kind, client |-> k,
                     expiresAt |-> Add(clock, TokenLifetime), family |-> f])

IssueAppToken(k) == Unused # {} /\ InsertAccessToken("app", k, None)

(* issue_user_tokens, when the credential spent to get them is spent in    *)
(* `others'.                                                               *)
IssueUserTokens(k, f, others) ==
  /\ TwoUnused
  /\ InsertAccessToken("user", k, f)
  /\ refresh' = Insert(others, Fresh2,
                       [client |-> k, family |-> f, spent |-> FALSE])

Owned(k, c) == c \in DOMAIN codes /\ codes[c].client = k
Honoured(c, b) ==
  clock < Add(codes[c].issuedAt, CodeLifetime) /\ codes[c].binding = b

(* grant_type=authorization_code by authenticated client k. *)
RedeemCode(k, c, b) ==
  /\ \/ ~Owned(k, c) /\ InvalidGrant /\ UNCHANGED revoked
     \/ /\ Owned(k, c) /\ codes[c].redeemed
        /\ InvalidGrant
        /\ revoked' = revoked \cup {codes[c].family}
     \/ /\ Owned(k, c) /\ ~codes[c].redeemed /\ ~Honoured(c, b)
        /\ InvalidGrant /\ UNCHANGED revoked
     \/ /\ Owned(k, c) /\ ~codes[c].redeemed /\ Honoured(c, b)
        /\ codes' = [codes EXCEPT ![c].redeemed = TRUE]
        /\ IssueUserTokens(k, codes[c].family, refresh)
        /\ UNCHANGED revoked
  /\ UNCHANGED <<clock, userDecision, nextFamily>>

Usable(k, r) ==
  /\ r \in DOMAIN refresh /\ refresh[r].client = k
  /\ ~refresh[r].spent /\ refresh[r].family \notin revoked

(* Mutant: a refresh does not spend the token. *)
Refresh_NotSpent(k, r) ==
  /\ \/ ~Usable(k, r) /\ InvalidGrant
     \/ Usable(k, r) /\ IssueUserTokens(k, refresh[r].family, refresh) /\ UNCHANGED codes
  /\ UNCHANGED <<clock, userDecision, revoked, nextFamily>>

(* grant_type=refresh_token by authenticated client k. *)
Refresh(k, r) ==
  /\ \/ ~Usable(k, r) /\ InvalidGrant
     \/ /\ Usable(k, r)
        /\ IssueUserTokens(k, refresh[r].family, [refresh EXCEPT ![r].spent = TRUE])
        /\ UNCHANGED codes
  /\ UNCHANGED <<clock, userDecision, revoked, nextFamily>>

(* grant_type=client_credentials, which wants HTTP Basic. *)
ClientCredentials(k, method) ==
  /\ \/ method # "basic" /\ UNCHANGED access
     \/ method = "basic" /\ IssueAppToken(k)
  /\ UNCHANGED <<clock, userDecision, codes, refresh, revoked, nextFamily>>

(* The tests move the clock and change the user's mind. *)
AdvanceClock(by) ==
  /\ clock' = Add(clock, by)
  /\ UNCHANGED <<userDecision, storeVars>>

SetUserDecision(d) ==
  userDecision' = d /\ UNCHANGED <<clock, storeVars>>

Next ==
  \/ \E k \in Clients :
       \/ \E b \in Bindings : Authorize(k, b) \/ \E c \in Creds : RedeemCode(k, c, b)
       \/ \E r \in Creds : Refresh(k, r)
       \/ \E m \in {"basic", "body"} : ClientCredentials(k, m)
  \/ \E by \in 1 .. EndOfTime : AdvanceClock(by)
  \/ \E d \in {"approve", "deny"} : SetUserDecision(d)

Spec == Init /\ [][Next]_vars

-----------------------------------------------------------------------------
AccessOf(f) == {a \in DOMAIN access : access[a].family = f}
RefreshOf(f) == {r \in DOMAIN refresh : refresh[r].family = f}
SpentOf(f) == {r \in RefreshOf(f) : refresh[r].spent}
RedeemedOf(f) == {c \in DOMAIN codes : codes[c].family = f /\ codes[c].redeemed}

(* B41, B45: what is used once yields one pair of tokens, so each session  *)
(* has as many pairs as its code was redeemed and its refresh tokens were  *)
(* spent, and never two refresh tokens that work.                          *)
PairsArePaidFor ==
  \A f \in Family :
    /\ Cardinality(AccessOf(f)) = Cardinality(RefreshOf(f))
    /\ Cardinality(RefreshOf(f)) = Cardinality(RedeemedOf(f)) + Cardinality(SpentOf(f))
    /\ Cardinality(RedeemedOf(f)) <= 1

(* B40, B51: every token of a session belongs to the client whose code     *)
(* started it, and that code is redeemed.                                  *)
TokensHaveOwner ==
  /\ \A r \in DOMAIN refresh : \E c \in RedeemedOf(refresh[r].family) :
       codes[c].client = refresh[r].client
  /\ \A a \in DOMAIN access : access[a].kind = "user" =>
       \E c \in RedeemedOf(access[a].family) : codes[c].client = access[a].client

(* B55: a string is a code, an access token or a refresh token, never two. *)
CredentialsAreTyped ==
  /\ DOMAIN codes \cap DOMAIN access = {}
  /\ DOMAIN codes \cap DOMAIN refresh = {}
  /\ DOMAIN access \cap DOMAIN refresh = {}

(* B42, B56: an access token that has become invalid stays so. *)
InvalidForGood ==
  [][\A a \in DOMAIN access : ~IsValid(a) => ~IsValid(a)']_vars

(* The store implements sessions that are activated once, renewed one by   *)
(* one, revoked for good, and independent of one another (B60).            *)
Status(f) ==
  IF f >= nextFamily THEN "absent"
  ELSE IF f \in revoked THEN "revoked"
  ELSE IF RedeemedOf(f) = {} THEN "offered" ELSE "active"

Abstract == INSTANCE Sessions WITH
  Ids <- Family,
  status <- [f \in Family |-> Status(f)],
  renewals <- [f \in Family |-> Cardinality(RefreshOf(f))]
IndependentSessions == Abstract!Spec
=============================================================================
