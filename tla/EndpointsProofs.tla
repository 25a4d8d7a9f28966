--------------------------- MODULE EndpointsProofs ---------------------------
(***************************************************************************)
(* What the two endpoints of rsc-mock let through and where they redirect, *)
(* for any registered clients and any requests.                            *)
(***************************************************************************)
EXTENDS Endpoints, WellFoundedInduction, TLAPS

(* The smallest of a set of numbers is one of them.                        *)
LEMMA MinOf ==
  ASSUME NEW S \in SUBSET Nat, S # {}
  PROVE  Min(S) \in S /\ \A y \in S : Min(S) <= y
<1>1. PICK m \in S : \A k \in S : <<k, m>> \notin OpToRel(<, Nat)
  BY WFMin, NatLessThanWellFounded, Zenon
<1>2. ASSUME NEW k \in S PROVE m <= k
  <2>1. ~(k < m)
    BY <1>1 DEF OpToRel
  <2> QED BY <2>1
<1> QED BY <1>1, <1>2 DEF Min

(* Requests are what they are said to be. *)
LEMMA RequestsTyped ==
  /\ \A r \in AuthorizeRequests : r \in AuthorizeRequest /\ r.kind = "authorize"
  /\ \A r \in TokenRequests : r \in TokenRequest /\ r.kind = "token"
<1>1. \A r \in AuthorizeRequest : r.kind = "authorize"
  BY DEF AuthorizeRequest
<1>2. \A r \in TokenRequest : r.kind = "token"
  BY DEF TokenRequest
<1> QED BY <1>1, <1>2, EndpointsAssumption

(* What is checked, and the error of each that fails.                      *)
Error == {"method_not_allowed", "unsupported_media_type", "payload_too_large",
          "invalid_request", "invalid_client", "unsupported_grant",
          "unsupported_response_type", "access_denied"}
Check == BOOLEAN \X Error
AllPass(checks) == \A i \in DOMAIN checks : ~checks[i][1]

(* The first check that fails is the one that answers. *)
LEMMA FirstErrorIs ==
  ASSUME NEW checks \in Seq(Check), NEW i \in DOMAIN checks, checks[i][1],
         \A j \in DOMAIN checks : checks[j][1] => i <= j
  PROVE  FirstError(checks) = checks[i][2]
<1> DEFINE failed == {j \in DOMAIN checks : checks[j][1]}
<1>1. failed \in SUBSET Nat /\ i \in failed
  OBVIOUS
<1>2. Min(failed) \in failed /\ Min(failed) <= i
  BY <1>1, MinOf
<1>3. i <= Min(failed)
  BY <1>2
<1>4. Min(failed) = i
  BY <1>1, <1>2, <1>3
<1> QED BY <1>1, <1>4 DEF FirstError

LEMMA FirstFailure ==
  ASSUME NEW checks \in Seq(Check), ~AllPass(checks)
  PROVE  \E i \in DOMAIN checks :
           /\ checks[i][1] /\ FirstError(checks) = checks[i][2]
           /\ \A j \in DOMAIN checks : checks[j][1] => i <= j
<1> DEFINE failed == {j \in DOMAIN checks : checks[j][1]}
<1>1. failed \in SUBSET Nat /\ failed # {}
  BY DEF AllPass
<1>2. Min(failed) \in failed /\ \A j \in failed : Min(failed) <= j
  BY <1>1, MinOf
<1>3. FirstError(checks) = checks[Min(failed)][2]
  BY <1>1 DEF FirstError
<1> QED BY <1>2, <1>3

LEMMA FirstErrorOf ==
  ASSUME NEW checks \in Seq(Check)
  PROVE  /\ FirstError(checks) = "none" <=> AllPass(checks)
         /\ FirstError(checks) # "invalid_grant"
<1>1. CASE AllPass(checks)
  BY <1>1 DEF FirstError, AllPass
<1>2. CASE ~AllPass(checks)
  <2> PICK i \in DOMAIN checks : FirstError(checks) = checks[i][2]
    BY <1>2, FirstFailure
  <2>1. checks[i][2] \notin {"none", "invalid_grant"}
    BY DEF Check, Error
  <2> QED BY <1>2, <2>1
<1> QED BY <1>1, <1>2

LEMMA ConcatIs ==
  ASSUME NEW a \in Seq(Check), NEW b \in Seq(Check)
  PROVE  /\ a \o b \in Seq(Check)
         /\ Len(a) \in Nat /\ Len(b) \in Nat
         /\ DOMAIN a = 1 .. Len(a) /\ DOMAIN b = 1 .. Len(b)
         /\ DOMAIN (a \o b) = 1 .. Len(a) + Len(b)
         /\ 1 .. Len(a) \subseteq 1 .. Len(a) + Len(b)
         /\ \A i \in 1 .. Len(a) : (a \o b)[i] = a[i]
         /\ \A i \in 1 .. Len(b) : Len(a) + i \in 1 .. Len(a) + Len(b)
                                    /\ (a \o b)[Len(a) + i] = b[i]
         /\ \A i \in 1 .. Len(a) + Len(b) : i \in 1 .. Len(a) \/ i - Len(a) \in 1 .. Len(b)
  OBVIOUS

LEMMA AllPassConcat ==
  ASSUME NEW a \in Seq(Check), NEW b \in Seq(Check)
  PROVE  a \o b \in Seq(Check) /\ (AllPass(a \o b) <=> AllPass(a) /\ AllPass(b))
<1>1. ASSUME AllPass(a \o b) PROVE AllPass(a) /\ AllPass(b)
  <2>1. \A i \in 1 .. Len(a) : ~a[i][1]
    BY <1>1, ConcatIs DEF AllPass
  <2>2. ASSUME NEW i \in 1 .. Len(b) PROVE ~b[i][1]
    <3>1. Len(a) + i \in DOMAIN (a \o b) /\ (a \o b)[Len(a) + i] = b[i]
      BY ConcatIs
    <3> QED BY <1>1, <3>1 DEF AllPass
  <2> QED BY <2>1, <2>2, ConcatIs DEF AllPass
<1>2. ASSUME AllPass(a), AllPass(b) PROVE AllPass(a \o b)
  <2> SUFFICES ASSUME NEW i \in 1 .. Len(a) + Len(b) PROVE ~(a \o b)[i][1]
    BY ConcatIs DEF AllPass
  <2>1. CASE i \in 1 .. Len(a)
    BY <1>2, <2>1, ConcatIs DEF AllPass
  <2>2. CASE i - Len(a) \in 1 .. Len(b)
    <3> PICK j \in 1 .. Len(b) : j = i - Len(a)
      BY <2>2
    <3>1. i = Len(a) + j /\ ~b[j][1]
      BY <1>2, ConcatIs DEF AllPass
    <3> QED BY <3>1, ConcatIs
  <2> QED BY <2>1, <2>2, ConcatIs
<1> QED BY <1>1, <1>2, ConcatIs

(* Checks that are made later answer for requests that pass the first ones.*)
LEMMA FirstErrorConcat ==
  ASSUME NEW a \in Seq(Check), NEW b \in Seq(Check)
  PROVE  FirstError(a \o b) = IF AllPass(a) THEN FirstError(b) ELSE FirstError(a)
<1>0. a \o b \in Seq(Check)
  BY ConcatIs
<1>1. CASE ~AllPass(a)
  <2> PICK i \in DOMAIN a : /\ a[i][1] /\ FirstError(a) = a[i][2]
                           /\ \A j \in DOMAIN a : a[j][1] => i <= j
    BY <1>1, FirstFailure
  <2>1. i \in DOMAIN (a \o b) /\ (a \o b)[i] = a[i] /\ i <= Len(a)
    BY ConcatIs
  <2>2. ASSUME NEW j \in DOMAIN (a \o b), (a \o b)[j][1] PROVE i <= j
    <3>1. CASE j \in 1 .. Len(a)
      BY <2>2, <3>1, ConcatIs
    <3>2. CASE j \notin 1 .. Len(a)
      BY <2>1, <3>2, ConcatIs
    <3> QED BY <3>1, <3>2
  <2>3. FirstError(a \o b) = (a \o b)[i][2]
    BY <1>0, <2>1, <2>2, FirstErrorIs
  <2> QED BY <1>1, <2>1, <2>3
<1>2. CASE AllPass(a) /\ AllPass(b)
  BY <1>2, AllPassConcat, FirstErrorOf
<1>3. CASE AllPass(a) /\ ~AllPass(b)
  <2> PICK i \in DOMAIN b : /\ b[i][1] /\ FirstError(b) = b[i][2]
                           /\ \A j \in DOMAIN b : b[j][1] => i <= j
    BY <1>3, FirstFailure
  <2>1. Len(a) + i \in DOMAIN (a \o b) /\ (a \o b)[Len(a) + i] = b[i]
    BY ConcatIs
  <2>2. ASSUME NEW j \in DOMAIN (a \o b), (a \o b)[j][1] PROVE Len(a) + i <= j
    <3>1. j \notin 1 .. Len(a)
      BY <1>3, <2>2, ConcatIs DEF AllPass
    <3> PICK k \in 1 .. Len(b) : k = j - Len(a)
      BY <3>1, ConcatIs
    <3>2. j = Len(a) + k /\ (a \o b)[j] = b[k] /\ k \in DOMAIN b
      BY ConcatIs
    <3>3. i <= k
      BY <2>2, <3>2
    <3> QED BY <3>2, <3>3, ConcatIs
  <2>3. FirstError(a \o b) = (a \o b)[Len(a) + i][2]
    BY <1>0, <2>1, <2>2, FirstErrorIs
  <2> QED BY <1>3, <2>1, <2>3
<1> QED BY <1>1, <1>2, <1>3

(* A check of a condition.                                                 *)
LEMMA CheckOf ==
  ASSUME NEW b \in BOOLEAN, NEW m \in Error
  PROVE  <<b, m>> \in Check /\ <<b, m>>[1] = b
BY DEF Check

LEMMA FiveOf ==
  ASSUME NEW c1 \in Check, NEW c2 \in Check, NEW c3 \in Check, NEW c4 \in Check, NEW c5 \in Check
  PROVE  /\ <<c1, c2, c3, c4, c5>> \in Seq(Check)
         /\ AllPass(<<c1, c2, c3, c4, c5>>) => ~c1[1] /\ ~c2[1] /\ ~c3[1] /\ ~c4[1] /\ ~c5[1]
BY DEF AllPass

LEMMA FourOf ==
  ASSUME NEW c1 \in Check, NEW c2 \in Check, NEW c3 \in Check, NEW c4 \in Check
  PROVE  <<c1, c2, c3, c4>> \in Seq(Check)
OBVIOUS

LEMMA ThreeOf ==
  ASSUME NEW c1 \in Check, NEW c2 \in Check, NEW c3 \in Check
  PROVE  /\ <<c1, c2, c3>> \in Seq(Check)
         /\ AllPass(<<c1, c2, c3>>) => ~c1[1] /\ ~c2[1] /\ ~c3[1]
BY DEF AllPass

LEMMA OneOf ==
  ASSUME NEW c1 \in Check
  PROVE  <<c1>> \in Seq(Check) /\ (AllPass(<<c1>>) => ~c1[1])
BY DEF AllPass

-----------------------------------------------------------------------------
(* Redirects.                                                              *)

LEMMA TrustedClient ==
  ASSUME NEW r \in AuthorizeRequests, FirstError(TrustChecks(r)) = "none"
  PROVE  \E c \in DOMAIN Clients :
           /\ Value(r.params, "redirect_uri") \in Clients[c].uris
           /\ r.params["client_id"] = <<c>>
           /\ r.params["redirect_uri"] = <<Value(r.params, "redirect_uri")>>
<1> DEFINE p == r.params
           c == Value(p, "client_id")
           uri == Value(p, "redirect_uri")
<1>1. /\ ~Repeated(p, "client_id") /\ c \in DOMAIN Clients
      /\ ~Repeated(p, "redirect_uri") /\ RegisteredUri(p)
  <2> DEFINE c1 == <<r.method \notin {"GET", "HEAD"}, "method_not_allowed">>
             c2 == <<Repeated(p, "client_id"), "invalid_request">>
             c3 == <<c \notin DOMAIN Clients, "invalid_client">>
             c4 == <<Repeated(p, "redirect_uri"), "invalid_request">>
             c5 == <<~RegisteredUri(p), "invalid_request">>
  <2>1. /\ (r.method \notin {"GET", "HEAD"}) \in BOOLEAN /\ (c \notin DOMAIN Clients) \in BOOLEAN
        /\ Repeated(p, "client_id") \in BOOLEAN /\ Repeated(p, "redirect_uri") \in BOOLEAN
        /\ (~RegisteredUri(p)) \in BOOLEAN
    BY DEF Repeated
  <2>2. /\ c1 \in Check /\ c2 \in Check /\ c3 \in Check /\ c4 \in Check /\ c5 \in Check
        /\ c2[1] = Repeated(p, "client_id") /\ c3[1] = (c \notin DOMAIN Clients)
        /\ c4[1] = Repeated(p, "redirect_uri") /\ c5[1] = (~RegisteredUri(p))
    <3>1. {"method_not_allowed", "invalid_request", "invalid_client"} \subseteq Error
      BY DEF Error
    <3> QED BY <2>1, <3>1, CheckOf, Zenon
  <2>3. TrustChecks(r) = <<c1, c2, c3, c4, c5>>
    BY Zenon DEF TrustChecks
  <2> HIDE DEF c1, c2, c3, c4, c5
  <2>4. AllPass(<<c1, c2, c3, c4, c5>>)
    BY <2>1, <2>2, <2>3, FiveOf, FirstErrorOf
  <2>5. ~c2[1] /\ ~c3[1] /\ ~c4[1] /\ ~c5[1]
    BY <2>1, <2>2, <2>4, FiveOf
  <2> QED BY <2>2, <2>5, Zenon
<1>2. p["client_id"] \in Seq(STRING) /\ p["redirect_uri"] \in Seq(STRING)
  BY EndpointsAssumption DEF AuthorizeRequest, AuthorizeParameters
<1>3. p["client_id"] = <<c>>
  <2>1. c # "blank"
    BY <1>1, EndpointsAssumption
  <2> QED BY <1>1, <1>2, <2>1 DEF Repeated, Value, Contains
<1>4. uri \in Clients[c].uris
  BY <1>1 DEF RegisteredUri
<1>5. p["redirect_uri"] = <<uri>>
  <2>1. uri # "blank"
    BY <1>1, <1>4, EndpointsAssumption
  <2> QED BY <1>1, <1>2, <2>1 DEF Repeated, Value, Contains
<1> QED BY <1>1, <1>3, <1>4, <1>5

Handled == request \in AuthorizeRequests \cup TokenRequests

(* /authorize sends nobody to a URI that is not registered for the client  *)
(* that is named, for any clients and any request: B13, B20.               *)
THEOREM NeverOpenRedirect == Spec => []NoOpenRedirect
<1>1. Init => Handled /\ NoOpenRedirect
  BY DEF Init, Handled, Nothing, NoOpenRedirect
<1>2. Handled /\ NoOpenRedirect /\ [Next]_vars => (Handled /\ NoOpenRedirect)'
  <2> SUFFICES ASSUME Handled, NoOpenRedirect, [Next]_vars
               PROVE  (Handled /\ NoOpenRedirect)'
    OBVIOUS
  <2>1. CASE UNCHANGED vars
    BY <2>1 DEF vars, Handled, NoOpenRedirect
  <2>2. CASE Authorize /\ UNCHANGED request
    <3>1. request \in AuthorizeRequests
      BY <2>2, RequestsTyped DEF Authorize, Handled
    <3>2. CASE FirstError(TrustChecks(request)) # "none"
      <4>1. answer'.to = "nowhere"
        BY <2>2, <3>2 DEF Authorize, AuthorizeAnswer, Nothing
      <4> QED BY <2>2, <4>1 DEF Handled, NoOpenRedirect
    <3>3. CASE FirstError(TrustChecks(request)) = "none"
      <4>1. answer'.to = Value(request.params, "redirect_uri")
        BY <2>2, <3>3 DEF Authorize, AuthorizeAnswer
      <4>2. request' = request
        BY <2>2
      <4> QED BY <3>1, <3>3, <4>1, <4>2, TrustedClient DEF Handled, NoOpenRedirect
    <3> QED BY <3>2, <3>3
  <2>3. CASE Token /\ UNCHANGED request
    <3>1. answer'.to = "nowhere"
      BY <2>3 DEF Token, TokenAnswer, Nothing
    <3> QED BY <2>3, <3>1 DEF Handled, NoOpenRedirect
  <2> QED BY <2>1, <2>2, <2>3 DEF Next
<1> QED BY <1>1, <1>2, PTL DEF Spec

-----------------------------------------------------------------------------
(* Tokens.                                                                 *)

LEMMA FormPasses ==
  ASSUME NEW r
  PROVE  /\ FormChecks(r) \in Seq(Check)
         /\ AllPass(FormChecks(r)) => \A name \in KnownParameters : ~Repeated(r.params, name)
<1> DEFINE b5 == \E name \in KnownParameters : Repeated(r.params, name)
           c1 == <<r.method # "POST", "method_not_allowed">>
           c2 == <<~r.isForm, "unsupported_media_type">>
           c3 == <<r.body = "oversized", "payload_too_large">>
           c4 == <<r.body = "broken", "invalid_request">>
           c5 == <<b5, "invalid_request">>
<1>1. /\ (r.method # "POST") \in BOOLEAN /\ (~r.isForm) \in BOOLEAN
      /\ (r.body = "oversized") \in BOOLEAN /\ (r.body = "broken") \in BOOLEAN
      /\ b5 \in BOOLEAN
  BY Zenon
<1>2. /\ c1 \in Check /\ c2 \in Check /\ c3 \in Check /\ c4 \in Check /\ c5 \in Check
      /\ c5[1] = b5
  <2>1. {"method_not_allowed", "unsupported_media_type", "payload_too_large", "invalid_request"}
          \subseteq Error
    BY DEF Error
  <2> HIDE DEF b5
  <2> QED BY <1>1, <2>1, CheckOf, Zenon
<1>3. FormChecks(r) = <<c1, c2, c3, c4, c5>>
  BY Zenon DEF FormChecks
<1> HIDE DEF c1, c2, c3, c4, c5, b5
<1>4. FormChecks(r) \in Seq(Check) /\ (AllPass(FormChecks(r)) => ~c5[1])
  BY <1>2, <1>3, FiveOf
<1> QED BY <1>2, <1>4, Zenon DEF b5

LEMMA AuthPasses ==
  ASSUME NEW r
  PROVE  /\ AuthChecks(r) \in Seq(Check)
         /\ AllPass(AuthChecks(r)) =>
              IF UsesHeader(r)
              THEN /\ r.scheme # "unusable" /\ ~Contains(r.params, "client_secret")
                   /\ Value(r.params, "client_id") \in {"blank", r.id}
              ELSE ~Missing(r.params, "client_id") /\ ~Missing(r.params, "client_secret")
<1>0. {"invalid_client", "invalid_request"} \subseteq Error
  BY DEF Error
<1>1. CASE UsesHeader(r)
  <2> DEFINE c1 == <<r.scheme = "unusable", "invalid_client">>
             c2 == <<Contains(r.params, "client_secret"), "invalid_request">>
             c3 == <<Value(r.params, "client_id") \notin {"blank", r.id}, "invalid_client">>
  <2>1. /\ (r.scheme = "unusable") \in BOOLEAN
        /\ (Value(r.params, "client_id") \notin {"blank", r.id}) \in BOOLEAN
    BY Zenon
  <2>2. Contains(r.params, "client_secret") \in BOOLEAN
    BY Zenon DEF Contains
  <2>3. /\ c1 \in Check /\ c2 \in Check /\ c3 \in Check
        /\ c1[1] = (r.scheme = "unusable") /\ c2[1] = Contains(r.params, "client_secret")
        /\ c3[1] = (Value(r.params, "client_id") \notin {"blank", r.id})
    BY <1>0, <2>1, <2>2, CheckOf, Zenon
  <2>4. AuthChecks(r) = <<c1, c2, c3>>
    BY <1>1, Zenon DEF AuthChecks
  <2> HIDE DEF c1, c2, c3
  <2>5. AuthChecks(r) \in Seq(Check)
        /\ (AllPass(AuthChecks(r)) => ~c1[1] /\ ~c2[1] /\ ~c3[1])
    BY <2>3, <2>4, ThreeOf
  <2> QED BY <1>1, <2>3, <2>5, Zenon
<1>2. CASE ~UsesHeader(r)
  <2> DEFINE b == \E name \in {"client_id", "client_secret"} : Missing(r.params, name)
             c1 == <<b, "invalid_client">>
  <2>1. b \in BOOLEAN
    BY Zenon
  <2>2. c1 \in Check /\ c1[1] = b
    <3> HIDE DEF b
    <3> QED BY <1>0, <2>1, CheckOf, Zenon
  <2>3. AuthChecks(r) = <<c1>>
    BY <1>2, Zenon DEF AuthChecks
  <2> HIDE DEF c1, b
  <2>4. AuthChecks(r) \in Seq(Check) /\ (AllPass(AuthChecks(r)) => ~c1[1])
    BY <2>2, <2>3, OneOf
  <2> QED BY <1>2, <2>2, <2>4, Zenon DEF b
<1> QED BY <1>1, <1>2

LEMMA GrantsAreChecks == ASSUME NEW r PROVE GrantChecks(r) \in Seq(Check)
<1> DEFINE grant == Value(r.params, "grant_type")
           b3 == \E name \in Required(grant) : Missing(r.params, name)
           b4 == grant = "client_credentials" /\ ~UsesHeader(r)
           c1 == <<grant = "blank", "invalid_request">>
           c2 == <<grant \notin {"authorization_code", "refresh_token", "client_credentials"},
                   "unsupported_grant">>
           c3 == <<b3, "invalid_request">>
           c4 == <<b4, "invalid_client">>
<1>1. /\ (grant = "blank") \in BOOLEAN /\ b3 \in BOOLEAN /\ b4 \in BOOLEAN
      /\ (grant \notin {"authorization_code", "refresh_token", "client_credentials"}) \in BOOLEAN
  BY Zenon
<1>2. c1 \in Check /\ c2 \in Check /\ c3 \in Check /\ c4 \in Check
  <2>1. {"invalid_request", "invalid_client", "unsupported_grant"} \subseteq Error
    BY DEF Error
  <2> HIDE DEF b3, b4, grant
  <2> QED BY <1>1, <2>1, CheckOf, Zenon
<1>3. GrantChecks(r) = <<c1, c2, c3, c4>>
  BY Zenon DEF GrantChecks
<1> HIDE DEF c1, c2, c3, c4
<1> QED BY <1>2, <1>3, FourOf

LEMMA TokenPasses ==
  ASSUME NEW r
  PROVE  /\ FirstError(TokenChecks(r)) # "invalid_grant"
         /\ FirstError(TokenChecks(r)) = "none" =>
              AllPass(FormChecks(r)) /\ AllPass(AuthChecks(r)) /\ Authenticated(r)
<1> DEFINE form == FormChecks(r)
           auth == AuthChecks(r)
           c == <<~Authenticated(r), "invalid_client">>
           grants == GrantChecks(r)
           all == form \o auth \o <<c>> \o grants
<1>1. form \in Seq(Check) /\ auth \in Seq(Check) /\ grants \in Seq(Check)
  BY FormPasses, AuthPasses, GrantsAreChecks
<1>2. c \in Check /\ c[1] = (~Authenticated(r))
  <2>1. (~Authenticated(r)) \in BOOLEAN /\ "invalid_client" \in Error
    BY Zenon DEF Error
  <2> QED BY <2>1, CheckOf, Zenon
<1>3. TokenChecks(r) = all
  BY Zenon DEF TokenChecks
<1> HIDE DEF form, auth, c, grants
<1>4. <<c>> \in Seq(Check) /\ (AllPass(<<c>>) => ~c[1])
  BY <1>2, OneOf
<1>5. form \o auth \in Seq(Check) /\ (AllPass(form \o auth) => AllPass(form) /\ AllPass(auth))
  BY <1>1, AllPassConcat
<1>6. /\ form \o auth \o <<c>> \in Seq(Check)
      /\ AllPass(form \o auth \o <<c>>) => AllPass(form \o auth) /\ AllPass(<<c>>)
  BY <1>4, <1>5, AllPassConcat
<1>7. all \in Seq(Check) /\ (AllPass(all) => AllPass(form \o auth \o <<c>>))
  BY <1>1, <1>6, AllPassConcat
<1>8. FirstError(all) # "invalid_grant" /\ (FirstError(all) = "none" => AllPass(all))
  BY <1>7, FirstErrorOf
<1>9. FirstError(all) = "none" => AllPass(form) /\ AllPass(auth) /\ ~c[1]
  BY <1>4, <1>5, <1>6, <1>7, <1>8
<1> QED BY <1>2, <1>3, <1>8, <1>9, Zenon DEF form, auth

LEMMA Grantable ==
  ASSUME NEW r \in TokenRequest,
         AllPass(FormChecks(r)), AllPass(AuthChecks(r)), Authenticated(r)
  PROVE  Single(r.params) /\ Proven(r)
<1>1. AllPass(FormChecks(r)) /\ AllPass(AuthChecks(r)) /\ Authenticated(r)
  OBVIOUS
<1>2. \A name \in KnownParameters : r.params[name] \in Seq(STRING) /\ ~Repeated(r.params, name)
  BY <1>1, FormPasses DEF TokenRequest
<1>3. \A name \in KnownParameters :
        /\ r.params[name] \in Seq(STRING) /\ Len(r.params[name]) <= 1
        /\ r.params[name] # << >> => r.params[name] = <<Value(r.params, name)>>
        /\ r.params[name] = << >> => Value(r.params, name) = "blank"
  BY <1>2 DEF Repeated, Value, Contains
<1>4. "client_id" \in KnownParameters /\ "client_secret" \in KnownParameters
  BY DEF KnownParameters
<1>5. Single(r.params)
  BY <1>3 DEF Single
<1>6. CASE UsesHeader(r)
  <2>1. r.scheme = "basic"
    BY <1>1, <1>6, AuthPasses DEF UsesHeader, TokenRequest
  <2>2. r.id \in DOMAIN Clients /\ r.secret = Clients[r.id].secret
    BY <1>1, <1>6 DEF Authenticated, Matches
  <2>3. ~Contains(r.params, "client_secret") /\ Value(r.params, "client_id") \in {"blank", r.id}
    BY <1>1, <1>6, AuthPasses
  <2>4. r.params["client_secret"] = << >>
    BY <2>3 DEF Contains
  <2>5. r.params["client_id"] \in {<< >>, <<"blank">>, <<r.id>>}
    BY <1>3, <1>4, <2>3
  <2> QED BY <1>5, <2>1, <2>2, <2>4, <2>5 DEF Proven
<1>7. CASE ~UsesHeader(r)
  <2> DEFINE c == Value(r.params, "client_id")
             s == Value(r.params, "client_secret")
  <2>1. r.scheme = "none"
    BY <1>7 DEF UsesHeader
  <2>2. c \in DOMAIN Clients /\ s = Clients[c].secret
    BY <1>1, <1>7 DEF Authenticated, Matches
  <2>3. c # "blank" /\ s # "blank"
    BY <1>1, <1>7, AuthPasses DEF Missing
  <2>4. r.params["client_id"] = <<c>> /\ r.params["client_secret"] = <<s>>
    BY <1>3, <1>4, <2>3
  <2> HIDE DEF c, s
  <2>5. r.params["client_secret"] = <<Clients[c].secret>>
    BY <2>2, <2>4
  <2> QED BY <1>5, <2>1, <2>2, <2>4, <2>5 DEF Proven
<1> QED BY <1>6, <1>7

(* /oauth/token lets no request through to the store that says anything    *)
(* twice, or that does not prove its client in exactly one way, for any    *)
(* clients and any request: B26, B29, B30.                                 *)
THEOREM AlwaysProven == Spec => []ProvenOnce
<1>1. Init => Handled /\ ProvenOnce
  BY DEF Init, Handled, Nothing, ProvenOnce
<1>2. Handled /\ ProvenOnce /\ [Next]_vars => (Handled /\ ProvenOnce)'
  <2> SUFFICES ASSUME Handled, ProvenOnce, [Next]_vars
               PROVE  (Handled /\ ProvenOnce)'
    OBVIOUS
  <2>1. CASE UNCHANGED vars
    BY <2>1 DEF vars, Handled, ProvenOnce
  <2>2. CASE Authorize /\ UNCHANGED request
    BY <2>2 DEF Authorize, Handled, ProvenOnce
  <2>3. CASE Token /\ UNCHANGED request
    <3>1. request \in TokenRequests /\ request' = request
      BY <2>3, RequestsTyped DEF Token, Handled
    <3>2. answer'.error \in {"none", "invalid_grant"} => FirstError(TokenChecks(request)) = "none"
      BY <2>3, <3>1, TokenPasses DEF Token, TokenAnswer, Nothing
    <3> QED BY <3>1, <3>2, TokenPasses, RequestsTyped, Grantable DEF Handled, ProvenOnce
  <2> QED BY <2>1, <2>2, <2>3 DEF Next
<1> QED BY <1>1, <1>2, PTL DEF Spec

-----------------------------------------------------------------------------
(* What a stranger, who proves no client, is told.                         *)

LEMMA OneCheck ==
  ASSUME NEW c \in Check
  PROVE  /\ <<c>> \in Seq(Check) /\ (AllPass(<<c>>) <=> ~c[1])
         /\ c[1] => FirstError(<<c>>) = c[2]
         /\ ~c[1] => FirstError(<<c>>) = "none"
<1>1. <<c>> \in Seq(Check) /\ DOMAIN <<c>> = {1} /\ <<c>>[1] = c
  OBVIOUS
<1>2. AllPass(<<c>>) <=> ~c[1]
  BY <1>1 DEF AllPass
<1>3. ASSUME c[1] PROVE FirstError(<<c>>) = c[2]
  <2>1. 1 \in DOMAIN <<c>> /\ <<c>>[1][1] /\ \A j \in DOMAIN <<c>> : 1 <= j
    BY <1>1, <1>3
  <2> QED BY <1>1, <2>1, FirstErrorIs
<1> QED BY <1>1, <1>2, <1>3, FirstErrorOf

LEMMA OneValue ==
  ASSUME NEW S, NEW v \in S
  PROVE  <<v>> \in Seq(S) /\ Len(<<v>>) = 1
  OBVIOUS

LEMMA TokenError ==
  ASSUME NEW r
  PROVE  FirstError(TokenChecks(r)) =
           IF ~AllPass(FormChecks(r)) THEN FirstError(FormChecks(r))
           ELSE IF ~AllPass(AuthChecks(r)) THEN FirstError(AuthChecks(r))
           ELSE IF ~Authenticated(r) THEN "invalid_client"
           ELSE FirstError(GrantChecks(r))
<1> DEFINE form == FormChecks(r)
           auth == AuthChecks(r)
           c == <<~Authenticated(r), "invalid_client">>
           grants == GrantChecks(r)
<1>1. form \in Seq(Check) /\ auth \in Seq(Check) /\ grants \in Seq(Check)
  BY FormPasses, AuthPasses, GrantsAreChecks
<1>2. c \in Check /\ c[1] = (~Authenticated(r)) /\ c[2] = "invalid_client"
  <2>1. (~Authenticated(r)) \in BOOLEAN /\ "invalid_client" \in Error
    BY Zenon DEF Error
  <2>2. c \in Check /\ c[1] = (~Authenticated(r))
    BY <2>1, CheckOf, Zenon
  <2> QED BY <2>2
<1>3. TokenChecks(r) = form \o auth \o <<c>> \o grants
  BY Zenon DEF TokenChecks
<1> HIDE DEF form, auth, c, grants
<1>4. <<c>> \in Seq(Check) /\ (AllPass(<<c>>) <=> ~c[1])
  BY <1>2, OneCheck
<1>5. c[1] => FirstError(<<c>>) = "invalid_client"
  BY <1>2, OneCheck
<1>6. /\ form \o auth \in Seq(Check) /\ form \o auth \o <<c>> \in Seq(Check)
      /\ AllPass(form \o auth) <=> AllPass(form) /\ AllPass(auth)
      /\ AllPass(form \o auth \o <<c>>) <=> AllPass(form \o auth) /\ AllPass(<<c>>)
  BY <1>1, <1>4, AllPassConcat
<1>7. /\ FirstError(form \o auth)
             = IF AllPass(form) THEN FirstError(auth) ELSE FirstError(form)
      /\ FirstError(form \o auth \o <<c>>)
             = IF AllPass(form \o auth) THEN FirstError(<<c>>) ELSE FirstError(form \o auth)
      /\ FirstError(form \o auth \o <<c>> \o grants)
             = IF AllPass(form \o auth \o <<c>>) THEN FirstError(grants)
               ELSE FirstError(form \o auth \o <<c>>)
  BY <1>1, <1>4, <1>6, FirstErrorConcat
<1>8. FirstError(TokenChecks(r)) =
        IF ~AllPass(form) THEN FirstError(form)
        ELSE IF ~AllPass(auth) THEN FirstError(auth)
        ELSE IF c[1] THEN "invalid_client" ELSE FirstError(grants)
  BY <1>3, <1>4, <1>5, <1>6, <1>7
<1> QED BY <1>2, <1>8 DEF form, auth, grants

LEMMA SameForm ==
  ASSUME NEW r \in TokenRequest, NEW s \in TokenRequest, Single(r.params), Single(s.params),
         r.method = s.method, r.isForm = s.isForm, r.body = s.body
  PROVE  FormChecks(r) = FormChecks(s)
<1> DEFINE twice(q) == \E name \in KnownParameters : Repeated(q.params, name)
<1>1. ~twice(r) /\ ~twice(s)
  BY DEF Single, Repeated, TokenRequest
<1>2. twice(r) = twice(s)
  BY <1>1, Zenon
<1> QED BY <1>2, Zenon DEF FormChecks

(* Without a header, a client that cannot be told is always the same error.*)
LEMMA BodyError ==
  ASSUME NEW r, r.scheme = "none", ~AllPass(AuthChecks(r))
  PROVE  FirstError(AuthChecks(r)) = "invalid_client"
<1> DEFINE b == \E name \in {"client_id", "client_secret"} : Missing(r.params, name)
           c == <<b, "invalid_client">>
<1>1. AuthChecks(r) = <<c>>
  BY Zenon DEF AuthChecks, UsesHeader
<1>2. c \in Check /\ c[2] = "invalid_client"
  <2>1. b \in BOOLEAN /\ "invalid_client" \in Error
    BY Zenon DEF Error
  <2> HIDE DEF b
  <2> QED BY <2>1 DEF Check
<1> HIDE DEF c
<1>3. c[1]
  BY <1>1, <1>2, OneCheck
<1> QED BY <1>1, <1>2, <1>3, OneCheck

(* With one, it is the same error too, unless it is the second attempt of  *)
(* the request.                                                            *)
HeaderAnswer(r) ==
  IF r.scheme # "unusable" /\ Contains(r.params, "client_secret")
  THEN "invalid_request" ELSE "invalid_client"

LEMMA HeaderError ==
  ASSUME NEW r, r.scheme # "none", ~AllPass(AuthChecks(r))
  PROVE  FirstError(AuthChecks(r)) = HeaderAnswer(r)
<1> DEFINE c1 == <<r.scheme = "unusable", "invalid_client">>
           c2 == <<Contains(r.params, "client_secret"), "invalid_request">>
           c3 == <<Value(r.params, "client_id") \notin {"blank", r.id}, "invalid_client">>
<1>1. AuthChecks(r) = <<c1, c2, c3>>
  BY Zenon DEF AuthChecks, UsesHeader
<1>2. /\ c1 \in Check /\ c2 \in Check /\ c3 \in Check
      /\ c1[1] = (r.scheme = "unusable") /\ c2[1] = Contains(r.params, "client_secret")
      /\ c1[2] = "invalid_client" /\ c2[2] = "invalid_request" /\ c3[2] = "invalid_client"
  <2>1. {"invalid_client", "invalid_request"} \subseteq Error
    BY DEF Error
  <2>2. /\ (r.scheme = "unusable") \in BOOLEAN /\ Contains(r.params, "client_secret") \in BOOLEAN
        /\ (Value(r.params, "client_id") \notin {"blank", r.id}) \in BOOLEAN
    BY Zenon DEF Contains
  <2>3. /\ c1 \in Check /\ c2 \in Check /\ c3 \in Check
        /\ c1[1] = (r.scheme = "unusable") /\ c2[1] = Contains(r.params, "client_secret")
    BY <2>1, <2>2, CheckOf, Zenon
  <2>4. c1[2] = "invalid_client" /\ c2[2] = "invalid_request" /\ c3[2] = "invalid_client"
    OBVIOUS
  <2> QED BY <2>3, <2>4
<1> HIDE DEF c1, c2, c3
<1>3. <<c1, c2, c3>> \in Seq(Check) /\ DOMAIN <<c1, c2, c3>> = 1 .. 3
      /\ <<c1, c2, c3>>[1] = c1 /\ <<c1, c2, c3>>[2] = c2 /\ <<c1, c2, c3>>[3] = c3
  BY <1>2, ThreeOf
<1> PICK i \in 1 .. 3 : /\ <<c1, c2, c3>>[i][1]
                        /\ FirstError(AuthChecks(r)) = <<c1, c2, c3>>[i][2]
                        /\ \A j \in 1 .. 3 : <<c1, c2, c3>>[j][1] => i <= j
  BY <1>1, <1>3, FirstFailure
<1>4. CASE i = 1
  BY <1>2, <1>3, <1>4 DEF HeaderAnswer
<1>5. CASE i = 2
  <2>1. ~c1[1] /\ c2[1]
    BY <1>3, <1>5
  <2> QED BY <1>2, <1>3, <1>5, <2>1 DEF HeaderAnswer
<1>6. CASE i = 3
  <2>1. ~c2[1]
    BY <1>3, <1>6
  <2> QED BY <1>2, <1>3, <1>6, <2>1 DEF HeaderAnswer
<1> QED BY <1>4, <1>5, <1>6

(* Two requests by strangers that come in the same form and by the same    *)
(* way of authentication get the same answer, whatever they ask for,       *)
(* whichever client they name and whatever secret they guess.              *)
THEOREM StrangersLearnNothing ==
  \A r, s \in TokenRequest :
    /\ Single(r.params) /\ Single(s.params) /\ ~Proven(r) /\ ~Proven(s)
    /\ r.method = s.method /\ r.isForm = s.isForm /\ r.body = s.body
    /\ r.scheme = s.scheme
    /\ r.scheme = "basic" =>
         Contains(r.params, "client_secret") = Contains(s.params, "client_secret")
    => TokenAnswer(r) = TokenAnswer(s)
<1> SUFFICES ASSUME NEW r \in TokenRequest, NEW s \in TokenRequest,
                    Single(r.params), Single(s.params), ~Proven(r), ~Proven(s),
                    r.method = s.method, r.isForm = s.isForm, r.body = s.body,
                    r.scheme = s.scheme,
                    r.scheme = "basic" =>
                      Contains(r.params, "client_secret") = Contains(s.params, "client_secret")
             PROVE  FirstError(TokenChecks(r)) = FirstError(TokenChecks(s))
  BY DEF TokenAnswer
<1>1. FormChecks(r) = FormChecks(s)
  BY SameForm
<1>2. /\ ~(AllPass(FormChecks(r)) /\ AllPass(AuthChecks(r)) /\ Authenticated(r))
      /\ ~(AllPass(FormChecks(s)) /\ AllPass(AuthChecks(s)) /\ Authenticated(s))
  BY Grantable
<1>3. CASE r.scheme = "none"
  BY <1>1, <1>2, <1>3, TokenError, BodyError
<1>4. CASE r.scheme # "none"
  <2>1. HeaderAnswer(r) = HeaderAnswer(s)
    <3>1. r.scheme \in {"unusable", "basic"}
      BY <1>4 DEF TokenRequest
    <3> QED BY <3>1 DEF HeaderAnswer
  <2>2. \A q \in {r, s} : AllPass(AuthChecks(q)) => HeaderAnswer(q) = "invalid_client"
    BY <1>4, AuthPasses DEF HeaderAnswer, UsesHeader
  <2>3. \A q \in {r, s} : ~AllPass(AuthChecks(q)) => FirstError(AuthChecks(q)) = HeaderAnswer(q)
    BY <1>4, HeaderError
  <2> QED BY <1>1, <1>2, <2>1, <2>2, <2>3, TokenError
<1> QED BY <1>3, <1>4

(* A stranger is answered by the checks, never by the store. *)
StrangersStop ==
  request.kind = "token" /\ answer # Nothing /\ ~Proven(request) => answer = TokenAnswer(request)

LEMMA AnsweredByChecks == Spec => [](Handled /\ StrangersStop)
<1>1. Init => Handled /\ StrangersStop
  BY DEF Init, Handled, StrangersStop
<1>2. Handled /\ StrangersStop /\ [Next]_vars => (Handled /\ StrangersStop)'
  <2> SUFFICES ASSUME Handled, StrangersStop, [Next]_vars
               PROVE  (Handled /\ StrangersStop)'
    OBVIOUS
  <2>1. CASE UNCHANGED vars
    BY <2>1 DEF vars, Handled, StrangersStop, Nothing, TokenAnswer
  <2>2. CASE Authorize /\ UNCHANGED request
    BY <2>2 DEF Authorize, Handled, StrangersStop
  <2>3. CASE Token /\ UNCHANGED request
    <3>1. request \in TokenRequest /\ request' = request
      BY <2>3, RequestsTyped DEF Token, Handled
    <3>2. TokenAnswer(request).error = "none" => Proven(request)
      BY <3>1, TokenPasses, Grantable DEF TokenAnswer, Nothing
    <3>3. answer' = TokenAnswer(request) \/ Proven(request)
      BY <2>3, <3>2 DEF Token
    <3> QED BY <3>1, <3>3 DEF Handled, StrangersStop, TokenAnswer
  <2> QED BY <2>1, <2>2, <2>3 DEF Next
<1> QED BY <1>1, <1>2, PTL DEF Spec

(* B32: to strangers /oauth/token is no oracle of grants and refresh       *)
(* tokens, for any clients and any request.                                *)
THEOREM NeverAnOracle == Spec => []NoOracle
<1>1. Handled /\ StrangersStop => NoOracle
  <2> SUFFICES ASSUME Handled, StrangersStop, request.kind = "token", answer # Nothing,
                      Single(request.params), ~Proven(request),
                      NEW grant \in {"blank", "refresh_token", "client_credentials", "password"},
                      NEW token \in {"blank", "token"}
               PROVE  answer = TokenAnswer([request EXCEPT !.params["grant_type"] = <<grant>>,
                                                           !.params["refresh_token"] = <<token>>])
    BY Zenon DEF NoOracle
  <2> DEFINE other == [request EXCEPT !.params["grant_type"] = <<grant>>,
                                      !.params["refresh_token"] = <<token>>]
  <2>1. request \in TokenRequest
    BY RequestsTyped DEF Handled
  <2>2. /\ <<grant>> \in Seq(STRING) /\ Len(<<grant>>) = 1
        /\ <<token>> \in Seq(STRING) /\ Len(<<token>>) = 1
    <3>1. grant \in STRING /\ token \in STRING
      BY LiteralsAreStrings
    <3> QED BY <3>1, OneValue, Zenon
  <2>3. /\ other \in TokenRequest
        /\ other.method = request.method /\ other.isForm = request.isForm
        /\ other.body = request.body /\ other.scheme = request.scheme
        /\ other.id = request.id /\ other.secret = request.secret
    BY <2>1, <2>2 DEF TokenRequest
  <2>4. /\ \A name \in KnownParameters \ {"grant_type", "refresh_token"} :
             other.params[name] = request.params[name]
        /\ other.params["grant_type"] = <<grant>> /\ other.params["refresh_token"] = <<token>>
    BY <2>1 DEF TokenRequest, KnownParameters
  <2> HIDE DEF other
  <2>5. /\ other.params["client_id"] = request.params["client_id"]
        /\ other.params["client_secret"] = request.params["client_secret"]
    BY <2>4 DEF KnownParameters
  <2>6. Single(other.params)
    <3> SUFFICES ASSUME NEW name \in KnownParameters PROVE Len(other.params[name]) <= 1
      BY DEF Single
    <3>1. Len(request.params[name]) <= 1
      BY DEF Single
    <3>2. CASE name = "grant_type"
      <4>1. other.params[name] = <<grant>>
        BY <2>4, <3>2
      <4> QED BY <4>1
    <3>3. CASE name = "refresh_token"
      <4>1. other.params[name] = <<token>>
        BY <2>4, <3>3
      <4> QED BY <4>1
    <3>4. CASE name \notin {"grant_type", "refresh_token"}
      BY <2>4, <3>1, <3>4
    <3> QED BY <3>2, <3>3, <3>4
  <2>7. ~Proven(other)
    BY <2>3, <2>5 DEF Proven
  <2>8. TokenAnswer(other) = TokenAnswer(request)
    BY <2>1, <2>3, <2>5, <2>6, <2>7, StrangersLearnNothing DEF Contains
  <2>9. answer = TokenAnswer(request)
    BY DEF StrangersStop
  <2> QED BY <2>8, <2>9 DEF other
<1> QED BY <1>1, AnsweredByChecks, PTL

(* B28: nor does it tell them which clients exist, whichever they name in *)
(* a Basic header or in the body, for any clients and any request.         *)
THEOREM NeverEnumerable == Spec => []NoEnumeration
<1>1. Handled /\ StrangersStop => NoEnumeration
  <2> DEFINE body(named) == [request EXCEPT !.params["client_id"] = named]
             other(id, named) ==
               IF request.scheme = "basic" THEN [body(named) EXCEPT !.id = id] ELSE body(named)
  <2> SUFFICES ASSUME Handled, StrangersStop, request.kind = "token", answer # Nothing,
                      Single(request.params), ~Proven(request),
                      NEW id \in DOMAIN Clients \cup {"stranger"},
                      NEW named \in {<< >>, <<"blank">>, <<"stranger">>}
                                    \cup {<<c>> : c \in DOMAIN Clients},
                      ~Proven(other(id, named))
               PROVE  TokenAnswer(other(id, named)) = answer
    BY Zenon DEF NoEnumeration
  <2>1. request \in TokenRequest
    BY RequestsTyped DEF Handled
  <2>2. id \in STRING /\ named \in Seq(STRING) /\ Len(named) <= 1
    <3>1. {"blank", "stranger"} \cup DOMAIN Clients \subseteq STRING
      BY EndpointsAssumption, LiteralsAreStrings
    <3>2. CASE named = << >>
      BY <3>1, <3>2
    <3>3. CASE named # << >>
      <4> PICK v \in STRING : named = <<v>>
        BY <3>1, <3>3
      <4>1. <<v>> \in Seq(STRING) /\ Len(<<v>>) = 1
        BY OneValue, Zenon
      <4> QED BY <3>1, <4>1
    <3> QED BY <3>2, <3>3
  <2>3. /\ body(named) \in TokenRequest
        /\ body(named).method = request.method /\ body(named).isForm = request.isForm
        /\ body(named).body = request.body /\ body(named).scheme = request.scheme
        /\ \A name \in KnownParameters \ {"client_id"} :
             body(named).params[name] = request.params[name]
        /\ body(named).params["client_id"] = named
    <3>1. /\ request.params \in [KnownParameters -> Seq(STRING)]
          /\ "client_id" \in KnownParameters
      BY <2>1 DEF TokenRequest, KnownParameters
    <3>2. [request.params EXCEPT !["client_id"] = named] \in [KnownParameters -> Seq(STRING)]
      BY <2>2, <3>1
    <3> QED BY <2>1, <3>1, <3>2 DEF TokenRequest
  <2> DEFINE o == other(id, named)
  <2>4. /\ o \in TokenRequest
        /\ o.method = request.method /\ o.isForm = request.isForm
        /\ o.body = request.body /\ o.scheme = request.scheme
        /\ \A name \in KnownParameters \ {"client_id"} : o.params[name] = request.params[name]
        /\ o.params["client_id"] = named
    <3> HIDE DEF body
    <3> QED BY <2>2, <2>3 DEF TokenRequest
  <2>5. ~Proven(o)
    OBVIOUS
  <2> HIDE DEF o
  <2>6. Single(o.params)
    BY <2>2, <2>4 DEF Single
  <2>7. o.params["client_secret"] = request.params["client_secret"]
    BY <2>4 DEF KnownParameters
  <2>8. TokenAnswer(o) = TokenAnswer(request)
    BY <2>1, <2>4, <2>5, <2>6, <2>7, StrangersLearnNothing DEF Contains
  <2>9. answer = TokenAnswer(request)
    BY DEF StrangersStop
  <2> QED BY <2>8, <2>9 DEF o
<1> QED BY <1>1, AnsweredByChecks, PTL

-----------------------------------------------------------------------------
(* The user's part.                                                        *)

LEMMA EightOf ==
  ASSUME NEW c1 \in Check, NEW c2 \in Check, NEW c3 \in Check, NEW c4 \in Check,
         NEW c5 \in Check, NEW c6 \in Check, NEW c7 \in Check, NEW c8 \in Check
  PROVE  <<c1, c2, c3, c4, c5, c6, c7, c8>> \in Seq(Check)
OBVIOUS

LEMMA ParametersAreChecks == ASSUME NEW r PROVE ParameterChecks(r) \in Seq(Check)
<1> DEFINE p == r.params
           c1 == <<Repeated(p, "response_type"), "invalid_request">>
           c2 == <<Missing(p, "response_type"), "invalid_request">>
           c3 == <<Value(p, "response_type") # "code", "unsupported_response_type">>
           c4 == <<Repeated(p, "code_challenge"), "invalid_request">>
           c5 == <<Value(p, "code_challenge") # "challenge", "invalid_request">>
           c6 == <<Repeated(p, "code_challenge_method"), "invalid_request">>
           c7 == <<Value(p, "code_challenge_method") # "S256", "invalid_request">>
           c8 == <<Repeated(p, "state"), "invalid_request">>
<1>1. {"invalid_request", "unsupported_response_type"} \subseteq Error
  BY DEF Error
<1>2. /\ \A name : Repeated(p, name) \in BOOLEAN
      /\ Missing(p, "response_type") \in BOOLEAN
  BY DEF Repeated, Missing
<1>3. /\ c1 \in Check /\ c2 \in Check /\ c3 \in Check /\ c4 \in Check
      /\ c5 \in Check /\ c6 \in Check /\ c7 \in Check /\ c8 \in Check
  <2>1. \A name, v : (Value(p, name) # v) \in BOOLEAN
    BY Zenon
  <2> QED BY <1>1, <1>2, <2>1, CheckOf, Zenon
<1>4. ParameterChecks(r) = <<c1, c2, c3, c4, c5, c6, c7, c8>>
  BY Zenon DEF ParameterChecks
<1> HIDE DEF c1, c2, c3, c4, c5, c6, c7, c8
<1> QED BY <1>3, <1>4, EightOf

(* The user's answer comes after everything else. *)
LEMMA ValidityError ==
  ASSUME NEW r
  PROVE  FirstError(ValidityChecks(r)) =
           IF ~AllPass(ParameterChecks(r)) THEN FirstError(ParameterChecks(r))
           ELSE IF r.decision = "deny" THEN "access_denied" ELSE "none"
<1> DEFINE c == <<r.decision = "deny", "access_denied">>
<1>1. c \in Check /\ c[1] = (r.decision = "deny") /\ c[2] = "access_denied"
  BY DEF Check, Error
<1>2. ValidityChecks(r) = ParameterChecks(r) \o <<c>>
  BY Zenon DEF ValidityChecks, UserCheck
<1> HIDE DEF c
<1>3. <<c>> \in Seq(Check)
  BY <1>1, OneCheck
<1>4. FirstError(<<c>>) = IF c[1] THEN "access_denied" ELSE "none"
  BY <1>1, OneCheck
<1>5. FirstError(ParameterChecks(r) \o <<c>>) =
        IF AllPass(ParameterChecks(r)) THEN FirstError(<<c>>) ELSE FirstError(ParameterChecks(r))
  BY <1>3, ParametersAreChecks, FirstErrorConcat
<1> QED BY <1>1, <1>2, <1>4, <1>5

(* B19: the user's decision changes the answer to requests that are valid  *)
(* otherwise, to access_denied, and to no other, for any request.          *)
THEOREM UserIsAskedLast == Spec => []UserLast
<1>1. Init => Handled
  BY DEF Init, Handled
<1>2. Handled /\ [Next]_vars => Handled'
  BY DEF Handled, Next, vars
<1>3. Handled => UserLast
  <2> DEFINE as(decision) == [request EXCEPT !.decision = decision]
             yes == as("approve")
             no == as("deny")
  <2> SUFFICES ASSUME Handled, request.kind = "authorize"
               PROVE  IF AuthorizeAnswer(yes).error = "none"
                      THEN AuthorizeAnswer(no) = [AuthorizeAnswer(yes) EXCEPT !.error = "access_denied"]
                      ELSE AuthorizeAnswer(no) = AuthorizeAnswer(yes)
    BY Zenon DEF UserLast
  <2>1. request \in AuthorizeRequest
    BY RequestsTyped DEF Handled
  <2>2. /\ yes.params = no.params /\ yes.method = no.method
        /\ yes.decision = "approve" /\ no.decision = "deny"
    BY <2>1 DEF AuthorizeRequest
  <2> HIDE DEF yes, no
  <2>3. TrustChecks(yes) = TrustChecks(no) /\ ParameterChecks(yes) = ParameterChecks(no)
    BY <2>2, Zenon DEF TrustChecks, ParameterChecks
  <2>4. FirstError(ParameterChecks(yes)) = "none" <=> AllPass(ParameterChecks(yes))
    BY ParametersAreChecks, FirstErrorOf
  <2>5. CASE FirstError(TrustChecks(yes)) # "none"
    <3>1. AuthorizeAnswer(yes) = AuthorizeAnswer(no)
      BY <2>3, <2>5, Zenon DEF AuthorizeAnswer
    <3>2. AuthorizeAnswer(yes).error = FirstError(TrustChecks(yes))
      BY <2>5 DEF AuthorizeAnswer, Nothing
    <3> QED BY <2>5, <3>1, <3>2
  <2>6. CASE FirstError(TrustChecks(yes)) = "none"
    <3> DEFINE to == Value(yes.params, "redirect_uri")
               state == IF Contains(yes.params, "state") THEN <<Head(yes.params["state"])>> ELSE << >>
               answerWith(e) == [error |-> e, to |-> to, state |-> state]
    <3>1. /\ AuthorizeAnswer(yes) = answerWith(FirstError(ValidityChecks(yes)))
          /\ AuthorizeAnswer(no) = answerWith(FirstError(ValidityChecks(no)))
      BY <2>2, <2>3, <2>6, Zenon DEF AuthorizeAnswer
    <3>2. /\ FirstError(ValidityChecks(yes)) = FirstError(ParameterChecks(yes))
          /\ FirstError(ValidityChecks(no)) =
                IF FirstError(ParameterChecks(yes)) = "none" THEN "access_denied"
                ELSE FirstError(ParameterChecks(yes))
      BY <2>2, <2>3, <2>4, ValidityError
    <3> HIDE DEF to, state
    <3>3. \A e : /\ answerWith(e).error = e
                 /\ [answerWith(e) EXCEPT !.error = "access_denied"] = answerWith("access_denied")
      OBVIOUS
    <3> HIDE DEF answerWith
    <3> QED BY <3>1, <3>2, <3>3
  <2> QED BY <2>5, <2>6
<1> QED BY <1>1, <1>2, <1>3, PTL DEF Spec
=============================================================================
