-------------------------- MODULE OAuthStoreProofs --------------------------
(***************************************************************************)
(* Proofs about OAuthStore for any number of clients, bindings,            *)
(* credentials and sessions, and any lifetimes.                            *)
(***************************************************************************)
EXTENDS OAuthStore, FiniteSetTheorems, TLAPS

(* A code is what starts a session: one code per family, and families are  *)
(* numbered as they come.                                                  *)
OneCodePerFamily ==
  /\ \A c \in DOMAIN codes : codes[c].family < nextFamily
  /\ \A c, d \in DOMAIN codes : codes[c].family = codes[d].family => c = d

(* A session has one refresh token that works at most: PairsArePaidFor,    *)
(* without the counting.                                                   *)
OneLiveRefresh ==
  \A r, s \in DOMAIN refresh :
    refresh[r].family = refresh[s].family /\ ~refresh[r].spent /\ ~refresh[s].spent
      => r = s

(* The inductive invariant.  OneLiveRefresh needs the rest: the code that  *)
(* is redeemed is the only one of its family, and since it was not         *)
(* redeemed before, no token of the family can exist yet.                  *)
IInv ==
  /\ TypeOK
  /\ CredentialsAreTyped
  /\ OneCodePerFamily
  /\ TokensHaveOwner
  /\ OneLiveRefresh

-----------------------------------------------------------------------------
(* The clock saturates. *)
LEMMA AddType ==
  ASSUME NEW t \in Nat, NEW d \in Nat
  PROVE  Add(t, d) \in 0 .. EndOfTime /\ (t <= EndOfTime => t <= Add(t, d))
  BY OAuthAssumption DEF Add

(* A string that is drawn was never issued before. *)
LEMMA FreshUnused == Unused # {} => Fresh \in Unused
  BY DEF Fresh

LEMMA Fresh2Unused ==
  TwoUnused => Fresh \in Unused /\ Fresh2 \in Unused /\ Fresh # Fresh2
  BY FreshUnused DEF TwoUnused, Fresh2

LEMMA InitIInv == Init => IInv
  BY OAuthAssumption DEF Init, Empty, IInv, TypeOK, CredentialsAreTyped,
     OneCodePerFamily, TokensHaveOwner, OneLiveRefresh, RedeemedOf

(* What issue_user_tokens adds to the two tables. *)
LEMMA Issued ==
  ASSUME TypeOK, NEW k \in Clients, NEW f \in Family, NEW others,
         others \in [DOMAIN refresh -> RefreshToken], IssueUserTokens(k, f, others)
  PROVE  /\ Fresh \in Unused /\ Fresh2 \in Unused /\ Fresh # Fresh2
         /\ access' \in [DOMAIN access' -> AccessToken]
         /\ refresh' \in [DOMAIN refresh' -> RefreshToken]
         /\ DOMAIN access' = DOMAIN access \cup {Fresh}
         /\ DOMAIN refresh' = DOMAIN refresh \cup {Fresh2}
         /\ access'[Fresh].kind = "user" /\ access'[Fresh].client = k
         /\ access'[Fresh].family = f
         /\ refresh'[Fresh2] = [client |-> k, family |-> f, spent |-> FALSE]
         /\ \A a \in DOMAIN access : access'[a] = access[a]
         /\ \A r \in DOMAIN refresh : refresh'[r] = others[r]
<1> DEFINE new == [kind |-> "user", client |-> k,
                   expiresAt |-> Add(clock, TokenLifetime), family |-> f]
           pair == [client |-> k, family |-> f, spent |-> FALSE]
<1>1. Fresh \in Unused /\ Fresh2 \in Unused /\ Fresh # Fresh2
  BY Fresh2Unused DEF IssueUserTokens, InsertAccessToken
<1>2. access' = Insert(access, Fresh, new) /\ refresh' = Insert(others, Fresh2, pair)
  BY DEF IssueUserTokens, InsertAccessToken
<1>3. clock \in Nat /\ Add(clock, TokenLifetime) \in Nat
  BY AddType, OAuthAssumption DEF TypeOK
<1>4. new \in AccessToken /\ pair \in RefreshToken
  BY <1>3 DEF AccessToken, RefreshToken
<1>5. Fresh \notin DOMAIN access /\ Fresh2 \notin DOMAIN refresh
  BY <1>1 DEF Unused
<1> HIDE DEF new, pair
<1>6. /\ DOMAIN access' = DOMAIN access \cup {Fresh}
      /\ access' \in [DOMAIN access' -> AccessToken]
      /\ access'[Fresh] = new
      /\ \A a \in DOMAIN access : access'[a] = access[a]
  BY <1>2, <1>4, <1>5 DEF Insert, TypeOK
<1>7. /\ DOMAIN refresh' = DOMAIN refresh \cup {Fresh2}
      /\ refresh' \in [DOMAIN refresh' -> RefreshToken]
      /\ refresh'[Fresh2] = pair
      /\ \A r \in DOMAIN refresh : refresh'[r] = others[r]
  BY <1>2, <1>4, <1>5 DEF Insert
<1> QED
  BY <1>1, <1>6, <1>7 DEF new, pair

(* A step that changes neither codes nor tokens. *)
LEMMA QuietStep ==
  ASSUME IInv, TypeOK', UNCHANGED <<codes, access, refresh, nextFamily>>
  PROVE  IInv'
  BY DEF IInv, CredentialsAreTyped, OneCodePerFamily, TokensHaveOwner,
         OneLiveRefresh, RedeemedOf

LEMMA AuthorizeStep ==
  ASSUME IInv, NEW k \in Clients, NEW b \in Bindings, Authorize(k, b)
  PROVE  IInv'
<1>1. CASE userDecision = "deny"
  BY <1>1, QuietStep DEF Authorize, IssueCode, storeVars, IInv, TypeOK
<1>2. CASE userDecision = "approve"
  <2> DEFINE new == [client |-> k, binding |-> b, issuedAt |-> clock,
                     family |-> nextFamily, redeemed |-> FALSE]
  <2>1. /\ Fresh \in Creds /\ Fresh \notin DOMAIN codes
        /\ Fresh \notin DOMAIN access /\ Fresh \notin DOMAIN refresh
    BY <1>2, FreshUnused DEF Authorize, IssueCode, Unused
  <2>2. new \in Code /\ new.family = nextFamily
    BY <1>2, OAuthAssumption DEF Authorize, IssueCode, Code, Family, IInv, TypeOK
  <2> HIDE DEF new
  <2>3. /\ DOMAIN codes' = DOMAIN codes \cup {Fresh}
        /\ codes' \in [DOMAIN codes' -> Code]
        /\ codes'[Fresh] = new
        /\ \A c \in DOMAIN codes : codes'[c] = codes[c]
    BY <1>2, <2>1, <2>2 DEF Authorize, IssueCode, Insert, IInv, TypeOK, new
  <2>4. nextFamily \in Nat /\ nextFamily' = nextFamily + 1 /\ nextFamily' <= MaxFamilies
    BY <1>2, OAuthAssumption DEF Authorize, IssueCode, IInv, TypeOK
  <2>5. UNCHANGED <<clock, userDecision, access, refresh, revoked>>
    BY <1>2 DEF Authorize, IssueCode
  <2>6. TypeOK'
    BY <2>1, <2>3, <2>4, <2>5, OAuthAssumption DEF IInv, TypeOK
  <2>7. CredentialsAreTyped'
    BY <2>1, <2>3, <2>5 DEF IInv, CredentialsAreTyped
  <2>8. \A c \in DOMAIN codes : codes[c].family \in Nat /\ codes[c].family < nextFamily
    BY DEF IInv, TypeOK, OneCodePerFamily, Code, Family
  <2>9. OneCodePerFamily'
    BY <2>2, <2>3, <2>4, <2>8 DEF IInv, OneCodePerFamily
  <2>10. TokensHaveOwner'
    BY <2>3, <2>5 DEF IInv, TokensHaveOwner, RedeemedOf
  <2>11. OneLiveRefresh'
    BY <2>5 DEF IInv, OneLiveRefresh
  <2> QED
    BY <2>6, <2>7, <2>9, <2>10, <2>11 DEF IInv
<1> QED
  BY <1>1, <1>2 DEF Authorize, IssueCode

(* Issuing tokens for a session that has a redeemed code of this client    *)
(* and no refresh token that works.                                        *)
LEMMA IssueStep ==
  ASSUME IInv, NEW k \in Clients, NEW f \in Family, NEW others,
         others \in [DOMAIN refresh -> RefreshToken],
         \A r \in DOMAIN refresh : /\ others[r].client = refresh[r].client
                                   /\ others[r].family = refresh[r].family
                                   /\ refresh[r].spent => others[r].spent,
         \A r \in DOMAIN refresh : others[r].family = f => others[r].spent,
         IssueUserTokens(k, f, others),
         UNCHANGED <<clock, userDecision, revoked, nextFamily>>,
         codes' \in [DOMAIN codes -> Code],
         \A c \in DOMAIN codes : /\ codes'[c].client = codes[c].client
                                 /\ codes'[c].family = codes[c].family
                                 /\ codes[c].redeemed => codes'[c].redeemed,
         \E c \in DOMAIN codes : /\ codes'[c].family = f /\ codes'[c].redeemed
                                 /\ codes'[c].client = k
  PROVE  IInv'
<1>1. /\ Fresh \in Unused /\ Fresh2 \in Unused /\ Fresh # Fresh2
      /\ access' \in [DOMAIN access' -> AccessToken]
      /\ refresh' \in [DOMAIN refresh' -> RefreshToken]
      /\ DOMAIN access' = DOMAIN access \cup {Fresh}
      /\ DOMAIN refresh' = DOMAIN refresh \cup {Fresh2}
      /\ access'[Fresh].kind = "user" /\ access'[Fresh].client = k
      /\ access'[Fresh].family = f
      /\ refresh'[Fresh2] = [client |-> k, family |-> f, spent |-> FALSE]
      /\ \A a \in DOMAIN access : access'[a] = access[a]
      /\ \A r \in DOMAIN refresh : refresh'[r] = others[r]
  BY Issued DEF IInv
<1>2. /\ Fresh \in Creds /\ Fresh2 \in Creds
      /\ Fresh \notin DOMAIN codes \cup DOMAIN access \cup DOMAIN refresh
      /\ Fresh2 \notin DOMAIN codes \cup DOMAIN access \cup DOMAIN refresh
  BY <1>1 DEF Unused
<1>3. DOMAIN codes' = DOMAIN codes
  OBVIOUS
<1>4. TypeOK'
  BY <1>1, <1>2, <1>3 DEF IInv, TypeOK
<1>5. CredentialsAreTyped'
  BY <1>1, <1>2, <1>3 DEF IInv, CredentialsAreTyped
<1>6. OneCodePerFamily'
  BY <1>3 DEF IInv, OneCodePerFamily
<1>7. TokensHaveOwner'
  <2> DEFINE Owner(k0, g) ==
        \E d \in DOMAIN codes : /\ codes'[d].family = g /\ codes'[d].redeemed
                                /\ codes'[d].client = k0
  <2>1. Owner(k, f)
    OBVIOUS
  <2>2. \A r \in DOMAIN refresh : Owner(refresh[r].client, refresh[r].family)
    BY DEF IInv, TokensHaveOwner, RedeemedOf
  <2>3. \A a \in DOMAIN access : access[a].kind = "user" =>
           Owner(access[a].client, access[a].family)
    BY DEF IInv, TokensHaveOwner, RedeemedOf
  <2>4. \A r \in DOMAIN refresh' : Owner(refresh'[r].client, refresh'[r].family)
    BY <1>1, <2>1, <2>2
  <2>5. \A a \in DOMAIN access' : access'[a].kind = "user" =>
           Owner(access'[a].client, access'[a].family)
    BY <1>1, <2>1, <2>3
  <2> QED
    BY <1>3, <2>4, <2>5 DEF TokensHaveOwner, RedeemedOf
<1>8. OneLiveRefresh'
  <2> SUFFICES ASSUME NEW r \in DOMAIN refresh', NEW s \in DOMAIN refresh',
                      refresh'[r].family = refresh'[s].family,
                      ~refresh'[r].spent, ~refresh'[s].spent
               PROVE  r = s
    BY DEF OneLiveRefresh
  <2>1. \A q \in DOMAIN refresh : refresh'[q].family = f => refresh'[q].spent
    BY <1>1
  <2>2. CASE r = Fresh2
    BY <2>1, <2>2, <1>1
  <2>3. CASE s = Fresh2
    BY <2>1, <2>3, <1>1
  <2>4. CASE r \in DOMAIN refresh /\ s \in DOMAIN refresh
    BY <2>4, <1>1 DEF IInv, OneLiveRefresh
  <2> QED
    BY <2>2, <2>3, <2>4, <1>1
<1> QED
  BY <1>4, <1>5, <1>6, <1>7, <1>8 DEF IInv

LEMMA RedeemStep ==
  ASSUME IInv, NEW k \in Clients, NEW c \in Creds, NEW b \in Bindings,
         RedeemCode(k, c, b)
  PROVE  IInv'
<1>1. CASE Owned(k, c) /\ ~codes[c].redeemed /\ Honoured(c, b)
  <2> DEFINE f == codes[c].family
  <2>1. /\ codes' = [codes EXCEPT ![c].redeemed = TRUE]
        /\ IssueUserTokens(k, f, refresh)
        /\ UNCHANGED <<clock, userDecision, revoked, nextFamily>>
    BY <1>1 DEF RedeemCode
  <2>2. c \in DOMAIN codes /\ codes[c] \in Code /\ codes[c].client = k
    BY <1>1 DEF Owned, IInv, TypeOK
  <2>3. f \in Family
    BY <2>2 DEF Code
  <2>4. codes' \in [DOMAIN codes -> Code]
    BY <2>1, <2>2 DEF IInv, TypeOK, Code
  <2>5. \A d \in DOMAIN codes : /\ codes'[d].client = codes[d].client
                                /\ codes'[d].family = codes[d].family
                                /\ codes[d].redeemed => codes'[d].redeemed
    BY <2>1, <2>2 DEF IInv, TypeOK, Code
  <2>6. codes'[c].redeemed
    BY <2>1, <2>2 DEF IInv, TypeOK, Code
  <2>7. \A r \in DOMAIN refresh : refresh[r].family # f
    BY <1>1, <2>2 DEF IInv, TokensHaveOwner, RedeemedOf, OneCodePerFamily
  <2>8. refresh \in [DOMAIN refresh -> RefreshToken]
    BY DEF IInv, TypeOK
  <2>9. \E d \in DOMAIN codes : /\ codes'[d].family = f
                                /\ codes'[d].redeemed /\ codes'[d].client = k
    BY <2>2, <2>5, <2>6
  <2>10. \A r \in DOMAIN refresh : refresh[r].family = f => refresh[r].spent
    BY <2>7
  <2>11. UNCHANGED <<clock, userDecision, revoked, nextFamily>>
    BY <2>1
  <2> HIDE DEF f
  <2> QED
    BY <2>1, <2>3, <2>4, <2>5, <2>8, <2>9, <2>10, <2>11, IssueStep
<1>2. CASE ~(Owned(k, c) /\ ~codes[c].redeemed /\ Honoured(c, b))
  <2>1. UNCHANGED <<clock, userDecision, codes, access, refresh, nextFamily>>
    BY <1>2 DEF RedeemCode, InvalidGrant
  <2>2. revoked' \subseteq Family
    BY <1>2 DEF RedeemCode, Owned, IInv, TypeOK, Code
  <2> QED
    BY <2>1, <2>2, QuietStep DEF IInv, TypeOK
<1> QED
  BY <1>1, <1>2

LEMMA RefreshStep ==
  ASSUME IInv, NEW k \in Clients, NEW r \in Creds, Refresh(k, r)
  PROVE  IInv'
<1>1. CASE ~Usable(k, r)
  BY <1>1, QuietStep DEF Refresh, InvalidGrant, IInv, TypeOK
<1>2. CASE Usable(k, r)
  <2> DEFINE others == [refresh EXCEPT ![r].spent = TRUE]
             f == refresh[r].family
  <2>1. /\ IssueUserTokens(k, f, others)
        /\ UNCHANGED <<clock, userDecision, codes, revoked, nextFamily>>
    BY <1>2 DEF Refresh
  <2>2. r \in DOMAIN refresh /\ refresh[r] \in RefreshToken
        /\ refresh[r].client = k /\ ~refresh[r].spent
    BY <1>2 DEF Usable, IInv, TypeOK
  <2>3. f \in Family /\ others \in [DOMAIN refresh -> RefreshToken]
    BY <2>2 DEF IInv, TypeOK, RefreshToken
  <2>4. \A s \in DOMAIN refresh : /\ others[s].client = refresh[s].client
                                  /\ others[s].family = refresh[s].family
                                  /\ refresh[s].spent => others[s].spent
                                  /\ s = r => others[s].spent
    BY <2>2 DEF IInv, TypeOK, RefreshToken
  <2>5. \A s \in DOMAIN refresh : others[s].family = f => others[s].spent
    BY <2>2, <2>4 DEF IInv, OneLiveRefresh
  <2>6. codes' \in [DOMAIN codes -> Code]
    BY <2>1 DEF IInv, TypeOK
  <2>7. \E c \in DOMAIN codes : /\ codes'[c].family = f /\ codes'[c].redeemed
                                /\ codes'[c].client = k
    BY <2>1, <2>2 DEF IInv, TokensHaveOwner, RedeemedOf
  <2> HIDE DEF others, f
  <2> QED
    BY <2>1, <2>3, <2>4, <2>5, <2>6, <2>7, IssueStep
<1> QED
  BY <1>1, <1>2

LEMMA ClientCredentialsStep ==
  ASSUME IInv, NEW k \in Clients, NEW m, ClientCredentials(k, m)
  PROVE  IInv'
<1>1. CASE m # "basic"
  BY <1>1, QuietStep DEF ClientCredentials, IssueAppToken, InsertAccessToken, IInv, TypeOK
<1>2. CASE m = "basic"
  <2> DEFINE new == [kind |-> "app", client |-> k,
                     expiresAt |-> Add(clock, TokenLifetime), family |-> None]
  <2>1. /\ Fresh \in Creds /\ Fresh \notin DOMAIN codes
        /\ Fresh \notin DOMAIN access /\ Fresh \notin DOMAIN refresh
    BY <1>2, FreshUnused DEF ClientCredentials, IssueAppToken, InsertAccessToken, Unused
  <2>2. clock \in Nat /\ Add(clock, TokenLifetime) \in Nat
    BY AddType, OAuthAssumption DEF IInv, TypeOK
  <2>3. new \in AccessToken /\ new.kind = "app"
    BY <2>2 DEF AccessToken
  <2>4. access' = Insert(access, Fresh, new)
    BY <1>2 DEF ClientCredentials, IssueAppToken, InsertAccessToken
  <2> HIDE DEF new
  <2>5. /\ DOMAIN access' = DOMAIN access \cup {Fresh}
        /\ access' \in [DOMAIN access' -> AccessToken]
        /\ access'[Fresh] = new
        /\ \A a \in DOMAIN access : access'[a] = access[a]
    BY <2>1, <2>3, <2>4 DEF Insert, IInv, TypeOK
  <2>6. UNCHANGED <<clock, userDecision, codes, refresh, revoked, nextFamily>>
    BY DEF ClientCredentials, IssueAppToken, InsertAccessToken
  <2>7. TypeOK'
    BY <2>1, <2>5, <2>6 DEF IInv, TypeOK
  <2>8. CredentialsAreTyped'
    BY <2>1, <2>5, <2>6 DEF IInv, CredentialsAreTyped
  <2>9. TokensHaveOwner'
    BY <2>3, <2>5, <2>6 DEF IInv, TokensHaveOwner, RedeemedOf
  <2>10. OneCodePerFamily' /\ OneLiveRefresh'
    BY <2>6 DEF IInv, OneCodePerFamily, OneLiveRefresh
  <2> QED
    BY <2>7, <2>8, <2>9, <2>10 DEF IInv
<1> QED
  BY <1>1, <1>2

LEMMA IInvStep == IInv /\ [Next]_vars => IInv'
<1> SUFFICES ASSUME IInv, [Next]_vars PROVE IInv'
  OBVIOUS
<1>1. ASSUME NEW by \in 1 .. EndOfTime, AdvanceClock(by) PROVE IInv'
  <2>1. clock' \in 0 .. EndOfTime
    BY <1>1, AddType, OAuthAssumption DEF AdvanceClock, IInv, TypeOK
  <2> QED
    BY <1>1, <2>1, QuietStep DEF AdvanceClock, storeVars, IInv, TypeOK
<1>2. ASSUME NEW d \in {"approve", "deny"}, SetUserDecision(d) PROVE IInv'
  BY <1>2, QuietStep DEF SetUserDecision, storeVars, IInv, TypeOK
<1>3. CASE UNCHANGED vars
  BY <1>3, QuietStep DEF vars, storeVars, IInv, TypeOK
<1> QED
  BY <1>1, <1>2, <1>3, AuthorizeStep, RedeemStep, RefreshStep, ClientCredentialsStep
  DEF Next

LEMMA Invariance == Spec => []IInv
  BY InitIInv, IInvStep, PTL DEF Spec

-----------------------------------------------------------------------------
(* The tables of the store stay well-formed. *)
THEOREM TypeCorrect == Spec => []TypeOK
<1>1. IInv => TypeOK
  BY DEF IInv
<1> QED
  BY <1>1, Invariance, PTL

(* B40, B51: tokens belong to the client whose code started the session.   *)
THEOREM Ownership == Spec => []TokensHaveOwner
<1>1. IInv => TokensHaveOwner
  BY DEF IInv
<1> QED
  BY <1>1, Invariance, PTL

(* B55: no string is ever issued twice. *)
THEOREM TypedCredentials == Spec => []CredentialsAreTyped
<1>1. IInv => CredentialsAreTyped
  BY DEF IInv
<1> QED
  BY <1>1, Invariance, PTL

-----------------------------------------------------------------------------
(* No operation touches an access token that exists, forgives a session or *)
(* turns the clock back.                                                   *)
LEMMA Monotone ==
  ASSUME IInv, [Next]_vars, NEW a \in DOMAIN access
  PROVE  /\ a \in DOMAIN access' /\ access'[a] = access[a]
         /\ revoked \subseteq revoked'
         /\ clock <= clock'
<1> DEFINE Goal == /\ a \in DOMAIN access' /\ access'[a] = access[a]
                   /\ revoked \subseteq revoked'
                   /\ clock <= clock'
<1>0. clock \in Nat /\ clock <= EndOfTime /\ clock <= clock
  BY OAuthAssumption DEF IInv, TypeOK
<1>1. ASSUME NEW k \in Clients, NEW b \in Bindings, Authorize(k, b) PROVE Goal
  BY <1>0, <1>1 DEF Authorize, IssueCode, storeVars
<1>2. ASSUME NEW k \in Clients, NEW f \in Family, NEW others,
             others \in [DOMAIN refresh -> RefreshToken],
             IssueUserTokens(k, f, others)
      PROVE  a \in DOMAIN access' /\ access'[a] = access[a]
  BY <1>2, Issued DEF IInv
<1>3. ASSUME NEW k \in Clients, NEW c \in Creds, NEW b \in Bindings, RedeemCode(k, c, b)
      PROVE  Goal
  <2>1. CASE Owned(k, c) /\ ~codes[c].redeemed /\ Honoured(c, b)
    <3>1. codes[c].family \in Family /\ refresh \in [DOMAIN refresh -> RefreshToken]
      BY <2>1 DEF Owned, IInv, TypeOK, Code
    <3>2. IssueUserTokens(k, codes[c].family, refresh) /\ UNCHANGED <<revoked, clock>>
      BY <1>3, <2>1 DEF RedeemCode
    <3> QED
      BY <1>0, <1>2, <3>1, <3>2
  <2>2. CASE ~(Owned(k, c) /\ ~codes[c].redeemed /\ Honoured(c, b))
    BY <1>0, <1>3, <2>2 DEF RedeemCode, InvalidGrant
  <2> QED
    BY <2>1, <2>2
<1>4. ASSUME NEW k \in Clients, NEW r \in Creds, Refresh(k, r) PROVE Goal
  <2>1. CASE Usable(k, r)
    <3> DEFINE others == [refresh EXCEPT ![r].spent = TRUE]
    <3>1. refresh[r].family \in Family /\ others \in [DOMAIN refresh -> RefreshToken]
      BY <2>1 DEF Usable, IInv, TypeOK, RefreshToken
    <3>2. IssueUserTokens(k, refresh[r].family, others) /\ UNCHANGED <<revoked, clock>>
      BY <1>4, <2>1 DEF Refresh
    <3> HIDE DEF others
    <3> QED
      BY <1>0, <1>2, <3>1, <3>2
  <2>2. CASE ~Usable(k, r)
    BY <1>0, <1>4, <2>2 DEF Refresh, InvalidGrant
  <2> QED
    BY <2>1, <2>2
<1>5. ASSUME NEW k \in Clients, NEW m, ClientCredentials(k, m) PROVE Goal
  <2>1. m = "basic" => Fresh \notin DOMAIN access
    BY <1>5, FreshUnused DEF ClientCredentials, IssueAppToken, InsertAccessToken, Unused
  <2> QED
    BY <1>0, <1>5, <2>1 DEF ClientCredentials, IssueAppToken, InsertAccessToken, Insert
<1>6. ASSUME NEW by \in 1 .. EndOfTime, AdvanceClock(by) PROVE Goal
  BY <1>0, <1>6, AddType, OAuthAssumption DEF AdvanceClock, storeVars
<1>7. ASSUME NEW d \in {"approve", "deny"}, SetUserDecision(d) PROVE Goal
  BY <1>0, <1>7 DEF SetUserDecision, storeVars
<1>8. CASE UNCHANGED vars
  BY <1>0, <1>8 DEF vars, storeVars
<1> QED
  BY <1>1, <1>3, <1>4, <1>5, <1>6, <1>7, <1>8 DEF Next

(* B42, B56: an access token that is revoked or expired is never accepted  *)
(* again, whatever happens later.                                          *)
THEOREM NoRevival == Spec => InvalidForGood
<1>1. IInv /\ [Next]_vars =>
        [\A a \in DOMAIN access : ~IsValid(a) => ~IsValid(a)']_vars
  <2> SUFFICES ASSUME IInv, [Next]_vars, NEW a \in DOMAIN access, ~IsValid(a)
               PROVE  ~IsValid(a)'
    OBVIOUS
  <2>1. clock \in Nat /\ clock' \in Nat /\ access[a].expiresAt \in Nat
    BY IInvStep DEF IInv, TypeOK, AccessToken
  <2> QED
    BY <2>1, Monotone DEF IsValid
<1> QED
  BY <1>1, Invariance, PTL DEF Spec, InvalidForGood

-----------------------------------------------------------------------------
(* Sessions, as a whole: how the steps of the store look to a family.      *)

(* Nothing is issued and nothing is used up in family f. *)
Untouched(f) ==
  /\ AccessOf(f)' = AccessOf(f) /\ RefreshOf(f)' = RefreshOf(f)
  /\ SpentOf(f)' = SpentOf(f) /\ RedeemedOf(f)' = RedeemedOf(f)

(* A pair of tokens joins family f. *)
PairAdded(f) ==
  /\ \E a : a \notin AccessOf(f) /\ AccessOf(f)' = AccessOf(f) \cup {a}
  /\ \E r : r \notin RefreshOf(f) /\ RefreshOf(f)' = RefreshOf(f) \cup {r}

Offers == nextFamily' = nextFamily + 1 /\ UNCHANGED revoked /\ \A f \in Family : Untouched(f)

Activates(g) ==
  /\ UNCHANGED <<revoked, nextFamily>>
  /\ \A f \in Family \ {g} : Untouched(f)
  /\ PairAdded(g) /\ SpentOf(g)' = SpentOf(g)
  /\ RedeemedOf(g) = {} /\ \E c : RedeemedOf(g)' = {c}

Renews(g) ==
  /\ UNCHANGED <<revoked, nextFamily>>
  /\ \A f \in Family \ {g} : Untouched(f)
  /\ PairAdded(g) /\ \E r : r \notin SpentOf(g) /\ SpentOf(g)' = SpentOf(g) \cup {r}
  /\ RedeemedOf(g)' = RedeemedOf(g)
  /\ RedeemedOf(g) # {} /\ g \notin revoked

Revokes(g) ==
  /\ UNCHANGED nextFamily /\ revoked' = revoked \cup {g}
  /\ \A f \in Family : Untouched(f)
  /\ RedeemedOf(g) # {}

Rests == UNCHANGED <<revoked, nextFamily>> /\ \A f \in Family : Untouched(f)

(* What the operation did, seen from the sessions. *)
SessionStep == \/ Offers \/ Rests
               \/ \E g \in Family : Activates(g) \/ Renews(g) \/ Revokes(g)

LEMMA TablesRest ==
  ASSUME UNCHANGED <<codes, access, refresh>>
  PROVE  \A f \in Family : Untouched(f)
  BY DEF Untouched, AccessOf, RefreshOf, SpentOf, RedeemedOf

(* Issuing a pair concerns its family only.                                *)
LEMMA IssueLocal ==
  ASSUME IInv, NEW k \in Clients, NEW g \in Family, NEW others,
         others \in [DOMAIN refresh -> RefreshToken],
         \A r \in DOMAIN refresh : others[r].family = refresh[r].family,
         IssueUserTokens(k, g, others)
  PROVE  /\ PairAdded(g)
         /\ \A f \in Family \ {g} : AccessOf(f)' = AccessOf(f) /\ RefreshOf(f)' = RefreshOf(f)
         /\ \A f \in Family : SpentOf(f)' = {r \in RefreshOf(f) : others[r].spent}
<1>1. /\ Fresh \in Unused /\ Fresh2 \in Unused /\ Fresh # Fresh2
      /\ DOMAIN access' = DOMAIN access \cup {Fresh}
      /\ DOMAIN refresh' = DOMAIN refresh \cup {Fresh2}
      /\ access'[Fresh].family = g
      /\ refresh'[Fresh2] = [client |-> k, family |-> g, spent |-> FALSE]
      /\ \A a \in DOMAIN access : access'[a] = access[a]
      /\ \A r \in DOMAIN refresh : refresh'[r] = others[r]
  BY Issued DEF IInv
<1>2. Fresh \notin DOMAIN access /\ Fresh2 \notin DOMAIN refresh
  BY <1>1 DEF Unused
<1>3. AccessOf(g)' = AccessOf(g) \cup {Fresh} /\ Fresh \notin AccessOf(g)
  BY <1>1, <1>2 DEF AccessOf
<1>4. RefreshOf(g)' = RefreshOf(g) \cup {Fresh2} /\ Fresh2 \notin RefreshOf(g)
  BY <1>1, <1>2 DEF RefreshOf
<1>5. ASSUME NEW f \in Family \ {g}
      PROVE  AccessOf(f)' = AccessOf(f) /\ RefreshOf(f)' = RefreshOf(f)
  BY <1>1, <1>2 DEF AccessOf, RefreshOf
<1>6. ASSUME NEW f \in Family
      PROVE  SpentOf(f)' = {r \in RefreshOf(f) : others[r].spent}
  <2>1. \A r \in RefreshOf(f)' : refresh'[r].spent <=> r \in RefreshOf(f) /\ others[r].spent
    BY <1>1, <1>2 DEF RefreshOf
  <2>2. RefreshOf(f) \subseteq RefreshOf(f)'
    BY <1>4, <1>5
  <2> QED BY <2>1, <2>2 DEF SpentOf
<1> QED BY <1>3, <1>4, <1>5, <1>6 DEF PairAdded

LEMMA AuthorizeSeen ==
  ASSUME IInv, NEW k \in Clients, NEW b \in Bindings, Authorize(k, b)
  PROVE  SessionStep
<1>1. CASE userDecision = "deny"
  BY <1>1, TablesRest DEF Authorize, IssueCode, storeVars, SessionStep, Rests
<1>2. CASE userDecision = "approve"
  <2>1. /\ UNCHANGED <<access, refresh, revoked>> /\ nextFamily' = nextFamily + 1
        /\ codes' = Insert(codes, Fresh,
                 [client |-> k, binding |-> b, issuedAt |-> clock,
                  family |-> nextFamily, redeemed |-> FALSE])
    BY <1>2 DEF Authorize, IssueCode
  <2>2. Fresh \notin DOMAIN codes
    BY <1>2, FreshUnused DEF Authorize, IssueCode, Unused
  <2>3. ASSUME NEW f \in Family PROVE RedeemedOf(f)' = RedeemedOf(f)
    BY <2>1, <2>2 DEF RedeemedOf, Insert
  <2> QED BY <2>1, <2>3 DEF SessionStep, Offers, Untouched, AccessOf, RefreshOf, SpentOf
<1> QED BY <1>1, <1>2 DEF Authorize, IssueCode

LEMMA RedeemSeen ==
  ASSUME IInv, NEW k \in Clients, NEW c \in Creds, NEW b \in Bindings,
         RedeemCode(k, c, b)
  PROVE  SessionStep
<1>1. CASE ~Owned(k, c) \/ (~codes[c].redeemed /\ ~Honoured(c, b))
  BY <1>1, TablesRest DEF RedeemCode, InvalidGrant, SessionStep, Rests
<1>2. CASE Owned(k, c) /\ codes[c].redeemed
  <2>1. codes[c].family \in Family
    BY <1>2 DEF Owned, IInv, TypeOK, Code
  <2>2. /\ UNCHANGED <<codes, access, refresh, nextFamily>>
        /\ revoked' = revoked \cup {codes[c].family}
    BY <1>2 DEF RedeemCode, InvalidGrant
  <2> PICK g \in Family : g = codes[c].family
    BY <2>1
  <2>3. c \in RedeemedOf(g)
    BY <1>2 DEF Owned, RedeemedOf
  <2> QED BY <2>2, <2>3, TablesRest DEF SessionStep, Revokes
<1>3. CASE Owned(k, c) /\ ~codes[c].redeemed /\ Honoured(c, b)
  <2>0. c \in DOMAIN codes /\ codes[c] \in Code /\ codes[c].family \in Family
    BY <1>3 DEF Owned, IInv, TypeOK, Code
  <2> PICK g \in Family : g = codes[c].family
    BY <2>0
  <2>1. c \in DOMAIN codes /\ codes[c] \in Code /\ g = codes[c].family
    BY <2>0
  <2>2. /\ codes' = [codes EXCEPT ![c].redeemed = TRUE]
        /\ IssueUserTokens(k, g, refresh) /\ UNCHANGED <<revoked, nextFamily>>
    BY <1>3 DEF RedeemCode
  <2>3. /\ PairAdded(g)
        /\ \A f \in Family \ {g} : AccessOf(f)' = AccessOf(f) /\ RefreshOf(f)' = RefreshOf(f)
        /\ \A f \in Family : SpentOf(f)' = SpentOf(f)
    <3>1. refresh \in [DOMAIN refresh -> RefreshToken]
      BY DEF IInv, TypeOK
    <3> QED BY <2>2, <3>1, IssueLocal DEF SpentOf
  <2>4. /\ DOMAIN codes' = DOMAIN codes
        /\ \A d \in DOMAIN codes : /\ codes'[d].family = codes[d].family
                                  /\ codes'[d].redeemed = (d = c \/ codes[d].redeemed)
    BY <2>1, <2>2 DEF IInv, TypeOK, Code
  <2>5. \A f \in Family \ {g} : RedeemedOf(f)' = RedeemedOf(f)
    BY <2>4 DEF RedeemedOf
  <2>6. \A d \in DOMAIN codes : codes[d].family = g => d = c
    BY <2>1 DEF IInv, OneCodePerFamily
  <2>7. RedeemedOf(g) = {} /\ RedeemedOf(g)' = {c}
    BY <1>3, <2>1, <2>4, <2>6 DEF RedeemedOf
  <2>8. \E d : RedeemedOf(g)' = {d}
    BY <2>7
  <2>9. \A f \in Family \ {g} : Untouched(f)
    BY <2>3, <2>5 DEF Untouched
  <2>10. Activates(g)
    BY <2>1, <2>2, <2>3, <2>7, <2>8, <2>9, Zenon DEF Activates
  <2> QED BY <2>1, <2>10 DEF SessionStep
<1> QED BY <1>1, <1>2, <1>3

LEMMA RefreshSeen ==
  ASSUME IInv, NEW k \in Clients, NEW r \in Creds, Refresh(k, r)
  PROVE  SessionStep
<1>1. CASE ~Usable(k, r)
  BY <1>1, TablesRest DEF Refresh, InvalidGrant, SessionStep, Rests
<1>2. CASE Usable(k, r)
  <2> DEFINE others == [refresh EXCEPT ![r].spent = TRUE]
  <2>0. r \in DOMAIN refresh /\ refresh[r] \in RefreshToken /\ refresh[r].family \in Family
        /\ ~refresh[r].spent /\ refresh[r].family \notin revoked
    BY <1>2 DEF Usable, IInv, TypeOK, RefreshToken
  <2> PICK g \in Family : g = refresh[r].family
    BY <2>0
  <2>1. r \in DOMAIN refresh /\ refresh[r] \in RefreshToken /\ g = refresh[r].family
        /\ ~refresh[r].spent /\ g \notin revoked
    BY <2>0
  <2>2. IssueUserTokens(k, g, others) /\ UNCHANGED <<codes, revoked, nextFamily>>
    BY <1>2 DEF Refresh
  <2>3. /\ others \in [DOMAIN refresh -> RefreshToken]
        /\ \A s \in DOMAIN refresh : /\ others[s].family = refresh[s].family
                                    /\ others[s].spent = (s = r \/ refresh[s].spent)
    BY <2>1 DEF IInv, TypeOK, RefreshToken
  <2>4. RedeemedOf(g) # {}
    BY <2>1 DEF IInv, TokensHaveOwner
  <2>5. r \in RefreshOf(g) /\ r \notin SpentOf(g) /\ \A f \in Family \ {g} : r \notin RefreshOf(f)
    BY <2>1 DEF RefreshOf, SpentOf
  <2> HIDE DEF others
  <2>6. /\ PairAdded(g)
        /\ \A f \in Family \ {g} : AccessOf(f)' = AccessOf(f) /\ RefreshOf(f)' = RefreshOf(f)
        /\ \A f \in Family : SpentOf(f)' = {s \in RefreshOf(f) : others[s].spent}
    BY <2>1, <2>2, <2>3, IssueLocal
  <2>7. \A f \in Family : \A s \in RefreshOf(f) :
          others[s].spent = (s = r \/ refresh[s].spent)
    BY <2>3 DEF RefreshOf
  <2>8. \A f \in Family \ {g} : SpentOf(f)' = SpentOf(f)
    BY <2>5, <2>6, <2>7 DEF SpentOf
  <2>9. SpentOf(g)' = SpentOf(g) \cup {r}
    <3>1. \A s \in RefreshOf(g) : others[s].spent <=> s = r \/ refresh[s].spent
      BY <2>1, <2>7
    <3>2. SpentOf(g)' = {s \in RefreshOf(g) : others[s].spent}
      BY <2>1, <2>6
    <3> QED BY <2>5, <3>1, <3>2 DEF SpentOf
  <2>10. \A f \in Family : RedeemedOf(f)' = RedeemedOf(f)
    BY <2>2 DEF RedeemedOf
  <2>11. \A f \in Family \ {g} : Untouched(f)
    BY <2>6, <2>8, <2>10 DEF Untouched
  <2>12. \E s : s \notin SpentOf(g) /\ SpentOf(g)' = SpentOf(g) \cup {s}
    BY <2>5, <2>9
  <2>13. RedeemedOf(g)' = RedeemedOf(g)
    BY <2>1, <2>10
  <2>14. Renews(g)
    BY <2>1, <2>2, <2>4, <2>6, <2>11, <2>12, <2>13, Zenon DEF Renews
  <2> QED BY <2>1, <2>14 DEF SessionStep
<1> QED BY <1>1, <1>2

(* An app token belongs to no session. *)
LEMMA ClientCredentialsSeen ==
  ASSUME IInv, NEW k \in Clients, NEW m, ClientCredentials(k, m)
  PROVE  SessionStep
<1>1. UNCHANGED <<codes, refresh, revoked, nextFamily>>
  BY DEF ClientCredentials
<1>2. ASSUME NEW f \in Family PROVE AccessOf(f)' = AccessOf(f)
  <2>1. CASE m # "basic"
    BY <2>1 DEF ClientCredentials, AccessOf
  <2>2. CASE m = "basic"
    <3>1. Fresh \notin DOMAIN access
      BY <2>2, FreshUnused DEF ClientCredentials, IssueAppToken, InsertAccessToken, Unused
    <3>2. /\ DOMAIN access' = DOMAIN access \cup {Fresh}
          /\ access'[Fresh].family = None
          /\ \A a \in DOMAIN access : access'[a] = access[a]
      BY <2>2, <3>1 DEF ClientCredentials, IssueAppToken, InsertAccessToken, Insert
    <3>3. f # None
      BY OAuthAssumption DEF Family
    <3> QED BY <3>1, <3>2, <3>3 DEF AccessOf
  <2> QED BY <2>1, <2>2
<1> QED BY <1>1, <1>2
        DEF SessionStep, Rests, Untouched, RefreshOf, SpentOf, RedeemedOf

LEMMA EveryStepSeen == IInv /\ [Next]_vars => SessionStep
<1> SUFFICES ASSUME IInv, [Next]_vars PROVE SessionStep
  OBVIOUS
<1>1. ASSUME NEW by \in 1 .. EndOfTime, AdvanceClock(by) PROVE SessionStep
  BY <1>1, TablesRest DEF AdvanceClock, storeVars, SessionStep, Rests
<1>2. ASSUME NEW d \in {"approve", "deny"}, SetUserDecision(d) PROVE SessionStep
  BY <1>2, TablesRest DEF SetUserDecision, storeVars, SessionStep, Rests
<1>3. CASE UNCHANGED vars
  BY <1>3, TablesRest DEF vars, storeVars, SessionStep, Rests
<1> QED
  BY <1>1, <1>2, <1>3, AuthorizeSeen, RedeemSeen, RefreshSeen, ClientCredentialsSeen
  DEF Next

-----------------------------------------------------------------------------
(* Counting.  PairsArePaidFor with what it needs to be inductive: a step   *)
(* adds one element to a finite set, and only sessions that were activated *)
(* are revoked.                                                            *)
Countable ==
  \A f \in Family :
    /\ IsFiniteSet(AccessOf(f)) /\ IsFiniteSet(RefreshOf(f)) /\ IsFiniteSet(SpentOf(f))
    /\ RedeemedOf(f) = {} \/ \E c : RedeemedOf(f) = {c}

RevokedWereActive == \A f \in revoked : RedeemedOf(f) # {}

SessionInv == PairsArePaidFor /\ Countable /\ RevokedWereActive

LEMMA AtMostOne ==
  ASSUME NEW S, S = {} \/ \E x : S = {x}
  PROVE  /\ Cardinality(S) \in {0, 1}
         /\ S = {} => Cardinality(S) = 0
         /\ S # {} => Cardinality(S) = 1
<1>1. Cardinality({}) = 0
  BY FS_EmptySet
<1>2. \A x : Cardinality({x}) = 1
  BY FS_Singleton
<1> QED BY <1>1, <1>2

LEMMA OneMore ==
  ASSUME NEW S, NEW T, IsFiniteSet(S), \E x : x \notin S /\ T = S \cup {x}
  PROVE  IsFiniteSet(T) /\ Cardinality(T) = Cardinality(S) + 1
  BY FS_AddElement

LEMMA InitSessions == Init => SessionInv
<1> SUFFICES ASSUME Init PROVE SessionInv
  OBVIOUS
<1>1. \A f \in Family : /\ AccessOf(f) = {} /\ RefreshOf(f) = {}
                        /\ SpentOf(f) = {} /\ RedeemedOf(f) = {}
  BY DEF Init, Empty, AccessOf, RefreshOf, SpentOf, RedeemedOf
<1>2. IsFiniteSet({}) /\ Cardinality({}) = 0
  BY FS_EmptySet
<1>3. PairsArePaidFor
  <2> SUFFICES ASSUME NEW f \in Family
               PROVE /\ Cardinality(AccessOf(f)) = Cardinality(RefreshOf(f))
                     /\ Cardinality(RefreshOf(f))
                          = Cardinality(RedeemedOf(f)) + Cardinality(SpentOf(f))
                     /\ Cardinality(RedeemedOf(f)) <= 1
    BY DEF PairsArePaidFor
  <2>1. /\ Cardinality(AccessOf(f)) = 0 /\ Cardinality(RefreshOf(f)) = 0
        /\ Cardinality(SpentOf(f)) = 0 /\ Cardinality(RedeemedOf(f)) = 0
    BY <1>1, <1>2
  <2> QED BY <2>1
<1>4. Countable
  BY <1>1, <1>2 DEF Countable
<1>5. RevokedWereActive
  BY DEF Init, RevokedWereActive
<1> QED BY <1>3, <1>4, <1>5 DEF SessionInv

(* The count of one family, when it is left alone and when it gets a pair. *)
Paid(f) ==
  /\ Cardinality(AccessOf(f)) = Cardinality(RefreshOf(f))
  /\ Cardinality(RefreshOf(f)) = Cardinality(RedeemedOf(f)) + Cardinality(SpentOf(f))
  /\ Cardinality(RedeemedOf(f)) <= 1
  /\ IsFiniteSet(AccessOf(f)) /\ IsFiniteSet(RefreshOf(f)) /\ IsFiniteSet(SpentOf(f))
  /\ RedeemedOf(f) = {} \/ \E c : RedeemedOf(f) = {c}

LEMMA PaidForAll == PairsArePaidFor /\ Countable <=> \A f \in Family : Paid(f)
  BY DEF PairsArePaidFor, Countable, Paid

LEMMA UntouchedPaid ==
  ASSUME NEW f \in Family, Paid(f), Untouched(f)
  PROVE  Paid(f)'
  BY DEF Paid, Untouched

(* A session without a redeemed code has no tokens. *)
LEMMA InactiveIsEmpty ==
  ASSUME IInv, NEW f \in Family, RedeemedOf(f) = {}
  PROVE  RefreshOf(f) = {} /\ SpentOf(f) = {}
  BY DEF IInv, TokensHaveOwner, RefreshOf, SpentOf

LEMMA ActivatedPaid ==
  ASSUME IInv, NEW g \in Family, Paid(g), Activates(g)
  PROVE  Paid(g)' /\ Cardinality(RefreshOf(g)') = 1
<1>1. /\ IsFiniteSet(AccessOf(g)') /\ IsFiniteSet(RefreshOf(g)')
      /\ Cardinality(AccessOf(g)') = Cardinality(AccessOf(g)) + 1
      /\ Cardinality(RefreshOf(g)') = Cardinality(RefreshOf(g)) + 1
  BY OneMore DEF Activates, PairAdded, Paid
<1>2. \E c : RedeemedOf(g)' = {c}
  BY DEF Activates
<1>3. Cardinality(RedeemedOf(g)') = 1
  BY <1>2, AtMostOne
<1>4. RefreshOf(g) = {} /\ SpentOf(g) = {} /\ SpentOf(g)' = {}
  BY InactiveIsEmpty DEF Activates
<1>5. IsFiniteSet({}) /\ Cardinality({}) = 0
  BY FS_EmptySet
<1>6. Cardinality(RefreshOf(g)') = 1 /\ Cardinality(AccessOf(g)') = 1
  BY <1>1, <1>4, <1>5 DEF Paid
<1> QED BY <1>1, <1>2, <1>3, <1>4, <1>5, <1>6 DEF Paid

LEMMA RenewedPaid ==
  ASSUME NEW g \in Family, Paid(g), Renews(g)
  PROVE  Paid(g)' /\ Cardinality(RefreshOf(g)') = Cardinality(RefreshOf(g)) + 1
<1>1. /\ IsFiniteSet(AccessOf(g)') /\ IsFiniteSet(RefreshOf(g)') /\ IsFiniteSet(SpentOf(g)')
      /\ Cardinality(AccessOf(g)') = Cardinality(AccessOf(g)) + 1
      /\ Cardinality(RefreshOf(g)') = Cardinality(RefreshOf(g)) + 1
      /\ Cardinality(SpentOf(g)') = Cardinality(SpentOf(g)) + 1
  BY OneMore DEF Renews, PairAdded, Paid
<1>2. RedeemedOf(g)' = RedeemedOf(g)
  BY DEF Renews
<1>3. Cardinality(SpentOf(g)) \in Nat /\ Cardinality(RedeemedOf(g)) \in {0, 1}
  BY FS_CardinalityType, AtMostOne DEF Paid
<1> QED BY <1>1, <1>2, <1>3 DEF Paid

LEMMA SessionInvStep == IInv /\ SessionInv /\ SessionStep => SessionInv'
<1> SUFFICES ASSUME IInv, SessionInv, SessionStep PROVE SessionInv'
  OBVIOUS
<1>1. \A f \in Family : Paid(f)
  BY PaidForAll DEF SessionInv
<1>2. revoked \subseteq Family
  BY DEF IInv, TypeOK
<1>3. CASE Offers \/ Rests
  <2>1. /\ \A f \in Family : Untouched(f)
        /\ UNCHANGED revoked
    BY <1>3 DEF Offers, Rests
  <2>2. \A f \in Family : Paid(f)'
    BY <1>1, <2>1, UntouchedPaid
  <2>3. RevokedWereActive'
    BY <1>2, <2>1 DEF SessionInv, RevokedWereActive, Untouched
  <2> QED BY <2>2, <2>3, PaidForAll DEF SessionInv, PairsArePaidFor, Countable, Paid
<1>4. ASSUME NEW g \in Family, Activates(g) \/ Renews(g) PROVE SessionInv'
  <2>1. /\ \A f \in Family \ {g} : Untouched(f)
        /\ UNCHANGED revoked /\ RedeemedOf(g)' # {}
    BY <1>4 DEF Activates, Renews
  <2>2. Paid(g)'
    BY <1>1, <1>4, ActivatedPaid, RenewedPaid
  <2>3. \A f \in Family : Paid(f)'
    BY <1>1, <2>1, <2>2, UntouchedPaid
  <2>4. RevokedWereActive'
    BY <1>2, <2>1 DEF SessionInv, RevokedWereActive, Untouched
  <2> QED BY <2>3, <2>4 DEF SessionInv, PairsArePaidFor, Countable, Paid
<1>5. ASSUME NEW g \in Family, Revokes(g) PROVE SessionInv'
  <2>1. /\ \A f \in Family : Untouched(f)
        /\ revoked' = revoked \cup {g} /\ RedeemedOf(g) # {}
    BY <1>5 DEF Revokes
  <2>2. \A f \in Family : Paid(f)'
    BY <1>1, <2>1, UntouchedPaid
  <2>3. RevokedWereActive'
    BY <1>2, <2>1 DEF SessionInv, RevokedWereActive, Untouched
  <2> QED BY <2>2, <2>3 DEF SessionInv, PairsArePaidFor, Countable, Paid
<1> QED BY <1>3, <1>4, <1>5 DEF SessionStep

LEMMA SessionInvariance == Spec => [](IInv /\ SessionInv)
<1>1. Init => IInv /\ SessionInv
  BY InitIInv, InitSessions
<1>2. IInv /\ SessionInv /\ [Next]_vars => (IInv /\ SessionInv)'
  BY IInvStep, EveryStepSeen, SessionInvStep
<1> QED BY <1>1, <1>2, PTL DEF Spec

(* B41, B45: every pair of tokens a session has was paid for with a code   *)
(* or a refresh token that is used up, and a code pays for one pair only.  *)
THEOREM EveryPairPaid == Spec => []PairsArePaidFor
<1>1. IInv /\ SessionInv => PairsArePaidFor
  BY DEF SessionInv
<1> QED BY <1>1, SessionInvariance, PTL

-----------------------------------------------------------------------------
(* The store implements Sessions.                                          *)

statusOf == [f \in Family |-> Status(f)]
renewalsOf == [f \in Family |-> Cardinality(RefreshOf(f))]

LEMMA StatusIs ==
  ASSUME IInv, SessionInv, NEW f \in Family
  PROVE  /\ f >= nextFamily => Status(f) = "absent" /\ RedeemedOf(f) = {} /\ f \notin revoked
         /\ Status(f) = "revoked" <=> f \in revoked
         /\ Status(f) = "active" <=> RedeemedOf(f) # {} /\ f \notin revoked
         /\ Status(f) = "offered" <=> f < nextFamily /\ RedeemedOf(f) = {}
<1>1. nextFamily \in Nat /\ f \in Nat
  BY OAuthAssumption DEF IInv, TypeOK, Family
<1>2. RedeemedOf(f) # {} => f < nextFamily
  BY DEF IInv, OneCodePerFamily, RedeemedOf
<1>3. f \in revoked => RedeemedOf(f) # {}
  BY DEF SessionInv, RevokedWereActive
<1> QED BY <1>1, <1>2, <1>3 DEF Status

LEMMA Mapped ==
  ASSUME IInv, SessionInv, IInv', SessionInv', SessionStep
  PROVE  [Abstract!Next]_<<statusOf, renewalsOf>>
<1> DEFINE Goal == [Abstract!Next]_<<statusOf, renewalsOf>>
<1>0. nextFamily \in Nat /\ \A f \in Family : f \in Nat
  BY OAuthAssumption DEF IInv, TypeOK, Family
<1>1. ASSUME NEW f \in Family, Untouched(f), nextFamily' = nextFamily, revoked' = revoked
      PROVE  Status(f)' = Status(f)
  BY <1>1 DEF Status, Untouched
<1>2. CASE Rests
  <2>1. /\ statusOf' = statusOf
        /\ renewalsOf' = renewalsOf
    BY <1>1, <1>2 DEF Rests, statusOf, renewalsOf, Untouched
  <2> QED BY <2>1
<1>3. CASE Offers
  <2>1. nextFamily \in Family
    BY <1>3, OAuthAssumption DEF Offers, IInv, TypeOK, Family
  <2> PICK g \in Family : g = nextFamily
    BY <2>1
  <2>2. Status(g) = "absent" /\ RedeemedOf(g) = {} /\ g \notin revoked
    BY <1>0, StatusIs
  <2>3. Status(g)' = "offered"
    BY <1>0, <1>3, <2>2 DEF Status, Offers, Untouched
  <2>4. \A f \in Family \ {g} : Status(f)' = Status(f)
    BY <1>0, <1>3 DEF Status, Offers, Untouched
  <2>5. renewalsOf' = renewalsOf
    BY <1>3 DEF Offers, Untouched, renewalsOf
  <2>6. Abstract!Offer(g)
    BY <2>2, <2>3, <2>4, <2>5 DEF Abstract!Offer, Abstract!Become, statusOf, renewalsOf
  <2> QED BY <2>6 DEF Abstract!Next
<1>4. ASSUME NEW g \in Family, Activates(g) PROVE Goal
  <2>1. UNCHANGED <<revoked, nextFamily>> /\ \A f \in Family \ {g} : Untouched(f)
    BY <1>4 DEF Activates
  <2>2. RedeemedOf(g) = {} /\ RedeemedOf(g)' # {}
    BY <1>4 DEF Activates
  <2>3. g < nextFamily
    BY <1>0, <2>1, <2>2 DEF IInv, OneCodePerFamily, RedeemedOf
  <2>4. Status(g) = "offered" /\ g \notin revoked
    BY <2>2, <2>3, StatusIs DEF SessionInv, RevokedWereActive
  <2>5. Status(g)' = "active"
    BY <1>0, <2>1, <2>2, <2>3, <2>4 DEF Status
  <2>6. \A f \in Family \ {g} : Status(f)' = Status(f)
    BY <1>1, <2>1
  <2>7. Cardinality(RefreshOf(g)') = 1
    BY <1>4, ActivatedPaid, PaidForAll DEF SessionInv
  <2>8. \A f \in Family \ {g} : RefreshOf(f)' = RefreshOf(f)
    BY <2>1 DEF Untouched
  <2>9. Abstract!Activate(g)
    BY <2>4, <2>5, <2>6, <2>7, <2>8
    DEF Abstract!Activate, Abstract!Become, statusOf, renewalsOf
  <2> QED BY <2>9 DEF Abstract!Next
<1>5. ASSUME NEW g \in Family, Renews(g) PROVE Goal
  <2>1. UNCHANGED <<revoked, nextFamily>> /\ \A f \in Family \ {g} : Untouched(f)
    BY <1>5 DEF Renews
  <2>2. RedeemedOf(g) # {} /\ RedeemedOf(g)' = RedeemedOf(g) /\ g \notin revoked
    BY <1>5 DEF Renews
  <2>3. Status(g) = "active"
    BY <2>2, StatusIs
  <2>4. Status(g)' = Status(g)
    BY <2>1, <2>2 DEF Status
  <2>5. \A f \in Family \ {g} : Status(f)' = Status(f)
    BY <1>1, <2>1
  <2>6. Cardinality(RefreshOf(g)') = Cardinality(RefreshOf(g)) + 1
    BY <1>5, RenewedPaid, PaidForAll DEF SessionInv
  <2>7. \A f \in Family \ {g} : RefreshOf(f)' = RefreshOf(f)
    BY <2>1 DEF Untouched
  <2>8. Abstract!Renew(g)
    BY <2>3, <2>4, <2>5, <2>6, <2>7
    DEF Abstract!Renew, Abstract!Become, statusOf, renewalsOf
  <2> QED BY <2>8 DEF Abstract!Next
<1>6. ASSUME NEW g \in Family, Revokes(g) PROVE Goal
  <2>1. /\ UNCHANGED nextFamily /\ revoked' = revoked \cup {g}
        /\ \A f \in Family : Untouched(f) /\ RedeemedOf(g) # {}
    BY <1>6 DEF Revokes
  <2>2. renewalsOf' = renewalsOf
    BY <2>1 DEF Untouched, renewalsOf
  <2>3. \A f \in Family \ {g} : Status(f)' = Status(f)
    BY <2>1 DEF Status, Untouched
  <2>4. CASE g \in revoked
    <3>1. revoked' = revoked
      BY <2>1, <2>4
    <3>2. statusOf' = statusOf
      BY <1>1, <2>1, <3>1 DEF statusOf
    <3> QED BY <2>2, <3>2
  <2>5. CASE g \notin revoked
    <3>1. Status(g) = "active" /\ g < nextFamily
      BY <1>0, <2>1, <2>5, StatusIs
    <3>2. Status(g)' = "revoked"
      BY <1>0, <2>1, <3>1 DEF Status
    <3>3. Abstract!Revoke(g)
      BY <2>2, <2>3, <3>1, <3>2
      DEF Abstract!Revoke, Abstract!Become, statusOf, renewalsOf
    <3> QED BY <3>3 DEF Abstract!Next
  <2> QED BY <2>4, <2>5
<1> QED BY <1>2, <1>3, <1>4, <1>5, <1>6 DEF SessionStep

(* B60: the store keeps the promise of Sessions: each session is offered,  *)
(* activated once, renewed one pair at a time and revoked for good, and no *)
(* step of one concerns another.                                           *)
THEOREM Refinement == Spec => IndependentSessions
<1>1. Init => Abstract!Init
  <2> SUFFICES ASSUME Init PROVE Abstract!Init
    OBVIOUS
  <2>1. \A f \in Family : f >= nextFamily /\ RefreshOf(f) = {}
    BY OAuthAssumption DEF Init, Empty, RefreshOf, Family
  <2>2. Cardinality({}) = 0
    BY FS_EmptySet
  <2>3. /\ statusOf = [f \in Family |-> "absent"]
        /\ renewalsOf = [f \in Family |-> 0]
    BY <2>1, <2>2 DEF statusOf, renewalsOf, Status
  <2> QED BY <2>3 DEF Abstract!Init, statusOf, renewalsOf
<1>2. (IInv /\ SessionInv) /\ (IInv /\ SessionInv)' /\ [Next]_vars
        => [Abstract!Next]_(Abstract!vars)
  BY EveryStepSeen, Mapped DEF Abstract!vars, statusOf, renewalsOf
<1> QED
  BY <1>1, <1>2, SessionInvariance, PTL DEF Spec, IndependentSessions, Abstract!Spec
=============================================================================
