---------------------------- MODULE MCEndpoints ----------------------------
(* Model-checking instance of Endpoints: two clients, and requests that    *)
(* may be wrong in every parameter at once.                                *)
EXTENDS Endpoints, TLC

TwoClients == "a" :> [secret |-> "sa", uris |-> {"ua"}] @@
              "b" :> [secret |-> "sb", uris |-> {"ub", "ub2"}]

Given(v) == {<< >>, <<"blank">>, <<v>>}
Ids == {<< >>, <<"blank">>, <<"a">>, <<"stranger">>, <<"a", "a">>}

MCAuthorizeRequests ==
  [kind : {"authorize"}, method : {"GET", "POST"}, decision : {"approve", "deny"},
   params : {[client_id |-> id, redirect_uri |-> uri, response_type |-> type,
              code_challenge |-> challenge, code_challenge_method |-> method,
              state |-> state] :
                id \in Ids, uri \in {<< >>, <<"ua">>, <<"ub">>, <<"ua", "ua">>},
                type \in Given("code") \cup {<<"token">>, <<"code", "token">>},
                challenge \in {<< >>, <<"challenge">>, <<"challenge", "blank">>},
                method \in {<< >>, <<"S256">>, <<"plain">>, <<"S256", "plain">>},
                state \in {<< >>, <<"blank">>, <<"s">>, <<"s", "t">>}}]

Params(ids, secrets, codes, tokens) ==
  {[grant_type |-> grant, client_id |-> id, client_secret |-> secret, code |-> code,
    redirect_uri |-> uri, code_verifier |-> verifier, refresh_token |-> token] :
      grant \in {<< >>, <<"authorization_code">>, <<"refresh_token">>,
                 <<"client_credentials">>, <<"password">>,
                 <<"refresh_token", "authorization_code">>},
      id \in ids, secret \in secrets, code \in codes,
      uri \in {<< >>, <<"ua">>}, verifier \in {<< >>, <<"verifier">>}, token \in tokens}

Header(scheme, id, secret) == [scheme |-> scheme, id |-> id, secret |-> secret]
Headers == {Header("none", "blank", "blank"), Header("unusable", "blank", "blank"),
            Header("basic", "a", "sa"), Header("basic", "a", "sb"),
            Header("basic", "stranger", "sa")}
Request(method, isForm, body, h, p) ==
  [kind |-> "token", method |-> method, isForm |-> isForm, body |-> body,
   scheme |-> h.scheme, id |-> h.id, secret |-> h.secret, params |-> p]

MCTokenRequests ==
  {Request("POST", TRUE, "read", h, p) : h \in Headers,
     p \in Params(Ids, Given("sa") \cup {<<"sb">>, <<"sb", "sa">>},
                  {<< >>, <<"code">>, <<"code", "code">>}, Given("token"))}
  \cup
  {Request(method, isForm, body, h, p) : method \in {"GET", "POST"}, isForm \in BOOLEAN,
     body \in {"read", "oversized", "broken"}, h \in Headers,
     p \in Params({<<"a">>}, {<<"sa">>, <<"sb", "sa">>}, {<<"code">>}, {<<"token">>})}
=============================================================================
