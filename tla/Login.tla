------------------------------- MODULE Login -------------------------------
(***************************************************************************)
(* Logging in (rsc: auth/callback.rs, auth/pkce.rs, and the first token    *)
(* request of auth/client.rs and auth/manager.rs): the listener on the     *)
(* loopback port that waits for the redirect, with the browser and the     *)
(* authorization server around it.  Logins are tried one after the other   *)
(* or at the same time, on the one registered port; browsers probe it,     *)
(* open connections they never use, reload old tabs and answer late.       *)
(*                                                                         *)
(* `state', verifier and challenge are fresh random strings, so each of    *)
(* them is as good as the attempt it was drawn for.                        *)
(***************************************************************************)
EXTENDS Naturals, Sequences

CONSTANTS
  Attempts,       \* the logins that are tried
  Nobody,         \* not one of them
  Overall,        \* `overall' of wait_for_code
  PerConnection,  \* `per_connection' of wait_for_code_with
  MaxAnswers,     \* bound of the model: answers of the server to a login
  MaxConnections  \* bound of the model: connections that are made

ASSUME LoginAssumption ==
  /\ Nobody \notin Attempts
  /\ Overall \in Nat /\ PerConnection \in Nat

VARIABLES
  stage,          \* of each attempt
  why,            \* it has failed
  code,           \* what its wait_for_code has returned
  port,           \* the attempt that listens on it
  queue,          \* the connections it has not closed; the first is read
  left,           \* time until `overall' is over
  quiet,          \* time the first connection may stay silent
  tabs,           \* redirects the browser has been given
  came,           \* redirects that came to the listener of each attempt
  made,           \* number of connections
  redeemed        \* codes the server has traded for tokens
listener == <<port, queue, left, quiet>>
browser == <<tabs, came, made>>
vars == <<stage, why, code, listener, browser, redeemed>>

(* `of' is the attempt named by its state, and what its code is bound to. *)
Redirect == [of : Attempts \cup {Nobody}, answer : {"code", "error", "neither"}, n : Nat]
NoRedirect == [of |-> Nobody, answer |-> "neither", n |-> 0]

(* inTime: it is certain to be read, even if those ahead are all silent. *)
Connection == [says : {"nothing", "closes", "other", "redirect"},
               redirect : Redirect, inTime : BOOLEAN]

TypeOK ==
  /\ stage \in [Attempts -> {"new", "bound", "waiting", "exchanging", "saving", "in", "out"}]
  /\ why \in [Attempts -> {"none", "port", "accept", "timeout", "state", "denied",
                           "codeless", "exchange", "storage"}]
  /\ code \in [Attempts -> Redirect]
  /\ port \in Attempts \cup {Nobody}
  /\ queue \in Seq(Connection)
  /\ left \in 0 .. Overall /\ quiet \in 0 .. PerConnection
  /\ tabs \subseteq Redirect
  /\ came \in [Attempts -> SUBSET Redirect]
  /\ made \in Nat
  /\ redeemed \subseteq Redirect

(* A tab of some other login may be open from the start. *)
Init ==
  /\ stage = [a \in Attempts |-> "new"] /\ why = [a \in Attempts |-> "none"]
  /\ code = [a \in Attempts |-> NoRedirect]
  /\ port = Nobody /\ queue = << >> /\ left = Overall /\ quiet = PerConnection
  /\ tabs = {[of |-> Nobody, answer |-> "code", n |-> 1]}
  /\ came = [a \in Attempts |-> {}] /\ made = 0
  /\ redeemed = {}

Go(a, from, to) == stage[a] = from /\ stage' = [stage EXCEPT ![a] = to]
Fail(a, reason) ==
  /\ stage' = [stage EXCEPT ![a] = "out"]
  /\ why' = [why EXCEPT ![a] = reason]

-----------------------------------------------------------------------------
(* The program.  Mutants, here and below, are bugs it could have had.      *)

(* pkce::generate, random_state, bind. *)
Bind(a) ==
  /\ stage[a] = "new"
  /\ IF port = Nobody
     THEN /\ Go(a, "new", "bound") /\ UNCHANGED why
          /\ port' = a /\ queue' = << >> /\ left' = Overall /\ quiet' = PerConnection
     ELSE Fail(a, "port") /\ UNCHANGED listener
  /\ UNCHANGED <<code, browser, redeemed>>

(* The browser is sent to authorize_url, and wait_for_code is called. *)
Open(a) ==
  /\ Go(a, "bound", "waiting")
  /\ UNCHANGED <<why, code, listener, browser, redeemed>>

(* Mutant: whoever brings a code is welcome. *)
Parse_AnyState(a, r) ==
  CASE r.answer = "error" -> "denied" [] r.answer = "neither" -> "codeless" [] OTHER -> "none"

(* parse_request_line of a GET /callback: the state is looked at first. *)
Parse(a, r) ==
  CASE r.of # a             -> "state"
    [] r.of = a /\ r.answer = "error"   -> "denied"
    [] r.of = a /\ r.answer = "neither" -> "codeless"
    [] OTHER                -> "none"

Waits == port # Nobody /\ stage[port] = "waiting"

(* Mutant: a read may take for ever. *)
IsOver_Never == Head(queue).says # "nothing"

(* read_request_line returns. *)
IsOver == Head(queue).says = "nothing" => quiet = 0

(* What the runtime has to do before time passes. *)
Busy == queue # << >> /\ IsOver

(* The listener is dropped, and with it the connections. *)
Close == port' = Nobody /\ queue' = << >> /\ UNCHANGED <<left, quiet>>

(* Mutant: a malformed request is a bad redirect. *)
Pass_Fails ==
  \/ /\ Head(queue).says \in {"nothing", "closes"}
     /\ queue' = Tail(queue) /\ quiet' = PerConnection
     /\ UNCHANGED <<stage, why, code, port, left>>
  \/ /\ Head(queue).says = "other"
     /\ Fail(port, "state") /\ Close /\ UNCHANGED code

(* Silent or closed: no answer.  Another path, or malformed: a 404. *)
Pass ==
  /\ Head(queue).says # "redirect"
  /\ queue' = Tail(queue) /\ quiet' = PerConnection
  /\ UNCHANGED <<stage, why, code, port, left>>

(* A redirect ends the wait. *)
Answer ==
  LET r == Head(queue).redirect IN
  /\ Head(queue).says = "redirect"
  /\ IF Parse(port, r) = "none"
     THEN /\ Go(port, "waiting", "exchanging") /\ UNCHANGED why
          /\ code' = [code EXCEPT ![port] = r]
     ELSE Fail(port, Parse(port, r)) /\ UNCHANGED code
  /\ Close

Serve == Waits /\ Busy /\ (Pass \/ Answer) /\ UNCHANGED <<browser, redeemed>>

AcceptFails ==
  /\ Waits /\ queue = << >>
  /\ Fail(port, "accept") /\ Close
  /\ UNCHANGED <<code, browser, redeemed>>

(* Mutant: the wait is not bounded. *)
TimeOut_Never == FALSE

(* What has become readable meanwhile may be seen first, or not. *)
TimeOut ==
  /\ Waits /\ left = 0
  /\ Fail(port, "timeout") /\ Close
  /\ UNCHANGED <<code, browser, redeemed>>

(* complete_login asks for tokens, with the verifier of the attempt.  The  *)
(* server may also find the code expired, and the answer may be lost.      *)
Exchange(a) ==
  /\ stage[a] = "exchanging"
  /\ \/ /\ code[a].of = a /\ code[a] \notin redeemed
        /\ redeemed' = redeemed \cup {code[a]}
        /\ \/ Go(a, "exchanging", "saving") /\ UNCHANGED why
           \/ Fail(a, "exchange")
     \/ Fail(a, "exchange") /\ UNCHANGED redeemed
  /\ UNCHANGED <<code, listener, browser>>

Save(a) ==
  /\ stage[a] = "saving"
  /\ \/ Go(a, "saving", "in") /\ UNCHANGED why
     \/ Fail(a, "storage")
  /\ UNCHANGED <<code, listener, browser, redeemed>>

Tick ==
  /\ Waits /\ ~Busy /\ left > 0
  /\ left' = left - 1
  /\ quiet' = IF queue = << >> THEN quiet ELSE quiet - 1
  /\ UNCHANGED <<stage, why, code, port, queue, browser, redeemed>>

-----------------------------------------------------------------------------
(* The browser and the server.                                             *)

Program == <<stage, why, code, port, left, quiet, redeemed>>
Opened(a) == stage[a] \notin {"new", "bound"} /\ why[a] # "port"

(* The page of attempt a is answered, once more if it is reloaded. *)
Authorize(a) ==
  /\ Opened(a)
  /\ \E n \in 1 .. MaxAnswers, answer \in {"code", "error", "neither"} :
       /\ \A r \in tabs : r.of = a => r.n < n
       /\ tabs' = tabs \cup {[of |-> a, answer |-> answer, n |-> n]}
  /\ UNCHANGED <<Program, queue, came, made>>

(* i connections are ahead. *)
InTime(i) == left > PerConnection * i

Say(what, r, i) == [says |-> what, redirect |-> r, inTime |-> InTime(i)]

Connect(what, r) ==
  /\ port # Nobody /\ made < MaxConnections
  /\ made' = made + 1
  /\ queue' = Append(queue, Say(what, r, Len(queue)))

Stray ==
  /\ \E what \in {"nothing", "closes", "other"} : Connect(what, NoRedirect)
  /\ UNCHANGED <<Program, tabs, came>>

(* Old or new, again or not; over a new connection or one that was open. *)
Follow(r) ==
  /\ port # Nobody
  /\ \/ Connect("redirect", r)
     \/ /\ \E i \in DOMAIN queue :
             /\ queue[i].says = "nothing"
             /\ queue' = [queue EXCEPT ![i] = Say("redirect", r, i - 1)]
        /\ UNCHANGED made
  /\ came' = [came EXCEPT ![port] = @ \cup {r}]
  /\ UNCHANGED <<Program, tabs>>

-----------------------------------------------------------------------------
Next ==
  \/ \E a \in Attempts : Bind(a) \/ Open(a) \/ Exchange(a) \/ Save(a) \/ Authorize(a)
  \/ Serve \/ AcceptFails \/ TimeOut \/ Tick
  \/ Stray \/ \E r \in tabs : Follow(r)

Spec == Init /\ [][Next]_vars

(* The runtime polls what is ready, and time passes. *)
FairSpec == Spec /\ WF_vars(Serve) /\ WF_vars(TimeOut) /\ WF_vars(Tick)

-----------------------------------------------------------------------------
(* The code that a login presents is one the server has issued for it, and *)
(* the user has been redirected with it since: a code of another login is  *)
(* never presented, which is also why none is presented twice (the server  *)
(* would then revoke the session).                                         *)
OwnCode ==
  \A a \in Attempts :
    code[a] # NoRedirect =>
      code[a].of = a /\ code[a].answer = "code" /\ code[a] \in came[a] \cap tabs

(* Silent connections take at most PerConnection each: a redirect that has *)
(* come early enough is read before the wait times out.                    *)
NotStarved ==
  Waits /\ left = 0 =>
    \A i \in DOMAIN queue : queue[i].says = "redirect" => ~queue[i].inTime

(* A wait that fails by what somebody said (not by time or by the listener *)
(* itself) fails by a redirect that says so: a stray never looks like one. *)
StraysHarmless ==
  \A a \in Attempts :
    /\ why[a] = "state" => \E r \in came[a] : r.of # a
    /\ why[a] = "denied" => \E r \in came[a] : r.of = a /\ r.answer = "error"
    /\ why[a] = "codeless" => \E r \in came[a] : r.of = a /\ r.answer = "neither"

(* The wait ends, whoever connects and however silent.                     *)
WaitEnds == \A a \in Attempts : stage[a] = "waiting" ~> stage[a] # "waiting"
=============================================================================
