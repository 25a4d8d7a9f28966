------------------------------ MODULE Sessions ------------------------------
(***************************************************************************)
(* What the authorization server promises about sessions.  A session is    *)
(* offered to a client (an authorization code), becomes active once (the   *)
(* code is redeemed), is renewed any number of times (refreshes) and may   *)
(* be revoked, for good.  Each step concerns one session only.             *)
(***************************************************************************)
EXTENDS Naturals

CONSTANT Ids

VARIABLES status,   \* per session
          renewals  \* per session: pairs of tokens handed out

vars == <<status, renewals>>

Init == /\ status = [s \in Ids |-> "absent"]
        /\ renewals = [s \in Ids |-> 0]

Become(s, from, to) == status[s] = from /\ status' = [status EXCEPT ![s] = to]

Offer(s) == Become(s, "absent", "offered") /\ UNCHANGED renewals

Activate(s) ==
  Become(s, "offered", "active") /\ renewals' = [renewals EXCEPT ![s] = 1]

Renew(s) ==
  Become(s, "active", "active") /\ renewals' = [renewals EXCEPT ![s] = @ + 1]

Revoke(s) == Become(s, "active", "revoked") /\ UNCHANGED renewals

Next == \E s \in Ids : Offer(s) \/ Activate(s) \/ Renew(s) \/ Revoke(s)

Spec == Init /\ [][Next]_vars
=============================================================================
