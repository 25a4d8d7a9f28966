------------------------- MODULE AuthManagerProofs -------------------------
(***************************************************************************)
(* The token pairs of AuthManager on their way from the server into the    *)
(* file, as long as no two saves have overlapped (torn).                   *)
(*                                                                         *)
(* Session holds for any number of processes and logins at any time: a     *)
(* pair is known to one task until it is saved, the stored pair has no     *)
(* saved successor, and if it has been used its successor is on its way or *)
(* was lost.                                                               *)
(*                                                                         *)
(* OneProcess makes one lock of all: Current says that what a task         *)
(* refreshes has no saved successor either, Honest that if it has been     *)
(* used its successor was lost; so the server refuses a task only after    *)
(* an accident or a revocation.  The run TwoProcesses shows what is lost   *)
(* without it, TwoSavers how saves overlap.                                *)
(***************************************************************************)
EXTENDS AuthTaskProofs

(* A pair has arrived and is not in the file yet. *)
Arrived(c) == pc[c] \in {"granted", "publish"}

(* A pair only the task that obtained it knows of. *)
NewPair(n) ==
  /\ n \notin saved
  /\ \A i \in DOMAIN issued : issued[i].replaced # n
  /\ \A m \in net : m.pair # n

(* A pair that has arrived is new, its task's alone, and a login's replaces none. *)
Obtained ==
  \A c \in Callers : Arrived(c) =>
    /\ NewPair(pair[c])
    /\ \A d \in Callers : Arrived(d) /\ pair[d] = pair[c] => d = c
    /\ op[c] = "login" => issued[pair[c]].replaced = None

(* What an abandoned request obtains is lost. *)
Requests == \A m \in net : m.from = "nobody" => m.pair \in lost

(* The stored pair's successor is not in the file's past; a used token has a successor. *)
Successors ==
  /\ stored # None => \A i \in saved : issued[i].replaced # stored
  /\ \A x \in spent : \E i \in DOMAIN issued : issued[i].replaced = x

(* StoredLive, with the task that is about to save the successor known to be refreshing. *)
Live ==
  stored \in spent =>
    \/ stored \in lost
    \/ \E c \in Callers : /\ op[c] # "login" /\ Arrived(c)
                          /\ issued[pair[c]].replaced = stored

Orderly == Obtained /\ Successors /\ Live

Session == Requests /\ (torn \/ Orderly)

SInv == TInv /\ Session

-----------------------------------------------------------------------------
(* Any number of processes, logins at any time. *)

(* A step of task c that concerns neither the server nor the file: what it *)
(* has received stays its own, and if it is lost that is on record.        *)
LEMMA LocalStep ==
  ASSUME SInv, NEW c \in Callers,
         UNCHANGED <<stored, issued, spent, saved, net>>, torn => torn', lost \subseteq lost',
         \A d \in Callers \ {c} : /\ pc'[d] = pc[d] /\ op'[d] = op[d]
                                  /\ pair'[d] = pair[d],
         Arrived(c) /\ op[c] # "login" => issued[pair[c]].replaced \in lost' \/ Arrived(c)',
         Arrived(c)' => Arrived(c) /\ op'[c] = op[c] /\ pair'[c] = pair[c]
  PROVE  Session'
<1> USE DEF SInv
<1>1. Requests'
  BY DEF Session, Requests
<1> SUFFICES ASSUME ~torn', Orderly PROVE Orderly'
  BY <1>1 DEF Session
<1> USE DEF Orderly
<1>2. \A d \in Callers : Arrived(d)' => Arrived(d) /\ op'[d] = op[d] /\ pair'[d] = pair[d]
  BY DEF Arrived
<1>3. Obtained'
  BY <1>2 DEF Obtained, NewPair
<1>4. Successors'
  BY DEF Successors
<1>5. Live'
  <2> SUFFICES ASSUME stored \in spent, stored \notin lost'
               PROVE  \E d \in Callers : /\ op'[d] # "login" /\ Arrived(d)'
                                         /\ issued[pair'[d]].replaced = stored
    BY DEF Live
  <2>1. PICK d \in Callers : /\ op[d] # "login" /\ Arrived(d)
                             /\ issued[pair[d]].replaced = stored
    BY DEF Live
  <2>2. Arrived(d)' /\ op'[d] = op[d] /\ pair'[d] = pair[d]
    BY <1>2, <2>1 DEF Arrived
  <2> QED
    BY <2>1, <2>2
<1> QED
  BY <1>3, <1>4, <1>5

LEMMA SameSession ==
  ASSUME SInv, UNCHANGED <<pc, op, pair, stored, issued, spent, saved, net, lost, torn>>
  PROVE  Session'
<1> USE DEF SInv, Session, Orderly
<1>1. Obtained => Obtained'
  BY DEF Obtained, NewPair, Arrived
<1>2. Requests'
  BY DEF Requests
<1>3. (Successors => Successors') /\ (Live => Live')
  BY DEF Successors, Live, Arrived
<1> QED
  BY <1>1, <1>2, <1>3

(* The tasks in T stop where they are.  Requests of theirs may still reach *)
(* the server.                                                             *)
LEMMA KillStep ==
  ASSUME SInv, NEW T \in SUBSET Callers,
         \A c \in T : pc'[c] = "idle",
         \A c \in Callers \ T : /\ pc'[c] = pc[c] /\ op'[c] = op[c]
                                /\ pair'[c] = pair[c],
         Abandon(T), lost' = lost \cup Losses(T),
         UNCHANGED <<stored, issued, spent, saved, torn>>
  PROVE  Session'
<1> SUFFICES ASSUME Pending, Requests
             PROVE  Requests' /\ (Orderly => Orderly')
  BY DEF SInv, TInv, Pairs, Session
<1>0. net \subseteq Request
  BY DEF SInv, TInv, Types
<1>1. ASSUME NEW m \in net'
      PROVE  \E n \in net : /\ m.pair = n.pair
                            /\ n.from \in T => m.from = "nobody" /\ m.pair # None
                            /\ n.from \notin T => m.from = n.from
  <2>1. PICK n \in net : /\ n.from \in T => n.pair # None
                         /\ m = IF n.from \in T THEN [n EXCEPT !.from = "nobody"] ELSE n
    BY <1>1 DEF Abandon
  <2>2. n = [from |-> n.from, pair |-> n.pair]
    BY <1>0, <2>1 DEF Request
  <2> QED
    BY <2>1, <2>2
<1>2. \A c \in Callers : Arrived(c)' => /\ c \notin T /\ Arrived(c)
                                         /\ op'[c] = op[c] /\ pair'[c] = pair[c]
  BY DEF Arrived
<1>3. Obtained => Obtained'
  <2> SUFFICES ASSUME Obtained PROVE Obtained'
    OBVIOUS
  <2>1. \A n : NewPair(n) => NewPair(n)'
    BY <1>1 DEF NewPair
  <2>2. ASSUME NEW c \in Callers, Arrived(c)'
        PROVE  NewPair(pair[c])'
    <3>1. NewPair(pair[c]) /\ pair'[c] = pair[c]
      BY <1>2, <2>2 DEF Obtained
    <3> QED
      BY <2>1, <3>1 DEF NewPair
  <2> QED
    BY <1>2, <2>2 DEF Obtained
<1>4. Requests'
  <2> SUFFICES ASSUME NEW m \in net', m.from = "nobody"
               PROVE  m.pair \in lost'
    BY DEF Requests
  <2>1. PICK n \in net : /\ m.pair = n.pair
                         /\ n.from \in T => m.from = "nobody" /\ m.pair # None
                         /\ n.from \notin T => m.from = n.from
    BY <1>1
  <2>2. CASE n.from \in T
    <3>1. Unsaved(n.from) /\ Sent(n.from) = m.pair
      BY <2>1, <2>2 DEF Pending, Unsaved, Sent
    <3> QED
      BY <2>2, <3>1 DEF Losses
  <2>3. CASE n.from \notin T
    BY <2>1, <2>3 DEF Requests
  <2> QED
    BY <2>2, <2>3
<1>5. Successors => Successors'
  BY DEF Successors
<1>6. Live => Live'
  BY DEF Live, Losses, Sent, Unsaved, Arrived
<1> QED
  BY <1>3, <1>4, <1>5, <1>6 DEF Orderly

(* A save that is not overlapped publishes its own pair, which is nobody's *)
(* predecessor and nobody else's; after an overlap nothing is claimed.     *)
LEMMA PublishStep ==
  ASSUME SInv, NEW c \in Callers, Publish(c)
  PROVE  Session'
<1> USE DEF SInv, TInv, Pairs, Orderly
<1>0. Requests' /\ torn' = torn
  BY DEF Session, Requests, Publish
<1> SUFFICES ASSUME ~torn, Orderly PROVE Orderly'
  BY <1>0 DEF Session
<1>1. /\ pc[c] = "publish" /\ pc' = [pc EXCEPT ![c] = "persist"]
      /\ stored' = pair[c] /\ saved' = saved \cup {pair[c]}
      /\ UNCHANGED <<issued, spent, net, op, pair, lost>>
  <2>1. Put(pair[c])
    BY DEF Publish, Mixed
  <2>2. pair[c] # None
    BY AuthAssumption DEF Publish, InHand, Types, None
  <2> QED
    BY <2>1, <2>2 DEF Publish, Put, File!Publish, serverVars
<1>2. Arrived(c) /\ NewPair(pair[c]) /\ pair[c] \in DOMAIN issued
  BY <1>1 DEF Obtained, InHand, Arrived
<1>3. \A d \in Callers : Arrived(d)' => d # c /\ Arrived(d)
  BY <1>1 DEF Types, Arrived
<1>4. Obtained'
  <2> SUFFICES ASSUME NEW d \in Callers, Arrived(d)'
               PROVE  NewPair(pair[d])'
    BY <1>1, <1>3 DEF Obtained
  <2>1. pair[d] # pair[c] /\ NewPair(pair[d])
    BY <1>2, <1>3 DEF Obtained
  <2> QED
    BY <1>1, <2>1 DEF NewPair
<1>6. Successors' /\ Live'
  BY <1>1, <1>2 DEF Successors, Live, NewPair, Known
<1> QED
  BY <1>4, <1>6

(* A grant is new, and nobody else has it. *)
LEMMA GrantStep ==
  ASSUME SInv, NEW m \in net, ServerGrants(m)
  PROVE  Session'
<1> USE DEF SInv, TInv, Pairs, Session
<1>1. PICK n \in Nat :
           /\ n = Len(issued) + 1 /\ n \notin DOMAIN issued /\ n # None
           /\ DOMAIN issued' = DOMAIN issued \cup {n} /\ m.pair < n
           /\ \A i \in DOMAIN issued : issued'[i] = issued[i] /\ i < n
           /\ issued'[n].replaced = m.pair /\ issued'[n].expiry = now + Lifetime
           /\ m.from \in Callers =>
                pc[m.from] = "token" /\ pc'[m.from] = "granted" /\ pair'[m.from] = n
           /\ \A d \in Callers : d # m.from => pc'[d] = pc[d] /\ pair'[d] = pair[d]
  BY Granted
<1>2. UNCHANGED <<stored, saved, lost, torn, op>>
  BY DEF ServerGrants, fileVars, history
<1>3. /\ net' = net \ {m}
      /\ spent' = (spent \cup {m.pair}) \ {None}
  BY DEF ServerGrants, Answer
<1>7. Requests'
  BY <1>2, <1>3 DEF Requests, Session
<1> SUFFICES ASSUME ~torn, Orderly PROVE Orderly'
  BY <1>2, <1>7 DEF Session
<1> USE DEF Orderly
<1>4. NewPair(n)'
  <2>1. n \notin saved'
    BY <1>1, <1>2 DEF Known
  <2>2. \A i \in DOMAIN issued' : issued'[i].replaced # n
    <3>1. ASSUME NEW i \in DOMAIN issued, issued[i].replaced = n PROVE FALSE
      <4>1. n < i /\ i < n /\ i \in Nat
        BY <1>1, <3>1 DEF Known, Types
      <4> QED
        BY <4>1
    <3> QED
      BY <1>1, <3>1
  <2>3. \A r \in net' : r.pair # n
    BY <1>1, <1>3 DEF Known
  <2> QED
    BY <2>1, <2>2, <2>3 DEF NewPair
<1>5. \A d \in Callers : Arrived(d)' /\ d # m.from =>
           /\ Arrived(d) /\ pair'[d] = pair[d] /\ pair[d] \in DOMAIN issued /\ pair[d] # n
  BY <1>1 DEF Arrived, InHand
<1>6. Obtained'
  <2>1. ASSUME NEW d \in Callers, Arrived(d)' PROVE NewPair(pair[d])'
    <3>1. CASE d = m.from
      <4>1. pair'[d] = n
        BY <1>1, <3>1
      <4> QED
        BY <1>4, <4>1 DEF NewPair
    <3>2. CASE d # m.from
      <4>1. NewPair(pair[d]) /\ m.pair # pair[d] /\ pair[d] # n /\ pair'[d] = pair[d]
        BY <1>5, <2>1, <3>2 DEF Obtained, NewPair
      <4> QED
        BY <1>1, <1>2, <1>3, <4>1 DEF NewPair
    <3> QED
      BY <3>1, <3>2
  <2>2. \A d, e \in Callers : Arrived(d)' /\ Arrived(e)' /\ pair'[d] = pair'[e] => d = e
    <3> SUFFICES ASSUME NEW d \in Callers, NEW e \in Callers,
                        Arrived(d)', Arrived(e)', pair'[d] = pair'[e], d # e
                 PROVE  FALSE
      OBVIOUS
    <3>1. CASE d = m.from \/ e = m.from
      BY <1>1, <1>5, <3>1
    <3>2. CASE d # m.from /\ e # m.from
      BY <1>5, <3>2 DEF Obtained
    <3> QED
      BY <3>1, <3>2
  <2>3. \A d \in Callers : Arrived(d)' /\ op'[d] = "login" =>
           issued'[pair'[d]].replaced = None
    BY <1>1, <1>2, <1>5 DEF Obtained, Pending
  <2> QED
    BY <2>1, <2>2, <2>3 DEF Obtained
<1>8. Successors'
  BY <1>1, <1>2, <1>3 DEF Successors, Known
<1>9. Live'
  <2> SUFFICES ASSUME stored' \in spent', stored' \notin lost'
               PROVE  \E c \in Callers : /\ op'[c] # "login" /\ Arrived(c)'
                                         /\ issued'[pair'[c]].replaced = stored'
    BY DEF Live
  <2>1. CASE stored \in spent
    <3>1. PICK c \in Callers : /\ op[c] # "login" /\ Arrived(c)
                               /\ issued[pair[c]].replaced = stored
      BY <1>2, <2>1 DEF Live
    <3>2. c # m.from /\ pair[c] \in DOMAIN issued
      BY <1>1, <3>1 DEF InHand, Arrived
    <3> QED
      BY <1>1, <1>2, <3>1, <3>2 DEF Arrived
  <2>2. CASE stored \notin spent
    <3>1. m.pair = stored /\ m.pair # None
      BY <1>2, <1>3, <2>2
    <3>2. m.from \in Callers /\ op[m.from] # "login"
      BY <1>2, <3>1 DEF Session, Requests, Pending, Types, Request
    <3> QED
      BY <1>1, <1>2, <3>1, <3>2 DEF Arrived
  <2> QED
    BY <2>1, <2>2
<1> QED
  BY <1>6, <1>8, <1>9

(* The server does not give what was asked for. *)
LEMMA DenialStep ==
  ASSUME SInv, NEW m \in net, NEW s \in {"refused", "unavailable"}, Answer(m, s),
         UNCHANGED <<op, pair, stored, issued, spent, saved, lost, torn>>
  PROVE  Session'
<1> USE DEF SInv, TInv, Pairs, Session
<1>1. net' = net \ {m}
  BY DEF Answer
<1>2. \A d \in Callers : Arrived(d)' <=> Arrived(d)
  BY DEF Answer, Types, Pending, Arrived
<1>3. Obtained => Obtained'
  BY <1>1, <1>2 DEF Obtained, NewPair
<1>4. Requests' /\ (Successors => Successors') /\ (Live => Live')
  BY <1>1, <1>2 DEF Requests, Successors, Live
<1> QED
  BY <1>3, <1>4 DEF Orderly

(* A power loss undoes the latest publications. *)
LEMMA PowerLossStep ==
  ASSUME SInv, PowerLoss
  PROVE  Session'
<1> USE DEF SInv, TInv, Pairs, Session
<1>1. /\ stored' \in {durable, None} /\ saved' = {i \in saved : i <= stored'}
      /\ Kill(Callers) /\ UNCHANGED <<issued, spent, revoked, torn>>
  BY DEF PowerLoss, File!Revert, serverVars
<1>2. /\ lost \subseteq lost' /\ Losses(Callers) \subseteq lost'
      /\ stored' # stored /\ stored' \in spent => stored' \in lost'
  BY DEF PowerLoss
<1>3. \A c \in Callers : pc'[c] = "idle"
  BY <1>1 DEF Kill
<1>4. ASSUME NEW m \in net'
      PROVE  \E n \in net : /\ m.pair = n.pair /\ m.from \notin Callers
                            /\ n.from \in Callers => m.pair # None
                            /\ n.from \notin Callers => m.from = n.from
  <2>1. PICK n \in net : /\ n.from \in Callers => n.pair # None
                         /\ m = IF n.from \in Callers THEN [n EXCEPT !.from = "nobody"] ELSE n
    BY <1>1, <1>4 DEF Kill, Abandon
  <2>2. n = [from |-> n.from, pair |-> n.pair]
    BY <2>1 DEF Types, Request
  <2> QED
    BY <2>1, <2>2, AuthAssumption
<1>5. stored' \in Nat /\ stored \in Nat /\ \A i \in saved : i \in Nat
  BY <1>1, AuthAssumption DEF Types, MaybeIssue, Issue, None
<1>7. Obtained'
  BY <1>3 DEF Obtained, Arrived
<1>8. Requests'
  <2> SUFFICES ASSUME NEW m \in net' PROVE m.pair \in lost'
    BY DEF Requests
  <2>1. PICK r \in net : /\ m.pair = r.pair /\ m.from \notin Callers
                         /\ r.from \in Callers => m.pair # None
                         /\ r.from \notin Callers => m.from = r.from
    BY <1>4
  <2>2. r.from \in Callers => Unsaved(r.from) /\ Sent(r.from) = m.pair
    BY <2>1 DEF Pending, Unsaved, Sent
  <2>3. r.from \in Callers \/ r.from = "nobody"
    BY DEF Types, Request
  <2> QED
    BY <1>2, <2>1, <2>2, <2>3 DEF Requests, Losses
<1> SUFFICES ASSUME ~torn, Orderly PROVE Orderly'
  BY <1>1, <1>8
<1> USE DEF Orderly
<1>9. Successors'
  <2>1. \A i \in saved : issued[i].replaced < i /\ issued[i].replaced \in Nat
    <3> SUFFICES ASSUME NEW i \in saved
                 PROVE  issued[i].replaced < i /\ issued[i].replaced \in Nat
      OBVIOUS
    <3>1. i \in DOMAIN issued
      BY DEF Known
    <3>2. issued \in Seq([replaced : MaybeIssue, expiry : Nat])
      BY DEF Types
    <3>3. issued[i].replaced \in MaybeIssue
      <4> DEFINE Grants == [replaced : MaybeIssue, expiry : Nat]
      <4>1. \A g \in Grants : g.replaced \in MaybeIssue
        OBVIOUS
      <4>2. issued[i] \in Grants
        <5> HIDE DEF Grants
        <5> QED
          BY <3>1, <3>2, SeqElement DEF Grants
      <4> QED
        BY <4>1, <4>2
    <3> QED
      BY <3>1, <3>3, AuthAssumption DEF Known, MaybeIssue, Issue, None
  <2>2. \A i \in saved' : issued[i].replaced # stored'
    BY <1>1, <1>5, <2>1
  <2>3. stored' # None => \A i \in saved' : issued'[i].replaced # stored'
    BY <1>1, <2>2
  <2>4. \A x \in spent' : \E i \in DOMAIN issued' : issued'[i].replaced = x
    BY <1>1 DEF Successors
  <2> QED
    BY <2>3, <2>4 DEF Successors
<1>10. Live'
  BY <1>1, <1>2 DEF Live, Losses, Sent, Unsaved, Arrived
<1> QED
  BY <1>7, <1>9, <1>10

(* A request goes out: for a saved pair, or for a first one. *)
LEMMA SendStep ==
  ASSUME SInv, NEW c \in Callers, pc[c] \in {"idle", "recheck"}, pc'[c] = "token",
         \A d \in Callers \ {c} : pc'[d] = pc[d] /\ op'[d] = op[d],
         UNCHANGED <<pair, stored, issued, spent, saved, lost, torn>>,
         NEW x \in saved \cup {None}, net' = net \cup {[from |-> c, pair |-> x]}
  PROVE  Session'
<1> USE DEF SInv, TInv, Pairs
<1>4. Requests'
  <2>1. c # "nobody"
    BY AuthAssumption
  <2> QED
    BY <2>1 DEF Session, Requests
<1> SUFFICES ASSUME ~torn, Orderly PROVE Orderly'
  BY <1>4 DEF Session
<1> USE DEF Orderly
<1>1. \A d \in Callers : Arrived(d)' <=> Arrived(d) /\ d # c
  BY DEF Arrived
<1>2. \A d \in Callers : Arrived(d) => pair[d] # x /\ d # c
  BY DEF Obtained, NewPair, Arrived, InHand, Known, Types, None
<1>3. Obtained'
  BY <1>1, <1>2 DEF Obtained, NewPair
<1>5. Successors' /\ Live'
  BY <1>1, <1>2 DEF Successors, Live
<1> QED
  BY <1>3, <1>5

LEMMA SessionStep ==
  ASSUME SInv, [Next]_vars
  PROVE  Session'
<1> USE DEF taskVars, fileVars, serverVars, history
<1> DEFINE Others(c) == \A d \in Callers \ {c} : /\ pc'[d] = pc[d] /\ op'[d] = op[d]
                                                /\ pair'[d] = pair[d]
           Same == /\ UNCHANGED <<stored, issued, spent, saved, net>>
                   /\ (torn => torn') /\ lost \subseteq lost'
<1>0. /\ pc \in [Callers -> States] /\ op \in [Callers -> {"none", "valid", "retry", "login"}]
      /\ pair \in [Callers -> MaybeIssue]
      /\ \A c \in Callers : op[c] = "login" => pc[c] \in Busy \ {"recheck"}
      /\ \A c \in Callers : pc[c] = "recheck" => pair[c] \in saved
  BY DEF SInv, TInv, Types, Control, Operations, Pairs, InHand
<1>1. ASSUME NEW c \in Callers, Return(c)
      PROVE  Others(c) /\ pc'[c] = "idle"
  BY <1>0, <1>1 DEF Return
<1>2. ASSUME NEW c \in Callers, NEW s, Await(c, s)
      PROVE  pc'[c] = s /\ \A d \in Callers \ {c} : pc'[d] = pc[d]
  BY <1>0, <1>2 DEF Await
<1>3. ASSUME NEW c \in Callers, Enqueue(c)
      PROVE  /\ pc'[c] = "lock" /\ pair'[c] = None
             /\ \A d \in Callers \ {c} : pc'[d] = pc[d] /\ pair'[d] = pair[d]
  BY <1>0, <1>3 DEF Enqueue
<1>4. ASSUME NEW c \in Callers, Return(c), Same, pc[c] # "token",
             Losses({c}) \subseteq lost' \/ ~Unsaved(c)
      PROVE  Session'
  <2>1. Arrived(c) /\ op[c] # "login" => issued[pair[c]].replaced \in lost'
    BY <1>4 DEF Arrived, Unsaved, Losses, Sent
  <2> QED
    BY <1>1, <1>4, <2>1, LocalStep DEF Arrived
<1>5. ASSUME NEW c \in Callers, Call(c) PROVE Session'
  <2>1. CASE Return(c)
    BY <1>4, <1>5, <2>1 DEF Call, Unsaved
  <2>2. CASE ~Return(c)
    <3>1. Others(c) /\ pc'[c] = "check" /\ op'[c] = "valid" /\ pair'[c] = stored
      BY <1>0, <1>5, <2>2 DEF Call
    <3>2. Same /\ pc[c] = "idle"
      BY <1>5, <2>2 DEF Call
    <3> QED
      BY <1>0, <2>2, <3>1, <3>2, LocalStep DEF Arrived
  <2> QED
    BY <2>1, <2>2
<1>6. ASSUME NEW c \in Callers, Check(c) PROVE Session'
  <2>1. Same /\ UNCHANGED op /\ pc[c] = "check" /\ op[c] # "login"
    BY <1>0, <1>6 DEF Check, Busy
  <2>2. CASE Await(c, "api") /\ UNCHANGED pair
    BY <1>0, <1>2, <2>1, <2>2, LocalStep DEF Arrived
  <2>3. CASE Enqueue(c)
    BY <1>0, <1>3, <2>1, <2>3, LocalStep DEF Arrived
  <2> QED
    BY <1>6, <2>2, <2>3 DEF Check
<1>7. ASSUME NEW c \in Callers, Lock(c) PROVE Session'
  <2>1. CASE Return(c) /\ Release(c)
    BY <1>4, <1>7, <2>1 DEF Lock, Unsaved
  <2>2. CASE ~Return(c) \/ ~Release(c)
    <3>1. Others(c) /\ pc'[c] = "recheck" /\ pair'[c] = stored /\ UNCHANGED op
      BY <1>0, <1>7, <2>2 DEF Lock
    <3>2. Same /\ pc[c] = "lock" /\ stored # None
      BY <1>7, <2>2 DEF Lock
    <3> QED
      BY <1>0, <2>2, <3>1, <3>2, LocalStep DEF Arrived
  <2> QED
    BY <2>1, <2>2
<1>8. ASSUME NEW c \in Callers, Recheck(c) PROVE Session'
  <2>1. /\ UNCHANGED <<op, pair, stored, issued, spent, saved, lost, torn>>
        /\ pc[c] = "recheck" /\ pair[c] \in saved
    BY <1>0, <1>8 DEF Recheck
  <2>2. CASE ~NeedsRefresh(c) /\ Await(c, "api") /\ UNCHANGED net
    BY <1>0, <1>2, <2>1, <2>2, LocalStep DEF Arrived
  <2>3. CASE Await(c, "token") /\ net' = net \cup {[from |-> c, pair |-> pair[c]]}
    BY <1>2, <2>1, <2>3, SendStep
  <2> QED
    BY <1>8, <2>2, <2>3 DEF Recheck
<1>9. ASSUME NEW c \in Callers, Login(c) PROVE Session'
  <2>1. /\ UNCHANGED <<pair, stored, issued, spent, saved, lost, torn>>
        /\ pc[c] = "idle" /\ net' = net \cup {[from |-> c, pair |-> None]}
    BY <1>9 DEF Login
  <2>2. /\ pc'[c] = "token" /\ op'[c] = "login"
        /\ \A d \in Callers \ {c} : pc'[d] = pc[d] /\ op'[d] = op[d]
    BY <1>0, <1>2, <1>9 DEF Login
  <2> QED
    BY <2>1, <2>2, SendStep
<1>10. ASSUME NEW c \in Callers, Receive(c) PROVE Session'
  <2>1. /\ Same /\ UNCHANGED <<op, pair>> /\ pc[c] = "granted"
        /\ pc'[c] = "publish" /\ \A d \in Callers \ {c} : pc'[d] = pc[d]
    BY <1>0, <1>10 DEF Receive
  <2> QED
    BY <1>0, <2>1, LocalStep DEF Arrived
<1>11. ASSUME NEW c \in Callers, Refused(c) PROVE Session'
  BY <1>4, <1>11 DEF Refused, Unsaved
<1>12. ASSUME NEW c \in Callers, Publish(c) PROVE Session'
  BY <1>12, PublishStep
<1>12a. CASE Overwrite
  <2>1. torn /\ torn' /\ UNCHANGED <<net, lost>>
    BY <1>12a DEF Overwrite
  <2> QED
    BY <2>1 DEF SInv, Session, Requests
<1>13. ASSUME NEW c \in Callers, Persist(c) PROVE Session'
  <2>1. Same /\ pc[c] = "persist"
    BY <1>0, <1>13 DEF Persist, File!Persist
  <2>2. CASE op[c] = "login"
    BY <1>4, <1>13, <2>1, <2>2 DEF Persist, Unsaved
  <2>3. CASE op[c] # "login"
    <3>1. /\ UNCHANGED <<op, pair>> /\ pc'[c] = "api"
          /\ \A d \in Callers \ {c} : pc'[d] = pc[d]
      BY <1>2, <1>13, <2>3 DEF Persist
    <3> QED
      BY <1>0, <2>1, <3>1, LocalStep DEF Arrived
  <2> QED
    BY <2>2, <2>3
<1>14. ASSUME NEW c \in Callers, SaveFails(c) PROVE Session'
  BY <1>4, <1>14 DEF SaveFails
<1>15. ASSUME NEW c \in Callers, ApiAnswer(c) PROVE Session'
  <2>1. Same /\ pc[c] = "api"
    BY <1>0, <1>15 DEF ApiAnswer
  <2>2. CASE Return(c)
    BY <1>4, <2>1, <2>2 DEF Unsaved
  <2>3. CASE op' = [op EXCEPT ![c] = "retry"] /\ Enqueue(c)
    <3>1. Others(c) /\ pc'[c] = "lock"
      BY <1>0, <1>3, <2>3
    <3> QED
      BY <2>1, <3>1, LocalStep DEF Arrived
  <2>4. CASE pc' = [pc EXCEPT ![c] = "denied"] /\ UNCHANGED <<op, pair>>
    <3>1. Others(c) /\ pc'[c] = "denied"
      BY <1>0, <2>4
    <3> QED
      BY <2>1, <3>1, LocalStep DEF Arrived
  <2> QED
    BY <1>15, <2>2, <2>3, <2>4 DEF ApiAnswer
<1>16. ASSUME NEW c \in Callers, RequestFails(c) PROVE Session'
  <2> DEFINE T == {c}
  <2>1. /\ Return(c) /\ Abandon(T) /\ lost' = lost \cup Losses(T)
        /\ UNCHANGED <<stored, issued, spent, saved, torn>>
    BY <1>16 DEF RequestFails
  <2>3. T \in SUBSET Callers /\ \A d \in T : d = c
    OBVIOUS
  <2>4. Callers \ T = Callers \ {c}
    OBVIOUS
  <2> HIDE DEF T
  <2> QED
    BY <1>1, <2>1, <2>3, <2>4, KillStep
<1>17. ASSUME NEW m \in net, ServerGrants(m) PROVE Session'
  BY <1>17, GrantStep
<1>18. ASSUME NEW m \in net, ServerRefuses(m) PROVE Session'
  BY <1>18, DenialStep DEF ServerRefuses
<1>19. ASSUME NEW m \in net, ServerFails(m) PROVE Session'
  BY <1>19, DenialStep DEF ServerFails
<1>20. CASE Revoke
  BY <1>20, SameSession DEF Revoke
<1>21. ASSUME NEW i \in DOMAIN issued, Drop(i) PROVE Session'
  BY <1>21, SameSession DEF Drop
<1>22. CASE Flush
  BY <1>22, SameSession DEF Flush, File!Persist
<1>23. ASSUME NEW p \in Processes, Crash(p) PROVE Session'
  <2> DEFINE T == {c \in Callers : Proc[c] = p}
  <2>1. /\ Kill(T) /\ lost' = lost \cup Losses(T)
        /\ UNCHANGED <<stored, issued, spent, saved, torn>>
    BY <1>23 DEF Crash
  <2>2. T \in SUBSET Callers
    OBVIOUS
  <2> HIDE DEF T
  <2>3. /\ Abandon(T) /\ \A c \in T : pc'[c] = "idle"
        /\ \A c \in Callers \ T : /\ pc'[c] = pc[c] /\ op'[c] = op[c]
                                 /\ pair'[c] = pair[c]
    BY <2>1, <2>2 DEF Kill
  <2> QED
    BY <2>1, <2>2, <2>3, KillStep
<1>24. CASE PowerLoss
  BY <1>24, PowerLossStep
<1>25. CASE Tick
  BY <1>25, SameSession DEF Tick
<1>26. CASE UNCHANGED vars
  BY <1>26, SameSession DEF vars
<1> QED
  BY <1>5, <1>6, <1>7, <1>8, <1>9, <1>10, <1>11, <1>12, <1>13, <1>14, <1>15, <1>16, <1>17,
     <1>12a, <1>18, <1>19, <1>20, <1>21, <1>22, <1>23, <1>24, <1>25, <1>26
  DEF Next, Step, Environment

LEMMA Sessions == Spec => []SInv
<1>1. Init => SInv
  BY InitTInv DEF Init, File!Init, SInv, Session, Orderly, Obtained, Requests, Successors, Live, Arrived
<1>2. SInv /\ [Next]_vars => SInv'
  BY TInvStep, SessionStep DEF SInv
<1> QED
  BY <1>1, <1>2, PTL DEF Spec

(* The stored refresh token is live, or its successor is on the way into   *)
(* the file, or was lost by accident, unless two saves have overlapped.    *)
THEOREM NeverLockedOut == Spec => []StoredLive
<1>1. SInv => StoredLive
  BY DEF SInv, Session, Orderly, Live, StoredLive, Arrived
<1> QED
  BY <1>1, Sessions, PTL

-----------------------------------------------------------------------------
(* One process: one lock. *)

OneProcess == \A c, d \in Callers : Proc[c] = Proc[d]

(* Between the second load and the answer. *)
Refresher(c) == op[c] # "login" /\ pc[c] \in {"recheck", "token"}

(* What a task refreshes has been saved, and its successor has not. *)
Current ==
  torn \/ \A c \in Callers : Refresher(c) =>
           pair[c] \in saved /\ \A i \in saved : issued[i].replaced # pair[c]

(* A refresher keeps the pair that it loaded, or has just loaded it. *)
LEMMA RefresherStep ==
  ASSUME TInv, [Next]_vars, NEW c \in Callers, Refresher(c)'
  PROVE  \/ Refresher(c) /\ pair'[c] = pair[c]
         \/ Lock(c) /\ pair'[c] = stored /\ stored # None
<1> USE DEF TInv, Types, Refresher, taskVars, fileVars
<1>1. ASSUME NEW d \in Callers, Return(d) PROVE d # c
  BY <1>1 DEF Return
<1>2. ASSUME NEW d \in Callers, NEW s, Await(d, s)
      PROVE  IF d = c THEN pc'[c] = s ELSE pc'[c] = pc[c]
  BY <1>2 DEF Await
<1>3. ASSUME NEW d \in Callers, Enqueue(d)
      PROVE  d # c /\ pc'[c] = pc[c] /\ pair'[c] = pair[c]
  BY <1>3 DEF Enqueue
<1>4. ASSUME NEW d \in Callers, Return(d)
      PROVE  Refresher(c) /\ pair'[c] = pair[c]
  BY <1>1, <1>4 DEF Return
<1>5. ASSUME NEW d \in Callers, Call(d) \/ Check(d) \/ Login(d)
      PROVE  Refresher(c) /\ pair'[c] = pair[c]
  BY <1>2, <1>3, <1>4, <1>5 DEF Call, Check, Login
<1>6. ASSUME NEW d \in Callers, Lock(d)
      PROVE  \/ Refresher(c) /\ pair'[c] = pair[c]
             \/ Lock(c) /\ pair'[c] = stored /\ stored # None
  BY <1>4, <1>6 DEF Lock
<1>7. ASSUME NEW d \in Callers, Recheck(d)
      PROVE  Refresher(c) /\ pair'[c] = pair[c]
  BY <1>2, <1>7 DEF Recheck
<1>8. ASSUME NEW d \in Callers,
             Receive(d) \/ Refused(d) \/ Publish(d) \/ Persist(d) \/ SaveFails(d)
               \/ ApiAnswer(d) \/ RequestFails(d)
      PROVE  Refresher(c) /\ pair'[c] = pair[c]
  BY <1>2, <1>3, <1>4, <1>8
  DEF Receive, Refused, Publish, Persist, SaveFails, ApiAnswer, RequestFails
<1>9. ASSUME NEW m \in net, ServerGrants(m) \/ ServerRefuses(m) \/ ServerFails(m)
      PROVE  Refresher(c) /\ pair'[c] = pair[c]
  BY <1>9 DEF ServerGrants, ServerRefuses, ServerFails, Answer
<1>10. ASSUME NEW T, Kill(T)
       PROVE  Refresher(c) /\ pair'[c] = pair[c]
  BY <1>10 DEF Kill
<1>11. CASE UNCHANGED <<pc, op, pair>>
  BY <1>11
<1> QED
  BY <1>5, <1>6, <1>7, <1>8, <1>9, <1>10, <1>11
  DEF Next, Step, Environment, Revoke, Drop, Flush, Overwrite, Tick, Crash, PowerLoss, vars

(* Only saves and a power loss change what has been saved, and only saves  *)
(* that overlap publish anything but their own pair.                       *)
LEMMA SavedMoves ==
  ASSUME TInv, [Next]_vars
  PROVE  \/ torn
         \/ UNCHANGED <<stored, saved>>
         \/ \E d \in Callers : Publish(d) /\ saved' = saved \cup {pair[d]}
         \/ \A c \in Callers : pc'[c] = "idle"
<1>1. ASSUME NEW d \in Callers, Publish(d), ~torn PROVE saved' = saved \cup {pair[d]}
  <2>1. Put(pair[d])
    BY <1>1 DEF Publish, Mixed
  <2>2. pair[d] # None
    BY <1>1, AuthAssumption DEF Publish, TInv, Pairs, InHand, Types, None
  <2> QED
    BY <2>1, <2>2 DEF Put
<1> QED
  BY <1>1
  DEF Next, Step, Environment, Call, Login, Check, Lock, Recheck, Receive, Refused, Persist,
      SaveFails, ApiAnswer, RequestFails, ServerGrants, ServerRefuses, ServerFails, Revoke, Drop,
      Flush, Overwrite, Crash, PowerLoss, Tick, Kill, File!Persist, taskVars, fileVars, history,
      vars

(* What has happened has happened. *)
LEMMA HistoryGrows ==
  ASSUME [Next]_vars
  PROVE  lost \subseteq lost' /\ revoked \subseteq revoked' /\ (torn => torn')
<1> USE DEF Next, Step, Environment, Call, Login, Check, Lock, Recheck, Receive, Refused, Publish,
            Persist, SaveFails, ApiAnswer, RequestFails, ServerGrants, ServerRefuses, ServerFails,
            Revoke, Drop, Flush, Overwrite, Crash, PowerLoss, Tick, vars
<1>1. lost \subseteq lost'
  BY DEF history
<1>2. revoked \subseteq revoked'
  <2>1. CASE Revoke
    BY <2>1
  <2>2. CASE ~Revoke
    <3>1. revoked' = revoked
      BY <2>2 DEF serverVars
    <3> QED
      BY <3>1
  <2> QED
    BY <2>1, <2>2
<1>3. torn => torn'
  <2>1. CASE \E c \in Callers : Receive(c)
    BY <2>1
  <2>2. CASE ~ \E c \in Callers : Receive(c)
    <3>1. torn' = torn
      BY <2>2 DEF fileVars
    <3> QED
      BY <3>1
  <2> QED
    BY <2>1, <2>2
<1> QED
  BY <1>1, <1>2, <1>3

(* What has been issued stays issued. *)
LEMMA IssuedStays ==
  ASSUME TInv, [Next]_vars, NEW i \in DOMAIN issued
  PROVE  issued'[i] = issued[i]
<1>1. ASSUME NEW m \in net, ServerGrants(m) PROVE issued'[i] = issued[i]
  BY <1>1, Granted DEF TInv, Pairs
<1>2. CASE UNCHANGED issued
  BY <1>2
<1> QED
  BY <1>1, <1>2
  DEF Next, Step, Environment, Call, Login, Check, Lock, Recheck, Receive, Refused, Publish,
      Persist, SaveFails, ApiAnswer, RequestFails, ServerRefuses, ServerFails, Revoke, Drop,
      Flush, Overwrite, Crash, PowerLoss, Tick, serverVars, vars

LEMMA CurrentStep ==
  ASSUME OneProcess, SInv, Current, [Next]_vars
  PROVE  Current'
<1> USE DEF SInv, TInv, Pairs
<1> SUFFICES ASSUME ~torn', NEW c \in Callers, Refresher(c)'
             PROVE  pair'[c] \in saved' /\ \A i \in saved' : issued'[i].replaced # pair'[c]
  BY DEF Current
<1>0. ~torn
  BY HistoryGrows
<1>1. pair'[c] \in saved /\ \A i \in saved : issued[i].replaced # pair'[c]
  BY <1>0, RefresherStep DEF Current, Session, Orderly, Successors, Known
<1>2. \A i \in saved : issued'[i] = issued[i]
  BY IssuedStays DEF Known
<1>3. CASE UNCHANGED saved
  BY <1>1, <1>2, <1>3
<1>4. ASSUME NEW d \in Callers, Publish(d), saved' = saved \cup {pair[d]}
      PROVE  pair'[c] \in saved' /\ \A i \in saved' : issued'[i].replaced # pair'[c]
  <2>1. /\ pc[d] = "publish" /\ pc' = [pc EXCEPT ![d] = "persist"]
        /\ UNCHANGED <<issued, op, pair>>
    BY <1>4 DEF Publish, serverVars
  <2>2. Refresher(c) /\ c # d
    BY <2>1 DEF Refresher, Types
  <2>3. op[d] = "login"
    <3> SUFFICES ASSUME op[d] # "login" PROVE FALSE
      OBVIOUS
    <3>1. Refreshing(c) /\ Refreshing(d)
      BY <2>1, <2>2 DEF Control, Operations, Types, Refresher, Refreshing, Busy
    <3> QED
      BY <2>2, <3>1, OneHolder DEF Control, Locked, OneProcess
  <2>4. issued[pair[d]].replaced = None
    BY <1>0, <2>1, <2>3 DEF Session, Orderly, Obtained, Arrived
  <2>5. pair'[c] # None
    BY <1>1, AuthAssumption DEF Types, None, Issue
  <2> QED
    BY <1>1, <1>4, <2>1, <2>4, <2>5
<1>5. CASE pc'[c] = "idle"
  BY <1>5 DEF Refresher
<1> QED
  BY <1>0, <1>3, <1>4, <1>5, SavedMoves

(* A refresh token whose successor has been saved is never sent again by   *)
(* the process that saved it, whenever somebody logs in, unless two saves  *)
(* have overlapped.                                                        *)
THEOREM ReplayFree == OneProcess => (Spec => []NoReplay)
<1> SUFFICES ASSUME OneProcess PROVE Spec => []NoReplay
  OBVIOUS
<1>1. Init => Current
  BY DEF Init, Current, Refresher
<1>2. SInv /\ Current /\ [Next]_vars => Current'
  BY CurrentStep
<1>3. Current => NoReplay
  BY DEF Current, Refresher, NoReplay
<1> QED
  BY <1>1, <1>2, <1>3, Sessions, PTL DEF Spec

-----------------------------------------------------------------------------
(* "Log in again." *)

(* What a task refreshes has been used only if what was obtained is lost. *)
Honest ==
  torn \/ \A c \in Callers : Refresher(c) /\ pair[c] \in spent => pair[c] \in lost

(* What was refused was lost or revoked. *)
Refusals ==
  torn \/ \A c \in Callers : op[c] # "login" /\ pc[c] = "refused" =>
           pair[c] \in lost \cup revoked

(* A retry is made because the API gave up a token. *)
GivenUp == \A c \in Callers : op[c] = "retry" => rejected[c] \in dropped

(* Only a grant uses up a refresh token. *)
LEMMA SpentMoves ==
  ASSUME [Next]_vars, NEW x \in spent' \ spent
  PROVE  \E m \in net : ServerGrants(m) /\ x = m.pair
<1>1. ASSUME NEW m \in net, ServerGrants(m) PROVE x = m.pair
  BY <1>1 DEF ServerGrants
<1>2. CASE UNCHANGED spent
  BY <1>2
<1> QED
  BY <1>1, <1>2
  DEF Next, Step, Environment, Call, Login, Check, Lock, Recheck, Receive, Refused, Publish,
      Persist, SaveFails, ApiAnswer, RequestFails, ServerRefuses, ServerFails, Revoke, Drop,
      Flush, Overwrite, Crash, PowerLoss, Tick, serverVars, vars

LEMMA HonestStep ==
  ASSUME OneProcess, SInv, Honest, [Next]_vars
  PROVE  Honest'
<1> USE DEF SInv, TInv, Pairs
<1> SUFFICES ASSUME ~torn', NEW c \in Callers, Refresher(c)', pair'[c] \in spent'
             PROVE  pair'[c] \in lost'
  BY DEF Honest
<1>0. ~torn /\ lost \subseteq lost'
  BY HistoryGrows
<1>1. CASE Refresher(c) /\ pair'[c] = pair[c] /\ pair[c] \in spent
  BY <1>0, <1>1 DEF Honest
<1>2. CASE Refresher(c) /\ pair'[c] = pair[c] /\ pair[c] \notin spent
  <2>1. PICK m \in net : ServerGrants(m) /\ m.pair = pair[c]
    BY <1>2, SpentMoves
  <2>2. m.from # c
    BY <2>1, <1>2 DEF Types, ServerGrants, Answer, Pending, Refresher
  <2>3. pair[c] # None
    BY <1>2, AuthAssumption DEF Refresher, InHand, Types, Issue, None
  <2>4. ASSUME m.from \in Callers PROVE FALSE
    <3>1. pc[m.from] = "token" /\ op[m.from] # "login"
      BY <2>1, <2>3, <2>4 DEF Pending
    <3>2. Refreshing(c) /\ Refreshing(m.from)
      BY <1>2, <2>4, <3>1 DEF Control, Operations, Types, Refresher, Refreshing, Busy
    <3> QED
      BY <2>2, <2>4, <3>2, OneHolder DEF Control, Locked, OneProcess
  <2>5. m.from = "nobody"
    BY <2>4 DEF Types, Request
  <2> QED
    BY <1>0, <1>2, <2>1, <2>5 DEF Session, Requests
<1>3. CASE Lock(c) /\ pair'[c] = stored /\ stored # None
  <2>1. pc[c] = "lock" /\ Holds(c) /\ spent' = spent
    BY <1>3 DEF Lock, serverVars
  <2>2. ASSUME NEW d \in Callers, op[d] # "login", Arrived(d) PROVE FALSE
    <3>1. Refreshing(d) /\ d # c
      BY <2>1, <2>2 DEF Control, Operations, Types, Refreshing, Arrived, Busy
    <3> QED
      BY <2>1, <3>1, OneHolder DEF Control, Locked, OneProcess
  <2> QED
    BY <1>0, <1>3, <2>1, <2>2 DEF Session, Orderly, Live
<1> QED
  BY <1>1, <1>2, <1>3, RefresherStep

(* A refusal is of the request for the pair in hand. *)
LEMMA RefusedStep ==
  ASSUME TInv, [Next]_vars, NEW c \in Callers, pc'[c] = "refused"
  PROVE  /\ op'[c] = op[c] /\ pair'[c] = pair[c]
         /\ \/ pc[c] = "refused"
            \/ \E m \in net : /\ m.from = c /\ pc[c] = "token" /\ ServerRefuses(m)
<1> USE DEF TInv, Types, taskVars
<1> DEFINE Goal == /\ op'[c] = op[c] /\ pair'[c] = pair[c]
                   /\ \/ pc[c] = "refused"
                      \/ \E m \in net : /\ m.from = c /\ pc[c] = "token" /\ ServerRefuses(m)
<1>1. ASSUME NEW d \in Callers, Return(d) PROVE Goal
  BY <1>1 DEF Return
<1>2. ASSUME NEW d \in Callers, NEW s \in {"api", "token"}, Await(d, s)
      PROVE  d # c /\ pc[c] = "refused"
  BY <1>2 DEF Await
<1>3. ASSUME NEW d \in Callers, Enqueue(d)
      PROVE  d # c /\ pc[c] = "refused" /\ pair'[c] = pair[c]
  BY <1>3 DEF Enqueue
<1>4. ASSUME NEW d \in Callers, Call(d) \/ Login(d) PROVE Goal
  BY <1>1, <1>2, <1>4 DEF Call, Login
<1>5. ASSUME NEW d \in Callers, Step(d) PROVE Goal
  BY <1>1, <1>2, <1>3, <1>5
  DEF Step, Check, Lock, Recheck, Receive, Refused, Publish, Persist, SaveFails, ApiAnswer,
      RequestFails
<1>6. ASSUME NEW m \in net, ServerRefuses(m) PROVE Goal
  BY <1>6 DEF ServerRefuses, Answer, Pairs, Pending
<1>7. ASSUME NEW m \in net, ServerGrants(m) \/ ServerFails(m) PROVE Goal
  BY <1>7 DEF ServerGrants, ServerFails, Answer
<1>8. ASSUME NEW T, Kill(T) PROVE Goal
  BY <1>8 DEF Kill
<1>9. CASE UNCHANGED <<pc, op, pair>>
  BY <1>9
<1> QED
  BY <1>4, <1>5, <1>6, <1>7, <1>8, <1>9
  DEF Next, Environment, Revoke, Drop, Flush, Overwrite, Tick, Crash, PowerLoss, vars

(* The server refuses the pair sent: it has been used or revoked. *)
LEMMA RefusalsStep ==
  ASSUME SInv, Honest, Refusals, [Next]_vars
  PROVE  Refusals'
<1> USE DEF SInv
<1> SUFFICES ASSUME ~torn', NEW c \in Callers, op'[c] # "login", pc'[c] = "refused"
             PROVE  pair'[c] \in lost' \cup revoked'
  BY DEF Refusals
<1>1. ~torn /\ lost \subseteq lost' /\ revoked \subseteq revoked'
  BY HistoryGrows
<1>2. op'[c] = op[c] /\ pair'[c] = pair[c]
  BY RefusedStep
<1>3. CASE pc[c] = "refused"
  BY <1>1, <1>2, <1>3 DEF Refusals
<1>4. ASSUME NEW m \in net, m.from = c, pc[c] = "token", ServerRefuses(m)
      PROVE  pair[c] \in lost \cup revoked
  <2>1. m.pair = pair[c] /\ pair[c] \in DOMAIN issued /\ pair[c] # None
    BY <1>2, <1>4, AuthAssumption DEF TInv, Pairs, Pending, InHand, Known, Types, Issue, None
  <2>2. pair[c] \in spent \cup revoked
    BY <1>4, <2>1 DEF ServerRefuses, Refreshable
  <2>3. pair[c] \in spent => pair[c] \in lost
    BY <1>1, <1>2, <1>4 DEF Honest, Refresher
  <2> QED
    BY <2>2, <2>3
<1> QED
  BY <1>1, <1>2, <1>3, <1>4, RefusedStep

(* Only a 401 starts a retry. *)
LEMMA RetryStep ==
  ASSUME TInv, [Next]_vars, NEW c \in Callers, op'[c] = "retry"
  PROVE  \/ op[c] = "retry" /\ rejected'[c] = rejected[c]
         \/ /\ pc[c] = "api" /\ op[c] = "valid" /\ Rejects(pair[c])
            /\ rejected'[c] = pair[c]
<1> USE DEF TInv, Types, taskVars
<1> DEFINE Goal == \/ op[c] = "retry" /\ rejected'[c] = rejected[c]
                   \/ /\ pc[c] = "api" /\ op[c] = "valid" /\ Rejects(pair[c])
                      /\ rejected'[c] = pair[c]
<1>1. ASSUME NEW d \in Callers, Return(d) PROVE Goal
  BY <1>1 DEF Return
<1>2. CASE UNCHANGED <<op, rejected>>
  BY <1>2
<1>3. ASSUME NEW d \in Callers, Call(d) \/ Login(d) PROVE Goal
  BY <1>1, <1>3 DEF Call, Login
<1>4. ASSUME NEW d \in Callers, ApiAnswer(d) PROVE Goal
  BY <1>1, <1>2, <1>4 DEF ApiAnswer
<1>5. ASSUME NEW d \in Callers, Step(d) PROVE Goal
  BY <1>1, <1>2, <1>4, <1>5
  DEF Step, Check, Lock, Recheck, Receive, Refused, Publish, Persist, SaveFails, RequestFails
<1>6. ASSUME NEW m \in net, ServerGrants(m) \/ ServerRefuses(m) \/ ServerFails(m) PROVE Goal
  BY <1>2, <1>6 DEF ServerGrants, ServerRefuses, ServerFails
<1>7. ASSUME NEW T, Kill(T) PROVE Goal
  BY <1>7 DEF Kill
<1> QED
  BY <1>2, <1>3, <1>5, <1>6, <1>7
  DEF Next, Environment, Revoke, Drop, Flush, Overwrite, Tick, Crash, PowerLoss, vars

(* A token that is not used after its time is refused only before it. *)
LEMMA GivenUpStep ==
  ASSUME TInv, Timed, GivenUp, [Next]_vars
  PROVE  GivenUp'
<1> SUFFICES ASSUME NEW c \in Callers, op'[c] = "retry" PROVE rejected'[c] \in dropped'
  BY DEF GivenUp
<1>1. dropped \subseteq dropped'
  BY DEF Next, Step, Environment, Call, Login, Check, Lock, Recheck, Receive, Refused, Publish,
         Persist, SaveFails, ApiAnswer, RequestFails, ServerGrants, ServerRefuses, ServerFails,
         Revoke, Drop, Flush, Overwrite, Crash, PowerLoss, Tick, serverVars, vars
<1>2. CASE op[c] = "retry" /\ rejected'[c] = rejected[c]
  BY <1>1, <1>2 DEF GivenUp
<1>3. CASE /\ pc[c] = "api" /\ op[c] = "valid" /\ Rejects(pair[c])
           /\ rejected'[c] = pair[c]
  <2>1. pair[c] \in DOMAIN issued /\ now < issued[pair[c]].expiry
    BY <1>3, ValidInTime DEF ValidWhileSent, TInv, Pairs, InHand
  <2>2. pair[c] \in dropped
    BY <1>3, <2>1, Numbers DEF Rejects, TInv
  <2> QED
    BY <1>1, <1>3, <2>2
<1> QED
  BY <1>2, <1>3, RetryStep

(* In one process SessionExpired is only said when it is so: after a       *)
(* refresh, of a token that was revoked or whose successor was lost by     *)
(* accident, unless saves have overlapped; after a second 401, when the    *)
(* API has given up one token before its time and accepts no other.        *)
THEOREM HonestLogout == OneProcess /\ Patience => (Spec => []NoFalseLogout)
<1> SUFFICES ASSUME OneProcess, Patience PROVE Spec => []NoFalseLogout
  OBVIOUS
<1>1. Init => Honest /\ Refusals /\ GivenUp
  BY DEF Init, Honest, Refusals, GivenUp, Refresher
<1>2. SInv /\ Honest /\ Refusals /\ [Next]_vars => Honest' /\ Refusals'
  BY HonestStep, RefusalsStep
<1>3. TInv /\ Timed /\ GivenUp /\ [Next]_vars => GivenUp'
  BY GivenUpStep
<1>4. TInv /\ Refusals /\ GivenUp => NoFalseLogout
  <2> SUFFICES ASSUME TInv, Refusals, GivenUp, NEW c \in Callers,
                      Refusal(c) = "SessionExpired"
               PROVE  /\ pc[c] = "refused" => torn \/ pair[c] \in lost \cup revoked
                      /\ pc[c] = "denied" => /\ rejected[c] \in dropped
                                             /\ pair[c] # rejected[c] /\ Rejects(pair[c])
    BY DEF NoFalseLogout
  <2>1. ASSUME pc[c] = "refused", op[c] = "login" PROVE FALSE
    <3>1. CASE ~RfcErrors
      <4>1. Refusal(c) = "Status(400)"
        BY <2>1, <3>1, Zenon DEF Refusal
      <4> QED
        BY <4>1
    <3>2. CASE RfcErrors
      <4>1. Refusal(c) = "InvalidGrant"
        BY <2>1, <3>2, Zenon DEF Refusal
      <4> QED
        BY <4>1
    <3> QED
      BY <3>1, <3>2
  <2>2. pc[c] = "refused" => torn \/ pair[c] \in lost \cup revoked
    BY <2>1 DEF Refusals
  <2>3. pc[c] = "denied" => op[c] = "retry" /\ pair[c] # rejected[c] /\ Rejects(pair[c])
    BY DEF TInv, Control, Operations, Pairs, Denials
  <2> QED
    BY <2>2, <2>3 DEF GivenUp
<1> QED
  BY <1>1, <1>2, <1>3, <1>4, Sessions, InTime, PTL DEF Spec
=============================================================================
