--------------------------- MODULE AuthTaskProofs ---------------------------
(***************************************************************************)
(* What AuthManager guarantees whoever else is at work: for any number of  *)
(* processes, tasks, grants, restarts and ticks of the clock, and logins   *)
(* at any time.  It is what holds of each task by itself and of the lock   *)
(* of each process; AuthManagerProofs has what also needs the tasks to     *)
(* agree on the file.                                                      *)
(*                                                                         *)
(* Control says that the queue of a lock holds exactly the tasks inside    *)
(* refresh_if, and that whoever is past the lock is its head.  Pairs says  *)
(* that a task has in hand what its state says and that every request is   *)
(* of a task that waits for it.  Timed adds the clock, for MarginIsEnough. *)
(***************************************************************************)
EXTENDS AuthManager, TLAPS

(* An operation is under way where pc says so, and a login knows no lock. *)
Operations ==
  \A c \in Callers :
    /\ op[c] = "none" <=> pc[c] = "idle"
    /\ op[c] = "login" => pc[c] \in Busy \ {"recheck"}
    /\ pc[c] = "check" => op[c] = "valid"
    /\ pc[c] = "denied" => op[c] = "retry"

(* In refresh_if: waiting for the lock or having it. *)
InLock(c) == op[c] # "login" /\ pc[c] \in Busy \cup {"lock"}
Inside(p) == {c \in Callers : Proc[c] = p /\ InLock(c)}

(* The queue of a process holds the tasks that are inside refresh_if, each once. *)
Queued ==
  \A p \in Processes :
    /\ \A i \in 1 .. Len(lockq[p]) : lockq[p][i] \in Inside(p)
    /\ \A i, j \in 1 .. Len(lockq[p]) : lockq[p][i] = lockq[p][j] => i = j

InQueue(c) == \E i \in 1 .. Len(lockq[Proc[c]]) : lockq[Proc[c]][i] = c

Enlisted == \A c \in Callers : InLock(c) => InQueue(c)

(* Past the lock means at the head of the queue. *)
Locked == \A c \in Callers : Refreshing(c) => Holds(c)

(* Every pair that is anywhere has been granted, each after the one it replaced. *)
Known ==
  /\ saved \subseteq DOMAIN issued
  /\ stored \in saved \cup {None}
  /\ durable \in saved \cup {None}
  /\ \A i \in DOMAIN issued : issued[i].replaced < i
  /\ \A m \in net : m.pair \in DOMAIN issued \cup {None}
  /\ \A c \in Callers : rejected[c] \in DOMAIN issued \cup {None}

(* What a task has in hand is or was in the file, or has been granted and is not what the  *)
(* API rejected.  What it has saved is or was in the file unless the save was overlapped.  *)
InHand ==
  \A c \in Callers :
    /\ pc[c] \in {"check", "recheck"} => pair[c] \in saved
    /\ pc[c] = "token" /\ op[c] # "login" => pair[c] \in saved
    /\ pc[c] \in {"granted", "publish", "persist", "api", "denied"} => pair[c] \in DOMAIN issued
    /\ pc[c] \in {"persist", "api"} => torn \/ pair[c] \in saved
    /\ pc[c] \in {"granted", "publish", "persist"} => pair[c] # rejected[c]

(* A second 401 is about another token, which the API does not accept either. *)
Denials ==
  \A c \in Callers : pc[c] = "denied" => pair[c] # rejected[c] /\ Rejects(pair[c])

(* A request under way is its task's, or abandoned and no login. *)
Pending ==
  \A m \in net :
    /\ m.from \in Callers =>
         /\ pc[m.from] = "token"
         /\ IF op[m.from] = "login" THEN m.pair = None ELSE m.pair = pair[m.from]
    /\ m.from = "nobody" => m.pair # None

Control == Operations /\ Queued /\ Enlisted /\ Locked

Pairs == Known /\ InHand /\ Denials /\ Pending /\ RetryIsNew

TInv == Types /\ Control /\ Pairs

(* When a task must have got on, and what that says of the pair it has in hand. *)
TimedTask(c) ==
  /\ pc[c] \in Waiting => now <= deadline[c] /\ deadline[c] <= now + Timeout
  /\ pc[c] = "granted" => deadline[c] <= issued[pair[c]].expiry - Lifetime + Timeout
  /\ pc[c] \in {"publish", "persist"} => now <= issued[pair[c]].expiry - Lifetime + Timeout
  /\ pc[c] = "publish" => expiresAt[pair[c]] <= issued[pair[c]].expiry + Timeout - Margin
  /\ pc[c] = "api" /\ op[c] = "valid" => deadline[c] < issued[pair[c]].expiry

(* ... and a pair in the file expires, for rsc, early enough. *)
Timed ==
  /\ \A c \in Callers : TimedTask(c)
  /\ \A i \in saved : expiresAt[i] <= issued[i].expiry + Timeout - Margin

-----------------------------------------------------------------------------
LEMMA EmptySeq == \A S : << >> \in Seq(S) /\ Len(<< >>) = 0
  OBVIOUS

LEMMA SeqElement == \A S : \A s \in Seq(S) : \A i \in DOMAIN s : s[i] \in S
  OBVIOUS

LEMMA InitTInv == Init => TInv
<1> SUFFICES ASSUME Init PROVE TInv
  OBVIOUS
<1> USE AuthAssumption DEF Init, File!Init, None, MaybeIssue, Issue
<1>1. Types
  <2>1. lockq \in [Processes -> Seq(Callers)]
    <3> DEFINE empty == << >>
    <3>1. empty \in Seq(Callers)
      OBVIOUS
    <3> HIDE DEF empty
    <3>2. lockq = [p \in Processes |-> empty]
      BY DEF empty
    <3> QED
      BY <3>1, <3>2
  <2>2. issued \in Seq([replaced : MaybeIssue, expiry : Nat]) /\ Len(issued) = 0
    BY EmptySeq
  <2>3. now \in 0 .. MaxTime /\ stored \in MaybeIssue /\ durable \in MaybeIssue
    OBVIOUS
  <2>4. torn \in BOOLEAN /\ lost = {}
    BY Zenon
  <2>5. /\ expiresAt \in [Issue -> Nat] /\ deadline \in [Callers -> Nat]
    OBVIOUS
  <2>6. /\ pc \in [Callers -> States] /\ op \in [Callers -> {"none", "valid", "retry", "login"}]
    BY DEF States
  <2>7. /\ pair \in [Callers -> MaybeIssue] /\ rejected \in [Callers -> MaybeIssue]
    OBVIOUS
  <2>8. /\ spent = {} /\ revoked = {} /\ dropped = {} /\ net = {} /\ saved = {}
        /\ Len(issued) <= MaxIssued
    BY <2>2
  <2> HIDE DEF Init
  <2> QED
    BY <2>1, <2>2, <2>3, <2>4, <2>5, <2>6, <2>7, <2>8 DEF Types
<1>2. Operations /\ Queued /\ Enlisted /\ Locked
  BY DEF Operations, Queued, Enlisted, Locked, InLock, Refreshing, Busy
<1>3. Known /\ InHand /\ Denials /\ Pending /\ RetryIsNew
  BY DEF Known, InHand, Denials, Pending, RetryIsNew
<1> QED
  BY <1>1, <1>2, <1>3 DEF TInv, Control, Pairs

(* What is known of the numbers. *)
LEMMA Numbers ==
  ASSUME Types
  PROVE  /\ now \in Nat /\ Lifetime \in Nat /\ Margin \in Nat /\ Timeout \in Nat
         /\ \A c \in Callers : deadline[c] \in Nat
         /\ \A i \in DOMAIN issued : i \in Issue /\ issued[i].expiry \in Nat /\ expiresAt[i] \in Nat
<1>1. now \in Nat /\ \A c \in Callers : deadline[c] \in Nat
  BY AuthAssumption DEF Types
<1>2. ASSUME NEW i \in DOMAIN issued
      PROVE  i \in Issue /\ issued[i].expiry \in Nat /\ expiresAt[i] \in Nat
  <2> DEFINE Grants == [replaced : MaybeIssue, expiry : Nat]
  <2>1. \A g \in Grants : g.expiry \in Nat
    OBVIOUS
  <2>2. issued[i] \in Grants
    <3>1. issued \in Seq(Grants)
      BY DEF Types
    <3> HIDE DEF Grants
    <3> QED
      BY <3>1, SeqElement
  <2>3. i \in Issue
    BY AuthAssumption DEF Types, Issue
  <2> QED
    BY <2>1, <2>2, <2>3 DEF Types
<1> QED
  BY <1>1, <1>2, AuthAssumption

(* What the API does not accept it never accepts again. *)
LEMMA RejectsStays ==
  ASSUME Types, now' \in {now, now + 1}, dropped \subseteq dropped',
         NEW i \in DOMAIN issued, issued'[i] = issued[i], Rejects(i)
  PROVE  Rejects(i)'
  BY Numbers DEF Rejects

(* What is lost was issued. *)
LEMMA LossesType ==
  ASSUME Types, InHand, NEW T \in SUBSET Callers
  PROVE  Losses(T) \subseteq MaybeIssue
<1> SUFFICES ASSUME NEW c \in Callers, Unsaved(c) PROVE Sent(c) \in MaybeIssue
  BY DEF Losses
<1>1. CASE pc[c] = "token"
  BY <1>1 DEF Sent, Types
<1>2. CASE pc[c] # "token"
  <2> DEFINE Grants == [replaced : MaybeIssue, expiry : Nat]
  <2>1. \A g \in Grants : g.replaced \in MaybeIssue
    OBVIOUS
  <2>2. issued[pair[c]] \in Grants
    <3>1. issued \in Seq(Grants) /\ pair[c] \in DOMAIN issued
      BY <1>2 DEF Types, InHand, Unsaved
    <3> HIDE DEF Grants
    <3> QED
      BY <3>1, SeqElement
  <2> QED
    BY <1>2, <2>1, <2>2 DEF Sent
<1> QED
  BY <1>1, <1>2

(* What a save may leave in the file is a pair or nothing. *)
LEMMA PutType ==
  ASSUME Types, InHand, NEW t,
         t \in Mixed \/ \E c \in Callers : pc[c] = "publish" /\ t = pair[c]
  PROVE  t = None \/ (t \in DOMAIN issued /\ t \in Issue)
<1>1. DOMAIN issued \subseteq Issue
  BY AuthAssumption DEF Types, Issue
<1>2. \A c \in Callers : pc[c] = "publish" => pair[c] \in DOMAIN issued
  BY DEF InHand
<1> QED
  BY <1>1, <1>2 DEF Mixed

(* What is published is a pair. *)
LEMMA TypeStep == Types /\ InHand /\ [Next]_vars => Types'
<1> SUFFICES ASSUME Types, InHand, [Next]_vars PROVE Types'
  OBVIOUS
<1> USE AuthAssumption DEF Types, taskVars, fileVars, serverVars, history,
        States, Waiting, Request, MaybeIssue, Issue, None
<1>0. DOMAIN issued = 1 .. Len(issued) /\ DOMAIN issued \subseteq Issue
  OBVIOUS
<1>1. ASSUME NEW c \in Callers, Return(c)
      PROVE  /\ pc' \in [Callers -> States]
             /\ op' \in [Callers -> {"none", "valid", "retry", "login"}]
             /\ pair' \in [Callers -> MaybeIssue] /\ rejected' \in [Callers -> MaybeIssue]
             /\ deadline' \in [Callers -> Nat]
  BY <1>1 DEF Return
<1>2. ASSUME NEW c \in Callers, Release(c) PROVE lockq' \in [Processes -> Seq(Callers)]
  BY <1>2 DEF Release, Holds
<1>3. ASSUME NEW c \in Callers, Enqueue(c)
      PROVE  /\ pc' \in [Callers -> States]
             /\ pair' \in [Callers -> MaybeIssue]
             /\ deadline' \in [Callers -> Nat]
             /\ lockq' \in [Processes -> Seq(Callers)]
  BY <1>3 DEF Enqueue
<1>4. ASSUME NEW c \in Callers, NEW s \in States, Await(c, s)
      PROVE  pc' \in [Callers -> States] /\ deadline' \in [Callers -> Nat]
  BY <1>4 DEF Await
<1>5. ASSUME NEW T, Abandon(T) PROVE net' \subseteq Request
  BY <1>5 DEF Abandon
<1>6. ASSUME NEW T, Kill(T)
      PROVE  /\ pc' \in [Callers -> States]
             /\ op' \in [Callers -> {"none", "valid", "retry", "login"}]
             /\ pair' \in [Callers -> MaybeIssue] /\ rejected' \in [Callers -> MaybeIssue]
             /\ deadline' \in [Callers -> Nat]
             /\ net' \subseteq Request
  BY <1>5, <1>6 DEF Kill
(* The steps of a task that leave file, server and history alone. *)
<1>0a. ASSUME /\ pc' \in [Callers -> States]
              /\ op' \in [Callers -> {"none", "valid", "retry", "login"}]
              /\ pair' \in [Callers -> MaybeIssue] /\ rejected' \in [Callers -> MaybeIssue]
              /\ deadline' \in [Callers -> Nat]
              /\ lockq' \in [Processes -> Seq(Callers)]
              /\ net' \subseteq Request
              /\ UNCHANGED <<now, fileVars, serverVars, history>>
       PROVE  Types'
  BY <1>0a
<1>7. ASSUME NEW c \in Callers, Call(c) PROVE Types'
  <2>1. CASE Return(c)
    BY <1>7, <2>1, <1>1 DEF Call
  <2>2. CASE ~Return(c)
    <3>1. /\ pc' = [pc EXCEPT ![c] = "check"]
          /\ op' = [op EXCEPT ![c] = "valid"]
          /\ pair' = [pair EXCEPT ![c] = stored]
      BY <1>7, <2>2 DEF Call
    <3> QED
      BY <1>7, <2>2, <3>1 DEF Call
  <2> QED
    BY <2>1, <2>2
<1>8. ASSUME NEW c \in Callers, Check(c) PROVE Types'
  BY <1>8, <1>3, <1>4 DEF Check
<1>9. ASSUME NEW c \in Callers, Lock(c) PROVE Types'
  <2>0. UNCHANGED <<now, fileVars, serverVars, net, history>>
    BY <1>9, Zenon DEF Lock
  <2>1. CASE Return(c) /\ Release(c)
    <3>1. lockq' \in [Processes -> Seq(Callers)]
      BY <2>1, <1>2
    <3> QED
      BY <2>0, <2>1, <3>1, <1>1, <1>0a
  <2>2. CASE /\ pc' = [pc EXCEPT ![c] = "recheck"]
             /\ pair' = [pair EXCEPT ![c] = stored]
             /\ UNCHANGED <<op, rejected, deadline, lockq>>
    <3>1. pc' \in [Callers -> States] /\ pair' \in [Callers -> MaybeIssue]
      BY <2>2
    <3> QED
      BY <2>0, <2>2, <3>1, <1>0a
  <2> QED
    BY <1>9, <2>1, <2>2, Zenon DEF Lock
<1>10. ASSUME NEW c \in Callers, Recheck(c) PROVE Types'
  <2>0. UNCHANGED <<now, op, pair, rejected, fileVars, serverVars, history>>
    BY <1>10, Zenon DEF Recheck
  <2>1. CASE Await(c, "api") /\ Release(c) /\ UNCHANGED net
    <3>1. pc' \in [Callers -> States] /\ deadline' \in [Callers -> Nat]
      BY <2>1, <1>4
    <3>2. lockq' \in [Processes -> Seq(Callers)]
      BY <2>1, <1>2
    <3> QED
      BY <2>0, <2>1, <3>1, <3>2, <1>0a
  <2>2. CASE /\ Await(c, "token") /\ UNCHANGED lockq
             /\ net' = net \cup {[from |-> c, pair |-> pair[c]]}
    <3>1. pc' \in [Callers -> States] /\ deadline' \in [Callers -> Nat]
      BY <2>2, <1>4
    <3>2. net' \subseteq Request
      BY <2>2
    <3> QED
      BY <2>0, <2>2, <3>1, <3>2, <1>0a
  <2> QED
    BY <1>10, <2>1, <2>2, Zenon DEF Recheck
<1>11. ASSUME NEW c \in Callers, Login(c) PROVE Types'
  <2>1. /\ Await(c, "token")
        /\ op' = [op EXCEPT ![c] = "login"]
        /\ net' = net \cup {[from |-> c, pair |-> None]}
        /\ UNCHANGED <<now, pair, rejected, lockq, fileVars, serverVars, history>>
    BY <1>11, Zenon DEF Login
  <2>2. pc' \in [Callers -> States] /\ deadline' \in [Callers -> Nat]
    BY <2>1, <1>4
  <2>3. net' \subseteq Request /\ op' \in [Callers -> {"none", "valid", "retry", "login"}]
    BY <2>1
  <2> QED
    BY <2>1, <2>2, <2>3, <1>0a
<1>12. ASSUME NEW c \in Callers, Receive(c) PROVE Types'
  <2>1. ExpiresAt \in Nat
    BY DEF ExpiresAt
  <2> QED
    BY <1>12, <2>1 DEF Receive
<1>13. ASSUME NEW c \in Callers, Refused(c) PROVE Types'
  BY <1>13, <1>1, <1>2 DEF Refused
<1>14. ASSUME NEW c \in Callers, Publish(c) PROVE Types'
  <2>1. PICK t \in Mixed \cup {pair[c]} : Put(t)
    BY <1>14 DEF Publish
  <2>2. t = None \/ t \in Issue
    BY <1>14, <2>1, PutType DEF Publish
  <2>3. stored' \in MaybeIssue /\ saved' \subseteq Issue /\ durable' = durable
    BY <2>1, <2>2 DEF Put, File!Publish
  <2> QED
    BY <1>14, <2>3 DEF Publish
<1>14a. CASE Overwrite
  <2>1. PICK t \in Mixed : Put(t)
    BY <1>14a DEF Overwrite
  <2>2. t = None \/ t \in Issue
    BY <2>1, PutType
  <2>3. stored' \in MaybeIssue /\ saved' \subseteq Issue /\ durable' = durable
    BY <2>1, <2>2 DEF Put, File!Publish
  <2> QED
    BY <1>14a, <2>3 DEF Overwrite
<1>15. ASSUME NEW c \in Callers, Persist(c) PROVE Types'
  BY <1>15, <1>1, <1>2, <1>4 DEF Persist, File!Persist
<1>16. ASSUME NEW c \in Callers, SaveFails(c) PROVE Types'
  <2>1. lost' \subseteq MaybeIssue
    BY <1>16, LossesType DEF SaveFails
  <2> QED
    BY <1>16, <1>1, <1>2, <2>1 DEF SaveFails
<1>17. ASSUME NEW c \in Callers, ApiAnswer(c) PROVE Types'
  <2>0. UNCHANGED <<now, fileVars, serverVars, net, history>>
    BY <1>17, Zenon DEF ApiAnswer
  <2>1. CASE Return(c) /\ UNCHANGED lockq
    BY <2>0, <2>1, <1>1, <1>0a
  <2>2. CASE /\ pc' = [pc EXCEPT ![c] = "denied"]
             /\ deadline' = [deadline EXCEPT ![c] = 0]
             /\ UNCHANGED <<op, pair, rejected, lockq>>
    <3>1. pc' \in [Callers -> States] /\ deadline' \in [Callers -> Nat]
      BY <2>2
    <3> QED
      BY <2>0, <2>2, <3>1, <1>0a
  <2>3. CASE /\ op' = [op EXCEPT ![c] = "retry"]
             /\ rejected' = [rejected EXCEPT ![c] = pair[c]] /\ Enqueue(c)
    <3>1. /\ op' \in [Callers -> {"none", "valid", "retry", "login"}]
          /\ rejected' \in [Callers -> MaybeIssue]
      BY <2>3
    <3> QED
      BY <2>0, <2>3, <3>1, <1>3, <1>0a
  <2> QED
    BY <1>17, <2>1, <2>2, <2>3, Zenon DEF ApiAnswer
<1>18. ASSUME NEW c \in Callers, RequestFails(c) PROVE Types'
  <2>1. lost' \subseteq MaybeIssue
    BY <1>18, LossesType DEF RequestFails
  <2> QED
    BY <1>18, <1>1, <1>2, <1>5, <2>1 DEF RequestFails
<1>19. ASSUME NEW m \in net, ServerGrants(m) PROVE Types'
  <2> DEFINE grant == [replaced |-> m.pair, expiry |-> now + Lifetime]
  <2>1. m.pair \in MaybeIssue /\ grant \in [replaced : MaybeIssue, expiry : Nat]
    OBVIOUS
  <2>2. issued' = Append(issued, grant) /\ Len(issued) < MaxIssued
    BY <1>19 DEF ServerGrants
  <2> HIDE DEF grant
  <2>3. /\ issued' \in Seq([replaced : MaybeIssue, expiry : Nat])
        /\ Len(issued') = Len(issued) + 1
    BY <2>1, <2>2
  <2>4. Len(issued') \in Issue /\ Len(issued') <= MaxIssued
    BY <2>2, <2>3
  <2>5. spent' \subseteq Issue
    BY <1>19, <2>1 DEF ServerGrants
  <2>6. pair' \in [Callers -> MaybeIssue]
    BY <1>19, <2>4 DEF ServerGrants
  <2>7. pc' \in [Callers -> States] /\ net' \subseteq Request
    BY <1>19 DEF ServerGrants, Answer
  <2> QED
    BY <1>19, <2>3, <2>4, <2>5, <2>6, <2>7 DEF ServerGrants
<1>20. ASSUME NEW m \in net, ServerRefuses(m) PROVE Types'
  BY <1>20 DEF ServerRefuses, Answer
<1>21. ASSUME NEW m \in net, ServerFails(m) PROVE Types'
  BY <1>21 DEF ServerFails, Answer
<1>22. CASE Revoke
  BY <1>0, <1>22 DEF Revoke
<1>23. ASSUME NEW i \in DOMAIN issued, Drop(i) PROVE Types'
  BY <1>0, <1>23 DEF Drop
<1>24. CASE Flush
  BY <1>24 DEF Flush, File!Persist
<1>25. ASSUME NEW p \in Processes, Crash(p) PROVE Types'
  <2> DEFINE T == {c \in Callers : Proc[c] = p}
             empty == << >>
  <2>2. /\ Kill(T) /\ lockq' = [lockq EXCEPT ![p] = empty]
        /\ lost' = lost \cup Losses(T)
        /\ UNCHANGED <<now, fileVars, serverVars, saved>>
    BY <1>25, Zenon DEF Crash
  <2>3. empty \in Seq(Callers)
    OBVIOUS
  <2>1. T \in SUBSET Callers
    OBVIOUS
  <2> HIDE DEF T, empty
  <2>4. lockq' \in [Processes -> Seq(Callers)]
    BY <2>2, <2>3
  <2>5. /\ pc' \in [Callers -> States]
        /\ op' \in [Callers -> {"none", "valid", "retry", "login"}]
        /\ pair' \in [Callers -> MaybeIssue] /\ rejected' \in [Callers -> MaybeIssue]
        /\ deadline' \in [Callers -> Nat]
        /\ net' \subseteq Request
    BY <2>2, <1>6, Zenon
  <2>6. lost' \subseteq MaybeIssue
    BY <2>1, <2>2, LossesType
  <2> QED
    BY <2>2, <2>4, <2>5, <2>6
<1>26. CASE PowerLoss
  <2>2. saved' \subseteq Issue /\ lockq' \in [Processes -> Seq(Callers)]
    <3> DEFINE empty == << >>
    <3>1. empty \in Seq(Callers)
      OBVIOUS
    <3> HIDE DEF empty
    <3>2. lockq' = [p \in Processes |-> empty] /\ \A i \in saved' : i \in saved
      BY <1>26 DEF PowerLoss, empty
    <3> QED
      BY <3>1, <3>2
  <2>3. stored' \in MaybeIssue /\ durable' \in MaybeIssue
    BY <1>26 DEF PowerLoss, File!Revert
  <2>4. Kill(Callers) /\ UNCHANGED <<now, torn, expiresAt, serverVars>>
    BY <1>26, Zenon DEF PowerLoss
  <2>5. lost' \subseteq MaybeIssue
    <3>1. Losses(Callers) \subseteq MaybeIssue
      BY LossesType
    <3>2. \A i \in lost' : i \in lost \cup Losses(Callers) \/ i \in spent
      BY <1>26 DEF PowerLoss
    <3> QED
      BY <3>1, <3>2
  <2> QED
    BY <2>2, <2>3, <2>4, <2>5, <1>6
<1>27. CASE Tick
  BY <1>27 DEF Tick
<1>28. CASE UNCHANGED vars
  BY <1>28 DEF vars
<1> QED
  BY <1>7, <1>8, <1>9, <1>10, <1>11, <1>12, <1>13, <1>14, <1>15, <1>16, <1>17,
     <1>14a, <1>18, <1>19, <1>20, <1>21, <1>22, <1>23, <1>24, <1>25, <1>26, <1>27, <1>28
  DEF Next, Step, Environment

-----------------------------------------------------------------------------
(* The lock. *)

LEMMA QueueType ==
  ASSUME Types, NEW p \in Processes
  PROVE  /\ lockq[p] \in Seq(Callers) /\ Len(lockq[p]) \in Nat
         /\ \A i \in 1 .. Len(lockq[p]) : lockq[p][i] \in Callers
  BY DEF Types

(* Nobody in the queue leaves refresh_if without leaving the queue. *)
LEMMA QueueKept ==
  ASSUME Types, Queued, UNCHANGED lockq, \A c \in Callers : InLock(c) => InLock(c)'
  PROVE  Queued'
  BY DEF Queued, Inside

LEMMA QueueGrows ==
  ASSUME Types, Queued, NEW c \in Callers, ~InLock(c), InLock(c)',
         lockq' = [lockq EXCEPT ![Proc[c]] = Append(@, c)],
         \A d \in Callers : InLock(d) => InLock(d)'
  PROVE  /\ Queued' /\ InQueue(c)'
         /\ \A d \in Callers : (Holds(d) => Holds(d)') /\ (InQueue(d) => InQueue(d)')
<1> DEFINE p == Proc[c]
           q == lockq[p]
<1>1. p \in Processes
  BY AuthAssumption
<1>2. /\ q \in Seq(Callers) /\ Len(q) \in Nat
      /\ \A i \in 1 .. Len(q) : q[i] \in Callers /\ q[i] # c
  BY <1>1, QueueType DEF Queued, Inside
<1>3. /\ Len(Append(q, c)) = Len(q) + 1
      /\ Append(q, c)[Len(q) + 1] = c
      /\ \A i \in 1 .. Len(q) : Append(q, c)[i] = q[i]
  BY <1>2
<1>4. lockq'[p] = Append(q, c) /\ \A r \in Processes \ {p} : lockq'[r] = lockq[r]
  BY <1>1 DEF Types
<1>5. Queued'
  <2>0. /\ c \in Inside(p)'
        /\ \A r : Inside(r) \subseteq Inside(r)'
    BY DEF Inside
  <2> SUFFICES ASSUME NEW r \in Processes
               PROVE  /\ \A i \in 1 .. Len(lockq'[r]) :
                           lockq'[r][i] \in Inside(r)'
                      /\ \A i, j \in 1 .. Len(lockq'[r]) :
                           lockq'[r][i] = lockq'[r][j] => i = j
    BY DEF Queued
  <2>1. CASE r = p
    BY <1>1, <1>2, <1>3, <1>4, <2>0, <2>1 DEF Queued
  <2>2. CASE r # p
    BY <1>4, <2>0, <2>2 DEF Queued
  <2> QED
    BY <2>1, <2>2
<1>6. \A d \in Callers : Holds(d) => Holds(d)'
  <2> SUFFICES ASSUME NEW d \in Callers, Holds(d) PROVE Holds(d)'
    OBVIOUS
  <2>1. Proc[d] \in Processes
    BY AuthAssumption
  <2>2. CASE Proc[d] = p
    BY <1>2, <1>3, <1>4, <2>2 DEF Holds
  <2>3. CASE Proc[d] # p
    BY <1>4, <2>1, <2>3 DEF Holds
  <2> QED
    BY <2>2, <2>3
<1>7. InQueue(c)' /\ \A d \in Callers : InQueue(d) => InQueue(d)'
  <2>1. InQueue(c)'
    BY <1>2, <1>3, <1>4 DEF InQueue
  <2>2. ASSUME NEW d \in Callers, InQueue(d) PROVE InQueue(d)'
    <3>1. CASE Proc[d] = p
      BY <1>2, <1>3, <1>4, <2>2, <3>1 DEF InQueue
    <3>2. CASE Proc[d] # p
      BY <1>4, <2>2, <3>2, AuthAssumption DEF InQueue
    <3> QED
      BY <3>1, <3>2
  <2> QED
    BY <2>1, <2>2
<1> QED
  BY <1>5, <1>6, <1>7

LEMMA QueueShrinks ==
  ASSUME Types, Queued, NEW c \in Callers, Release(c),
         ~Holds(c) => ~InLock(c),
         \A d \in Callers \ {c} : InLock(d) => InLock(d)'
  PROVE  Queued' /\ \A d \in Callers \ {c} : InQueue(d) => InQueue(d)'
<1> DEFINE p == Proc[c]
           q == lockq[p]
<1>1. p \in Processes
  BY AuthAssumption
<1>2. /\ q \in Seq(Callers) /\ Len(q) \in Nat
      /\ \A i \in 1 .. Len(q) : q[i] \in Callers
  BY <1>1, QueueType
<1>3. CASE ~Holds(c)
  <2>1. \A r : Inside(r) \subseteq Inside(r)'
    BY <1>3 DEF Inside
  <2> QED
    BY <1>3, <2>1 DEF Queued, Release, InQueue
<1>4. CASE Holds(c)
  <2>0. \A r : Inside(r) \ {c} \subseteq Inside(r)'
    BY DEF Inside
  <2>1. lockq'[p] = Tail(q) /\ \A r \in Processes \ {p} : lockq'[r] = lockq[r]
    BY <1>1, <1>4 DEF Release, Types
  <2>2. q # << >> /\ q[1] = c /\ Len(q) >= 1
    BY <1>2, <1>4 DEF Holds
  <2>3. /\ Len(Tail(q)) = Len(q) - 1
        /\ \A i \in 1 .. Len(q) - 1 : Tail(q)[i] = q[i + 1]
    BY <1>2, <2>2
  <2>4. \A i \in 2 .. Len(q) : q[i] # c
    BY <1>1, <1>2, <2>2 DEF Queued
  <2>4a. ASSUME NEW d \in Callers \ {c}, InQueue(d) PROVE InQueue(d)'
    <3>1. CASE Proc[d] = p
      <4>1. PICK i \in 1 .. Len(q) : q[i] = d
        BY <2>4a, <3>1 DEF InQueue
      <4>2. i - 1 \in 1 .. Len(q) - 1 /\ Tail(q)[i - 1] = d
        BY <1>2, <2>2, <2>3, <4>1
      <4> QED
        BY <2>1, <2>3, <3>1, <4>2 DEF InQueue
    <3>2. CASE Proc[d] # p
      BY <2>1, <2>4a, <3>2, AuthAssumption DEF InQueue
    <3> QED
      BY <3>1, <3>2
  <2> SUFFICES ASSUME NEW r \in Processes
               PROVE  /\ \A i \in 1 .. Len(lockq'[r]) :
                           lockq'[r][i] \in Inside(r)'
                      /\ \A i, j \in 1 .. Len(lockq'[r]) :
                           lockq'[r][i] = lockq'[r][j] => i = j
    BY <2>4a DEF Queued
  <2>5. CASE r = p
    <3>1. \A i \in 1 .. Len(q) - 1 : /\ i + 1 \in 2 .. Len(q) /\ i + 1 \in 1 .. Len(q)
                                     /\ Tail(q)[i] = q[i + 1]
      BY <1>2, <2>3
    <3>2. \A i \in 1 .. Len(q) - 1 : Tail(q)[i] \in Inside(p)'
      BY <1>1, <2>0, <2>4, <3>1 DEF Queued
    <3>3. \A i, j \in 1 .. Len(q) - 1 : Tail(q)[i] = Tail(q)[j] => i = j
      BY <1>1, <1>2, <3>1 DEF Queued
    <3> QED
      <4> DEFINE t == Tail(q)
                 n == Len(q) - 1
      <4>1. lockq'[r] = t /\ Len(t) = n
        BY <2>1, <2>3, <2>5
      <4>2. \A i \in 1 .. n : t[i] \in Inside(r)'
        BY <2>5, <3>2 DEF Inside
      <4>3. \A i, j \in 1 .. n : t[i] = t[j] => i = j
        BY <3>3
      <4> HIDE DEF t, n
      <4> QED
        BY <4>1, <4>2, <4>3
  <2>6. CASE r # p
    <3>1. c \notin Inside(r)
      BY <2>6 DEF Inside
    <3>2. lockq'[r] = lockq[r]
      BY <2>1, <2>6
    <3>3. \A i \in 1 .. Len(lockq[r]) : lockq[r][i] \in Inside(r)'
      BY <2>0, <3>1 DEF Queued
    <3> QED
      BY <3>2, <3>3 DEF Queued
  <2> QED
    BY <2>5, <2>6
<1> QED
  BY <1>3, <1>4
-----------------------------------------------------------------------------
(* Who does what, and who has the lock. *)

(* Two heads of one queue are one task. *)
LEMMA OneHolder ==
  ASSUME NEW c \in Callers, NEW d \in Callers, Proc[c] = Proc[d], Holds(c), Holds(d)
  PROVE  c = d
  BY DEF Holds

(* The head of a queue is in it. *)
LEMMA HolderQueued ==
  ASSUME Types, NEW c \in Callers, Holds(c)
  PROVE  InQueue(c)
<1>1. lockq[Proc[c]] \in Seq(Callers)
  BY AuthAssumption DEF Types
<1> QED
  BY <1>1 DEF Holds, InQueue

LEMMA SameControl ==
  ASSUME Control, UNCHANGED <<pc, op, lockq>>
  PROVE  Control'
  BY DEF Control, Operations, Queued, Enlisted, InQueue, Inside, InLock, Locked, Refreshing, Holds

(* A step of task c keeps its place in the queue, joins it, or leaves it   *)
(* together with refresh_if.                                               *)
LEMMA TaskStep ==
  ASSUME Types, Control, NEW c \in Callers,
         \A d \in Callers \ {c} : pc'[d] = pc[d] /\ op'[d] = op[d],
         op'[c] \in {"none", "valid", "retry", "login"}, op'[c] = "none" <=> pc'[c] = "idle",
         op'[c] = "login" => pc'[c] \in Busy \ {"recheck"},
         pc'[c] = "check" => op'[c] = "valid", pc'[c] = "denied" => op'[c] = "retry",
         \/ /\ UNCHANGED lockq /\ pc'[c] # "lock"
            /\ InLock(c) => InLock(c)'
            /\ Refreshing(c)' => Holds(c)
         \/ /\ ~InLock(c) /\ pc'[c] = "lock" /\ op'[c] # "login"
            /\ lockq' = [lockq EXCEPT ![Proc[c]] = Append(@, c)]
         \/ /\ Release(c) /\ ~Refreshing(c)' /\ pc'[c] # "lock"
            /\ ~Holds(c) => ~InLock(c)
  PROVE  Control'
<1>1. Operations'
  BY DEF Control, Operations
<1>3. \A d \in Callers \ {c} : /\ InLock(d) <=> InLock(d)'
                               /\ Refreshing(d) <=> Refreshing(d)'
  BY DEF InLock, Refreshing
<1>4. CASE /\ UNCHANGED lockq /\ pc'[c] # "lock"
           /\ InLock(c) => InLock(c)'
           /\ Refreshing(c)' => Holds(c)
  <2>1. Queued'
    BY <1>3, <1>4, QueueKept DEF Control
  <2>2. Locked'
    BY <1>3, <1>4 DEF Control, Locked, Holds
  <2>3. InLock(c)' => Refreshing(c)'
    BY <1>1, <1>4 DEF InLock, Refreshing, Operations, Busy
  <2>4. Refreshing(c)' => InQueue(c)
    BY <1>4, HolderQueued
  <2>5. Enlisted'
    BY <1>3, <1>4, <2>3, <2>4 DEF Control, Enlisted, InQueue
  <2> QED
    BY <1>1, <2>1, <2>2, <2>5 DEF Control
<1>5. CASE /\ ~InLock(c) /\ pc'[c] = "lock" /\ op'[c] # "login"
           /\ lockq' = [lockq EXCEPT ![Proc[c]] = Append(@, c)]
  <2>1. InLock(c)' /\ ~Refreshing(c)'
    BY <1>5 DEF InLock, Refreshing, Busy
  <2>2. /\ Queued' /\ InQueue(c)'
        /\ \A d \in Callers : (Holds(d) => Holds(d)') /\ (InQueue(d) => InQueue(d)')
    BY <1>3, <1>5, <2>1, QueueGrows DEF Control
  <2>3. Locked'
    BY <1>3, <2>1, <2>2 DEF Control, Locked
  <2>4. Enlisted'
    BY <1>3, <2>2 DEF Control, Enlisted
  <2> QED
    BY <1>1, <2>2, <2>3, <2>4 DEF Control
<1>6. CASE /\ Release(c) /\ ~Refreshing(c)' /\ pc'[c] # "lock"
           /\ ~Holds(c) => ~InLock(c)
  <2>1. Queued' /\ \A d \in Callers \ {c} : InQueue(d) => InQueue(d)'
    BY <1>3, <1>6, QueueShrinks DEF Control
  <2>2. Locked'
    <3>1. CASE Holds(c)
      <4>1. \A d \in Callers \ {c} : Refreshing(d) => Holds(d) /\ Proc[d] # Proc[c]
        BY <3>1, OneHolder DEF Control, Locked
      <4>2. \A d \in Callers : Proc[d] # Proc[c] => lockq'[Proc[d]] = lockq[Proc[d]]
        BY <1>6, AuthAssumption DEF Release, Types
      <4> QED
        BY <1>3, <1>6, <4>1, <4>2 DEF Locked, Holds
    <3>2. CASE ~Holds(c)
      BY <1>3, <1>6, <3>2 DEF Control, Locked, Release, Holds
    <3> QED
      BY <3>1, <3>2
  <2>3. Enlisted'
    <3>1. ~InLock(c)'
      BY <1>1, <1>6 DEF InLock, Refreshing, Operations, Busy
    <3> QED
      BY <1>3, <2>1, <3>1 DEF Control, Enlisted
  <2> QED
    BY <1>1, <2>1, <2>2, <2>3 DEF Control
<1> QED
  BY <1>4, <1>5, <1>6

(* An answer changes the state of the task it is for, which is "token". *)
LEMMA AnswerStep ==
  ASSUME Types, Control, Pending, NEW m \in net,
         NEW s \in {"granted", "refused", "unavailable"}, Answer(m, s),
         UNCHANGED <<op, lockq>>
  PROVE  Control'
<1>1. CASE m.from \in Callers
  <2> DEFINE c == m.from
  <2>1. pc[c] = "token" /\ pc' = [pc EXCEPT ![c] = s]
    BY <1>1 DEF Pending, Answer
  <2>2. pc'[c] = s /\ \A d \in Callers \ {c} : pc'[d] = pc[d] /\ op'[d] = op[d]
    BY <1>1, <2>1 DEF Types
  <2>3. /\ op[c] # "none" /\ op'[c] = op[c] /\ op[c] \in {"none", "valid", "retry", "login"}
        /\ InLock(c) => InLock(c)'
        /\ Refreshing(c)' => Holds(c)
    BY <1>1, <2>1, <2>2 DEF Types, Control, Operations, Locked, InLock, Refreshing, Busy
  <2> HIDE DEF c
  <2>4. c \in Callers
    BY <1>1 DEF c
  <2> QED
    BY <2>1, <2>2, <2>3, <2>4, TaskStep DEF Busy
<1>2. CASE m.from \notin Callers
  BY <1>2, SameControl DEF Answer
<1> QED
  BY <1>1, <1>2

LEMMA ControlStep ==
  ASSUME Types, Control, Pending, [Next]_vars
  PROVE  Control'
<1> USE DEF Control, Operations, Types, taskVars, fileVars, serverVars, history
<1> DEFINE Others(c) == \A d \in Callers \ {c} : pc'[d] = pc[d] /\ op'[d] = op[d]
<1>1. ASSUME NEW c \in Callers, Return(c)
      PROVE  Others(c) /\ pc'[c] = "idle" /\ op'[c] = "none"
  BY <1>1 DEF Return
<1>2. ASSUME NEW c \in Callers, NEW s, Await(c, s)
      PROVE  pc'[c] = s /\ \A d \in Callers \ {c} : pc'[d] = pc[d]
  BY <1>2 DEF Await
<1>3. ASSUME NEW c \in Callers, Enqueue(c)
      PROVE  /\ pc'[c] = "lock" /\ \A d \in Callers \ {c} : pc'[d] = pc[d]
             /\ lockq' = [lockq EXCEPT ![Proc[c]] = Append(@, c)]
  BY <1>3 DEF Enqueue
<1>4. ASSUME NEW c \in Callers, pc[c] \in Busy, ~Holds(c) PROVE ~InLock(c)
  BY <1>4 DEF Locked, Refreshing, InLock, Busy
<1>5. ASSUME NEW c \in Callers, Return(c), Release(c), ~Holds(c) => ~InLock(c)
      PROVE  Control'
  <2>1. Others(c) /\ pc'[c] = "idle" /\ op'[c] = "none" /\ ~Refreshing(c)'
    BY <1>1, <1>5 DEF Refreshing
  <2> QED
    BY <1>5, <2>1, TaskStep
<1>6. ASSUME NEW c \in Callers, Call(c) PROVE Control'
  <2>1. CASE Return(c)
    BY <1>6, <2>1, <1>1, TaskStep DEF Call, InLock, Refreshing, Busy
  <2>2. CASE ~Return(c)
    <3>1. Others(c) /\ pc'[c] = "check" /\ op'[c] = "valid" /\ pc[c] = "idle" /\ UNCHANGED lockq
      BY <1>6, <2>2 DEF Call
    <3> QED
      BY <3>1, TaskStep DEF InLock, Refreshing, Busy
  <2> QED
    BY <2>1, <2>2
<1>7. ASSUME NEW c \in Callers, Check(c) PROVE Control'
  <2>1. Others(c) /\ op'[c] = op[c] /\ pc[c] = "check" /\ op[c] # "none" /\ op[c] # "login"
    BY <1>7, <1>2, <1>3 DEF Check, Busy
  <2>2. CASE ~IsExpired(pair[c])
    <3>1. pc'[c] = "api" /\ UNCHANGED lockq
      BY <1>2, <1>7, <2>2 DEF Check
    <3> QED
      BY <2>1, <3>1, TaskStep DEF InLock, Refreshing, Busy
  <2>3. CASE IsExpired(pair[c])
    BY <1>7, <1>3, <2>1, <2>3, TaskStep DEF Check, InLock, Refreshing, Busy
  <2> QED
    BY <2>2, <2>3
<1>8. ASSUME NEW c \in Callers, Lock(c) PROVE Control'
  <2>1. CASE Return(c) /\ Release(c)
    BY <1>5, <1>8, <2>1 DEF Lock
  <2>2. CASE ~Return(c) \/ ~Release(c)
    <3>1. /\ Others(c) /\ pc'[c] = "recheck" /\ op'[c] = op[c] /\ pc[c] = "lock"
          /\ UNCHANGED lockq /\ Holds(c) /\ op[c] # "none" /\ op[c] # "login"
      BY <1>8, <2>2 DEF Lock, Busy
    <3> QED
      BY <3>1, TaskStep DEF InLock, Busy
  <2> QED
    BY <2>1, <2>2
<1>9. ASSUME NEW c \in Callers, Recheck(c) PROVE Control'
  <2>1. /\ Others(c) /\ op'[c] = op[c] /\ pc[c] = "recheck" /\ op[c] # "none" /\ op[c] # "login"
        /\ Holds(c)
    BY <1>9, <1>2 DEF Recheck, Busy, Locked, Refreshing
  <2>2. CASE ~NeedsRefresh(c)
    <3>1. pc'[c] = "api" /\ Release(c)
      BY <1>2, <1>9, <2>2 DEF Recheck
    <3> QED
      BY <2>1, <3>1, TaskStep DEF Refreshing, Busy
  <2>3. CASE NeedsRefresh(c)
    <3>1. pc'[c] = "token" /\ UNCHANGED lockq
      BY <1>2, <1>9, <2>3 DEF Recheck
    <3> QED
      BY <2>1, <3>1, TaskStep DEF InLock, Busy
  <2> QED
    BY <2>2, <2>3
<1>10. ASSUME NEW c \in Callers, Login(c) PROVE Control'
  <2>1. Others(c) /\ op'[c] = "login" /\ pc'[c] = "token" /\ UNCHANGED lockq /\ pc[c] = "idle"
    BY <1>10, <1>2 DEF Login
  <2> QED
    BY <2>1, TaskStep DEF InLock, Refreshing, Busy
<1>11. ASSUME NEW c \in Callers, Receive(c) PROVE Control'
  <2>1. /\ Others(c) /\ op'[c] = op[c] /\ pc[c] = "granted" /\ pc'[c] = "publish"
        /\ op[c] # "none" /\ UNCHANGED lockq
    BY <1>11 DEF Receive
  <2> QED
    BY <2>1, TaskStep DEF InLock, Refreshing, Busy, Locked
<1>12. ASSUME NEW c \in Callers, Refused(c) PROVE Control'
  <2>1. ~Holds(c) => ~InLock(c)
    BY <1>4, <1>12 DEF Refused, InLock, Busy
  <2> QED
    BY <1>5, <1>12, <2>1 DEF Refused
<1>13. ASSUME NEW c \in Callers, Publish(c) PROVE Control'
  <2>1. /\ Others(c) /\ op'[c] = op[c] /\ pc[c] = "publish" /\ pc'[c] = "persist"
        /\ op[c] # "none" /\ UNCHANGED lockq
    BY <1>13 DEF Publish
  <2> QED
    BY <2>1, TaskStep DEF InLock, Refreshing, Busy, Locked
<1>14. ASSUME NEW c \in Callers, Persist(c) PROVE Control'
  <2>0. pc[c] = "persist" /\ Release(c) /\ op[c] # "none" /\ (~Holds(c) => ~InLock(c))
    BY <1>4, <1>14 DEF Persist, Busy
  <2>1. CASE op[c] = "login"
    BY <1>5, <1>14, <2>0, <2>1 DEF Persist
  <2>2. CASE op[c] # "login"
    <3>1. Others(c) /\ op'[c] = op[c] /\ pc'[c] = "api"
      BY <1>2, <1>14, <2>2 DEF Persist
    <3> QED
      BY <2>0, <2>2, <3>1, TaskStep DEF Refreshing, Busy
  <2> QED
    BY <2>1, <2>2
<1>15. ASSUME NEW c \in Callers, SaveFails(c) PROVE Control'
  BY <1>4, <1>5, <1>15 DEF SaveFails, Busy
<1>16. ASSUME NEW c \in Callers, ApiAnswer(c) PROVE Control'
  <2>1. pc[c] = "api" /\ ~InLock(c)
    BY <1>16 DEF ApiAnswer, InLock, Busy
  <2>2. CASE Return(c) /\ UNCHANGED lockq
    <3>1. Others(c) /\ pc'[c] = "idle" /\ op'[c] = "none" /\ ~Refreshing(c)'
      BY <1>1, <2>2 DEF Refreshing
    <3> QED
      BY <2>1, <2>2, <3>1, TaskStep
  <2>3. CASE op' = [op EXCEPT ![c] = "retry"] /\ Enqueue(c)
    <3>1. /\ Others(c) /\ pc'[c] = "lock" /\ op'[c] = "retry"
          /\ lockq' = [lockq EXCEPT ![Proc[c]] = Append(@, c)]
      BY <1>3, <2>3
    <3> QED
      BY <2>1, <3>1, TaskStep
  <2>4. CASE /\ op[c] = "retry" /\ pc' = [pc EXCEPT ![c] = "denied"]
             /\ UNCHANGED <<op, pair, rejected, lockq>>
    <3>1. /\ Others(c) /\ pc'[c] = "denied" /\ op'[c] = "retry" /\ ~Refreshing(c)'
          /\ UNCHANGED lockq
      BY <2>4 DEF Refreshing, Busy
    <3> QED
      BY <2>1, <3>1, TaskStep
  <2> QED
    BY <1>16, <2>2, <2>3, <2>4 DEF ApiAnswer
<1>17. ASSUME NEW c \in Callers, RequestFails(c) PROVE Control'
  <2>1. ~Holds(c) => ~InLock(c)
    BY <1>4, <1>17 DEF RequestFails, Waiting, Busy, InLock
  <2> QED
    BY <1>5, <1>17, <2>1 DEF RequestFails
<1>18. ASSUME NEW m \in net, ServerGrants(m) PROVE Control'
  BY <1>18, AnswerStep DEF ServerGrants
<1>19. ASSUME NEW m \in net, ServerRefuses(m) PROVE Control'
  BY <1>19, AnswerStep DEF ServerRefuses
<1>20. ASSUME NEW m \in net, ServerFails(m) PROVE Control'
  BY <1>20, AnswerStep DEF ServerFails
<1>21. ASSUME NEW p \in Processes, Crash(p) PROVE Control'
  <2> DEFINE T == {c \in Callers : Proc[c] = p}
  <2>1. Kill(T) /\ lockq' = [lockq EXCEPT ![p] = << >>]
    BY <1>21 DEF Crash
  <2>2. \A c \in Callers : IF Proc[c] = p THEN pc'[c] = "idle" /\ op'[c] = "none"
                           ELSE pc'[c] = pc[c] /\ op'[c] = op[c]
    BY <2>1 DEF Kill
  <2>3. Operations'
    BY <2>2
  <2>4. \A q \in Processes \ {p} : lockq'[q] = lockq[q] /\ Inside(q) \subseteq Inside(q)'
    BY <2>1, <2>2 DEF Inside, InLock
  <2>5. lockq'[p] = << >> /\ Len(lockq'[p]) = 0
    BY <2>1
  <2>6. Queued'
    BY <2>4, <2>5 DEF Queued
  <2>7. Locked'
    <3> SUFFICES ASSUME NEW c \in Callers, Refreshing(c)' PROVE Holds(c)'
      BY DEF Locked
    <3>1. Proc[c] # p /\ Refreshing(c)
      BY <2>2 DEF Refreshing, Busy
    <3>2. Holds(c) /\ Proc[c] \in Processes
      BY <3>1, AuthAssumption DEF Locked
    <3> QED
      BY <2>4, <3>1, <3>2 DEF Holds
  <2>8. Enlisted'
    <3> SUFFICES ASSUME NEW c \in Callers, InLock(c)' PROVE InQueue(c)'
      BY DEF Enlisted
    <3>1. Proc[c] # p /\ InLock(c) /\ Proc[c] \in Processes
      BY <2>2, AuthAssumption DEF InLock, Busy
    <3> QED
      BY <2>4, <3>1 DEF Enlisted, InQueue
  <2> QED
    BY <2>3, <2>6, <2>7, <2>8
<1>22. CASE PowerLoss
  <2>1. Kill(Callers) /\ lockq' = [p \in Processes |-> << >>]
    BY <1>22 DEF PowerLoss
  <2>2. \A c \in Callers : pc'[c] = "idle" /\ op'[c] = "none"
    BY <2>1 DEF Kill
  <2>3. \A p \in Processes : Len(lockq'[p]) = 0
    BY <2>1, EmptySeq
  <2> QED
    BY <2>2, <2>3 DEF Queued, Enlisted, Locked, InLock, Refreshing, Busy
<1>23. CASE UNCHANGED <<pc, op, lockq>>
  BY <1>23, SameControl
<1> QED
  BY <1>6, <1>7, <1>8, <1>9, <1>10, <1>11, <1>12, <1>13, <1>14, <1>15, <1>16, <1>17,
     <1>18, <1>19, <1>20, <1>21, <1>22, <1>23
  DEF Next, Step, Environment, Revoke, Drop, Flush, Overwrite, Tick, vars

-----------------------------------------------------------------------------
(* Which pair is where. *)

(* A save adds pairs to the file's history that a task had in hand for it. *)
Saves ==
  /\ \A i \in saved : i \in saved'
  /\ \A i \in saved' : i \in saved \/ \E d \in Callers : pc[d] = "publish" /\ i = pair[d]
  /\ stored' \in saved' \cup {None} /\ durable' \in {durable, stored}

LEMMA PutSaves ==
  ASSUME TInv, NEW t, Put(t),
         t \in Mixed \/ \E c \in Callers : pc[c] = "publish" /\ t = pair[c]
  PROVE  Saves /\ stored' = t
<1>1. t = None \/ \E d \in Callers : pc[d] = "publish" /\ t = pair[d]
  BY DEF Mixed
<1>2. stored' = t /\ durable' = durable /\ saved' = saved \cup ({t} \ {None})
  BY DEF Put, File!Publish
<1> QED
  BY <1>1, <1>2 DEF Saves

(* A step of task c that sends nothing: it may publish what it has in hand. *)
LEMMA LocalPairs ==
  ASSUME TInv, NEW c \in Callers,
         UNCHANGED <<now, issued, dropped, net>>, torn => torn', Saves,
         \A d \in Callers \ {c} : /\ pc'[d] = pc[d] /\ op'[d] = op[d]
                                  /\ pair'[d] = pair[d] /\ rejected'[d] = rejected[d],
         pc[c] # "token", pc'[c] # "token",
         rejected'[c] \in DOMAIN issued \cup {None},
         pc'[c] \in {"check", "recheck"} => pair'[c] \in saved',
         pc'[c] \in {"granted", "publish", "persist", "api", "denied"} => pair'[c] \in DOMAIN issued,
         pc'[c] \in {"persist", "api"} => torn' \/ pair'[c] \in saved',
         pc'[c] \in {"granted", "publish", "persist"} => pair'[c] # rejected'[c],
         pc'[c] = "denied" => pair'[c] # rejected'[c] /\ Rejects(pair'[c]),
         pc'[c] = "api" /\ op'[c] = "retry" => pair'[c] # rejected'[c]
  PROVE  Pairs'
<1> USE DEF TInv, Pairs
<1>1. saved \subseteq saved' /\ saved' \subseteq DOMAIN issued
  BY DEF Known, InHand, Saves
<1>2. Known'
  BY <1>1 DEF Known, Saves
<1>3. InHand'
  BY <1>1 DEF InHand
<1>3a. Denials'
  BY DEF Denials, Rejects
<1>4. Pending'
  BY DEF Pending
<1>5. RetryIsNew'
  BY DEF RetryIsNew
<1> QED
  BY <1>2, <1>3, <1>3a, <1>4, <1>5

LEMMA SamePairs ==
  ASSUME TInv, UNCHANGED <<pc, op, pair, rejected, issued, net, torn>>, Saves,
         now' \in {now, now + 1}, dropped \subseteq dropped'
  PROVE  Pairs'
<1> USE DEF TInv, Pairs
<1>1. saved \subseteq saved' /\ saved' \subseteq DOMAIN issued
  BY DEF Known, InHand, Saves
<1>2. Known' /\ InHand'
  BY <1>1 DEF Known, InHand, Saves
<1>3. Denials'
  BY RejectsStays DEF Denials, InHand
<1>4. Pending' /\ RetryIsNew'
  BY DEF Pending, RetryIsNew
<1> QED
  BY <1>2, <1>3, <1>4

(* The tasks in T stop where they are; if it is all of them, the file may  *)
(* go back to what it was.                                                 *)
LEMMA KillPairs ==
  ASSUME TInv, NEW T \in SUBSET Callers,
         \A c \in T : pc'[c] = "idle" /\ rejected'[c] = None,
         \A c \in Callers \ T : /\ pc'[c] = pc[c] /\ op'[c] = op[c]
                                /\ pair'[c] = pair[c] /\ rejected'[c] = rejected[c],
         Abandon(T), UNCHANGED <<now, issued, dropped, torn>>,
         saved' \subseteq saved, saved' = saved \/ T = Callers,
         stored' \in saved' \cup {None}, durable' \in saved' \cup {None}
  PROVE  Pairs'
<1> USE DEF TInv, Pairs
<1>0. net \subseteq Request
  BY DEF Types
<1>1. ASSUME NEW m \in net'
      PROVE  \E n \in net : /\ m.pair = n.pair
                            /\ n.from \in T => m.from = "nobody" /\ m.pair # None
                            /\ n.from \notin T => m.from = n.from
  <2>1. PICK n \in net : /\ n.from \in T => n.pair # None
                         /\ m = IF n.from \in T THEN [n EXCEPT !.from = "nobody"] ELSE n
    BY <1>1 DEF Abandon
  <2>2. n = [from |-> n.from, pair |-> n.pair]
    BY <1>0, <2>1 DEF Request
  <2> QED
    BY <2>1, <2>2
<1>2. Known'
  BY <1>1 DEF Known
<1>3. InHand'
  BY DEF InHand
<1>3a. Denials'
  BY DEF Denials, Rejects
<1>4. Pending'
  <2> SUFFICES ASSUME NEW m \in net'
               PROVE  /\ m.from \in Callers =>
                           /\ pc'[m.from] = "token"
                           /\ IF op'[m.from] = "login" THEN m.pair = None
                              ELSE m.pair = pair'[m.from]
                      /\ m.from = "nobody" => m.pair # None
    BY DEF Pending
  <2>1. PICK n \in net : /\ m.pair = n.pair
                         /\ n.from \in T => m.from = "nobody" /\ m.pair # None
                         /\ n.from \notin T => m.from = n.from
    BY <1>1
  <2>2. CASE n.from \in T
    BY <2>1, <2>2, AuthAssumption
  <2>3. CASE n.from \notin T
    BY <2>1, <2>3 DEF Pending
  <2> QED
    BY <2>2, <2>3
<1>5. RetryIsNew'
  BY DEF RetryIsNew
<1> QED
  BY <1>2, <1>3, <1>3a, <1>4, <1>5

(* A request goes out. *)
LEMMA SendPairs ==
  ASSUME TInv, NEW c \in Callers, pc[c] \in {"idle", "recheck"}, pc'[c] = "token",
         \A d \in Callers \ {c} : pc'[d] = pc[d] /\ op'[d] = op[d],
         UNCHANGED <<now, pair, rejected, stored, durable, torn, issued, dropped, saved>>,
         NEW x, net' = net \cup {[from |-> c, pair |-> x]},
         \/ op'[c] = "login" /\ x = None
         \/ op'[c] # "login" /\ x = pair[c] /\ x \in saved
  PROVE  Pairs'
<1> USE DEF TInv, Pairs
<1>1. Known'
  BY DEF Known
<1>2. InHand' /\ Denials'
  BY DEF InHand, Denials, Rejects
<1>3. Pending'
  <2> SUFFICES ASSUME NEW m \in net'
               PROVE  /\ m.from \in Callers =>
                           /\ pc'[m.from] = "token"
                           /\ IF op'[m.from] = "login" THEN m.pair = None
                              ELSE m.pair = pair'[m.from]
                      /\ m.from = "nobody" => m.pair # None
    BY DEF Pending
  <2>1. CASE m \in net
    BY <2>1 DEF Pending
  <2>2. CASE m = [from |-> c, pair |-> x]
    BY <2>2, AuthAssumption
  <2> QED
    BY <2>1, <2>2
<1>4. RetryIsNew'
  BY DEF RetryIsNew
<1> QED
  BY <1>1, <1>2, <1>3, <1>4

(* The request that is answered is the only one of its task. *)
LEMMA OnlyRequest ==
  ASSUME TInv, NEW m \in net, NEW n \in net, m.from \in Callers, n.from = m.from
  PROVE  n = m
<1>1. m \in Request /\ n \in Request /\ m.pair = n.pair
  BY DEF TInv, Pairs, Pending, Types
<1> QED
  BY <1>1 DEF Request

(* What a grant changes. *)
LEMMA Granted ==
  ASSUME TInv, NEW m \in net, ServerGrants(m)
  PROVE  \E n \in Nat :
           /\ n = Len(issued) + 1 /\ n \notin DOMAIN issued /\ n # None
           /\ DOMAIN issued' = DOMAIN issued \cup {n} /\ m.pair < n
           /\ \A i \in DOMAIN issued : issued'[i] = issued[i] /\ i < n
           /\ issued'[n].replaced = m.pair /\ issued'[n].expiry = now + Lifetime
           /\ m.from \in Callers =>
                pc[m.from] = "token" /\ pc'[m.from] = "granted" /\ pair'[m.from] = n
           /\ \A d \in Callers : d # m.from => pc'[d] = pc[d] /\ pair'[d] = pair[d]
<1> USE DEF TInv, Pairs
<1>0. PICK n \in Nat : n = Len(issued) + 1
  BY DEF Types
<1>1. /\ issued \in Seq([replaced : MaybeIssue, expiry : Nat])
      /\ m.pair \in MaybeIssue /\ now \in Nat
      /\ Len(issued) \in Nat /\ DOMAIN issued = 1 .. Len(issued)
  BY AuthAssumption DEF Types, Request
<1>2. issued' = Append(issued, [replaced |-> m.pair, expiry |-> now + Lifetime])
  BY DEF ServerGrants
<1>3. /\ Len(issued') = n /\ DOMAIN issued' = DOMAIN issued \cup {n}
      /\ n \notin DOMAIN issued /\ n # None
      /\ \A i \in DOMAIN issued : issued'[i] = issued[i] /\ i < n
      /\ issued'[n].replaced = m.pair /\ issued'[n].expiry = now + Lifetime
  BY <1>0, <1>1, <1>2, AuthAssumption DEF None
<1>4. m.pair < n
  BY <1>0, <1>1, <1>3 DEF Known, None
<1>5. m.from \in Callers => /\ pc[m.from] = "token"
                            /\ pc'[m.from] = "granted" /\ pair'[m.from] = n
  BY <1>0, <1>3 DEF Pending, ServerGrants, Answer, Types
<1>6. \A d \in Callers : d # m.from => pc'[d] = pc[d] /\ pair'[d] = pair[d]
  BY DEF ServerGrants, Answer, Types
<1> QED
  BY <1>0, <1>3, <1>4, <1>5, <1>6

LEMMA GrantPairs ==
  ASSUME TInv, NEW m \in net, ServerGrants(m)
  PROVE  Pairs'
<1> USE DEF TInv, Pairs
<1>1. PICK n \in Nat :
           /\ n = Len(issued) + 1 /\ n \notin DOMAIN issued /\ n # None
           /\ DOMAIN issued' = DOMAIN issued \cup {n} /\ m.pair < n
           /\ \A i \in DOMAIN issued : issued'[i] = issued[i] /\ i < n
           /\ issued'[n].replaced = m.pair /\ issued'[n].expiry = now + Lifetime
           /\ m.from \in Callers =>
                pc[m.from] = "token" /\ pc'[m.from] = "granted" /\ pair'[m.from] = n
           /\ \A d \in Callers : d # m.from => pc'[d] = pc[d] /\ pair'[d] = pair[d]
  BY Granted
<1>2. /\ UNCHANGED <<now, stored, durable, torn, saved, op, rejected, dropped>>
      /\ net' = net \ {m}
  BY DEF ServerGrants, Answer, fileVars, history
<1>3. Known'
  BY <1>1, <1>2 DEF Known
<1>4. InHand'
  BY <1>1, <1>2 DEF InHand, Known
<1>4a. Denials'
  <2> SUFFICES ASSUME NEW d \in Callers, pc'[d] = "denied"
               PROVE  pair'[d] # rejected'[d] /\ Rejects(pair[d])' /\ pair'[d] = pair[d]
    BY DEF Denials, Rejects
  <2>1. pc[d] = "denied" /\ pair'[d] = pair[d] /\ pair[d] \in DOMAIN issued
    BY <1>1 DEF InHand
  <2> QED
    BY <1>1, <1>2, <2>1 DEF Denials, Rejects
<1>5. Pending'
  <2>1. \A r \in net' : r.from \in Callers => r.from # m.from
    BY <1>2, OnlyRequest
  <2> QED
    BY <1>1, <1>2, <2>1 DEF Pending
<1>6. RetryIsNew'
  BY <1>1, <1>2 DEF RetryIsNew
<1> QED
  BY <1>3, <1>4, <1>4a, <1>5, <1>6

LEMMA RefusalPairs ==
  ASSUME TInv, NEW m \in net, NEW s \in {"refused", "unavailable"}, Answer(m, s),
         UNCHANGED <<now, op, pair, rejected, stored, durable, torn, issued, dropped, saved>>
  PROVE  Pairs'
<1> USE DEF TInv, Pairs
<1>1. net' = net \ {m}
  BY DEF Answer
<1>2. m.from \in Callers => pc[m.from] = "token" /\ pc'[m.from] = s
  BY DEF Pending, Answer, Types
<1>3. \A d \in Callers : d # m.from => pc'[d] = pc[d]
  BY DEF Answer, Types
<1>4. Known'
  BY <1>1 DEF Known
<1>5. InHand' /\ Denials'
  BY <1>2, <1>3 DEF InHand, Denials, Rejects
<1>6. Pending'
  <2>1. \A r \in net' : r.from \in Callers => r.from # m.from
    BY <1>1, OnlyRequest
  <2> QED
    BY <1>1, <1>3, <2>1 DEF Pending
<1>7. RetryIsNew'
  BY <1>2, <1>3 DEF RetryIsNew
<1> QED
  BY <1>4, <1>5, <1>6, <1>7

LEMMA PairsStep ==
  ASSUME TInv, [Next]_vars
  PROVE  Pairs'
<1> USE DEF taskVars, fileVars, serverVars, history
<1> DEFINE Others(c) == \A d \in Callers \ {c} : /\ pc'[d] = pc[d] /\ op'[d] = op[d]
                                                /\ pair'[d] = pair[d]
                                                /\ rejected'[d] = rejected[d]
           Same == /\ UNCHANGED <<now, stored, issued, dropped, saved, net>>
                   /\ durable' \in {durable, stored} /\ (torn => torn')
<1>0. /\ pc \in [Callers -> States] /\ op \in [Callers -> {"none", "valid", "retry", "login"}]
      /\ pair \in [Callers -> MaybeIssue] /\ rejected \in [Callers -> MaybeIssue]
      /\ \A c \in Callers : rejected[c] \in DOMAIN issued \cup {None}
      /\ saved \subseteq DOMAIN issued /\ stored \in saved \cup {None}
      /\ \A c \in Callers : op[c] = "login" => pc[c] \in Busy \ {"recheck"}
      /\ durable \in saved \cup {None} /\ InHand
  BY DEF TInv, Types, Control, Operations, Pairs, Known
<1>1. ASSUME NEW c \in Callers, Return(c)
      PROVE  Others(c) /\ pc'[c] = "idle" /\ rejected'[c] = None
  BY <1>0, <1>1 DEF Return
<1>2. ASSUME NEW c \in Callers, NEW s, Await(c, s)
      PROVE  pc'[c] = s /\ \A d \in Callers \ {c} : pc'[d] = pc[d]
  BY <1>0, <1>2 DEF Await
<1>3. ASSUME NEW c \in Callers, Enqueue(c)
      PROVE  /\ pc'[c] = "lock" /\ pair'[c] = None
             /\ \A d \in Callers \ {c} : pc'[d] = pc[d] /\ pair'[d] = pair[d]
  BY <1>0, <1>3 DEF Enqueue
<1>4a. ASSUME NEW c \in Callers, Same, Others(c), pc[c] # "token", pc'[c] # "token",
              rejected'[c] \in DOMAIN issued \cup {None},
              pc'[c] \in {"check", "recheck"} => pair'[c] \in saved,
              pc'[c] \in {"granted", "publish", "persist", "api", "denied"} =>
                pair'[c] \in DOMAIN issued,
              pc'[c] \in {"persist", "api"} => torn' \/ pair'[c] \in saved,
              pc'[c] \in {"granted", "publish", "persist"} => pair'[c] # rejected'[c],
              pc'[c] = "denied" => pair'[c] # rejected'[c] /\ Rejects(pair'[c]),
              pc'[c] = "api" /\ op'[c] = "retry" => pair'[c] # rejected'[c]
       PROVE  Pairs'
  <2>1. /\ UNCHANGED <<now, issued, dropped, net, saved>> /\ (torn => torn')
        /\ pc'[c] \in {"check", "recheck"} => pair'[c] \in saved'
        /\ pc'[c] \in {"persist", "api"} => torn' \/ pair'[c] \in saved'
    BY <1>0, <1>4a
  <2>2. Saves
    BY <1>0, <1>4a DEF Saves
  <2> HIDE DEF Same
  <2> QED
    BY <1>4a, <2>1, <2>2, LocalPairs
<1>4. ASSUME NEW c \in Callers, Return(c), Same, pc[c] # "token"
      PROVE  Pairs'
  BY <1>0, <1>1, <1>4, <1>4a
<1>5. ASSUME NEW c \in Callers, Call(c) PROVE Pairs'
  <2>1. CASE Return(c)
    BY <1>4, <1>5, <2>1 DEF Call
  <2>2. CASE ~Return(c)
    <3>1. Others(c) /\ pc'[c] = "check" /\ op'[c] = "valid" /\ pair'[c] = stored
      BY <1>0, <1>5, <2>2 DEF Call
    <3>2. Same /\ pc[c] = "idle" /\ rejected' = rejected /\ stored # None
      BY <1>5, <2>2 DEF Call
    <3> QED
      BY <1>0, <2>2, <3>1, <3>2, <1>4a
  <2> QED
    BY <2>1, <2>2
<1>6. ASSUME NEW c \in Callers, Check(c) PROVE Pairs'
  <2>1. /\ Same /\ UNCHANGED <<op, rejected>> /\ pc[c] = "check" /\ pair[c] \in saved
        /\ op[c] # "login"
    BY <1>0, <1>6 DEF Check, Busy, InHand
  <2>2. CASE Await(c, "api") /\ UNCHANGED pair
    <3>1. op[c] = "valid"
      BY <2>1 DEF TInv, Control, Operations
    <3> QED
      BY <1>0, <1>2, <2>1, <2>2, <3>1, <1>4a
  <2>3. CASE Enqueue(c)
    BY <1>0, <1>3, <2>1, <2>3, <1>4a
  <2> QED
    BY <1>6, <2>2, <2>3 DEF Check
<1>7. ASSUME NEW c \in Callers, Lock(c) PROVE Pairs'
  <2>1. CASE Return(c) /\ Release(c)
    BY <1>4, <1>7, <2>1 DEF Lock
  <2>2. CASE ~Return(c) \/ ~Release(c)
    <3>1. Others(c) /\ pc'[c] = "recheck" /\ pair'[c] = stored /\ UNCHANGED <<op, rejected>>
      BY <1>0, <1>7, <2>2 DEF Lock
    <3>2. Same /\ pc[c] = "lock" /\ stored # None
      BY <1>7, <2>2 DEF Lock
    <3> QED
      BY <1>0, <2>2, <3>1, <3>2, <1>4a
  <2> QED
    BY <2>1, <2>2
<1>8. ASSUME NEW c \in Callers, Recheck(c) PROVE Pairs'
  <2>1. /\ UNCHANGED <<now, op, pair, rejected, stored, durable, torn, issued, dropped, saved>>
        /\ pc[c] = "recheck" /\ op[c] # "login" /\ pair[c] \in saved
    BY <1>0, <1>8 DEF Recheck, InHand
  <2>2. CASE ~NeedsRefresh(c) /\ Await(c, "api") /\ UNCHANGED net
    <3>1. op[c] = "retry" => pair[c] # rejected[c]
      BY <2>2 DEF NeedsRefresh
    <3> QED
      BY <1>0, <1>2, <2>1, <2>2, <3>1, <1>4a
  <2>3. CASE Await(c, "token") /\ net' = net \cup {[from |-> c, pair |-> pair[c]]}
    BY <1>2, <2>1, <2>3, SendPairs
  <2> QED
    BY <1>8, <2>2, <2>3 DEF Recheck
<1>9. ASSUME NEW c \in Callers, Login(c) PROVE Pairs'
  <2>1. /\ UNCHANGED <<now, pair, rejected, stored, durable, torn, issued, dropped, saved>>
        /\ pc[c] = "idle" /\ net' = net \cup {[from |-> c, pair |-> None]}
    BY <1>9 DEF Login
  <2>2. /\ pc'[c] = "token" /\ op'[c] = "login"
        /\ \A d \in Callers \ {c} : pc'[d] = pc[d] /\ op'[d] = op[d]
    BY <1>0, <1>2, <1>9 DEF Login
  <2> QED
    BY <2>1, <2>2, SendPairs
<1>10. ASSUME NEW c \in Callers, Receive(c) PROVE Pairs'
  <2>1. /\ Same /\ UNCHANGED <<op, pair, rejected>> /\ pc[c] = "granted"
        /\ pc'[c] = "publish" /\ \A d \in Callers \ {c} : pc'[d] = pc[d]
        /\ pair[c] \in DOMAIN issued /\ pair[c] # rejected[c]
    BY <1>0, <1>10 DEF Receive, InHand
  <2> QED
    BY <1>0, <2>1, <1>4a
<1>11. ASSUME NEW c \in Callers, Refused(c) PROVE Pairs'
  BY <1>4, <1>11 DEF Refused
<1>12. ASSUME NEW c \in Callers, Publish(c) PROVE Pairs'
  <2>1. /\ pc[c] = "publish" /\ pc'[c] = "persist" /\ UNCHANGED <<op, pair, rejected>>
        /\ \A d \in Callers \ {c} : pc'[d] = pc[d]
        /\ UNCHANGED <<now, issued, dropped, net, torn>>
    BY <1>0, <1>12 DEF Publish
  <2>2. PICK t \in Mixed \cup {pair[c]} : Put(t)
    BY <1>12 DEF Publish
  <2>3. Saves
    BY <2>1, <2>2, PutSaves
  <2>4. pair[c] # rejected[c] /\ pair[c] \in DOMAIN issued
    BY <2>1, <1>0 DEF InHand
  <2>5. torn \/ pair[c] \in saved'
    <3>1. ~torn => t = pair[c]
      BY <2>2 DEF Mixed
    <3>2. DOMAIN issued \subseteq Nat \ {None}
      BY AuthAssumption DEF TInv, Types, None
    <3> QED
      BY <2>2, <2>4, <3>1, <3>2 DEF Put
  <2> QED
    BY <1>0, <2>1, <2>3, <2>4, <2>5, LocalPairs
<1>12a. CASE Overwrite
  <2>1. PICK t \in Mixed : Put(t)
    BY <1>12a DEF Overwrite
  <2>2. Saves
    BY <2>1, PutSaves
  <2> QED
    BY <1>12a, <2>2, SamePairs DEF Overwrite
<1>13. ASSUME NEW c \in Callers, Persist(c) PROVE Pairs'
  <2>1. /\ Same /\ pc[c] = "persist" /\ pair[c] \in DOMAIN issued
        /\ torn' \/ pair[c] \in saved
    BY <1>0, <1>13 DEF Persist, File!Persist, InHand
  <2>2. CASE op[c] = "login"
    BY <1>4, <1>13, <2>1, <2>2 DEF Persist
  <2>3. CASE op[c] # "login"
    <3>1. /\ UNCHANGED <<op, pair, rejected>> /\ pc'[c] = "api"
          /\ \A d \in Callers \ {c} : pc'[d] = pc[d]
      BY <1>2, <1>13, <2>3 DEF Persist
    <3>2. pair[c] # rejected[c]
      BY <2>1, <1>0 DEF InHand
    <3> QED
      BY <1>0, <2>1, <3>1, <3>2, <1>4a
  <2> QED
    BY <2>2, <2>3
<1>14. ASSUME NEW c \in Callers, SaveFails(c) PROVE Pairs'
  BY <1>4, <1>14 DEF SaveFails
<1>15. ASSUME NEW c \in Callers, ApiAnswer(c) PROVE Pairs'
  <2>1. Same /\ pc[c] = "api" /\ pair[c] \in DOMAIN issued
    BY <1>0, <1>15 DEF ApiAnswer, InHand
  <2>2. CASE Return(c)
    BY <1>4, <2>1, <2>2
  <2>3. CASE /\ op' = [op EXCEPT ![c] = "retry"]
             /\ rejected' = [rejected EXCEPT ![c] = pair[c]] /\ Enqueue(c)
    <3>1. Others(c) /\ rejected'[c] = pair[c] /\ pc'[c] = "lock"
      BY <1>0, <1>3, <2>3
    <3> QED
      BY <1>0, <2>1, <3>1, <1>4a
  <2>4. CASE /\ Rejects(pair[c]) /\ op[c] = "retry"
             /\ pc' = [pc EXCEPT ![c] = "denied"] /\ UNCHANGED <<op, pair, rejected>>
    <3>1. Others(c) /\ pc'[c] = "denied" /\ pair'[c] = pair[c] /\ rejected'[c] = rejected[c]
      BY <1>0, <2>4
    <3>2. pair[c] # rejected[c]
      BY <2>1, <2>4 DEF TInv, Pairs, RetryIsNew
    <3> QED
      BY <1>0, <2>1, <2>4, <3>1, <3>2, <1>4a
  <2> QED
    BY <1>15, <2>2, <2>3, <2>4 DEF ApiAnswer
<1>16. ASSUME NEW c \in Callers, RequestFails(c) PROVE Pairs'
  <2> DEFINE T == {c}
  <2>1. /\ Return(c) /\ Abandon(T)
        /\ UNCHANGED <<now, stored, durable, torn, issued, dropped, saved>>
    BY <1>16 DEF RequestFails
  <2>2. T \in SUBSET Callers /\ (\A d \in T : d = c) /\ Callers \ T = Callers \ {c}
    OBVIOUS
  <2> HIDE DEF T
  <2> QED
    BY <1>0, <1>1, <2>1, <2>2, KillPairs
<1>17. ASSUME NEW m \in net, ServerGrants(m) PROVE Pairs'
  BY <1>17, GrantPairs
<1>18. ASSUME NEW m \in net, ServerRefuses(m) PROVE Pairs'
  BY <1>18, RefusalPairs DEF ServerRefuses
<1>19. ASSUME NEW m \in net, ServerFails(m) PROVE Pairs'
  BY <1>19, RefusalPairs DEF ServerFails
<1>20. CASE Revoke
  BY <1>0, <1>20, SamePairs DEF Revoke, Saves
<1>21. ASSUME NEW i \in DOMAIN issued, Drop(i) PROVE Pairs'
  BY <1>0, <1>21, SamePairs DEF Drop, Saves
<1>22. CASE Flush
  BY <1>0, <1>22, SamePairs DEF Flush, File!Persist, Saves
<1>23. ASSUME NEW p \in Processes, Crash(p) PROVE Pairs'
  <2> DEFINE T == {c \in Callers : Proc[c] = p}
  <2>1. Kill(T) /\ UNCHANGED <<now, stored, durable, torn, issued, dropped, saved>>
    BY <1>23 DEF Crash
  <2>2. T \in SUBSET Callers
    OBVIOUS
  <2> HIDE DEF T
  <2>3. /\ Abandon(T) /\ \A c \in T : pc'[c] = "idle" /\ rejected'[c] = None
        /\ \A c \in Callers \ T : /\ pc'[c] = pc[c] /\ op'[c] = op[c]
                                 /\ pair'[c] = pair[c] /\ rejected'[c] = rejected[c]
    BY <2>1, <2>2 DEF Kill
  <2> QED
    BY <1>0, <2>1, <2>2, <2>3, KillPairs
<1>24. CASE PowerLoss
  <2>1. /\ stored' \in {durable, None} /\ durable' = stored'
        /\ saved' = {i \in saved : i <= stored'}
        /\ Kill(Callers) /\ UNCHANGED <<now, torn, issued, dropped>>
    BY <1>24 DEF PowerLoss, File!Revert
  <2>2. stored' \in saved' \cup {None} /\ saved' \subseteq saved
    BY <1>0, <2>1, AuthAssumption DEF TInv, Types, MaybeIssue, Issue, None
  <2>3. Abandon(Callers) /\ \A c \in Callers : pc'[c] = "idle" /\ rejected'[c] = None
    BY <2>1 DEF Kill
  <2> QED
    BY <2>1, <2>2, <2>3, KillPairs
<1>25. CASE Tick
  BY <1>0, <1>25, SamePairs DEF Tick, Saves
<1>26. CASE UNCHANGED vars
  BY <1>0, <1>26, SamePairs DEF vars, Saves
<1> QED
  BY <1>5, <1>6, <1>7, <1>8, <1>9, <1>10, <1>11, <1>12, <1>13, <1>14, <1>15, <1>16, <1>17,
     <1>12a, <1>18, <1>19, <1>20, <1>21, <1>22, <1>23, <1>24, <1>25, <1>26
  DEF Next, Step, Environment

-----------------------------------------------------------------------------
(* The specification keeps the invariant. *)

LEMMA TInvStep == TInv /\ [Next]_vars => TInv'
<1> SUFFICES ASSUME TInv, [Next]_vars PROVE TInv'
  OBVIOUS
<1>1. Types'
  BY TypeStep DEF TInv, Pairs
<1>2. Control'
  BY ControlStep DEF TInv, Pairs
<1>3. Pairs'
  BY PairsStep
<1> QED
  BY <1>1, <1>2, <1>3 DEF TInv

LEMMA TInvariance == Spec => []TInv
  BY InitTInv, TInvStep, PTL DEF Spec

-----------------------------------------------------------------------------
(* The theorems. *)

(* The state stays within its types, and whoever is past its load has a    *)
(* pair in hand (TypeOK of the run AuthManager).                           *)
THEOREM TypeCorrect == Spec => []TypeOK
<1>1. TInv => TypeOK
  <2>1. TInv => HasPair
    <3>1. TInv => \A i \in DOMAIN issued : i # None
      BY AuthAssumption DEF TInv, Types, None
    <3> QED
      BY <3>1 DEF TInv, Pairs, Known, InHand, HasPair
  <2> QED
    BY <2>1 DEF TInv, TypeOK
<1> QED
  BY <1>1, TInvariance, PTL

(* No token is sent to the API before it is in the file: refresh_if and    *)
(* complete_login save what they obtain before they return it.  (Which     *)
(* pair a save that another one overlaps leaves there is not claimed.)     *)
THEOREM SavedBeforeUse == Spec => []UsedOnlySaved
<1>1. TInv => UsedOnlySaved
  BY DEF TInv, Pairs, InHand, UsedOnlySaved
<1> QED
  BY <1>1, TInvariance, PTL

(* The second attempt after a 401 uses another token.                      *)
THEOREM RetryWithNew == Spec => []RetryIsNew
<1>1. TInv => RetryIsNew
  BY DEF TInv, Pairs
<1> QED
  BY <1>1, TInvariance, PTL

(* What refresh_lock is for: two tasks of one process never refresh at     *)
(* once, whatever logins and other processes do.                           *)
THEOREM OneRefreshPerProcess == Spec => []RefreshesExclude
<1>1. TInv => RefreshesExclude
  BY OneHolder DEF TInv, Control, Locked, RefreshesExclude
<1> QED
  BY <1>1, TInvariance, PTL

(* Whoever waits for refresh_lock is in its queue, and the head of that    *)
(* queue is a task of the same process inside refresh_if: no path through  *)
(* refresh_if, no failure and no crash leaves the lock with a task that is *)
(* gone.                                                                   *)
LockIsServed ==
  \A c \in Callers : pc[c] = "lock" =>
    /\ InQueue(c)
    /\ Head(lockq[Proc[c]]) \in Inside(Proc[c])

(* The lock never stays with a task that has left refresh_if.              *)
THEOREM NeverStuckLock == Spec => []LockIsServed
<1>1. TInv => LockIsServed
  <2> SUFFICES ASSUME TInv, NEW c \in Callers, pc[c] = "lock"
               PROVE  InQueue(c) /\ Head(lockq[Proc[c]]) \in Inside(Proc[c])
    BY DEF LockIsServed
  <2> DEFINE q == lockq[Proc[c]]
  <2>1. InQueue(c)
    BY DEF TInv, Control, Operations, Enlisted, InLock, Busy
  <2>2. q \in Seq(Callers) /\ Len(q) \in Nat /\ Proc[c] \in Processes
    BY AuthAssumption DEF TInv, Types
  <2>3. 1 \in 1 .. Len(q) /\ Head(q) = q[1]
    BY <2>1, <2>2 DEF InQueue
  <2>4. q[1] \in Inside(Proc[c])
    BY <2>2, <2>3 DEF TInv, Control, Queued
  <2> QED
    BY <2>1, <2>3, <2>4
<1> QED
  BY <1>1, TInvariance, PTL

(* The tasks that get the lock before c does. *)
Ahead(c) ==
  {d \in Callers : \E i, j \in 1 .. Len(lockq[Proc[c]]) :
                     i < j /\ lockq[Proc[c]][i] = d /\ lockq[Proc[c]][j] = c}

(* refresh_lock is fair: while a task waits for it, nobody gets ahead of it *)
(* who was not there already.                                              *)
NoOvertaking ==
  \A c \in Callers : pc[c] = "lock" /\ pc'[c] = "lock" => Ahead(c)' \subseteq Ahead(c)

(* What can happen to a queue: who joins it did not wait before. *)
Joins(p) == \E d \in Callers : pc[d] # "lock" /\ lockq'[p] = Append(lockq[p], d)

QueueMoves ==
  \A p \in Processes :
    \/ lockq'[p] = lockq[p] \/ Len(lockq'[p]) = 0 \/ Joins(p)
    \/ lockq[p] # << >> /\ lockq'[p] = Tail(lockq[p])

LEMMA QueueStep == Types /\ [Next]_vars => QueueMoves
<1> SUFFICES ASSUME Types, [Next]_vars, NEW p \in Processes
             PROVE  \/ lockq'[p] = lockq[p] \/ Len(lockq'[p]) = 0 \/ Joins(p)
                    \/ lockq[p] # << >> /\ lockq'[p] = Tail(lockq[p])
  BY DEF QueueMoves
<1> DEFINE Moves == \/ lockq'[p] = lockq[p] \/ Len(lockq'[p]) = 0 \/ Joins(p)
                    \/ lockq[p] # << >> /\ lockq'[p] = Tail(lockq[p])
<1> USE DEF taskVars, fileVars, serverVars, history
<1>0. lockq \in [Processes -> Seq(Callers)] /\ Proc \in [Callers -> Processes]
  BY AuthAssumption DEF Types
<1>1. ASSUME NEW c \in Callers, Release(c) PROVE Moves
  BY <1>0, <1>1 DEF Release, Holds
<1>2. ASSUME NEW c \in Callers, pc[c] # "lock", Enqueue(c) PROVE Moves
  <2>1. CASE Proc[c] = p
    BY <1>0, <1>2, <2>1 DEF Enqueue, Joins
  <2>2. CASE Proc[c] # p
    BY <1>0, <1>2, <2>2 DEF Enqueue
  <2> QED
    BY <2>1, <2>2
<1>3. CASE UNCHANGED lockq
  BY <1>3
<1>4. ASSUME NEW c \in Callers, Check(c) PROVE Moves
  BY <1>2, <1>3, <1>4 DEF Check
<1>5. ASSUME NEW c \in Callers, Lock(c) PROVE Moves
  BY <1>1, <1>3, <1>5 DEF Lock
<1>6. ASSUME NEW c \in Callers, Recheck(c) PROVE Moves
  BY <1>1, <1>3, <1>6 DEF Recheck
<1>7. ASSUME NEW c \in Callers,
             Refused(c) \/ Persist(c) \/ SaveFails(c) \/ RequestFails(c)
      PROVE  Moves
  BY <1>1, <1>7 DEF Refused, Persist, SaveFails, RequestFails
<1>8. ASSUME NEW c \in Callers, ApiAnswer(c) PROVE Moves
  <2>1. CASE UNCHANGED lockq
    BY <1>3, <2>1
  <2>2. CASE Enqueue(c)
    BY <1>2, <1>8, <2>2 DEF ApiAnswer
  <2> QED
    BY <1>8, <2>1, <2>2 DEF ApiAnswer
<1>9. ASSUME NEW r \in Processes, Crash(r) PROVE Moves
  <2>1. CASE r = p
    <3>1. lockq'[p] = << >>
      BY <1>0, <1>9, <2>1 DEF Crash
    <3> QED
      BY <3>1, EmptySeq
  <2>2. CASE r # p
    BY <1>0, <1>9, <2>2 DEF Crash
  <2> QED
    BY <2>1, <2>2
<1>10. CASE PowerLoss
  <2>1. lockq'[p] = << >>
    BY <1>10 DEF PowerLoss
  <2> QED
    BY <2>1, EmptySeq
<1>11. ASSUME NEW m \in net, ServerGrants(m) \/ ServerRefuses(m) \/ ServerFails(m)
       PROVE  Moves
  BY <1>3, <1>11 DEF ServerGrants, ServerRefuses, ServerFails
<1> QED
  BY <1>3, <1>4, <1>5, <1>6, <1>7, <1>8, <1>9, <1>10, <1>11
  DEF Next, Step, Environment, Call, Login, Receive, Publish, Overwrite, Revoke, Drop, Flush, Tick,
      vars

(* Nobody overtakes a task that waits for refresh_lock: tokio's Mutex is a *)
(* queue, and every exit from refresh_if takes its own task out of it.     *)
THEOREM FirstComeFirstServed == Spec => [][NoOvertaking]_vars
<1>1. TInv /\ [Next]_vars => NoOvertaking
  <2> SUFFICES ASSUME TInv, [Next]_vars, NEW c \in Callers, pc[c] = "lock", NEW d \in Ahead(c)'
               PROVE  d \in Ahead(c)
    BY DEF NoOvertaking
  <2> DEFINE q == lockq[Proc[c]]
             r == lockq'[Proc[c]]
  <2>1. q \in Seq(Callers) /\ Len(q) \in Nat /\ Proc[c] \in Processes
    BY AuthAssumption DEF TInv, Types
  <2>2. PICK i \in 1 .. Len(r), j \in 1 .. Len(r) : i < j /\ r[i] = d /\ r[j] = c
    BY DEF Ahead
  <2>3. d \in Callers
    BY DEF Ahead
  <2>4. QueueMoves
    BY QueueStep DEF TInv
  <2>5. CASE r = q
    BY <2>2, <2>3, <2>5 DEF Ahead
  <2>6. CASE Len(r) = 0
    BY <2>2, <2>6
  <2>7. CASE Joins(Proc[c])
    <3>1. PICK e \in Callers : pc[e] # "lock" /\ r = Append(q, e)
      BY <2>7 DEF Joins
    <3>2. /\ Len(r) = Len(q) + 1 /\ r[Len(q) + 1] = e
          /\ \A k \in 1 .. Len(q) : r[k] = q[k]
      BY <2>1, <3>1
    <3>3. i \in 1 .. Len(q) /\ j \in 1 .. Len(q)
      BY <2>1, <2>2, <3>1, <3>2
    <3> QED
      BY <2>2, <2>3, <3>2, <3>3 DEF Ahead
  <2>8. CASE q # << >> /\ r = Tail(q)
    <3>1. Len(r) = Len(q) - 1 /\ \A k \in 1 .. Len(r) : r[k] = q[k + 1]
      BY <2>1, <2>8
    <3>2. /\ i + 1 \in 1 .. Len(q) /\ j + 1 \in 1 .. Len(q) /\ i + 1 < j + 1
          /\ q[i + 1] = d /\ q[j + 1] = c
      BY <2>1, <2>2, <3>1
    <3> QED
      BY <2>3, <3>2 DEF Ahead
  <2> QED
    BY <2>1, <2>4, <2>5, <2>6, <2>7, <2>8 DEF QueueMoves
<1> QED
  BY <1>1, TInvariance, PTL DEF Spec

-----------------------------------------------------------------------------
(* Time.  The margin has to cover two requests: the one that fetches the   *)
(* token, whose expiry is counted from the answer instead of the grant,    *)
(* and the one it is used for.                                             *)

Patience == Lifetime > Margin /\ Margin >= 2 * Timeout

(* A step of task c while the clock and the server stand still. *)
LEMMA TimedLocal ==
  ASSUME Timed, NEW c \in Callers,
         UNCHANGED <<now, issued, saved, expiresAt>>,
         \A d \in Callers \ {c} : /\ pc'[d] = pc[d] /\ op'[d] = op[d]
                                  /\ pair'[d] = pair[d] /\ deadline'[d] = deadline[d],
         TimedTask(c)'
  PROVE  Timed'
<1>1. \A d \in Callers \ {c} : TimedTask(d)'
  BY DEF Timed, TimedTask
<1> QED
  BY <1>1 DEF Timed

LEMMA TimedSame ==
  ASSUME Timed, UNCHANGED <<now, issued, saved, expiresAt, pc, op, pair, deadline>>
  PROVE  Timed'
<1>1. \A d \in Callers : TimedTask(d)'
  BY DEF Timed, TimedTask
<1> QED
  BY <1>1 DEF Timed

LEMMA GrantTimed ==
  ASSUME TInv, Timed, NEW m \in net, ServerGrants(m)
  PROVE  Timed'
<1>1. PICK n \in Nat :
           /\ n = Len(issued) + 1 /\ n \notin DOMAIN issued /\ n # None
           /\ DOMAIN issued' = DOMAIN issued \cup {n} /\ m.pair < n
           /\ \A i \in DOMAIN issued : issued'[i] = issued[i] /\ i < n
           /\ issued'[n].replaced = m.pair /\ issued'[n].expiry = now + Lifetime
           /\ m.from \in Callers =>
                pc[m.from] = "token" /\ pc'[m.from] = "granted" /\ pair'[m.from] = n
           /\ \A d \in Callers : d # m.from => pc'[d] = pc[d] /\ pair'[d] = pair[d]
  BY Granted
<1>2. /\ UNCHANGED <<now, saved, expiresAt, op, deadline>>
      /\ saved \subseteq DOMAIN issued
  BY DEF TInv, Pairs, Known, ServerGrants, fileVars, history
<1>3. ASSUME NEW d \in Callers PROVE TimedTask(d)'
  <2>0. TimedTask(d)
    BY DEF Timed
  <2>1. CASE d = m.from
    <3>1. now <= deadline[d] /\ deadline[d] <= now + Timeout
      BY <1>1, <2>0, <2>1 DEF TimedTask, Waiting
    <3> QED
      BY <1>1, <1>2, <2>1, <3>1, Numbers DEF TInv, TimedTask
  <2>2. CASE d # m.from
    <3>1. pc[d] \in {"granted", "publish", "persist", "api"} => pair[d] \in DOMAIN issued
      BY DEF TInv, Pairs, InHand, Known
    <3> QED
      BY <1>1, <1>2, <2>0, <2>2, <3>1 DEF TimedTask
  <2> QED
    BY <2>1, <2>2
<1> QED
  BY <1>1, <1>2, <1>3 DEF Timed

(* The only step that sets an expiry: counted from now, which is at most a *)
(* timeout after the grant.                                                *)
LEMMA ReceiveTimed ==
  ASSUME Patience, TInv, Timed, NEW c \in Callers, Receive(c)
  PROVE  Timed'
<1> USE DEF TInv, Pairs
<1>1. /\ pc[c] = "granted" /\ pc'[c] = "publish"
      /\ UNCHANGED <<now, op, pair, issued, saved>>
      /\ \A d \in Callers \ {c} : pc'[d] = pc[d] /\ deadline'[d] = deadline[d]
  BY DEF Receive, serverVars, history, Types
<1>2. pair[c] \in DOMAIN issued
  BY <1>1 DEF InHand
<1>3. /\ expiresAt'[pair[c]] = now + Lifetime - Margin
      /\ \A i \in DOMAIN issued : i # pair[c] => expiresAt'[i] = expiresAt[i]
  BY <1>2, Numbers DEF Receive, ExpiresAt, Patience, Types
<1>4. now <= issued[pair[c]].expiry - Lifetime + Timeout
  <2>1. now <= deadline[c] /\ deadline[c] <= issued[pair[c]].expiry - Lifetime + Timeout
    BY <1>1 DEF Timed, TimedTask, Waiting
  <2> QED
    BY <1>2, <2>1, Numbers
<1>5. expiresAt'[pair[c]] <= issued[pair[c]].expiry + Timeout - Margin
  BY <1>2, <1>3, <1>4, Numbers
<1>6. TimedTask(c)'
  BY <1>1, <1>4, <1>5 DEF TimedTask, Waiting
<1>7. ASSUME NEW d \in Callers \ {c} PROVE TimedTask(d)'
  <2>1. TimedTask(d)
    BY DEF Timed
  <2>2. pc[d] = "publish" =>
          expiresAt'[pair[d]] <= issued[pair[d]].expiry + Timeout - Margin
    BY <1>3, <1>5, <2>1 DEF InHand, TimedTask
  <2> QED
    BY <1>1, <2>1, <2>2 DEF TimedTask
<1>8. \A i \in saved : expiresAt'[i] <= issued[i].expiry + Timeout - Margin
  BY <1>3, <1>5 DEF Timed, Known
<1> QED
  BY <1>1, <1>6, <1>7, <1>8 DEF Timed

LEMMA TimedStep ==
  ASSUME Patience, TInv, Timed, [Next]_vars
  PROVE  Timed'
<1> USE DEF taskVars, fileVars, serverVars, history
<1> DEFINE Others(c) == \A d \in Callers \ {c} : /\ pc'[d] = pc[d] /\ op'[d] = op[d]
                                                /\ pair'[d] = pair[d]
                                                /\ deadline'[d] = deadline[d]
           Same == UNCHANGED <<now, issued, saved, expiresAt>>
           Untimed == {"idle", "check", "lock", "recheck", "denied"}
<1>0. /\ pc \in [Callers -> States] /\ op \in [Callers -> {"none", "valid", "retry", "login"}]
      /\ pair \in [Callers -> MaybeIssue] /\ deadline \in [Callers -> Nat]
      /\ saved \subseteq DOMAIN issued
      /\ \A c \in Callers : pc[c] \in {"check", "recheck"} => pair[c] \in saved
      /\ \A c \in Callers : pc[c] \in {"publish", "persist", "api"} => pair[c] \in DOMAIN issued
  BY DEF TInv, Types, Pairs, Known, InHand
<1>1. ASSUME NEW c \in Callers, Others(c), Same, pc'[c] \in Untimed PROVE Timed'
  <2>1. TimedTask(c)'
    BY <1>1 DEF TimedTask, Waiting
  <2> QED
    BY <1>1, <2>1, TimedLocal
<1>2. ASSUME NEW c \in Callers, Return(c), Same PROVE Timed'
  <2>1. Others(c) /\ pc'[c] = "idle"
    BY <1>0, <1>2 DEF Return
  <2> QED
    BY <1>1, <1>2, <2>1
<1>3. ASSUME NEW c \in Callers, Enqueue(c), Same,
             \A d \in Callers \ {c} : op'[d] = op[d] PROVE Timed'
  <2>1. Others(c) /\ pc'[c] = "lock"
    BY <1>0, <1>3 DEF Enqueue
  <2> QED
    BY <1>1, <1>3, <2>1
<1>4. ASSUME NEW c \in Callers, Await(c, "api"), Same, UNCHANGED pair,
             \A d \in Callers \ {c} : op'[d] = op[d],
             op'[c] = "valid" => now + Timeout < issued[pair[c]].expiry
      PROVE  Timed'
  <2>1. Others(c) /\ pc'[c] = "api" /\ deadline'[c] = now + Timeout
    BY <1>0, <1>4 DEF Await
  <2>2. TimedTask(c)'
    BY <1>4, <2>1, Numbers DEF TimedTask, Waiting, TInv
  <2> QED
    BY <1>4, <2>1, <2>2, TimedLocal
<1>4b. ASSUME NEW c \in Callers, Await(c, "token"), Same, UNCHANGED pair,
              \A d \in Callers \ {c} : op'[d] = op[d]
       PROVE  Timed'
  <2>1. Others(c) /\ pc'[c] = "token" /\ deadline'[c] = now + Timeout
    BY <1>0, <1>4b DEF Await
  <2>2. TimedTask(c)'
    BY <1>4b, <2>1, Numbers DEF TimedTask, Waiting, TInv
  <2> QED
    BY <1>4b, <2>1, <2>2, TimedLocal
<1>5. ASSUME NEW c \in Callers, pair[c] \in saved, ~IsExpired(pair[c])
      PROVE  now + Timeout < issued[pair[c]].expiry
  <2>1. now < expiresAt[pair[c]]
    BY <1>0, <1>5, Numbers DEF IsExpired, TInv
  <2>2. expiresAt[pair[c]] <= issued[pair[c]].expiry + Timeout - Margin
    BY <1>5 DEF Timed
  <2> QED
    BY <1>0, <1>5, <2>1, <2>2, Numbers DEF Patience, TInv
<1>6. ASSUME NEW c \in Callers, Call(c) PROVE Timed'
  <2>1. CASE Return(c)
    BY <1>2, <1>6, <2>1 DEF Call
  <2>2. CASE ~Return(c)
    <3>1. Others(c) /\ pc'[c] = "check" /\ Same
      BY <1>0, <1>6, <2>2 DEF Call
    <3> QED
      BY <1>1, <3>1
  <2> QED
    BY <2>1, <2>2
<1>7. ASSUME NEW c \in Callers, Check(c) PROVE Timed'
  <2>1. Same /\ UNCHANGED op /\ pc[c] = "check" /\ pair[c] \in saved
    BY <1>0, <1>7 DEF Check
  <2>2. CASE ~IsExpired(pair[c]) /\ Await(c, "api") /\ UNCHANGED pair
    BY <1>4, <1>5, <2>1, <2>2
  <2>3. CASE Enqueue(c)
    BY <1>3, <2>1, <2>3
  <2> QED
    BY <1>7, <2>2, <2>3 DEF Check
<1>8. ASSUME NEW c \in Callers, Lock(c) PROVE Timed'
  <2>1. CASE Return(c) /\ Release(c)
    BY <1>2, <1>8, <2>1 DEF Lock
  <2>2. CASE ~Return(c) \/ ~Release(c)
    <3>1. Others(c) /\ pc'[c] = "recheck" /\ Same
      BY <1>0, <1>8, <2>2 DEF Lock
    <3> QED
      BY <1>1, <3>1
  <2> QED
    BY <2>1, <2>2
<1>9. ASSUME NEW c \in Callers, Recheck(c) PROVE Timed'
  <2>1. Same /\ UNCHANGED <<op, pair>> /\ pair[c] \in saved
    BY <1>0, <1>9 DEF Recheck
  <2>2. CASE ~NeedsRefresh(c) /\ Await(c, "api")
    <3>1. op[c] = "valid" => ~IsExpired(pair[c])
      BY <2>2 DEF NeedsRefresh
    <3> QED
      BY <1>4, <1>5, <2>1, <2>2, <3>1
  <2>3. CASE Await(c, "token")
    BY <1>4b, <2>1, <2>3
  <2> QED
    BY <1>9, <2>2, <2>3 DEF Recheck
<1>10. ASSUME NEW c \in Callers, Login(c) PROVE Timed'
  <2>1. /\ Same /\ UNCHANGED pair /\ Await(c, "token")
        /\ \A d \in Callers \ {c} : op'[d] = op[d]
    BY <1>0, <1>10 DEF Login
  <2> QED
    BY <1>4b, <2>1
<1>11. ASSUME NEW c \in Callers, Refused(c) PROVE Timed'
  BY <1>2, <1>11 DEF Refused
<1>12. ASSUME NEW c \in Callers, Publish(c) PROVE Timed'
  <2>1. /\ UNCHANGED <<now, issued, expiresAt>>
        /\ pc[c] = "publish" /\ Others(c) /\ pc'[c] = "persist" /\ pair'[c] = pair[c]
    BY <1>0, <1>12 DEF Publish
  <2>2. \A d \in Callers \ {c} : TimedTask(d)'
    BY <2>1 DEF Timed, TimedTask
  <2>3. TimedTask(c)'
    BY <2>1 DEF Timed, TimedTask, Waiting
  <2>4. PICK t \in Mixed \cup {pair[c]} : Put(t)
    BY <1>12 DEF Publish
  <2>5. Saves
    BY <2>1, <2>4, PutSaves
  <2>6. \A i \in saved' : expiresAt[i] <= issued[i].expiry + Timeout - Margin
    BY <2>5 DEF Saves, Timed, TimedTask
  <2> QED
    BY <2>1, <2>2, <2>3, <2>6 DEF Timed
<1>12a. CASE Overwrite
  <2>1. UNCHANGED <<now, issued, expiresAt, pc, op, pair, deadline>>
    BY <1>12a DEF Overwrite
  <2>2. PICK t \in Mixed : Put(t)
    BY <1>12a DEF Overwrite
  <2>3. Saves
    BY <2>2, PutSaves
  <2>4. \A i \in saved' : expiresAt[i] <= issued[i].expiry + Timeout - Margin
    BY <2>3 DEF Saves, Timed, TimedTask
  <2> QED
    BY <2>1, <2>4 DEF Timed, TimedTask
<1>13. ASSUME NEW c \in Callers, Persist(c) PROVE Timed'
  <2>1. Same /\ pc[c] = "persist" /\ pair[c] \in DOMAIN issued
    BY <1>0, <1>13 DEF Persist
  <2>2. CASE op[c] = "login"
    BY <1>2, <1>13, <2>1, <2>2 DEF Persist
  <2>3. CASE op[c] # "login"
    <3>1. Await(c, "api") /\ UNCHANGED <<op, pair>>
      BY <1>13, <2>3 DEF Persist
    <3>2. now <= issued[pair[c]].expiry - Lifetime + Timeout
      BY <2>1 DEF Timed, TimedTask
    <3>3. now + Timeout < issued[pair[c]].expiry
      BY <2>1, <3>2, Numbers DEF Patience, TInv
    <3> QED
      BY <1>4, <2>1, <3>1, <3>3
  <2> QED
    BY <2>2, <2>3
<1>14. ASSUME NEW c \in Callers, SaveFails(c) PROVE Timed'
  BY <1>2, <1>14 DEF SaveFails
<1>15. ASSUME NEW c \in Callers, ApiAnswer(c) PROVE Timed'
  <2>1. Same
    BY <1>15 DEF ApiAnswer
  <2>2. CASE Return(c)
    BY <1>2, <2>1, <2>2
  <2>3. CASE op' = [op EXCEPT ![c] = "retry"] /\ Enqueue(c)
    <3>1. \A d \in Callers \ {c} : op'[d] = op[d]
      BY <1>0, <2>3
    <3> QED
      BY <1>3, <2>1, <2>3, <3>1
  <2>4. CASE pc' = [pc EXCEPT ![c] = "denied"] /\ deadline' = [deadline EXCEPT ![c] = 0]
             /\ UNCHANGED <<op, pair>>
    <3>1. Others(c) /\ pc'[c] = "denied"
      BY <1>0, <2>4
    <3> QED
      BY <1>1, <2>1, <3>1
  <2> QED
    BY <1>15, <2>2, <2>3, <2>4 DEF ApiAnswer
<1>16. ASSUME NEW c \in Callers, RequestFails(c) PROVE Timed'
  BY <1>2, <1>16 DEF RequestFails
<1>17. ASSUME NEW m \in net, NEW s \in {"refused", "unavailable"}, Answer(m, s), Same,
              UNCHANGED <<op, pair, deadline>>
       PROVE  Timed'
  <2>1. CASE m.from \in Callers
    <3> DEFINE c == m.from
    <3>1. pc[c] = "token" /\ pc'[c] = s /\ \A d \in Callers \ {c} : pc'[d] = pc[d]
      BY <1>0, <1>17, <2>1 DEF Answer, TInv, Pairs, Pending
    <3>2. TimedTask(c)'
      BY <1>17, <2>1, <3>1 DEF Timed, TimedTask, Waiting
    <3> QED
      BY <1>17, <2>1, <3>1, <3>2, TimedLocal
  <2>2. CASE m.from \notin Callers
    BY <1>17, <2>2, TimedSame DEF Answer
  <2> QED
    BY <2>1, <2>2
<1>18. ASSUME NEW m \in net, ServerRefuses(m) PROVE Timed'
  BY <1>17, <1>18 DEF ServerRefuses
<1>19. ASSUME NEW m \in net, ServerFails(m) PROVE Timed'
  BY <1>17, <1>19 DEF ServerFails
<1>20. ASSUME NEW p \in Processes, Crash(p) PROVE Timed'
  <2>1. Kill({c \in Callers : Proc[c] = p}) /\ Same
    BY <1>20 DEF Crash
  <2>2. \A c \in Callers : \/ pc'[c] = "idle"
                           \/ /\ pc'[c] = pc[c] /\ op'[c] = op[c]
                              /\ pair'[c] = pair[c] /\ deadline'[c] = deadline[c]
    BY <2>1 DEF Kill
  <2>3. \A c \in Callers : TimedTask(c)'
    BY <2>1, <2>2 DEF Timed, TimedTask, Waiting
  <2> QED
    BY <2>1, <2>3 DEF Timed
<1>21. CASE PowerLoss
  <2>1. /\ \A c \in Callers : pc'[c] = "idle"
        /\ (\A i \in saved' : i \in saved) /\ UNCHANGED <<now, issued, expiresAt>>
    BY <1>21 DEF PowerLoss, Kill
  <2> QED
    BY <2>1 DEF Timed, TimedTask, Waiting
<1>22. CASE Tick
  <2>1. UNCHANGED <<pc, op, pair, deadline, issued, saved, expiresAt>> /\ now' = now + 1
    BY <1>22 DEF Tick
  <2>2. ASSUME NEW c \in Callers PROVE TimedTask(c)'
    <3>1. pc[c] \in Waiting => now < deadline[c]
      BY <1>22 DEF Tick, Waiting
    <3>2. pc[c] \notin {"publish", "persist"}
      BY <1>22 DEF Tick, Waiting
    <3>3. now' \in Nat /\ now \in Nat /\ deadline[c] \in Nat
      BY <2>1, Numbers DEF TInv
    <3> QED
      BY <2>1, <3>1, <3>2, <3>3, AuthAssumption DEF Timed, TimedTask
  <2> QED
    BY <2>1, <2>2 DEF Timed
<1>23. CASE UNCHANGED <<now, issued, saved, expiresAt, pc, op, pair, deadline>>
  BY <1>23, TimedSame
<1> QED
  BY <1>6, <1>7, <1>8, <1>9, <1>10, ReceiveTimed, <1>11, <1>12, <1>13, <1>14, <1>15, <1>16,
     GrantTimed, <1>12a, <1>18, <1>19, <1>20, <1>21, <1>22, <1>23
  DEF Next, Step, Environment, Revoke, Drop, Flush, File!Persist, vars

LEMMA InTime == Patience => (Spec => [](TInv /\ Timed))
<1> SUFFICES ASSUME Patience PROVE Spec => [](TInv /\ Timed)
  OBVIOUS
<1>1. Init => Timed
  BY DEF Init, Timed, TimedTask, Waiting
<1>2. TInv /\ Timed /\ [Next]_vars => Timed'
  BY TimedStep
<1> QED
  BY <1>1, <1>2, TInvariance, PTL DEF Spec

LEMMA ValidInTime == TInv /\ Timed => ValidWhileSent
<1> SUFFICES ASSUME TInv, Timed, NEW c \in Callers, pc[c] = "api", op[c] = "valid"
             PROVE  now < issued[pair[c]].expiry
  BY DEF ValidWhileSent
<1>1. now <= deadline[c] /\ deadline[c] < issued[pair[c]].expiry
  BY DEF Timed, TimedTask, Waiting
<1>2. pair[c] \in DOMAIN issued
  BY DEF TInv, Pairs, InHand
<1> QED
  BY <1>1, <1>2, Numbers DEF TInv

(* A token from get_valid_token outlives the request it is fetched for:    *)
(* EXPIRY_MARGIN_SECS (60) is exactly twice REQUEST_TIMEOUT (30).           *)
THEOREM MarginIsEnough == Patience => (Spec => []ValidWhileSent)
<1> SUFFICES ASSUME Patience PROVE Spec => []ValidWhileSent
  OBVIOUS
<1> QED
  BY InTime, ValidInTime, PTL
=============================================================================
