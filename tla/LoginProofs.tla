---------------------------- MODULE LoginProofs ----------------------------
(***************************************************************************)
(* A login presents its own code and is not starved of it, for any number  *)
(* of logins, connections and answers, and any two timeouts: the           *)
(* invariants of Login.                                                    *)
(***************************************************************************)
EXTENDS Login, TLAPS

(* What is in the queue has come to the one that listens. *)
Fed ==
  \A i \in DOMAIN queue :
    queue[i].says = "redirect" =>
      port # Nobody /\ queue[i].redirect \in came[port] /\ queue[i].redirect \in tabs

(* The time that is left when all connections ahead have been silent for   *)
(* as long as they may. *)
Slack(i) == IF i = 1 THEN left > 0 ELSE left > PerConnection * (i - 2) + quiet

(* NotStarved is not inductive: it says nothing before the last moment.    *)
Timely ==
  \A i \in DOMAIN queue : queue[i].says = "redirect" /\ queue[i].inTime => Slack(i)

IInv == TypeOK /\ Fed /\ Timely /\ OwnCode /\ StraysHarmless

-----------------------------------------------------------------------------
(* Sequences and products.                                                 *)

LEMMA TailOf ==
  ASSUME queue \in Seq(Connection), queue # << >>
  PROVE  /\ Tail(queue) \in Seq(Connection)
         /\ Head(queue) = queue[1] /\ 1 \in DOMAIN queue
         /\ \A i \in DOMAIN Tail(queue) :
              i \in Nat \ {0} /\ i + 1 \in DOMAIN queue /\ Tail(queue)[i] = queue[i + 1]
OBVIOUS

LEMMA AppendOf ==
  ASSUME queue \in Seq(Connection), NEW c \in Connection
  PROVE  /\ Append(queue, c) \in Seq(Connection)
         /\ \A i \in DOMAIN Append(queue, c) :
              \/ i \in DOMAIN queue /\ Append(queue, c)[i] = queue[i]
              \/ i = Len(queue) + 1 /\ Append(queue, c)[i] = c
OBVIOUS

LEMMA ExceptOf ==
  ASSUME queue \in Seq(Connection), NEW c \in Connection, NEW j \in DOMAIN queue
  PROVE  /\ [queue EXCEPT ![j] = c] \in Seq(Connection)
         /\ DOMAIN [queue EXCEPT ![j] = c] = DOMAIN queue
         /\ \A i \in DOMAIN queue :
              [queue EXCEPT ![j] = c][i] = IF i = j THEN c ELSE queue[i]
OBVIOUS

LEMMA Product ==
  ASSUME NEW p \in Nat, NEW n \in Nat
  PROVE  p * n \in Nat /\ p * (n + 1) = p * n + p /\ p * 0 = 0
OBVIOUS

-----------------------------------------------------------------------------
LEMMA NoRedirectIsOne == NoRedirect \in Redirect
BY DEF NoRedirect, Redirect

LEMMA InitInv == Init => IInv
<1> SUFFICES ASSUME Init PROVE IInv
  OBVIOUS
<1> USE LoginAssumption DEF Init
<1>1. TypeOK BY NoRedirectIsOne DEF TypeOK, Redirect
<1>2. Fed /\ Timely BY DEF Fed, Timely
<1>3. OwnCode /\ StraysHarmless BY DEF OwnCode, StraysHarmless
<1> QED BY <1>1, <1>2, <1>3 DEF IInv

LEMMA Waiting ==
  ASSUME TypeOK, Waits
  PROVE  port \in Attempts /\ stage[port] = "waiting"
BY DEF TypeOK, Waits

LEMMA Empty == << >> \in Seq(Connection) /\ DOMAIN << >> = {}
OBVIOUS

(* The types by themselves. *)
LEMMA Types ==
  ASSUME TypeOK
  PROVE  /\ queue \in Seq(Connection) /\ Len(queue) \in Nat /\ made \in Nat
         /\ left \in Nat /\ left <= Overall
         /\ quiet \in Nat /\ quiet <= PerConnection
         /\ Overall \in Nat /\ PerConnection \in Nat
<1>1. /\ queue \in Seq(Connection) /\ made \in Nat
      /\ left \in 0 .. Overall /\ quiet \in 0 .. PerConnection
  BY Zenon DEF TypeOK
<1> QED
  BY <1>1, LoginAssumption

(* A failure is one of those TypeOK lists. *)
LEMMA FailType ==
  ASSUME TypeOK, NEW a \in Attempts,
         NEW x \in {"port", "accept", "timeout", "state", "denied", "codeless",
                    "exchange", "storage"},
         Fail(a, x)
  PROVE  /\ stage' \in [Attempts -> {"new", "bound", "waiting", "exchanging", "saving", "in", "out"}]
         /\ why' \in [Attempts -> {"none", "port", "accept", "timeout", "state", "denied",
                                   "codeless", "exchange", "storage"}]
BY DEF TypeOK, Fail

LEMMA GoType ==
  ASSUME TypeOK, NEW a \in Attempts, NEW from,
         NEW to \in {"new", "bound", "waiting", "exchanging", "saving", "in", "out"},
         Go(a, from, to)
  PROVE  stage' \in [Attempts -> {"new", "bound", "waiting", "exchanging", "saving", "in", "out"}]
BY DEF TypeOK, Go

LEMMA SayType ==
  ASSUME TypeOK, NEW what \in {"nothing", "closes", "other", "redirect"},
         NEW r \in Redirect, NEW i \in Nat
  PROVE  Say(what, r, i) \in Connection
<1>1. InTime(i) \in BOOLEAN
  BY DEF InTime
<1> QED BY <1>1 DEF Say, Connection

(* What a connection does: it is the last one. *)
LEMMA ConnectDoes ==
  ASSUME TypeOK, NEW what \in {"nothing", "closes", "other", "redirect"},
         NEW r \in Redirect, Connect(what, r)
  PROVE  /\ port # Nobody /\ Len(queue) \in Nat
         /\ Say(what, r, Len(queue)) \in Connection
         /\ queue' \in Seq(Connection) /\ made' \in Nat
         /\ \A i \in DOMAIN queue' :
              \/ i \in DOMAIN queue /\ queue'[i] = queue[i]
              \/ i = Len(queue) + 1 /\ queue'[i] = Say(what, r, Len(queue))
<1>1. Len(queue) \in Nat /\ queue \in Seq(Connection)
  BY Types
<1>2. Say(what, r, Len(queue)) \in Connection
  BY <1>1, SayType
<1>3. queue' = Append(queue, Say(what, r, Len(queue))) /\ made' = made + 1 /\ port # Nobody
  BY DEF Connect
<1>4. made' \in Nat
  BY <1>3, Types
<1> QED
  BY <1>1, <1>2, <1>3, <1>4, AppendOf

(* A connection that was open speaks. *)
LEMMA SpeakDoes ==
  ASSUME TypeOK, NEW r \in Redirect, NEW j \in DOMAIN queue,
         queue' = [queue EXCEPT ![j] = Say("redirect", r, j - 1)]
  PROVE  /\ j - 1 \in Nat /\ queue' \in Seq(Connection) /\ DOMAIN queue' = DOMAIN queue
         /\ \A i \in DOMAIN queue :
              queue'[i] = IF i = j THEN Say("redirect", r, j - 1) ELSE queue[i]
<1>1. j - 1 \in Nat /\ queue \in Seq(Connection)
  BY Types
<1>2. Say("redirect", r, j - 1) \in Connection
  BY <1>1, SayType
<1> QED
  BY <1>1, <1>2, ExceptOf

LEMMA StepType ==
  ASSUME TypeOK, Next
  PROVE  TypeOK'
<1>1. ASSUME NEW a \in Attempts, Bind(a) PROVE TypeOK'
  <2>1. CASE port = Nobody
    <3>1. stage' \in [Attempts -> {"new", "bound", "waiting", "exchanging", "saving", "in", "out"}]
      BY <1>1, <2>1, GoType DEF Bind
    <3>2. /\ port' = a /\ queue' = << >> /\ left' = Overall /\ quiet' = PerConnection
          /\ UNCHANGED <<why, code, browser, redeemed>>
      BY <1>1, <2>1 DEF Bind
    <3>3. left' \in 0 .. Overall /\ quiet' \in 0 .. PerConnection /\ queue' \in Seq(Connection)
      BY <3>2, Empty, LoginAssumption
    <3> QED BY <3>1, <3>2, <3>3 DEF TypeOK, browser
  <2>2. CASE port # Nobody
    <3>1. Fail(a, "port") /\ UNCHANGED listener
      BY <1>1, <2>2 DEF Bind
    <3> QED BY <1>1, <3>1, FailType DEF Bind, TypeOK, browser, listener
  <2> QED BY <2>1, <2>2
<1>2. ASSUME NEW a \in Attempts, Open(a) PROVE TypeOK'
  BY <1>2, GoType DEF Open, TypeOK, browser, listener
<1>3. ASSUME NEW a \in Attempts, Exchange(a) PROVE TypeOK'
  <2>1. redeemed' \subseteq Redirect
    BY <1>3 DEF Exchange, TypeOK
  <2>2. (Go(a, "exchanging", "saving") /\ UNCHANGED why) \/ Fail(a, "exchange")
    BY <1>3 DEF Exchange
  <2>3. UNCHANGED <<code, listener, browser>>
    BY <1>3 DEF Exchange
  <2>4. CASE Go(a, "exchanging", "saving") /\ UNCHANGED why
    BY <2>1, <2>3, <2>4, GoType DEF TypeOK, browser, listener
  <2>5. CASE Fail(a, "exchange")
    BY <2>1, <2>3, <2>5, FailType DEF TypeOK, browser, listener
  <2> QED BY <2>2, <2>4, <2>5
<1>4. ASSUME NEW a \in Attempts, Save(a) PROVE TypeOK'
  <2>1. (Go(a, "saving", "in") /\ UNCHANGED why) \/ Fail(a, "storage")
    BY <1>4 DEF Save
  <2>2. UNCHANGED <<code, listener, browser, redeemed>>
    BY <1>4 DEF Save
  <2>3. CASE Go(a, "saving", "in") /\ UNCHANGED why
    BY <2>2, <2>3, GoType DEF TypeOK, browser, listener
  <2>4. CASE Fail(a, "storage")
    BY <2>2, <2>4, FailType DEF TypeOK, browser, listener
  <2> QED BY <2>1, <2>3, <2>4
<1>5. ASSUME NEW a \in Attempts, Authorize(a) PROVE TypeOK'
  <2>1. PICK n \in 1 .. MaxAnswers, answer \in {"code", "error", "neither"} :
          tabs' = tabs \cup {[of |-> a, answer |-> answer, n |-> n]}
    BY <1>5 DEF Authorize
  <2>2. [of |-> a, answer |-> answer, n |-> n] \in Redirect
    BY DEF Redirect
  <2>3. tabs' \subseteq Redirect
    BY <2>1, <2>2 DEF TypeOK
  <2> QED BY <1>5, <2>3 DEF Authorize, TypeOK, Program
<1>6. ASSUME Serve, Pass PROVE TypeOK'
  <2>1. queue # << >> /\ UNCHANGED <<browser, redeemed>>
    BY <1>6 DEF Serve, Busy
  <2>2. queue' \in Seq(Connection)
    BY <1>6, <2>1, TailOf, Types DEF Pass
  <2>3. quiet' \in 0 .. PerConnection /\ UNCHANGED <<stage, why, code, port, left>>
    BY <1>6, LoginAssumption DEF Pass
  <2> QED BY <2>1, <2>2, <2>3 DEF TypeOK, browser
<1>7. ASSUME Serve, Answer PROVE TypeOK'
  <2> DEFINE r == Head(queue).redirect
  <2>1. /\ port \in Attempts /\ queue # << >> /\ UNCHANGED <<browser, redeemed>>
        /\ Close
    BY <1>7, Waiting DEF Serve, Busy, Answer
  <2>2. r \in Redirect
    <3>1. Head(queue) \in Connection
      BY <2>1, TailOf, Types
    <3> QED BY <3>1 DEF Connection
  <2>3. Parse(port, r) \in {"none", "state", "denied", "codeless"}
    BY DEF Parse
  <2>4. CASE Parse(port, r) = "none"
    <3>1. Go(port, "waiting", "exchanging") /\ UNCHANGED why /\ code' = [code EXCEPT ![port] = r]
      BY <1>7, <2>4 DEF Answer
    <3>2. code' \in [Attempts -> Redirect]
      BY <2>2, <3>1 DEF TypeOK
    <3> HIDE DEF r
    <3> QED BY <2>1, <3>1, <3>2, GoType, Empty DEF TypeOK, Close, browser
  <2>5. CASE Parse(port, r) # "none"
    <3>1. Fail(port, Parse(port, r)) /\ UNCHANGED code
      BY <1>7, <2>5 DEF Answer
    <3> HIDE DEF r
    <3> QED BY <2>1, <2>3, <2>5, <3>1, FailType, Empty DEF TypeOK, Close, browser
  <2> QED BY <2>4, <2>5
<1>8. CASE AcceptFails
  BY <1>8, Waiting, FailType, Empty DEF AcceptFails, Close, TypeOK, browser
<1>9. CASE TimeOut
  BY <1>9, Waiting, FailType, Empty DEF TimeOut, Close, TypeOK, browser
<1>10. CASE Tick
  <2>1. left' \in 0 .. Overall
    BY <1>10, Types DEF Tick
  <2>2. quiet' \in 0 .. PerConnection
    BY <1>10, Types DEF Tick, Busy, IsOver
  <2> QED BY <1>10, <2>1, <2>2 DEF Tick, TypeOK, browser
<1>11. CASE Stray
  <2>1. PICK what \in {"nothing", "closes", "other"} : Connect(what, NoRedirect)
    BY <1>11 DEF Stray
  <2>2. queue' \in Seq(Connection) /\ made' \in Nat
    BY <2>1, NoRedirectIsOne, ConnectDoes
  <2> QED BY <1>11, <2>2 DEF Stray, TypeOK, Program
<1>12. ASSUME NEW r \in tabs, Follow(r) PROVE TypeOK'
  <2>1. r \in Redirect /\ port \in Attempts /\ came' = [came EXCEPT ![port] = @ \cup {r}]
    BY <1>12 DEF Follow, TypeOK
  <2>2. came' \in [Attempts -> SUBSET Redirect]
    BY <2>1 DEF TypeOK
  <2>3. queue' \in Seq(Connection) /\ made' \in Nat
    <3>1. CASE Connect("redirect", r)
      BY <2>1, <3>1, ConnectDoes
    <3>2. ASSUME NEW j \in DOMAIN queue, UNCHANGED made,
                 queue' = [queue EXCEPT ![j] = Say("redirect", r, j - 1)]
          PROVE  queue' \in Seq(Connection) /\ made' \in Nat
      BY <2>1, <3>2, SpeakDoes DEF TypeOK
    <3> QED BY <1>12, <3>1, <3>2 DEF Follow
  <2> QED BY <1>12, <2>2, <2>3 DEF Follow, TypeOK, Program
<1> QED
  BY <1>1, <1>2, <1>3, <1>4, <1>5, <1>6, <1>7, <1>8, <1>9, <1>10,
     <1>11, <1>12 DEF Next, Serve

LEMMA StepFed ==
  ASSUME TypeOK, Fed, Next
  PROVE  Fed'
<1>0. ASSUME queue' = << >> PROVE Fed'
  BY <1>0, Empty DEF Fed
<1>1. ASSUME NEW a \in Attempts, Bind(a) PROVE Fed'
  <2>1. CASE port = Nobody
    BY <1>0, <1>1, <2>1 DEF Bind
  <2>2. CASE port # Nobody
    BY <1>1, <2>2 DEF Bind, Fed, listener, browser
  <2> QED BY <2>1, <2>2
<1>2. ASSUME NEW a \in Attempts, Open(a) \/ Exchange(a) \/ Save(a) PROVE Fed'
  BY <1>2 DEF Open, Exchange, Save, Fed, listener, browser
<1>3. ASSUME NEW a \in Attempts, Authorize(a) PROVE Fed'
  BY <1>3 DEF Authorize, Fed, Program
<1>4. ASSUME Serve, Pass PROVE Fed'
  <2>1. queue # << >> /\ queue' = Tail(queue) /\ UNCHANGED <<port, came, tabs>>
    BY <1>4 DEF Serve, Busy, Pass, browser
  <2>2. \A i \in DOMAIN queue' : i + 1 \in DOMAIN queue /\ queue'[i] = queue[i + 1]
    BY <2>1, TailOf, Types
  <2> QED BY <2>1, <2>2 DEF Fed
<1>5. ASSUME Serve, Answer PROVE Fed'
  BY <1>0, <1>5 DEF Answer, Close
<1>6. CASE AcceptFails \/ TimeOut
  BY <1>0, <1>6 DEF AcceptFails, TimeOut, Close
<1>7. CASE Tick
  BY <1>7 DEF Tick, Fed, browser
<1>8. CASE Stray
  <2>1. PICK what \in {"nothing", "closes", "other"} : Connect(what, NoRedirect)
    BY <1>8 DEF Stray
  <2>2. \A i \in DOMAIN queue' :
          \/ i \in DOMAIN queue /\ queue'[i] = queue[i]
          \/ queue'[i] = Say(what, NoRedirect, Len(queue))
    BY <2>1, NoRedirectIsOne, ConnectDoes
  <2>3. Say(what, NoRedirect, Len(queue)).says # "redirect"
    BY DEF Say
  <2>4. UNCHANGED <<port, came, tabs>>
    BY <1>8 DEF Stray, Program
  <2> QED BY <2>2, <2>3, <2>4 DEF Fed
<1>9. ASSUME NEW r \in tabs, Follow(r) PROVE Fed'
  <2>1. /\ r \in Redirect /\ port \in Attempts /\ port # Nobody
        /\ came' = [came EXCEPT ![port] = @ \cup {r}] /\ UNCHANGED <<port, tabs>>
    BY <1>9 DEF Follow, TypeOK, Program
  <2>2. came[port] \subseteq came'[port] /\ r \in came'[port]
    BY <2>1 DEF TypeOK
  <2>3. \A i \in Nat : Say("redirect", r, i).redirect = r
    BY DEF Say
  <2>4. \A i \in DOMAIN queue' :
          \/ i \in DOMAIN queue /\ queue'[i] = queue[i]
          \/ queue'[i].redirect = r
    <3>1. CASE Connect("redirect", r)
      BY <2>1, <2>3, <3>1, ConnectDoes
    <3>2. ASSUME NEW j \in DOMAIN queue,
                 queue' = [queue EXCEPT ![j] = Say("redirect", r, j - 1)]
          PROVE  \A i \in DOMAIN queue' :
                   \/ i \in DOMAIN queue /\ queue'[i] = queue[i]
                   \/ queue'[i].redirect = r
      BY <2>1, <2>3, <3>2, SpeakDoes
    <3> QED BY <1>9, <3>1, <3>2 DEF Follow
  <2> QED BY <2>1, <2>2, <2>4 DEF Fed
<1> QED
  BY <1>1, <1>2, <1>3, <1>4, <1>5, <1>6, <1>7, <1>8, <1>9 DEF Next, Serve

(* The last of i + 1 connections.                                          *)
LEMMA InTimeIsEnough ==
  ASSUME TypeOK, NEW i \in Nat, InTime(i), UNCHANGED <<left, quiet>>
  PROVE  Slack(i + 1)'
<1>1. CASE i = 0
  BY <1>1, Types, Product DEF InTime, Slack
<1>2. CASE i # 0
  <2>1. i - 1 \in Nat /\ i = (i - 1) + 1 /\ i + 1 # 1 /\ i + 1 - 2 = i - 1
    BY <1>2
  <2>2. PerConnection * i = PerConnection * (i - 1) + PerConnection
    BY <2>1, Types, Product
  <2>3. PerConnection * (i - 1) \in Nat
    BY <2>1, Types, Product
  <2> QED BY <2>1, <2>2, <2>3, Types DEF InTime, Slack
<1> QED BY <1>1, <1>2

(* Time passes for the first connection and for all alike.                 *)
LEMMA StepTimely ==
  ASSUME TypeOK, Timely, Next
  PROVE  Timely'
<1> DEFINE Early(c) == c.says = "redirect" /\ c.inTime
<1>0. ASSUME queue' = << >> PROVE Timely'
  BY <1>0, Empty DEF Timely
<1>00. ASSUME UNCHANGED <<queue, left, quiet>> PROVE Timely'
  BY <1>00 DEF Timely, Slack
<1>1. ASSUME NEW a \in Attempts, Bind(a) PROVE Timely'
  BY <1>0, <1>00, <1>1 DEF Bind, listener
<1>2. ASSUME NEW a \in Attempts, Open(a) \/ Exchange(a) \/ Save(a) \/ Authorize(a) PROVE Timely'
  BY <1>00, <1>2 DEF Open, Exchange, Save, Authorize, listener, Program
<1>3. ASSUME Serve, Answer PROVE Timely'
  BY <1>0, <1>3 DEF Answer, Close
<1>4. CASE AcceptFails \/ TimeOut
  BY <1>0, <1>4 DEF AcceptFails, TimeOut, Close
<1>5. ASSUME Serve, Pass PROVE Timely'
  <2>1. queue # << >> /\ queue' = Tail(queue) /\ quiet' = PerConnection /\ left' = left
    BY <1>5 DEF Serve, Busy, Pass
  <2> SUFFICES ASSUME NEW i \in DOMAIN queue', Early(queue'[i]) PROVE Slack(i)'
    BY DEF Timely
  <2>2. i \in Nat \ {0} /\ i + 1 \in DOMAIN queue /\ queue'[i] = queue[i + 1]
    BY <2>1, TailOf, Types
  <2>3. left > PerConnection * (i - 1) + quiet
    <3>1. Slack(i + 1)
      BY <2>2 DEF Timely
    <3> QED BY <2>2, <3>1 DEF Slack
  <2>4. CASE i = 1
    BY <2>1, <2>3, <2>4, Types, Product DEF Slack
  <2>5. CASE i # 1
    <3>1. i - 2 \in Nat /\ i - 1 = (i - 2) + 1
      BY <2>2, <2>5
    <3>2. /\ PerConnection * (i - 1) = PerConnection * (i - 2) + PerConnection
          /\ PerConnection * (i - 2) \in Nat
      BY <3>1, Types, Product
    <3>3. left' > PerConnection * (i - 2) + quiet'
      <4> DEFINE m == PerConnection * (i - 1)
                 n == PerConnection * (i - 2)
      <4>1. left > m + quiet /\ m = n + PerConnection /\ n \in Nat
        BY <2>3, <3>2
      <4> HIDE DEF m, n
      <4>2. left' > n + quiet'
        BY <2>1, <4>1, Types
      <4> QED BY <4>2 DEF n
    <3> QED BY <2>5, <3>3 DEF Slack
  <2> QED BY <2>4, <2>5
<1>6. CASE Tick
  <2>1. /\ left > 0 /\ left' = left - 1 /\ queue' = queue
        /\ quiet' = IF queue = << >> THEN quiet ELSE quiet - 1
    BY <1>6 DEF Tick
  <2> SUFFICES ASSUME NEW i \in DOMAIN queue, Early(queue[i]) PROVE Slack(i)'
    BY <2>1 DEF Timely
  <2>2. queue # << >> /\ i \in Nat \ {0}
    BY Types, Empty
  <2>3. queue[1].says = "nothing"
    BY <1>6, <2>2, Types, TailOf DEF Tick, Busy, IsOver
  <2>4. i # 1 /\ i - 2 \in Nat
    BY <2>2, <2>3
  <2>5. left > PerConnection * (i - 2) + quiet
    BY <2>4 DEF Timely, Slack
  <2>6. PerConnection * (i - 2) \in Nat
    BY <2>4, Types, Product
  <2>7. left' > PerConnection * (i - 2) + quiet'
    BY <2>1, <2>2, <2>5, <2>6, Types
  <2> QED BY <2>4, <2>7 DEF Slack
<1>7. ASSUME NEW what \in {"nothing", "closes", "other", "redirect"}, NEW r \in Redirect,
             Connect(what, r), UNCHANGED <<left, quiet>>
      PROVE  Timely'
  <2> SUFFICES ASSUME NEW i \in DOMAIN queue', Early(queue'[i]) PROVE Slack(i)'
    BY DEF Timely
  <2>1. CASE i \in DOMAIN queue /\ queue'[i] = queue[i]
    BY <1>7, <2>1 DEF Timely, Slack
  <2>2. CASE i = Len(queue) + 1 /\ queue'[i] = Say(what, r, Len(queue))
    BY <1>7, <2>2, InTimeIsEnough DEF Say
  <2> QED BY <1>7, <2>1, <2>2, ConnectDoes
<1>8. CASE Stray
  BY <1>7, <1>8, NoRedirectIsOne DEF Stray, Program
<1>9. ASSUME NEW r \in tabs, Follow(r) PROVE Timely'
  <2>1. r \in Redirect /\ UNCHANGED <<left, quiet>>
    BY <1>9 DEF Follow, TypeOK, Program
  <2>2. ASSUME NEW j \in DOMAIN queue,
               queue' = [queue EXCEPT ![j] = Say("redirect", r, j - 1)]
        PROVE  Timely'
    <3> SUFFICES ASSUME NEW i \in DOMAIN queue', Early(queue'[i]) PROVE Slack(i)'
      BY DEF Timely
    <3>1. /\ j - 1 \in Nat /\ i \in DOMAIN queue /\ j = (j - 1) + 1
          /\ queue'[i] = IF i = j THEN Say("redirect", r, j - 1) ELSE queue[i]
      BY <2>1, <2>2, SpeakDoes
    <3>2. CASE i # j
      BY <2>1, <3>1, <3>2 DEF Timely, Slack
    <3>3. CASE i = j
      BY <2>1, <3>1, <3>3, InTimeIsEnough DEF Say
    <3> QED BY <3>2, <3>3
  <2> QED BY <1>7, <1>9, <2>1, <2>2 DEF Follow
<1> QED
  BY <1>1, <1>2, <1>3, <1>4, <1>5, <1>6, <1>8, <1>9 DEF Next, Serve

LEMMA StepOwn ==
  ASSUME TypeOK, Fed, OwnCode, Next
  PROVE  OwnCode'
<1>0. ASSUME UNCHANGED code, tabs \subseteq tabs', \A a \in Attempts : came[a] \subseteq came'[a]
      PROVE  OwnCode'
  BY <1>0 DEF OwnCode
<1>1. ASSUME NEW a \in Attempts, Bind(a) \/ Open(a) \/ Exchange(a) \/ Save(a) PROVE OwnCode'
  BY <1>0, <1>1 DEF Bind, Open, Exchange, Save, browser
<1>2. ASSUME NEW a \in Attempts, Authorize(a) PROVE OwnCode'
  BY <1>0, <1>2 DEF Authorize, Program
<1>3. CASE AcceptFails \/ TimeOut \/ Tick \/ Stray
  BY <1>0, <1>3 DEF AcceptFails, TimeOut, Tick, Stray, browser, Program
<1>4. ASSUME Serve, Pass PROVE OwnCode'
  BY <1>0, <1>4 DEF Serve, Pass, browser
<1>5. ASSUME Serve, Answer PROVE OwnCode'
  <2> DEFINE r == Head(queue).redirect
  <2>1. port \in Attempts /\ queue # << >> /\ UNCHANGED browser
    BY <1>5, Waiting DEF Serve, Busy
  <2>2. Head(queue) = queue[1] /\ 1 \in DOMAIN queue /\ Head(queue).says = "redirect"
    BY <1>5, <2>1, TailOf, Types DEF Answer
  <2>3. r \in came[port] /\ r \in tabs
    BY <2>2 DEF Fed
  <2>4. CASE Parse(port, r) = "none"
    <3>1. code' = [code EXCEPT ![port] = r]
      BY <1>5, <2>4 DEF Answer
    <3>2. r \in Redirect
      BY <2>3 DEF TypeOK
    <3>3. r.of = port /\ r.answer = "code"
      BY <2>4, <3>2 DEF Parse, Redirect
    <3> HIDE DEF r
    <3> QED BY <2>1, <2>3, <3>1, <3>3 DEF OwnCode, TypeOK, browser
  <2>5. CASE Parse(port, r) # "none"
    BY <1>0, <1>5, <2>1, <2>5 DEF Answer, browser
  <2> QED BY <2>4, <2>5
<1>6. ASSUME NEW r \in tabs, Follow(r) PROVE OwnCode'
  <2>1. UNCHANGED <<code, tabs>> /\ came' = [came EXCEPT ![port] = @ \cup {r}]
    BY <1>6 DEF Follow, Program
  <2>2. \A a \in Attempts : came[a] \subseteq came'[a]
    BY <2>1 DEF TypeOK
  <2> QED BY <1>0, <2>1, <2>2
<1> QED
  BY <1>1, <1>2, <1>3, <1>4, <1>5, <1>6 DEF Next, Serve

(* What is said of a login that failed for reason w, c having come to it.  *)
Blamed(w, c, a) ==
  /\ w = "state" => \E r \in c : r.of # a
  /\ w = "denied" => \E r \in c : r.of = a /\ r.answer = "error"
  /\ w = "codeless" => \E r \in c : r.of = a /\ r.answer = "neither"
AllBlamed == \A a \in Attempts : Blamed(why[a], came[a], a)

LEMMA StepStrays ==
  ASSUME TypeOK, Fed, StraysHarmless, Next
  PROVE  StraysHarmless'
<1>a. AllBlamed
  BY DEF StraysHarmless, AllBlamed, Blamed
<1>b. AllBlamed' => StraysHarmless'
  BY DEF StraysHarmless, AllBlamed, Blamed
<1>0. ASSUME UNCHANGED why, \A a \in Attempts : came[a] \subseteq came'[a]
      PROVE  AllBlamed'
  BY <1>0, <1>a DEF AllBlamed, Blamed
<1>f. ASSUME NEW b \in Attempts, NEW x, Fail(b, x), UNCHANGED came, Blamed(x, came[b], b)
      PROVE  AllBlamed'
  <2>1. \A a \in Attempts : why'[a] = IF a = b THEN x ELSE why[a]
    BY <1>f DEF Fail, TypeOK
  <2> QED BY <1>f, <1>a, <2>1 DEF AllBlamed
<1>i. ASSUME NEW b \in Attempts, NEW x \in {"port", "accept", "timeout", "exchange", "storage"},
             Fail(b, x), UNCHANGED came
      PROVE  AllBlamed'
  <2>1. Blamed(x, came[b], b)
    BY DEF Blamed
  <2> QED BY <1>f, <1>i, <2>1
<1>1. ASSUME NEW a \in Attempts, Bind(a) PROVE AllBlamed'
  <2>1. UNCHANGED came /\ (UNCHANGED why \/ Fail(a, "port"))
    BY <1>1 DEF Bind, browser
  <2> QED BY <1>0, <1>i, <2>1
<1>2. ASSUME NEW a \in Attempts, Open(a) PROVE AllBlamed'
  BY <1>0, <1>2 DEF Open, browser
<1>3. ASSUME NEW a \in Attempts, Exchange(a) PROVE AllBlamed'
  <2>1. UNCHANGED came /\ (UNCHANGED why \/ Fail(a, "exchange"))
    BY <1>3 DEF Exchange, browser
  <2> QED BY <1>0, <1>i, <2>1
<1>4. ASSUME NEW a \in Attempts, Save(a) PROVE AllBlamed'
  <2>1. UNCHANGED came /\ (UNCHANGED why \/ Fail(a, "storage"))
    BY <1>4 DEF Save, browser
  <2> QED BY <1>0, <1>i, <2>1
<1>5. ASSUME NEW a \in Attempts, Authorize(a) PROVE AllBlamed'
  BY <1>0, <1>5 DEF Authorize, Program
<1>6. ASSUME Serve, Pass PROVE AllBlamed'
  BY <1>0, <1>6 DEF Serve, Pass, browser
<1>7. ASSUME Serve, Answer PROVE AllBlamed'
  <2> DEFINE r == Head(queue).redirect
  <2>1. port \in Attempts /\ queue # << >> /\ UNCHANGED came
    BY <1>7, Waiting DEF Serve, Busy, browser
  <2>2. Head(queue) = queue[1] /\ 1 \in DOMAIN queue /\ Head(queue).says = "redirect"
    BY <1>7, <2>1, TailOf, Types DEF Answer
  <2>3. r \in came[port]
    BY <2>2 DEF Fed
  <2>4. Blamed(Parse(port, r), came[port], port)
    <3> HIDE DEF r
    <3> QED BY <2>3 DEF Parse, Blamed
  <2>5. UNCHANGED why \/ Fail(port, Parse(port, r))
    BY <1>7 DEF Answer
  <2> HIDE DEF r
  <2> QED BY <1>0, <1>f, <2>1, <2>4, <2>5
<1>8. ASSUME AcceptFails PROVE AllBlamed'
  <2>1. port \in Attempts /\ UNCHANGED came /\ Fail(port, "accept")
    BY <1>8, Waiting DEF AcceptFails, browser
  <2> QED BY <1>i, <2>1
<1>9. ASSUME TimeOut PROVE AllBlamed'
  <2>1. port \in Attempts /\ UNCHANGED came /\ Fail(port, "timeout")
    BY <1>9, Waiting DEF TimeOut, browser
  <2> QED BY <1>i, <2>1
<1>10. ASSUME Tick \/ Stray PROVE AllBlamed'
  BY <1>0, <1>10 DEF Tick, Stray, browser, Program
<1>11. ASSUME NEW r \in tabs, Follow(r) PROVE AllBlamed'
  <2>1. UNCHANGED why /\ came' = [came EXCEPT ![port] = @ \cup {r}]
    BY <1>11 DEF Follow, Program
  <2>2. \A a \in Attempts : came[a] \subseteq came'[a]
    BY <2>1 DEF TypeOK
  <2> QED BY <1>0, <2>1, <2>2
<1> QED
  BY <1>b, <1>1, <1>2, <1>3, <1>4, <1>5, <1>6, <1>7, <1>8, <1>9, <1>10, <1>11
  DEF Next, Serve

-----------------------------------------------------------------------------
LEMMA NextInv == IInv /\ [Next]_vars => IInv'
<1> SUFFICES ASSUME IInv, [Next]_vars PROVE IInv'
  OBVIOUS
<1>1. CASE Next
  BY <1>1, StepType, StepFed, StepTimely, StepOwn, StepStrays DEF IInv
<1>2. CASE UNCHANGED vars
  BY <1>2 DEF IInv, vars, listener, browser, TypeOK, Fed, Timely, Slack, OwnCode,
              StraysHarmless
<1> QED BY <1>1, <1>2

LEMMA Invariance == Spec => []IInv
<1>1. IInv /\ [Next]_vars => IInv'
  BY NextInv
<1> QED BY InitInv, <1>1, PTL DEF Spec

(* Every variable of Login keeps to its type: the listener (callback.rs)   *)
(* never runs over either of its timeouts.                                 *)
THEOREM TypeCorrect == Spec => []TypeOK
<1>1. IInv => TypeOK
  BY DEF IInv
<1> QED BY Invariance, <1>1, PTL

(* parse_request_line lets no code through but one the server has issued   *)
(* for this very login, with however many of them on one port.             *)
THEOREM OwnCodeOnly == Spec => []OwnCode
<1>1. IInv => OwnCode
  BY DEF IInv
<1> QED BY Invariance, <1>1, PTL

(* wait_for_code_with does not time out on a redirect that has come early  *)
(* enough for all connections ahead of it to be silent, per_connection     *)
(* each; for every choice of the two timeouts.                             *)
THEOREM NeverStarved == Spec => []NotStarved
<1>1. IInv => NotStarved
  <2> SUFFICES ASSUME IInv, left = 0,
                      NEW i \in DOMAIN queue, queue[i].says = "redirect", queue[i].inTime
               PROVE  FALSE
    BY DEF NotStarved
  <2>1. Slack(i) /\ TypeOK
    BY DEF IInv, Timely
  <2>2. i \in Nat \ {0}
    BY <2>1, Types
  <2>3. CASE i = 1
    BY <2>1, <2>3, Types DEF Slack
  <2>4. CASE i # 1
    <3>1. i - 2 \in Nat
      BY <2>2, <2>4
    <3>2. PerConnection * (i - 2) \in Nat
      BY <2>1, <3>1, Types, Product
    <3> QED BY <2>1, <2>4, <3>2, Types DEF Slack
  <2> QED BY <2>3, <2>4
<1> QED BY Invariance, <1>1, PTL

(* wait_for_code_with fails a login for a redirect that says so, and for   *)
(* no other connection.                                                    *)
THEOREM StraysNeverFail == Spec => []StraysHarmless
<1>1. IInv => StraysHarmless
  BY DEF IInv
<1> QED BY Invariance, <1>1, PTL
=============================================================================
