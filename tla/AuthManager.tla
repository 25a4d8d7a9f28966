---------------------------- MODULE AuthManager ----------------------------
(***************************************************************************)
(* Keeping an access token valid (rsc/src/auth/manager.rs), driven by      *)
(* ApiClient::get_json (rsc/src/api/mod.rs) and by complete_login, over     *)
(* the token file of TokenFile and against an OAuth server whose refresh   *)
(* tokens work once.                                                       *)
(*                                                                         *)
(* A token pair is the number of its issue: the server's n-th grant.       *)
(* Between two steps of a task any other task, the network, the server, a  *)
(* crash or the clock may act; only the steps that wait for nothing but    *)
(* the local machine are over before the clock moves.                      *)
(*                                                                         *)
(* complete_login takes no lock, so its save can overlap with that of a    *)
(* refresh, as can those of two processes.  TokenFile is what TokenStore   *)
(* promises for saves that do not; the model notes an overlap in `torn'    *)
(* and lets the file become anything that two saves can make of it.  The   *)
(* directory of the file is taken to be on disk, but a power loss may take *)
(* it as well.                                                             *)
(***************************************************************************)
EXTENDS Integers, Sequences, FiniteSets

CONSTANTS
  Callers,      \* tasks that call get_json or complete_login
  Processes,
  Proc,         \* the process a task belongs to: one AuthManager each
  Lifetime,     \* expires_in of the server's grants
  Margin,       \* EXPIRY_MARGIN_SECS
  Timeout,      \* REQUEST_TIMEOUT of both HTTP clients
  RfcErrors,    \* error bodies of the server: {"error": ..} or {"code": ..}
  Accidents,    \* which of "crash", "powerloss", "revoke" and "drop" can happen
  MaxIssued, MaxTime, MaxDropped  \* bounds of the model

ASSUME AuthAssumption ==
  /\ Proc \in [Callers -> Processes]
  /\ "nobody" \notin Callers
  /\ Lifetime \in Nat /\ Margin \in Nat /\ Timeout \in Nat
  /\ MaxIssued \in Nat /\ MaxTime \in Nat /\ MaxDropped \in Nat
  /\ RfcErrors \in BOOLEAN

None == 0                     \* no token pair
Issue == 1 .. MaxIssued
MaybeIssue == Issue \cup {None}

VARIABLES
  now,        \* unix time, in units of the model
  stored, durable,  \* the token file, see TokenFile
  expiresAt,  \* the expires_at saved with each pair
  pc,         \* where the task's get_json or complete_login is suspended
  op,         \* "valid": get_valid_token; "retry": refresh_after_unauthorized; "login"
  pair,       \* the pair it has in hand: loaded, received or being sent
  rejected,   \* the pair the API answered 401 to
  deadline,   \* when its request times out
  lockq,      \* per process: holder of refresh_lock first, then the waiting tasks
  issued,     \* server, per issue: the pair it replaced (None: login), its expiry
  spent,      \* refresh tokens used
  revoked,    \* pairs of a session the user has revoked
  dropped,    \* access tokens the API refuses before they expire
  net,        \* token requests not handled yet; from = "nobody": the task gave up
  saved,      \* history: pairs published in the file and not undone by a power loss
  lost,       \* history: pairs that were sent to be replaced by one that was
              \* then lost: by the network, a failed save or a power loss
  torn        \* two saves have overlapped

taskVars == <<pc, op, pair, rejected, deadline, lockq>>
fileVars == <<stored, durable, torn, expiresAt>>
serverVars == <<issued, spent, revoked, dropped>>
history == <<saved, lost>>
vars == <<now, taskVars, fileVars, serverVars, net, history>>

File == INSTANCE TokenFile WITH Tokens <- Issue, visible <- stored, kept <- TRUE

Waiting == {"token", "granted", "refused", "unavailable", "api"}  \* for the network
States == Waiting \cup {"idle", "check", "lock", "recheck", "publish", "persist", "denied"}
Request == [from : Callers \cup {"nobody"}, pair : MaybeIssue]

Types ==
  /\ now \in 0 .. MaxTime
  /\ stored \in MaybeIssue /\ durable \in MaybeIssue
  /\ torn \in BOOLEAN
  /\ expiresAt \in [Issue -> Nat]
  /\ pc \in [Callers -> States]
  /\ op \in [Callers -> {"none", "valid", "retry", "login"}]
  /\ pair \in [Callers -> MaybeIssue]
  /\ rejected \in [Callers -> MaybeIssue]
  /\ deadline \in [Callers -> Nat]
  /\ lockq \in [Processes -> Seq(Callers)]
  /\ issued \in Seq([replaced : MaybeIssue, expiry : Nat])
  /\ Len(issued) <= MaxIssued
  /\ spent \subseteq Issue /\ revoked \subseteq Issue /\ dropped \subseteq Issue
  /\ net \subseteq Request
  /\ saved \subseteq Issue /\ lost \subseteq MaybeIssue

(* Who is past its load has loaded, or been granted, a pair. *)
HasPair ==
  \A c \in Callers :
    \/ pc[c] \in {"check", "recheck", "granted", "publish", "persist", "api", "denied"}
    \/ pc[c] = "token" /\ op[c] # "login"
    => pair[c] # None

TypeOK == Types /\ HasPair

Init ==
  /\ now = 0
  /\ File!Init
  /\ expiresAt = [i \in Issue |-> 0]
  /\ pc = [c \in Callers |-> "idle"]
  /\ op = [c \in Callers |-> "none"]
  /\ pair = [c \in Callers |-> None]
  /\ rejected = [c \in Callers |-> None]
  /\ deadline = [c \in Callers |-> 0]
  /\ lockq = [p \in Processes |-> << >>]
  /\ issued = << >>
  /\ spent = {} /\ revoked = {} /\ dropped = {} /\ net = {}
  /\ saved = {} /\ lost = {} /\ torn = FALSE

Holds(c) == lockq[Proc[c]] # << >> /\ Head(lockq[Proc[c]]) = c

-----------------------------------------------------------------------------
(* Mutants: bugs this code could have had.                                 *)

(* No file is as good as empty tokens. *)
Lock_EmptyTokens(c) ==
  /\ pc[c] = "lock" /\ Holds(c)
  /\ pc' = [pc EXCEPT ![c] = "recheck"]
  /\ pair' = [pair EXCEPT ![c] = stored]
  /\ UNCHANGED <<now, op, rejected, deadline, lockq, fileVars, serverVars, net, history>>

(* refresh_after_unauthorized looks at the clock, not at the token. *)
NeedsRefresh_Clock(c) == now >= expiresAt[pair[c]]

(* EXPIRY_MARGIN_SECS is forgotten. *)
ExpiresAt_NoMargin == now + Lifetime

(* The lock is not waited for. *)
Lock_NotAwaited(c) ==
  /\ pc[c] = "lock"
  /\ stored # None
  /\ pc' = [pc EXCEPT ![c] = "recheck"]
  /\ pair' = [pair EXCEPT ![c] = stored]
  /\ UNCHANGED <<now, op, rejected, deadline, lockq, fileVars, serverVars, net, history>>

(* What a refresh brings is used without being saved. *)
Receive_NotSaved(c) ==
  /\ pc[c] = "granted"
  /\ pc' = [pc EXCEPT ![c] = IF op[c] = "login" THEN "publish" ELSE "api"]
  /\ deadline' = [deadline EXCEPT ![c] = now + Timeout]
  /\ expiresAt' = [expiresAt EXCEPT ![pair[c]] = now + Lifetime - Margin]
  /\ lockq' = [lockq EXCEPT ![Proc[c]] = SelectSeq(@, LAMBDA d : d # c)]
  /\ UNCHANGED <<now, op, pair, rejected, stored, durable, torn,
                 serverVars, net, history>>

(* The lock is not given back on an error. *)
Refused_KeepsLock(c) ==
  /\ pc[c] \in {"refused", "unavailable", "denied"}
  /\ pc' = [pc EXCEPT ![c] = "idle"]
  /\ op' = [op EXCEPT ![c] = "none"]
  /\ pair' = [pair EXCEPT ![c] = None]
  /\ rejected' = [rejected EXCEPT ![c] = None]
  /\ deadline' = [deadline EXCEPT ![c] = 0]
  /\ UNCHANGED <<now, lockq, fileVars, serverVars, net, history>>

-----------------------------------------------------------------------------
(* What the steps of a task are made of.                                   *)

(* refresh_lock is a tokio Mutex: first come, first served.  What was      *)
(* loaded before is loaded again once the lock is there.                   *)
Enqueue(c) ==
  /\ pc' = [pc EXCEPT ![c] = "lock"]
  /\ pair' = [pair EXCEPT ![c] = None]
  /\ deadline' = [deadline EXCEPT ![c] = 0]
  /\ lockq' = [lockq EXCEPT ![Proc[c]] = Append(@, c)]

(* Dropping the guard; complete_login has none. *)
Release(c) ==
  lockq' = IF Holds(c) THEN [lockq EXCEPT ![Proc[c]] = Tail(@)] ELSE lockq

(* A request goes out and the timer starts. *)
Await(c, state) ==
  /\ pc' = [pc EXCEPT ![c] = state]
  /\ deadline' = [deadline EXCEPT ![c] = now + Timeout]

(* The call returns, to a caller that may have more to do later. *)
Return(c) ==
  /\ pc' = [pc EXCEPT ![c] = "idle"]
  /\ op' = [op EXCEPT ![c] = "none"]
  /\ pair' = [pair EXCEPT ![c] = None]
  /\ rejected' = [rejected EXCEPT ![c] = None]
  /\ deadline' = [deadline EXCEPT ![c] = 0]

(* Tokens::is_expired, and the two tests refresh_if is called with. *)
IsExpired(i) == now >= expiresAt[i]

NeedsRefresh(c) ==
  IF op[c] = "valid" THEN IsExpired(pair[c]) ELSE pair[c] = rejected[c]

(* Tokens::from_response. *)
ExpiresAt == now + IF Lifetime > Margin THEN Lifetime - Margin ELSE 0

(* The error that c returns for a refused grant (classify_failure,         *)
(* refresh_if, complete_login) or a second 401 (get_json).                 *)
Refusal(c) ==
  CASE pc[c] = "denied" -> "SessionExpired"
    [] ~RfcErrors       -> "Status(400)"
    [] op[c] = "login"  -> "InvalidGrant"
    [] OTHER            -> "SessionExpired"

(* The tasks in T gave up their requests; the server may still handle a    *)
(* refresh.  (What an abandoned login obtains nobody ever sees.)           *)
Abandon(T) ==
  net' = {IF m.from \in T THEN [m EXCEPT !.from = "nobody"] ELSE m :
            m \in {n \in net : n.from \in T => n.pair # None}}

(* The tasks in T are gone. *)
Kill(T) ==
  /\ pc' = [c \in Callers |-> IF c \in T THEN "idle" ELSE pc[c]]
  /\ op' = [c \in Callers |-> IF c \in T THEN "none" ELSE op[c]]
  /\ pair' = [c \in Callers |-> IF c \in T THEN None ELSE pair[c]]
  /\ rejected' = [c \in Callers |-> IF c \in T THEN None ELSE rejected[c]]
  /\ deadline' = [c \in Callers |-> IF c \in T THEN 0 ELSE deadline[c]]
  /\ Abandon(T)

(* A refresh is under way whose result is not in the file yet.  If it ends *)
(* here, what takes the place of the pair that was sent is lost.           *)
Unsaved(c) == op[c] # "login" /\ pc[c] \in {"token", "granted", "publish"}
Sent(c) == IF pc[c] = "token" THEN pair[c] ELSE issued[pair[c]].replaced
Losses(T) == {Sent(c) : c \in {d \in T : Unsaved(d)}}

-----------------------------------------------------------------------------
(* get_json and complete_login.                                            *)

(* get_valid_token loads the file.  There may be none, or it cannot be     *)
(* read; either way the call is over.                                      *)
Call(c) ==
  /\ pc[c] = "idle"
  /\ \/ Return(c)
     \/ /\ stored # None
        /\ pc' = [pc EXCEPT ![c] = "check"]
        /\ op' = [op EXCEPT ![c] = "valid"]
        /\ pair' = [pair EXCEPT ![c] = stored]
        /\ UNCHANGED <<rejected, deadline>>
  /\ UNCHANGED <<now, lockq, fileVars, serverVars, net, history>>

(* ... and returns what it loaded unless it has expired. *)
Check(c) ==
  /\ pc[c] = "check"
  /\ \/ ~IsExpired(pair[c]) /\ Await(c, "api") /\ UNCHANGED <<pair, lockq>>
     \/ IsExpired(pair[c]) /\ Enqueue(c)
  /\ UNCHANGED <<now, op, rejected, fileVars, serverVars, net, history>>

(* refresh_if: the lock is ours, load again. *)
Lock(c) ==
  /\ pc[c] = "lock" /\ Holds(c)
  /\ \/ Return(c) /\ Release(c)
     \/ /\ stored # None
        /\ pc' = [pc EXCEPT ![c] = "recheck"]
        /\ pair' = [pair EXCEPT ![c] = stored]
        /\ UNCHANGED <<op, rejected, deadline, lockq>>
  /\ UNCHANGED <<now, fileVars, serverVars, net, history>>

(* ... check again, and refresh. *)
Recheck(c) ==
  /\ pc[c] = "recheck"
  /\ \/ ~NeedsRefresh(c) /\ Await(c, "api") /\ Release(c) /\ UNCHANGED net
     \/ /\ NeedsRefresh(c) /\ Await(c, "token")
        /\ net' = net \cup {[from |-> c, pair |-> pair[c]]}
        /\ UNCHANGED lockq
  /\ UNCHANGED <<now, op, pair, rejected, fileVars, serverVars, history>>

(* complete_login, without refresh_lock: send the authorization code. *)
Login(c) ==
  /\ pc[c] = "idle"
  /\ Await(c, "token")
  /\ op' = [op EXCEPT ![c] = "login"]
  /\ net' = net \cup {[from |-> c, pair |-> None]}
  /\ UNCHANGED <<now, pair, rejected, lockq, fileVars, serverVars, history>>

(* The tokens have arrived: their expiry is counted from now.  store.save  *)
(* begins; another one may be under way.                                   *)
Receive(c) ==
  /\ pc[c] = "granted"
  /\ pc' = [pc EXCEPT ![c] = "publish"]
  /\ deadline' = [deadline EXCEPT ![c] = 0]
  /\ expiresAt' = [expiresAt EXCEPT ![pair[c]] = ExpiresAt]
  /\ torn' = (torn \/ \E d \in Callers : pc[d] = "publish")
  /\ UNCHANGED <<now, op, pair, rejected, lockq, stored, durable,
                 serverVars, net, history>>

(* The token endpoint answered with an error, or the API with a second 401:*)
(* the file is left alone.                                                 *)
Refused(c) ==
  /\ pc[c] \in {"refused", "unavailable", "denied"}
  /\ Return(c)
  /\ Release(c)
  /\ UNCHANGED <<now, fileVars, serverVars, net, history>>

(* What saves that overlap make of the file that is renamed: a fragment,   *)
(* which cannot be loaded and is as good as none, or what another one      *)
(* wrote.                                                                  *)
Mixed ==
  IF torn THEN {None} \cup {pair[d] : d \in {e \in Callers : pc[e] = "publish"}} ELSE {}

Put(t) == File!Publish(t) /\ saved' = saved \cup ({t} \ {None})

(* store.save, up to its rename. *)
Publish(c) ==
  /\ pc[c] = "publish"
  /\ \E t \in Mixed \cup {pair[c]} : Put(t)
  /\ pc' = [pc EXCEPT ![c] = "persist"]
  /\ UNCHANGED <<now, op, pair, rejected, deadline, lockq, torn, expiresAt,
                 serverVars, net, lost>>

(* Its file has already been renamed by another save: it writes in place.  *)
Overwrite ==
  /\ torn
  /\ \E t \in Mixed : Put(t)
  /\ UNCHANGED <<now, taskVars, torn, expiresAt, serverVars, net, lost>>

(* store.save returns Ok: login is done, get_json sends the request.       *)
Persist(c) ==
  /\ pc[c] = "persist"
  /\ File!Persist
  /\ \/ op[c] = "login" /\ Return(c)
     \/ op[c] # "login" /\ Await(c, "api") /\ UNCHANGED <<op, pair, rejected>>
  /\ Release(c)
  /\ UNCHANGED <<now, torn, expiresAt, serverVars, net, history>>

(* store.save fails, before the rename or after. *)
SaveFails(c) ==
  /\ pc[c] \in {"publish", "persist"}
  /\ Return(c)
  /\ Release(c)
  /\ lost' = lost \cup Losses({c})
  /\ UNCHANGED <<now, fileVars, serverVars, net, saved>>

(* The API does not accept the access token of i. *)
Rejects(i) == now >= issued[i].expiry \/ i \in dropped

(* The API answers.  A first 401 leads to refresh_after_unauthorized, a    *)
(* second one means log in again.                                          *)
ApiAnswer(c) ==
  /\ pc[c] = "api"
  /\ \/ ~Rejects(pair[c]) /\ Return(c) /\ UNCHANGED lockq
     \/ /\ Rejects(pair[c]) /\ op[c] = "retry"
        /\ pc' = [pc EXCEPT ![c] = "denied"]
        /\ deadline' = [deadline EXCEPT ![c] = 0]
        /\ UNCHANGED <<op, pair, rejected, lockq>>
     \/ /\ Rejects(pair[c]) /\ op[c] = "valid"
        /\ op' = [op EXCEPT ![c] = "retry"]
        /\ rejected' = [rejected EXCEPT ![c] = pair[c]]
        /\ Enqueue(c)
  /\ UNCHANGED <<now, fileVars, serverVars, net, history>>

(* A request times out, its connection breaks, or its answer is garbage.   *)
(* The server may still handle it later.                                   *)
RequestFails(c) ==
  /\ pc[c] \in Waiting
  /\ Return(c)
  /\ Release(c)
  /\ Abandon({c})
  /\ lost' = lost \cup Losses({c})
  /\ UNCHANGED <<now, fileVars, serverVars, saved>>

Step(c) ==
  \/ Check(c) \/ Lock(c) \/ Recheck(c) \/ Receive(c) \/ Refused(c)
  \/ Publish(c) \/ Persist(c) \/ SaveFails(c) \/ ApiAnswer(c) \/ RequestFails(c)

-----------------------------------------------------------------------------
(* The server, the machine, the clock.                                     *)

(* The answer to m travels back, if somebody still waits for it. *)
Answer(m, state) ==
  /\ net' = net \ {m}
  /\ pc' = IF m.from \in Callers THEN [pc EXCEPT ![m.from] = state] ELSE pc

Refreshable(i) == i \in DOMAIN issued /\ i \notin spent \cup revoked

ServerGrants(m) ==
  /\ m.pair = None \/ Refreshable(m.pair)
  /\ Len(issued) < MaxIssued
  /\ issued' = Append(issued, [replaced |-> m.pair, expiry |-> now + Lifetime])
  /\ spent' = (spent \cup {m.pair}) \ {None}
  /\ Answer(m, "granted")
  /\ pair' = IF m.from \in Callers THEN [pair EXCEPT ![m.from] = Len(issued')] ELSE pair
  /\ UNCHANGED <<now, op, rejected, deadline, lockq, fileVars, revoked,
                 dropped, history>>

ServerRefuses(m) ==
  /\ m.pair # None => ~Refreshable(m.pair)
  /\ Answer(m, "refused")
  /\ UNCHANGED <<now, op, pair, rejected, deadline, lockq, fileVars,
                 serverVars, history>>

(* HTTP 5xx, nothing done. *)
ServerFails(m) ==
  /\ Answer(m, "unavailable")
  /\ UNCHANGED <<now, op, pair, rejected, deadline, lockq, fileVars,
                 serverVars, history>>

(* The user revokes the app's access (once). *)
Revoke ==
  /\ "revoke" \in Accidents
  /\ revoked = {} /\ issued # << >>
  /\ revoked' = DOMAIN issued /\ dropped' = dropped \cup revoked'
  /\ UNCHANGED <<now, taskVars, fileVars, issued, spent, net, history>>

(* The API stops accepting an access token. *)
Drop(i) ==
  /\ "drop" \in Accidents
  /\ Cardinality(dropped) < MaxDropped
  /\ dropped' = dropped \cup {i}
  /\ UNCHANGED <<now, taskVars, fileVars, issued, spent, revoked, net, history>>

Flush ==
  /\ File!Persist
  /\ UNCHANGED <<now, taskVars, torn, expiresAt, serverVars, net, history>>

(* A process dies. *)
Crash(p) ==
  /\ "crash" \in Accidents
  /\ LET T == {c \in Callers : Proc[c] = p} IN
     Kill(T) /\ lost' = lost \cup Losses(T)
  /\ lockq' = [lockq EXCEPT ![p] = << >>]
  /\ UNCHANGED <<now, fileVars, serverVars, saved>>

(* All do, and what was not on disk yet is undone; or the file is gone,    *)
(* with a directory that was too new, or after saves that overlapped.      *)
PowerLoss ==
  /\ "powerloss" \in Accidents
  /\ \/ File!Revert
     \/ stored' = None /\ durable' = None
  /\ Kill(Callers)
  /\ lockq' = [p \in Processes |-> << >>]
  /\ saved' = {i \in saved : i <= stored'}
  /\ lost' = lost \cup Losses(Callers)
                 \cup (IF stored' # stored THEN {stored'} \cap spent ELSE {})
  /\ UNCHANGED <<now, torn, expiresAt, serverVars>>

(* Only the network and the lock make a task wait, a request never longer  *)
(* than its timeout.                                                       *)
Tick ==
  /\ now < MaxTime
  /\ \A c \in Callers :
       \/ pc[c] = "idle"
       \/ pc[c] \in Waiting /\ now < deadline[c]
       \/ pc[c] = "lock" /\ ~Holds(c)
  /\ now' = now + 1
  /\ UNCHANGED <<taskVars, fileVars, serverVars, net, history>>

Environment ==
  \/ \E m \in net : ServerGrants(m) \/ ServerRefuses(m) \/ ServerFails(m)
  \/ Revoke \/ (\E i \in DOMAIN issued : Drop(i))
  \/ Overwrite \/ Flush \/ (\E p \in Processes : Crash(p)) \/ PowerLoss
  \/ Tick

Next == (\E c \in Callers : Call(c) \/ Login(c) \/ Step(c)) \/ Environment

Spec == Init /\ [][Next]_vars

(* The runtime resumes every task that can go on, and every request comes  *)
(* back, at the latest by its timeout.                                     *)
FairSpec == Spec /\ \A c \in Callers : WF_vars(Step(c))

-----------------------------------------------------------------------------
(* Inside refresh_if, past the lock. *)
Busy == {"recheck", "token", "granted", "refused", "unavailable", "publish", "persist"}
Refreshing(c) == op[c] \in {"valid", "retry"} /\ pc[c] \in Busy

(* In a process one refresh is over, saved or not, before the next begins, *)
(* whatever errors, timeouts and kills end it.                             *)
RefreshesExclude ==
  \A c, d \in Callers :
    Proc[c] = Proc[d] /\ Refreshing(c) /\ Refreshing(d) => c = d

(* A refresh token is never presented again by a task once its successor   *)
(* has been saved: callers that waited for the lock reuse the result       *)
(* (unless saves overlapped, which may bring back anything; also below).   *)
NoReplay ==
  torn \/ \A c \in Callers : pc[c] = "token" /\ op[c] # "login" =>
           \A i \in saved : issued[i].replaced # pair[c]

(* The stored refresh token still works, unless its successor is being     *)
(* saved right now or was lost by accident: the program alone never logs   *)
(* the user out.                                                           *)
StoredLive ==
  stored \in spent =>
    \/ torn \/ stored \in lost
    \/ \E c \in Callers : /\ pc[c] \in {"granted", "publish"}
                          /\ issued[pair[c]].replaced = stored

(* "Log in again" is only said when that is so: after a refresh, of a      *)
(* token that is revoked, or whose successor was lost by accident; after a *)
(* second 401, when the API has given up one token before its time and     *)
(* does not accept another one either.                                     *)
NoFalseLogout ==
  \A c \in Callers : Refusal(c) = "SessionExpired" =>
    /\ pc[c] = "refused" => torn \/ pair[c] \in lost \cup revoked
    /\ pc[c] = "denied" => /\ rejected[c] \in dropped
                           /\ pair[c] # rejected[c] /\ Rejects(pair[c])

(* The new tokens are in the file before anyone gets to use them. *)
UsedOnlySaved ==
  torn \/ \A c \in Callers : pc[c] = "api" => pair[c] \in saved

(* The retry after a 401 is made with another token. *)
RetryIsNew ==
  \A c \in Callers : pc[c] = "api" /\ op[c] = "retry" => pair[c] # rejected[c]

(* A token from get_valid_token does not expire before the request made    *)
(* with it is answered: what EXPIRY_MARGIN_SECS is for.                    *)
ValidWhileSent ==
  \A c \in Callers : pc[c] = "api" /\ op[c] = "valid" =>
    now < issued[pair[c]].expiry

(* Every call returns: nobody waits for refresh_lock for ever. *)
CallsReturn == \A c \in Callers : pc[c] # "idle" ~> pc[c] = "idle"
=============================================================================
