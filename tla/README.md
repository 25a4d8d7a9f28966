# Formal models of rsc

`rsc` plays the user's SoundCloud playlists in a terminal: it keeps an OAuth
session alive, asks the API for tracks and drives an `mpv` process. `rsc-mock`
is the authorization server its tests log in to. This directory holds TLA+
models of the parts where order, failure and concurrency matter, the TLC
configurations that check them on small instances, and proofs, checked by
TLAPS, that the main results hold for every instance.

    tlc -config AuthManager.cfg MCAuthManager.tla     # a run
    tlapm AuthManagerProofs.tla                       # the proofs of a module

`PROJECT.json` lists components, runs, theorems, hazards and findings, and
maps every definition to the lines of source it models.

## Inventory

| Part | State | Operations | Interacts with | What makes it correct |
|---|---|---|---|---|
| Token file, `auth/store.rs` | the file, its temporary sibling, their directory, what is on disk | `load`, `save` (make directory, remove, create, write, fsync, rename, fsync directory) | the file system; every process of the user | readers see whole files; a power loss never leaves a fragment; after `Ok` the value stays |
| `AuthManager`, `auth/manager.rs`, with `TokenClient`, `Tokens` and `ApiClient::get_json` | `refresh_lock`, tokens in the hands of each task | `get_valid_token`, `refresh_after_unauthorized`, `complete_login`, `get_json` | token file, authorization server, API, clock | a refresh token is used once; new tokens are saved before use; nobody is logged out without cause; every call returns |
| Login: `auth/callback.rs`, `pkce.rs`, `TokenClient::authorize_url`, `complete_login` | the port, the connections on it, two deadlines, the state and verifier of the attempt | `bind`, `wait_for_code`, `parse_request_line`, the exchange | browser, user, authorization server, other logins | a login presents its own code only; strays neither fail it nor use up its time; the wait ends |
| Playback: `session.rs`, `queue.rs`, `main.rs` (`run`), `player/mpv.rs` | cursor, pause flag, event channel, the wire to mpv | start, keys, events, reader task | mpv (socket), backend, terminal | the track under the cursor plays; pause converges; every track once; the program ends |
| Lifecycle of `rsc play`: `main.rs` (`play`, `run`, `ShutdownSignals`, `RawMode`), `player/mpv.rs` | child process, socket file, raw mode, registered handlers | `spawn`, `connect`, `send`, `shutdown`, `Drop` | kernel, mpv, terminal | no orphan, no stale socket, terminal restored; ends when told to |
| Authorization server, `rsc-mock/oauth/store.rs`, `authorize.rs`, `token.rs`, `server.rs`, `clock.rs` | codes, access tokens, refresh tokens, revoked families, clock, user decision | `/authorize`, three grants, `advance_clock`, `set_user_decision` | clients, in any order | single use; replayed code kills its family for good; tokens belong to who began the session |
| Request checks: `rsc-mock` `form.rs`, `client_auth.rs`, `authorize.rs`, `token.rs` | none | the order of the checks of a request | the store | no redirect before it is trusted; errors before state; no hint to a stranger |
| Library: `backend/local.rs`, `main.rs` (`find_playlist`) | none | listing, lookup, `safe_join` | file system | first match, stays below the root |
| Plumbing of the mock: `server.rs` (accept loop, router), `response.rs`, `error.rs` | open connections | accept, serve | hyper | I/O |

The command line itself has two commands, `playlists` and `play`; a login
command is planned in `docs/architecture.md`, and its parts exist and are
called by tests in the order that `Login` gives them.

What is hard here: tasks of one process interleave at every `await`; processes
share the token file and the callback port and nothing else; answers get lost
after the server has acted on the request; the machine stops between two system
calls; mpv's events report what was true when they were sent; mpv may exit or
hang, and a signal may arrive, at any statement; browsers probe the callback
port, keep connections silent and replay old redirects. `PROJECT.json` lists
each hazard at its line with the properties that cover it.

## Modules

| Module | Models |
|---|---|
| `TokenFile` | abstract: a register replaced as a whole, with what a power loss would bring back |
| `TokenStore` | `save`, a system call per action, over a file system with a volatile and a durable layer |
| `AuthManager` | the tasks, the lock, the token file (as `TokenFile`), the network, an OAuth server, the API, crashes, the clock |
| `Login` | logins on one port: listener, browser, server, clock |
| `Playback` | event loop, session, queue, reader task, bounded channel, mpv |
| `Lifecycle` | `rsc play` from its first statement to its last, mpv and its socket, raw mode, signals |
| `Sessions` | abstract: sessions offered, activated once, renewed one by one, revoked for good |
| `OAuthStore` | the server's store behind its endpoints, one action per handler |
| `Endpoints` | what the two endpoints check before the store, in order |
| `MC...` | values of the constants for TLC |
| `AuthTaskProofs`, `AuthManagerProofs` | theorems about `AuthManager`: without hypotheses, and about the pairs |
| other `...Proofs` | theorems about the module they are named after |

**TokenStore.** `dir` and `data` are what processes see, `diskDir` and
`diskData` what a power loss would leave; the kernel may write back any file or
the directory at any time (`FlushData`, `FlushDir`). Each `?` of `save` is
`Fail`. A directory is persisted as a whole, which rename relies on. Two
constants state the circumstances: `Exclusive` (one save at a time, what
`refresh_lock` is for) and `SilentWriteErrors` (a background write of
`tokio::fs::File` fails and neither `write_all` nor `sync_all` says so).
File modes and JSON are left out. A file whose content is not what was written
is `Partial`; `load` of it is an error.

`root` is the directory's own entry in its parent. `create_dir_all` (`MakeDir`)
makes the directory on the first save, and `save` syncs the directory but never
the parent, so until the kernel writes the entry back (`FlushRoot`) a power loss
takes the directory and the tokens in it. `store.rs:1` calls the writes durable;
`AckedIsDurable` promises that only from then on (`root = "made"` is its
exception), and so does the register in `TokenFile` (`kept`). Syncing the parent
after `create_dir_all` would close the gap.

**AuthManager.** A token pair is the number of its grant. A task's `pc` is the
`await` it is suspended in:

| `pc` | suspended in |
|---|---|
| `check` | `load` of `get_valid_token` is done, the expiry is tested next |
| `lock` | `refresh_lock.lock().await`, first come first served |
| `recheck` | the second `load` is done, the second test is next |
| `token` | request to the token endpoint; `granted`, `refused`, `unavailable`: its answer is on the way back |
| `publish`, `persist` | `store.save`, before and after its rename |
| `api` | request to the API; `denied`: its answer was a second 401 |

A request may time out or lose its answer and still be handled later. A load
may fail although there is a file. The API refuses a token that has expired, or
that it gives up early (`Drop`, at most `MaxDropped` times); a first 401 leads
to a refresh and a retry, a second one to `SessionExpired`, the other place
besides a refused refresh that tells the user to log in again.

`save` appears as the two steps that `TokenStore` is shown to implement for
saves that exclude one another. `refresh_lock` makes refreshes do so
(`RefreshesExclude`), but `complete_login` takes no lock, and other processes
have their own: their saves may overlap, and then share one temporary file.
`torn` notes that, and from then on a `Publish` may leave a fragment or the
pair of another save in the file, and a save whose file was renamed by another
goes on writing to it (`Overwrite`). What the properties say of the pairs in
the file they say unless `torn`. A login that merely comes between the steps of
a refresh is no exception to anything.

What no program can avoid is in `lost`: the pairs that were sent to be replaced
by a pair that then got lost, on the network, in a failed save, or in a power
loss. Such a refresh token is spent and nobody has its successor. URL handling,
JSON, headers and the text of errors are left out; which error a refusal
becomes is `Refusal`, which depends on the shape of the server's error bodies
(`RfcErrors`; with SoundCloud's own shape a refusal surfaces as HTTP status 400,
a gap `docs/architecture.md` lists).

**Login.** State, verifier and challenge of an attempt are fresh random strings,
so they are the name of the attempt. The listener's kernel queue and the
connection being read are one `queue`, since connections are served one after
the other; a connection may stay silent, close, say something else, or carry a
redirect, on opening or later. `left` and `quiet` count down the two timeouts,
and time passes only when the runtime has nothing to do (`Busy`). A redirect is
of this login, of another, or of none the program knows; the browser follows it
at any time and again. What `wait_for_code_with` looks at first, the state
parameter, decides: a redirect of an earlier login ends the wait of a later one
with an error, which is the code's intention. The page "Login successful" is
shown when the code arrives (`callback.rs:161`), before it is traded for tokens;
the model has the order and no property about it.

**Playback.** A load has a number, so that events can be told apart that the
code cannot tell apart; `playing` and `early` are history. `cmds` and `wire` are
the two directions of the socket, `chan` is the channel. mpv is external: it
handles commands in order, reports `stop` for a replaced file, and reports a
property when it changes and once when it is observed. Whether a stream
resolves is a choice for the positions in `Unresolvable`, made anew each time.
Without a terminal (`interactive`) there are no keys. Signals and a lost
terminal are `Quit`.

**Lifecycle.** `pc` is the statement that comes next. What is played is
`Playback`'s subject; here a turn of the event loop takes a report of mpv
(`EventTurn`) or a key (`KeyTurn`), and `Act` leads to commands (`Send`), sends nothing and
goes back to the loop, or ends the playlist. `reports` counts what mpv has said
and nobody has taken: with a dead mpv the loop goes on with that and with keys
that send nothing until it notices. Leaving a scope by `?`, `return` or panic
drops what it owns, in the order of Rust: `DropPlayer`, `DropChild`, `Leave`.
`Write` waits when mpv hangs and the socket buffer is full. `connect` cannot
tell a hung mpv from one that is up, because the kernel accepts for it.

Two limits of the code are visible in the properties. When mpv dies, or is
given up, before `connect` has succeeded its socket file may stay behind:
`NothingLeft` promises its removal only once there has been a player
(`outcome # "no player"`). And the write of `quit` in `shutdown` (`mpv.rs:110`)
comes before the 2 s timeout and is itself unbounded, although the doc of
`shutdown` (`mpv.rs:108`: "killing it after 2 s") promises otherwise; so
`ToldEnds` needs that mpv is not stuck with a full buffer for ever.

**OAuthStore.** Every handler locks the state once, so a handler is an action.
Redirect URI and PKCE challenge together are a *binding*, which a token request
repeats or not. `Fresh` is any unused string. Requests that fail before the
store is reached change nothing and are not actions: they are `Endpoints`. The
clock saturates at `EndOfTime`.

**Endpoints.** A request maps parameter names to the sequence of their values;
`"blank"` is the empty value. The checks of a handler are a sequence of
conditions with their errors, and the answer is the first that applies. Base64,
PKCE syntax, SHA-256 and media types are classes of inputs (`scheme`, `isForm`,
`body`).

## Runs

| Run | Question | Bounds and why they are enough |
|---|---|---|
| `TokenStore` | one save at a time: whole files, durability, refinement of `TokenFile` | two savers in turn, two values, four inodes: old file, leftover, new file, next one; a directory that exists or does not |
| `TwoSavers` | the same with two saves at once: **violated** | as above |
| `SilentWrite` | the same when a write error goes unnoticed: **violated** | one saver |
| `AuthManager` | one refresh at a time, single use, save before use, no loss without accident, retries with another token, tokens live long enough, honest "log in again" | two callers that call and log in at any time; two grants: a login and its refresh, or two logins that cross; ticks up to the server's expiry; kills, power loss, revocation, one token dropped early, lost answers. 3.9 million states. A refresh of a refresh is beyond this run and covered by the theorems |
| `AuthLive` | every call returns | two grants; early rejection by the API, kills; fairness below. 324,000 states |
| `TwoProcesses` | single use with two processes: **violated** | no accident needed |
| `Login` | own code only, no starvation, strays never taken for a failed login, the wait ends | two logins, three connections, `Overall` 5 and `PerConnection` 2: two silent connections fit in the wait and a third does not; one answer per login, each followed any number of times; a redirect of an unknown login. 457,000 states |
| `OAuthStore` | pairs are paid for, so that a session has at most one live refresh token; ownership; refinement of `Sessions`, nothing comes back to life | two clients, two bindings, two sessions, six strings: a session renewed once beside another one, or two with a pair each; time ends after both lifetimes |
| `Endpoints` | order of the checks | 48,840 requests (and the state after each): every parameter absent, blank, right, wrong or repeated, together with every other; five ways to authenticate, with known and unknown ids in header and body; two clients with different URIs |
| `Playback` | without keys: order, completeness, termination; with all of them: pause converges and the cursor plays | five tracks of which one is blocked and two may not resolve (the second and the last of the queue); a channel of one slot, so that it fills; three loads by key, three messages under way. 5.3 million states |
| `StaleEnd` | no early skip: **violated** | [n] only |
| `Lifecycle` | nothing left behind, ends when told to or when mpv does | a buffer of two commands: not full, and full; two reports that nobody has taken. No other bound |

`Max...` constants, `EndOfTime`, `Creds` and `Backlog` bound the runs only; the
theorems hold for every value of theirs. Deadlock is checked except where the
program ends (`Playback`, `StaleEnd`, `Lifecycle`, `Login`, `Endpoints`).
Symmetry is used where callers, clients or bindings are interchangeable, and
never with liveness.

Every property of a passing run has a mutant: a definition named after the one
it replaces (`Lock_NotAwaited`, `SyncData_NoFsync`, ...), a bug the code could
have had, under which TLC finds the property violated.

### Fairness

`AuthLive` assumes weak fairness of each task's next step (`Step(c)`): the
tokio runtime resumes every task that can go on, and a request ends at the
latest when its timeout fires (`RequestFails`), both HTTP clients being built
with `REQUEST_TIMEOUT`. The lock needs no stronger assumption because tokio's
mutex is a queue. Nothing is assumed of the server, the network or the API.

`Playback` assumes weak fairness of the event loop, of the reader task and of
mpv: it handles its commands, and a track that plays comes to its end
(`MpvEnds`; a track that is paused need not). Keys are never assumed.

`Lifecycle` assumes weak fairness of the program and of the timers, and strong
fairness of three branches of the event loop, the signal, a report and the end
of the channel: `tokio::select!` polls the branches that are ready in random
order, so that a stream of keys or reports does not hide them for ever. After
each turn that sends nothing the loop is back with all branches ready, which is
why weak fairness would not do. Nothing is assumed
of mpv or the user.

`Login` assumes that the runtime polls what is ready (`Serve`, `TimeOut`) and
that time passes (`Tick`); nothing of browser, user or server.

## What is proved

The theorems hold for every value of the constants: any number of tasks,
values, sessions, logins, connections, tracks and requests.

**TokenStoreProofs**, when saves exclude one another and write errors are
reported (`Hypotheses`): `WholeFiles`, `SavedMeansDurable`, and `Refinement`:
`TokenStore` implements `TokenFile`. The invariant says, per step of the one
active saver, what the temporary file holds and that everything either
directory names besides it is complete; no reader property is inductive
without it. What `SavedMeansDurable` and `Refinement` claim of a first save is
what the code gives: durable once the directory's own name is on disk.

**AuthTaskProofs**, for any number of processes and logins at any time: what
holds of each task by itself and of each lock.

- `SavedBeforeUse` (unless saves have overlapped), `RetryWithNew`;
- `OneRefreshPerProcess` (`RefreshesExclude`): two tasks of a process are never
  past `refresh_lock` together; `NeverStuckLock`: whoever waits for it waits
  for a task that is still inside `refresh_if`; `FirstComeFirstServed`: nobody
  gets ahead. These are the safety half of `CallsReturn`, for any number of
  tasks;
- `MarginIsEnough`: if the margin is at least twice the timeout and shorter
  than the lifetime (`Patience`), a token from `get_valid_token` outlives its
  request. The code has 60 s and 30 s: the margin is exactly enough, because
  `expires_at` is counted from the answer, up to a timeout after the grant.

The invariant `TInv` has a half about control (an operation is where its `pc`
says, the queue of a lock holds exactly the tasks inside `refresh_if`, each
once, and whoever is past the lock is its head) and one about pairs (every
number that is anywhere was granted, a request is its task's or abandoned, a
task that got a second 401 has a token that the API does not accept).
`Timed` adds the clock for the last theorem.

**AuthManagerProofs**: the pairs on their way into the file, with logins at any
time, under hypotheses that grow:

| Theorem | Holds for |
|---|---|
| `NeverLockedOut`: the stored refresh token works, or its successor is about to be saved, or was lost by accident | any number of processes |
| `ReplayFree`: a refresh token whose successor is saved is not sent again | one process (`OneProcess`) |
| `HonestLogout`: `SessionExpired` after a refused refresh means a revoked token or a lost successor; after a second 401, that the API gave up a token early and does not accept another one either | one process, and a margin of two timeouts (`Patience`) |

All three say nothing after saves have overlapped (`torn`), except that
`HonestLogout` holds of the second 401 even then. `TwoProcesses` shows that
`ReplayFree` needs its hypothesis. None of them is inductive alone.
`NeverLockedOut` rests on `Session`: a pair that has arrived is unknown to
file, server and network and its task's alone (`Obtained`), an abandoned
request is for a pair in `lost` (`Requests`), the stored pair has no saved
successor (`Successors`). `ReplayFree` adds `Current`, that what a task
refreshes has none either: a login that saves in between brings a pair that
replaces nothing, and another refresh is kept out by the lock. `HonestLogout`
adds that what a task is about to refresh is spent only if its successor is on
record as lost (`Honest`), and so for what was refused (`Refusals`), and, for
the second 401, that a retry is only made because a token was given up before
its time (`GivenUp`): one that is not used after its time (`MarginIsEnough`) is
not refused for its age.

All theorems of both modules take the token file as the register `TokenFile`,
which `TokenStore` implements for saves that exclude one another, or, after an
overlap, as anything that two saves can make of it. The run `TwoSavers` shows
that the exception is needed.

**LoginProofs**: `OwnCodeOnly`, `StraysNeverFail`, and `NeverStarved`, whose
invariant is arithmetic: a connection that was `inTime` when it came has, at
every later moment, `PerConnection` for each connection still ahead of it and
the rest of `quiet` for the first, before `left` is over. It holds for every
choice of the two timeouts; the code's are 5 minutes and 2 seconds.

**PlaybackProofs**, for any playlist, keys and capacity: `CursorPlays`,
`PauseAgrees`, `NothingIsCutOff`, `OrderKept` (the tracks that resolve are
loaded in order: none is skipped before the first load, between two loads, or
after the last one of a playlist that is finished). `IInv` adds that the last
load under way is the latest and for the track under the cursor (`LastLoad`,
`Loaded`), and that left alone the track that is due is in one place only: on
its way to mpv, playing, or on its way back as an end (`OneAtATime`). The
lemmas `MoreTold`, `LessTold` and their like say what an event that joins or
leaves the two queues does to the last report of a kind, so that the proof of a
step does not see where an event is, on the wire or in the channel.

**LifecycleProofs**: `CleanExit` (no mpv and no raw terminal however the
program ends, and no socket once there has been a player) and `HandlersInTime`.
The invariant ties `pc` to what exists.

**OAuthStoreProofs**: `Ownership`, `TypedCredentials` and `NoRevival` (an
access token that is invalid stays so: families are never un-revoked, strings
never reused, the clock never goes back). `EveryPairPaid` counts: the tables
are finite, a step adds at most one pair to one family and then uses up one
code or refresh token of it (`SessionInv`). `Refinement`: the store implements
`Sessions`. Both rest on `EveryStepSeen`, which says of every handler what it
does to a family: it offers one, adds the first or a further pair to one,
revokes one, or does nothing, and the other families do not notice.

**EndpointsProofs**, for any clients and requests: `NeverOpenRedirect`,
`AlwaysProven`, `UserIsAskedLast`, `NeverAnOracle`, `NeverEnumerable`. They rest
on `FirstErrorOf` (an answer without error means that every check passed),
`AllPassConcat` and `FirstErrorConcat` (the first error of two lists of checks,
one after the other). The last two theorems compare the answers to two
requests; they follow from `StrangersLearnNothing`: the answer to a token
request that does not prove its client depends only on how it tries to, by
header or by body, and not on the client it names or the secret it guesses.

Only model-checked: the liveness properties `CallsReturn`, `PlaysToTheEnd`,
`ToldEnds`, `DeathEnds` and `WaitEnds`, which are out of the prover's reach.
Every other property of a passing run is a theorem.

## Findings

1. `TwoSavers`: two overlapping saves share `tokens.json.tmp`; one publishes
   the other's empty file. Only a login during a refresh, or two processes, can
   bring it about.
2. `SilentWrite`: `tokio::fs::File::write_all` returns before the data is
   written and `sync_all` does not report a failed write; `flush` would.
3. `TwoProcesses`: `refresh_lock` does not reach across processes.
4. `StaleEnd`: [n] at the moment a track ends skips two tracks.

## Not modelled

- Library (`backend/local.rs`, `find_playlist`): one sequential pass over a
  directory, without state, concurrency or failure handling of its own.
  `Lifecycle` has its outcome (tracks or an error), `Playback` its tracks, some
  of which may not resolve.
- Plumbing of the mock (`server.rs` accept loop and router, `response.rs`,
  `error.rs`): connections share nothing but the store behind its lock.
- Command line, printing, configuration, developer scripts and git hooks: no
  state that order or failure could damage.

## What could come next

1. An abstract refresh server (a session with one refresh token that works, and
   answers that get lost) that `OAuthStore` implements and `AuthManager` uses in
   place of its own.
2. The safety cores of `ToldEnds` and `WaitEnds` as theorems: what each wait is
   for, and that it is bounded by a timer.
3. The login command, once it exists: `Login` composed with `AuthManager`.
