----------------------------- MODULE Lifecycle -----------------------------
(***************************************************************************)
(* The life of `rsc play': signal handlers, the mpv child and its socket,  *)
(* raw mode, and every way out (main.rs play and run; player/mpv.rs spawn, *)
(* connect, shutdown and Drop).  What is played is the subject of          *)
(* Playback; here a turn of the event loop sends commands to mpv, sends    *)
(* none, or is the last.                                                   *)
(***************************************************************************)
EXTENDS Naturals

CONSTANTS
  Buffer,        \* how many commands fit in the socket when mpv hangs
  Backlog        \* bound of the model: reports of mpv that nobody has taken
ASSUME LifecycleAssumption == Buffer \in Nat \ {0} /\ Backlog \in Nat

VARIABLES
  pc,            \* the statement that is next
  outcome,       \* how the program ends
  interactive,   \* stdin and stdout are terminals
  raw,           \* the terminal is in raw mode
  told,          \* the registered handlers have got a signal
  child,         \* mpv: starting, up (it listens), hung, ...
  socket,        \* the socket file exists
  unread,        \* commands that a hung mpv has not read
  reports,       \* events of mpv, in the socket and the channel
  late           \* CONNECT_TIMEOUT, later the 2 s of shutdown, are over
vars == <<pc, outcome, interactive, raw, told, child, socket, unread, reports, late>>

TypeOK ==
  /\ pc \in {"library", "register", "spawn", "connect", "retry", "observe",
             "enter", "start", "loop", "act", "send", "unpause", "quit", "wait", "remove", "exited"}
  /\ outcome \in {"none", "killed", "no player", "error", "ok", "panic"}
  /\ interactive \in BOOLEAN /\ raw \in BOOLEAN /\ told \in BOOLEAN
  /\ child \in {"none", "starting", "up", "hung", "dead"}
  /\ socket \in BOOLEAN /\ late \in BOOLEAN
  /\ unread \in 0 .. Buffer /\ reports \in 0 .. Backlog

Init ==
  /\ pc = "library" /\ outcome = "none"
  /\ interactive \in BOOLEAN /\ raw = FALSE /\ told = FALSE
  /\ child = "none" /\ socket = FALSE /\ unread = 0 /\ reports = 0 /\ late = FALSE

Alive == child \in {"starting", "up", "hung"}
Exited == pc = "exited"

-----------------------------------------------------------------------------
(* What the steps are made of.  Mutants, here and below, are bugs this     *)
(* code could have had.                                                    *)

Go(from, to) == pc = from /\ pc' = to /\ UNCHANGED <<outcome, interactive, told>>
End(how) == pc' = "exited" /\ outcome' = how /\ UNCHANGED <<interactive, told>>

(* Drop of a Child spawned with kill_on_drop. *)
DropChild == child' = IF child = "none" THEN "none" ELSE "dead"

(* Mutant: the socket is left to mpv. *)
DropPlayer_KeepsSocket == DropChild /\ UNCHANGED socket

(* Drop of MpvPlayer, then of its fields. *)
DropPlayer == socket' = FALSE /\ DropChild

(* `run' returns: RawMode is dropped, shutdown comes next. *)
Leave(how) ==
  /\ pc' = "quit" /\ outcome' = how /\ raw' = FALSE
  /\ UNCHANGED <<interactive, told, child, socket, unread, reports, late>>

(* Mutant: the socket takes any number of commands. *)
Write_Unbounded ==
  child \in {"up", "hung"} /\ unread' = IF child = "up" THEN unread ELSE unread + 1

(* MpvPlayer::send fails when mpv is gone.  It waits, and no action is     *)
(* enabled, while mpv hangs and the socket is full.                        *)
Broken == child = "dead"
Write ==
  \/ child = "up" /\ UNCHANGED unread
  \/ child = "hung" /\ unread < Buffer /\ unread' = unread + 1

-----------------------------------------------------------------------------
(* play, before there is a player.                                         *)

Mpv == <<child, socket, unread, reports>>

(* Finding the tracks, or not. *)
Library ==
  /\ pc = "library"
  /\ Go("library", "register") \/ End("no player")
  /\ UNCHANGED <<raw, Mpv, late>>

(* ShutdownSignals::new *)
Register ==
  /\ pc = "register"
  /\ Go("register", "spawn") \/ End("no player")
  /\ UNCHANGED <<raw, Mpv, late>>

Spawn ==
  /\ pc = "spawn"
  /\ \/ Go("spawn", "connect") /\ child' = "starting"
     \/ End("no player") /\ UNCHANGED child
  /\ UNCHANGED <<raw, socket, unread, reports, late>>

(* connect: the kernel accepts for whoever listens, hung or not. *)
Connect ==
  /\ IF socket /\ ~Broken THEN Go("connect", "observe") ELSE Go("connect", "retry")
  /\ UNCHANGED <<raw, Mpv, late>>

(* ... or mpv has exited, or time is up, or it is tried again. *)
Retry ==
  /\ pc = "retry"
  /\ \/ (Broken \/ late) /\ DropChild /\ End("no player")
     \/ ~Broken /\ ~late /\ Go("retry", "connect") /\ UNCHANGED child
  /\ UNCHANGED <<raw, socket, unread, reports, late>>

(* The observe_property commands. *)
Observe ==
  /\ pc = "observe"
  /\ \/ Write /\ Go("observe", "enter") /\ UNCHANGED <<child, socket>>
     \/ Broken /\ DropPlayer /\ End("error") /\ UNCHANGED unread
  /\ UNCHANGED <<raw, reports, late>>

-----------------------------------------------------------------------------
(* run.                                                                    *)

(* Raw mode, unless there is nothing to play or it fails. *)
Enter ==
  /\ pc = "enter"
  /\ \/ Leave("error")
     \/ Go("enter", "start") /\ raw' = interactive /\ UNCHANGED <<Mpv, late>>

(* session.start() has a track to load, or none can be played. *)
Start ==
  /\ pc = "start"
  /\ \/ Go("start", "send") /\ UNCHANGED <<raw, Mpv, late>>
     \/ Leave("error")

(* select! takes an event or a key. *)
EventTurn ==
  /\ reports > 0 /\ reports' = reports - 1
  /\ Go("loop", "act")
  /\ UNCHANGED <<raw, child, socket, unread, late>>

KeyTurn == interactive /\ Go("loop", "act") /\ UNCHANGED <<raw, Mpv, late>>

(* The session handles it.  A report of the position, of the duration, of  *)
(* a pause or of a track that was replaced, and [n] on the last track, send*)
(* nothing; at the end of the playlist it is over.                         *)
Act ==
  /\ pc = "act"
  /\ \/ Go("act", "loop") /\ UNCHANGED <<raw, Mpv, late>>
     \/ Go("act", "send") /\ UNCHANGED <<raw, Mpv, late>>
     \/ Leave("ok")

(* MpvPlayer::load and set_pause, or one of them: their error is the       *)
(* program's.                                                              *)
Send ==
  /\ pc \in {"send", "unpause"}
  /\ \/ /\ Write /\ UNCHANGED <<raw, child, socket, reports, late>>
        /\ Go(pc, "loop") \/ Go("send", "unpause")
     \/ Broken /\ Leave("error")

(* Mutant: the end of the channel is not an event. *)
Closed_Ignored == FALSE

(* The channel of events is closed, and everything in it taken. *)
Closed == pc = "loop" /\ Broken /\ reports = 0 /\ Leave("error")

Signalled == pc = "loop" /\ told /\ Leave("ok")

(* [q], or the terminal went away. *)
QuitKey == pc = "loop" /\ interactive /\ Leave("ok")

(* print! and eprintln! panic when nobody reads: every scope is dropped.   *)
Panic ==
  /\ pc \in {"enter", "start", "loop"}
  /\ raw' = FALSE
  /\ DropPlayer
  /\ End("panic")
  /\ UNCHANGED <<unread, reports, late>>

-----------------------------------------------------------------------------
(* MpvPlayer::shutdown                                                     *)

Quit ==
  /\ Write \/ (Broken /\ UNCHANGED unread)
  /\ Go("quit", "wait") /\ late' = FALSE
  /\ UNCHANGED <<raw, child, socket, reports>>

(* Mutant: no timeout. *)
Wait_Forever ==
  /\ Broken /\ UNCHANGED child
  /\ Go("wait", "remove")
  /\ UNCHANGED <<raw, socket, unread, reports, late>>

(* For mpv to exit, and no longer than 2 s. *)
Wait ==
  /\ \/ Broken /\ UNCHANGED child
     \/ late /\ child' = "dead"
  /\ Go("wait", "remove")
  /\ UNCHANGED <<raw, socket, unread, reports, late>>

(* The socket is removed, play returns. *)
Remove ==
  /\ Go("remove", "exited")
  /\ socket' = FALSE
  /\ UNCHANGED <<raw, child, unread, reports, late>>

Program ==
  \/ Library \/ Register \/ Spawn \/ Connect \/ Retry \/ Observe
  \/ Enter \/ Start \/ Act \/ Send \/ Closed \/ Signalled \/ Quit \/ Wait \/ Remove

-----------------------------------------------------------------------------
(* The outside.                                                            *)

(* Mutant: the handlers are registered by `run'. *)
Signal_Unhandled ==
  /\ ~Exited
  /\ IF pc \in {"library", "register", "spawn", "connect", "retry", "observe"}
     THEN End("killed")
     ELSE told' = TRUE /\ UNCHANGED <<pc, outcome, interactive>>
  /\ UNCHANGED <<raw, Mpv, late>>

(* SIGINT, SIGTERM or SIGHUP.  It kills a process without handlers. *)
Signal ==
  /\ ~Exited
  /\ IF pc \in {"library", "register"}
     THEN End("killed")
     ELSE told' = TRUE /\ UNCHANGED <<pc, outcome, interactive>>
  /\ UNCHANGED <<raw, Mpv, late>>

Timer ==
  /\ pc \in {"connect", "retry", "wait"} /\ ~late
  /\ late' = TRUE
  /\ UNCHANGED <<pc, outcome, interactive, raw, told, Mpv>>

Outside == ~Exited /\ UNCHANGED <<pc, outcome, interactive, raw, told, late>>

MpvListens ==
  /\ child = "starting"
  /\ child' = "up" /\ socket' = TRUE /\ UNCHANGED <<unread, reports>>
  /\ Outside

(* Asked to, or not; with or without its socket. *)
MpvExits ==
  /\ Alive
  /\ child' = "dead" /\ socket' \in {socket, FALSE} /\ UNCHANGED <<unread, reports>>
  /\ Outside

MpvHangs ==
  /\ child \in {"starting", "up"}
  /\ child' = "hung" /\ UNCHANGED <<socket, unread, reports>>
  /\ Outside

MpvResumes ==
  /\ child = "hung"
  /\ child' = (IF socket THEN "up" ELSE "starting") /\ unread' = 0
  /\ UNCHANGED <<socket, reports>>
  /\ Outside

(* The properties that are observed, and ends of tracks. *)
MpvReports ==
  /\ child = "up" /\ pc \in {"enter", "start", "loop", "act", "send", "unpause"}
  /\ reports < Backlog /\ reports' = reports + 1
  /\ UNCHANGED <<child, socket, unread>>
  /\ Outside

Next ==
  \/ Program \/ EventTurn \/ KeyTurn \/ QuitKey \/ Panic \/ Signal \/ Timer
  \/ MpvListens \/ MpvExits \/ MpvHangs \/ MpvResumes \/ MpvReports

Spec == Init /\ [][Next]_vars

(* The runtime goes on with what can go on, and select! picks at random    *)
(* among the branches that are ready: none that is ready again and again,  *)
(* between turns of the others, is passed over for good.                   *)
FairSpec ==
  /\ Spec /\ WF_vars(Program) /\ WF_vars(Timer)
  /\ SF_vars(Signalled) /\ SF_vars(Closed) /\ SF_vars(EventTurn)

-----------------------------------------------------------------------------
(* However the program ends, mpv is not left running, the terminal is as   *)
(* it was, and once there has been a player there is no socket.  (A mpv    *)
(* that was started but never became a player may leave its socket.)       *)
NothingLeft ==
  Exited => /\ ~Alive
            /\ ~raw
            /\ outcome # "no player" => ~socket

(* A signal kills the program only before there is an mpv to clean up.     *)
KilledEarly == outcome = "killed" => child = "none" /\ ~raw

(* Waiting on a hung mpv whose socket is full: nothing bounds it, not even *)
(* in shutdown, whose 2 s begin after the write.                           *)
Stuck == child = "hung" /\ unread = Buffer

(* A program that is told to stop does, whatever mpv does short of that.   *)
ToldEnds == []<>~Stuck => (told ~> Exited)

(* It also ends when mpv does, however many reports mpv has left and       *)
(* whatever keys are pressed meanwhile.                                    *)
DeathEnds == child = "dead" ~> Exited
=============================================================================
