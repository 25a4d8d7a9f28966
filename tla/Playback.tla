------------------------------ MODULE Playback ------------------------------
(***************************************************************************)
(* Playing a playlist: the event loop of rsc (main.rs, run), the Session   *)
(* and Queue it drives, and the wire to mpv (player/mpv.rs).               *)
(*                                                                         *)
(* rsc writes commands that mpv handles later; mpv writes events that a    *)
(* reader task moves, in order, to a bounded channel, from which the loop  *)
(* takes them one at a time, between key presses.  Every event is about    *)
(* the past: mpv or the user may have gone on since it was sent.           *)
(***************************************************************************)
EXTENDS Integers, Sequences, FiniteSets

CONSTANTS
  Playlist,    \* the access of each track: "playable", "preview" or "blocked"
  Unresolvable, \* positions in the queue whose stream_target may fail
  Keys,        \* keys that may be pressed: subset of "next", "previous", "pause", "quit"
  Capacity,    \* of the event channel (64)
  MaxLoads, MaxInFlight  \* bounds of the model: loads by key, messages under way

ASSUME PlaybackAssumption ==
  /\ Playlist \in Seq({"playable", "preview", "blocked"})
  /\ Keys \subseteq {"next", "previous", "pause", "quit"}
  /\ Capacity \in Nat \ {0}
  /\ MaxLoads \in Nat /\ MaxInFlight \in Nat

VARIABLES
  interactive,             \* stdin and stdout are terminals: there are keys
  cursor, paused, status,  \* the session; how the event loop is doing
  cmds,                    \* commands that mpv has not handled
  mpv,                     \* playing: number of the load it plays, 0 when idle
  wire, chan,              \* events: not read yet, in the channel
  loads,                   \* loads sent so far
  playing,                 \* history: the position that each load was for
  early                    \* history: the session advanced at the end of a track
                           \* it had already replaced

vars == <<interactive, cursor, paused, status, cmds, mpv, wire, chan, loads, playing, early>>
session == <<interactive, cursor, paused, status, loads, playing, early>>

(* Queue::new drops what is blocked; the rest has positions from 0 on. *)
Queue == {i \in DOMAIN Playlist : Playlist[i] # "blocked"}
Last0 == Cardinality(Queue) - 1
CanAdvance == cursor < Last0
Before == IF cursor = 0 THEN 0 ELSE cursor - 1

Event == [kind : {"end"}, reason : {"eof", "error", "stop"}, of : Nat]
         \cup [kind : {"pause"}, value : BOOLEAN]
         \cup [kind : {"position"}]
End(why, n) == [kind |-> "end", reason |-> why, of |-> n]
Pause(v) == [kind |-> "pause", value |-> v]
Position == [kind |-> "position"]

Command == [name : {"load"}, n : Nat] \cup [name : {"pause"}, value : BOOLEAN]
LoadFile(n) == [name |-> "load", n |-> n]
SetPause(v) == [name |-> "pause", value |-> v]

TypeOK ==
  /\ interactive \in BOOLEAN
  /\ cursor \in 0 .. Last0 + 1
  /\ paused \in BOOLEAN
  /\ status \in {"starting", "running", "finished", "quit", "failed"}
  /\ cmds \in Seq(Command)
  /\ mpv \in [playing : Nat, pause : BOOLEAN, alive : BOOLEAN]
  /\ wire \in Seq(Event) /\ chan \in Seq(Event)
  /\ Len(chan) <= Capacity
  /\ loads \in Nat
  /\ playing \in Seq(0 .. Last0)
  /\ early \in BOOLEAN

(* mpv has been started and its properties are observed, which yields      *)
(* their values once.                                                      *)
Init ==
  /\ interactive \in BOOLEAN
  /\ cursor = 0 /\ paused = FALSE /\ status = "starting"
  /\ cmds = << >>
  /\ mpv = [playing |-> 0, pause |-> FALSE, alive |-> TRUE]
  /\ wire = <<Pause(FALSE)>> /\ chan = << >>
  /\ loads = 0 /\ playing = << >>
  /\ early = FALSE

-----------------------------------------------------------------------------
(* Mutants of the commands sent: the load twice, the resume forgotten. *)
LoadCommands_Twice == <<LoadFile(loads + 1), LoadFile(loads + 1)>>
                        \o (IF paused THEN <<SetPause(FALSE)>> ELSE << >>)
LoadCommands_StayPaused == <<LoadFile(loads + 1)>>

(* A load, and since mpv keeps its pause property across files, a resume. *)
LoadCommands ==
  <<LoadFile(loads + 1)>> \o (IF paused THEN <<SetPause(FALSE)>> ELSE << >>)

(* Mutant: the queue stays behind at a track that does not resolve. *)
PlayFrom_CursorBehind(i) ==
  \E j \in i .. Last0 :
    /\ i .. j - 1 \subseteq Unresolvable
    /\ cursor' = i
    /\ status' = "running"
    /\ loads' = loads + 1
    /\ playing' = Append(playing, j)
    /\ cmds' = cmds \o LoadCommands
    /\ paused' = FALSE

(* play_current with the cursor at i: the first track that resolves is     *)
(* loaded, and playback unpaused; without one the playlist is over.  A     *)
(* command cannot be written to an mpv that is gone.                       *)
PlayFrom(i) ==
  \/ \E j \in i .. Last0 :
       /\ i .. j - 1 \subseteq Unresolvable
       /\ cursor' = j
       /\ IF mpv.alive
          THEN /\ status' = "running"
               /\ loads' = loads + 1
               /\ playing' = Append(playing, j)
               /\ cmds' = cmds \o LoadCommands
               /\ paused' = FALSE
          ELSE status' = "failed" /\ UNCHANGED <<loads, playing, cmds, paused>>
  \/ /\ i .. Last0 \subseteq Unresolvable
     /\ cursor' = IF i > Last0 THEN cursor ELSE Last0
     /\ status' = IF status = "starting" THEN "failed" ELSE "finished"
     /\ UNCHANGED <<paused, loads, playing, cmds>>

(* Mutant: the first track is taken for one that has been played. *)
Start_Advances ==
  /\ status = "starting"
  /\ PlayFrom(1)
  /\ UNCHANGED <<interactive, mpv, wire, chan, early>>

Start ==
  /\ status = "starting"
  /\ PlayFrom(0)
  /\ UNCHANGED <<interactive, mpv, wire, chan, early>>

Pressed(key) == status = "running" /\ interactive /\ key \in Keys

NextKey ==
  /\ Pressed("next") /\ loads < MaxLoads
  /\ IF CanAdvance
     THEN PlayFrom(cursor + 1)
     ELSE UNCHANGED <<cursor, paused, status, loads, playing, cmds>>
  /\ UNCHANGED <<interactive, mpv, wire, chan, early>>

PreviousKey ==
  /\ Pressed("previous") /\ loads < MaxLoads
  /\ PlayFrom(Before)
  /\ UNCHANGED <<interactive, mpv, wire, chan, early>>

TogglePause ==
  /\ Pressed("pause") /\ Len(cmds) < MaxInFlight
  /\ paused' = ~paused
  /\ IF mpv.alive
     THEN cmds' = Append(cmds, SetPause(paused')) /\ UNCHANGED status
     ELSE status' = "failed" /\ UNCHANGED cmds
  /\ UNCHANGED <<interactive, cursor, mpv, wire, chan, loads, playing, early>>

(* [q], a lost terminal, or a signal. *)
Quit ==
  /\ status = "running" /\ "quit" \in Keys
  /\ status' = "quit"
  /\ UNCHANGED <<interactive, cursor, paused, cmds, mpv, wire, chan, loads, playing, early>>

AdvanceAfterEnd ==
  IF CanAdvance
  THEN PlayFrom(cursor + 1)
  ELSE /\ status' = "finished"
       /\ UNCHANGED <<cursor, paused, loads, playing, cmds>>

(* handle_event: only tracks that ended by themselves lead to the next.    *)
HandleEvent ==
  /\ status = "running" /\ chan # << >>
  /\ chan' = Tail(chan)
  /\ LET e == Head(chan) IN
     \/ /\ e.kind = "end" /\ e.reason \in {"eof", "error"}
        /\ early' = (early \/ e.of # loads)
        /\ AdvanceAfterEnd
     \/ /\ e.kind = "end" /\ e.reason = "stop"
        /\ UNCHANGED <<session, cmds>>
     \/ /\ e.kind = "pause"
        /\ paused' = e.value
        /\ UNCHANGED <<cursor, status, loads, playing, early, cmds>>
     \/ /\ e.kind = "position"
        /\ UNCHANGED <<session, cmds>>
  /\ UNCHANGED <<interactive, mpv, wire>>

(* The channel is closed: "mpv exited unexpectedly". *)
Closed ==
  /\ status = "running" /\ ~mpv.alive /\ wire = << >> /\ chan = << >>
  /\ status' = "failed"
  /\ UNCHANGED <<interactive, cursor, paused, cmds, mpv, wire, chan, loads, playing, early>>

(* Mutants: an unbounded channel; every event is disposable. *)
Read_Unbounded ==
  /\ wire # << >>
  /\ wire' = Tail(wire) /\ chan' = Append(chan, Head(wire))
  /\ UNCHANGED <<session, cmds, mpv>>

Read_DropsAnything ==
  /\ wire # << >>
  /\ wire' = Tail(wire)
  /\ chan' = IF Len(chan) < Capacity THEN Append(chan, Head(wire)) ELSE chan
  /\ UNCHANGED <<session, cmds, mpv>>

(* read_events: progress ticks are dropped when the channel is full,       *)
(* everything else waits for room.                                         *)
Read ==
  /\ wire # << >>
  /\ wire' = Tail(wire)
  /\ \/ Len(chan) < Capacity /\ chan' = Append(chan, Head(wire))
     \/ Len(chan) = Capacity /\ Head(wire) = Position /\ UNCHANGED chan
  /\ UNCHANGED <<session, cmds, mpv>>

-----------------------------------------------------------------------------
(* mpv, as rsc uses it: an external program.                               *)

Emit(events) == wire' = wire \o events
Room == mpv.alive /\ Len(wire) < MaxInFlight

(* loadfile replaces what is playing; the pause property stays. *)
MpvLoads ==
  /\ Room /\ cmds # << >> /\ Head(cmds).name = "load"
  /\ mpv' = [mpv EXCEPT !.playing = Head(cmds).n]
  /\ Emit(IF mpv.playing # 0 THEN <<End("stop", mpv.playing)>> ELSE << >>)
  /\ cmds' = Tail(cmds)
  /\ UNCHANGED <<session, chan>>

(* A property that does not change is not reported. *)
MpvPauses ==
  /\ Room /\ cmds # << >> /\ Head(cmds).name = "pause"
  /\ mpv' = [mpv EXCEPT !.pause = Head(cmds).value]
  /\ Emit(IF mpv.pause # mpv'.pause THEN <<Pause(mpv'.pause)>> ELSE << >>)
  /\ cmds' = Tail(cmds)
  /\ UNCHANGED <<session, chan>>

(* A track ends or cannot be played: mpv is idle. *)
MpvEnds ==
  /\ Room /\ mpv.playing # 0
  /\ \/ ~mpv.pause /\ Emit(<<End("eof", mpv.playing)>>)
     \/ Emit(<<End("error", mpv.playing)>>)
  /\ mpv' = [mpv EXCEPT !.playing = 0]
  /\ UNCHANGED <<session, cmds, chan>>

(* Ticks leave room for one event that matters. *)
MpvTicks ==
  /\ mpv.alive /\ Len(wire) + 1 < MaxInFlight
  /\ mpv.playing # 0 /\ ~mpv.pause
  /\ Emit(<<Position>>)
  /\ UNCHANGED <<session, cmds, mpv, chan>>

MpvExits ==
  /\ mpv.alive
  /\ mpv' = [mpv EXCEPT !.alive = FALSE, !.playing = 0]
  /\ UNCHANGED <<session, cmds, wire, chan>>

Loop == Start \/ HandleEvent \/ Closed
Mpv == MpvLoads \/ MpvPauses \/ MpvEnds

Next == Loop \/ NextKey \/ PreviousKey \/ TogglePause \/ Quit \/ Read
        \/ Mpv \/ MpvTicks \/ MpvExits

Spec == Init /\ [][Next]_vars

(* The two tasks run, mpv does what it is told, and a track that is not    *)
(* paused comes to its end.                                                *)
FairSpec ==
  Spec /\ WF_vars(Loop) /\ WF_vars(Read)
       /\ WF_vars(MpvLoads) /\ WF_vars(MpvPauses) /\ WF_vars(MpvEnds)

-----------------------------------------------------------------------------
Events == chan \o wire       \* what the loop will hear of, in order
IsPause(i) == i \in DOMAIN Events /\ Events[i].kind = "pause"

(* The session's idea of `paused' and mpv's property come together again,  *)
(* however key presses, resets on a track change and late events           *)
(* interleave: the last report under way is right, and without one only a  *)
(* command under way can still make a difference.                          *)
PauseConverges ==
  mpv.alive =>
    /\ \A i \in DOMAIN Events :
         IsPause(i) /\ (\A j \in i + 1 .. Len(Events) : ~IsPause(j)) =>
           Events[i].value = mpv.pause
    /\ (\A i \in DOMAIN Events : ~IsPause(i))
         /\ (\A i \in DOMAIN cmds : cmds[i].name = "pause" => cmds[i].value = mpv.pause) =>
           paused = mpv.pause

(* What mpv plays, once it has caught up, is the track under the cursor. *)
PlaysTheCursor ==
  status = "running" /\ cmds = << >> /\ mpv.playing # 0 =>
    mpv.playing = loads /\ playing[mpv.playing] = cursor

(* The session moves on only when the current track has ended. *)
NoEarlySkip == ~early

(* Left alone: when the playlist is finished nothing is playing any more.  *)
NothingCutOff ==
  ~interactive /\ status = "finished" => mpv.playing = 0 /\ cmds = << >>

(* The position that was loaded before the n-th load. *)
Prior(n) == IF n = 1 THEN -1 ELSE playing[n - 1]

(* Without the user's skipping every track is tried, once, in order: the   *)
(* first load, each next one and the end of the playlist leave out nothing *)
(* but tracks that do not resolve.                                         *)
InOrder ==
  ~interactive =>
    /\ \A n \in DOMAIN playing :
         /\ Prior(n) < playing[n]
         /\ Prior(n) + 1 .. playing[n] - 1 \subseteq Unresolvable
    /\ status = "finished" => Prior(Len(playing) + 1) + 1 .. Last0 \subseteq Unresolvable

(* Left alone, the program plays to the end and stops. *)
PlaysToTheEnd == ~interactive => <>(status \in {"finished", "failed", "quit"})
=============================================================================
