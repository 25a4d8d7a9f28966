--------------------------- MODULE PlaybackProofs ---------------------------
(***************************************************************************)
(* What mpv plays is what the session shows, and the pause flags agree,    *)
(* for any playlist, any keys and any capacity of the channel; and without *)
(* keys the playlist is played in order: the invariants of Playback.       *)
(***************************************************************************)
EXTENDS Playback, FiniteSetTheorems, TLAPS

(* The last load under way is the latest, and for the track under the      *)
(* cursor; without one mpv plays that track or nothing.                    *)
IsLoad(i) == i \in DOMAIN cmds /\ cmds[i].name = "load"
LastLoad ==
  /\ \A i \in DOMAIN cmds :
       IsLoad(i) /\ (\A j \in i + 1 .. Len(cmds) : ~IsLoad(j)) => cmds[i].n = loads
  /\ (\A i \in DOMAIN cmds : ~IsLoad(i)) => mpv.playing \in {0, loads}
Loaded ==
  /\ Len(playing) = loads
  /\ status = "running" => loads > 0 /\ playing[loads] = cursor
  /\ status = "starting" => loads = 0 /\ cmds = << >> /\ mpv.playing = 0

(* Left alone, the track that is due is in one place: on its way to mpv,   *)
(* being played, or on its way back as an end.                             *)
IsEnd(i) == i \in DOMAIN Events /\ Events[i].kind = "end"
OneAtATime ==
  ~interactive =>
    /\ paused = FALSE
    /\ \A i \in DOMAIN Events : IsPause(i) => Events[i].value = FALSE
    /\ cmds # << >> => Len(cmds) = 1 /\ IsLoad(1) /\ mpv.playing = 0
    /\ cmds # << >> \/ mpv.playing # 0 \/ status = "starting" =>
         \A i \in DOMAIN Events : ~IsEnd(i)
    /\ \A i, j \in DOMAIN Events : IsEnd(i) /\ IsEnd(j) => i = j
    /\ status = "finished" => cmds = << >> /\ mpv.playing = 0

IInv == TypeOK /\ LastLoad /\ Loaded /\ PauseConverges /\ OneAtATime /\ InOrder

-----------------------------------------------------------------------------
(* Sequences.                                                              *)

LEMMA TailOf ==
  ASSUME NEW S, NEW s \in Seq(S), s # << >>
  PROVE  /\ Tail(s) \in Seq(S) /\ Len(Tail(s)) = Len(s) - 1
         /\ Head(s) = s[1] /\ 1 \in DOMAIN s /\ s[1] \in S
         /\ \A i \in 1 .. Len(s) - 1 : i + 1 \in DOMAIN s /\ Tail(s)[i] = s[i + 1]
OBVIOUS

LEMMA ConcatOf ==
  ASSUME NEW S, NEW s \in Seq(S), NEW t \in Seq(S)
  PROVE  /\ s \o t \in Seq(S) /\ Len(s \o t) = Len(s) + Len(t)
         /\ \A i \in 1 .. Len(s) : (s \o t)[i] = s[i]
         /\ \A i \in 1 .. Len(t) : (s \o t)[Len(s) + i] = t[i]
OBVIOUS

LEMMA AppendOf ==
  ASSUME NEW S, NEW s \in Seq(S), NEW e \in S
  PROVE  /\ Append(s, e) \in Seq(S) /\ Len(Append(s, e)) = Len(s) + 1
         /\ \A i \in 1 .. Len(s) : Append(s, e)[i] = s[i]
         /\ Append(s, e)[Len(s) + 1] = e
OBVIOUS

LEMMA DomainOf ==
  ASSUME NEW S, NEW s \in Seq(S)
  PROVE  DOMAIN s = 1 .. Len(s) /\ Len(s) \in Nat /\ (s = << >> <=> Len(s) = 0)
OBVIOUS

LEMMA OneOrNone ==
  ASSUME NEW S, NEW e \in S
  PROVE  /\ <<e>> \in Seq(S) /\ Len(<<e>>) = 1 /\ <<e>>[1] = e
         /\ << >> \in Seq(S) /\ Len(<< >>) = 0
OBVIOUS

-----------------------------------------------------------------------------
LEMMA LastPosition == Last0 \in Int /\ Last0 >= -1
<1>1. IsFiniteSet(1 .. Len(Playlist))
  BY FS_Interval, PlaybackAssumption
<1>2. Queue \subseteq 1 .. Len(Playlist)
  BY PlaybackAssumption DEF Queue
<1>3. IsFiniteSet(Queue)
  BY <1>1, <1>2, FS_Subset
<1>4. Cardinality(Queue) \in Nat
  BY <1>3, FS_CardinalityType
<1> QED BY <1>4 DEF Last0

(* The types by themselves.                                                *)
LEMMA Types ==
  ASSUME TypeOK
  PROVE  /\ cmds \in Seq(Command) /\ wire \in Seq(Event) /\ chan \in Seq(Event)
         /\ playing \in Seq(0 .. Last0)
         /\ cursor \in 0 .. Last0 + 1 /\ cursor \in Nat /\ loads \in Nat
         /\ mpv.playing \in Nat /\ mpv.pause \in BOOLEAN
         /\ mpv.alive \in BOOLEAN /\ paused \in BOOLEAN
<1>1. /\ cmds \in Seq(Command) /\ wire \in Seq(Event) /\ chan \in Seq(Event)
      /\ playing \in Seq(0 .. Last0)
      /\ cursor \in 0 .. Last0 + 1 /\ loads \in Nat
      /\ mpv.playing \in Nat /\ mpv.pause \in BOOLEAN
      /\ mpv.alive \in BOOLEAN /\ paused \in BOOLEAN
  BY DEF TypeOK
<1> QED BY <1>1, LastPosition

LEMMA EventTypes ==
  /\ Pause(FALSE) \in Event /\ Pause(TRUE) \in Event /\ Position \in Event
  /\ \A n \in Nat : End("stop", n) \in Event /\ End("eof", n) \in Event
                    /\ End("error", n) \in Event
BY DEF Event, Pause, Position, End

LEMMA EventsOf ==
  ASSUME TypeOK
  PROVE  /\ Events \in Seq(Event) /\ Len(Events) = Len(chan) + Len(wire)
         /\ DOMAIN Events = 1 .. Len(Events) /\ Len(Events) \in Nat
         /\ Len(chan) \in Nat /\ Len(wire) \in Nat
         /\ \A i \in 1 .. Len(chan) : Events[i] = chan[i]
         /\ \A i \in 1 .. Len(wire) : Events[Len(chan) + i] = wire[i]
BY Types, ConcatOf, DomainOf DEF Events

LEMMA NextEventsOf ==
  ASSUME chan' \in Seq(Event), wire' \in Seq(Event)
  PROVE  /\ Len(Events') = Len(chan') + Len(wire')
         /\ DOMAIN Events' = 1 .. Len(Events') /\ Len(Events') \in Nat
         /\ \A i \in 1 .. Len(chan') : Events'[i] = chan'[i]
         /\ \A i \in 1 .. Len(wire') : Events'[Len(chan') + i] = wire'[i]
BY ConcatOf, DomainOf DEF Events

(* What happens to the events under way: nothing, one more, one less.      *)
Same ==
  Len(Events') = Len(Events) /\ \A i \in 1 .. Len(Events) : Events'[i] = Events[i]
More(e) ==
  /\ Len(Events') = Len(Events) + 1 /\ Events'[Len(Events) + 1] = e
  /\ \A i \in 1 .. Len(Events) : Events'[i] = Events[i]
Less(k) ==
  /\ Len(Events') = Len(Events) - 1 /\ k \in 1 .. Len(Events)
  /\ \A i \in 1 .. Len(Events) - 1 :
       Events'[i] = IF i < k THEN Events[i] ELSE Events[i + 1]

LEMMA SameDoes == ASSUME TypeOK, UNCHANGED <<chan, wire>> PROVE Same
<1>1. Events' = Events
  BY DEF Events
<1> QED BY <1>1 DEF Same

LEMMA EmitDoes ==
  ASSUME TypeOK, UNCHANGED chan, NEW e \in Event
  PROVE  /\ Emit(<<e>>) => More(e) /\ wire' \in Seq(Event)
         /\ Emit(<< >>) => Same /\ wire' \in Seq(Event)
<1>1. ASSUME Emit(<<e>>) PROVE More(e) /\ wire' \in Seq(Event)
  <2>1. /\ wire' \in Seq(Event) /\ Len(wire') = Len(wire) + 1 /\ wire'[Len(wire) + 1] = e
        /\ \A i \in 1 .. Len(wire) : wire'[i] = wire[i]
    BY <1>1, Types, ConcatOf, OneOrNone, DomainOf DEF Emit
  <2>2. Len(Events') = Len(Events) + 1 /\ Events'[Len(Events) + 1] = e
    <3> DEFINE k == Len(wire) + 1
    <3>1. /\ Len(Events) + 1 = Len(chan) + k /\ k \in 1 .. Len(wire') /\ Len(wire') = k
          /\ wire'[k] = e
      BY <2>1, EventsOf
    <3>2. Len(Events') = Len(chan) + k
      BY <2>1, <3>1, NextEventsOf, Types
    <3> HIDE DEF k
    <3>3. Events'[Len(chan) + k] = wire'[k]
      BY <2>1, <3>1, NextEventsOf, Types
    <3> QED BY <3>1, <3>2, <3>3
  <2>3. ASSUME NEW i \in 1 .. Len(Events) PROVE Events'[i] = Events[i]
    <3>1. CASE i \in 1 .. Len(chan)
      BY <3>1, <2>1, EventsOf, NextEventsOf, Types
    <3>2. CASE i \notin 1 .. Len(chan)
      <4> DEFINE k == i - Len(chan)
      <4>1. k \in 1 .. Len(wire) /\ k \in 1 .. Len(wire') /\ i = Len(chan) + k
        BY <3>2, <2>1, EventsOf
      <4> HIDE DEF k
      <4> QED BY <4>1, <2>1, EventsOf, NextEventsOf, Types
    <3> QED BY <3>1, <3>2
  <2> QED BY <2>1, <2>2, <2>3 DEF More
<1>2. ASSUME Emit(<< >>) PROVE Same /\ wire' \in Seq(Event)
  <2>1. wire' = wire
    BY <1>2, Types DEF Emit
  <2> QED BY <2>1, SameDoes, Types
<1> QED BY <1>1, <1>2

LEMMA PopDoes ==
  ASSUME TypeOK, chan # << >>, chan' = Tail(chan), UNCHANGED wire
  PROVE  /\ Less(1) /\ Head(chan) = Events[1] /\ Head(chan) \in Event
         /\ chan' \in Seq(Event)
<1>1. /\ chan' \in Seq(Event) /\ Len(chan') = Len(chan) - 1 /\ 1 \in 1 .. Len(chan)
      /\ Head(chan) = chan[1] /\ chan[1] \in Event
      /\ \A i \in 1 .. Len(chan) - 1 : chan'[i] = chan[i + 1]
  BY Types, TailOf, DomainOf
<1>2. Len(Events') = Len(Events) - 1 /\ 1 \in 1 .. Len(Events) /\ Head(chan) = Events[1]
  BY <1>1, EventsOf, NextEventsOf, Types
<1>3. ASSUME NEW i \in 1 .. Len(Events) - 1 PROVE Events'[i] = Events[i + 1]
  <2>1. CASE i \in 1 .. Len(chan) - 1
    BY <2>1, <1>1, EventsOf, NextEventsOf, Types
  <2>2. CASE i \notin 1 .. Len(chan) - 1
    <3> DEFINE k == i - Len(chan) + 1
    <3>1. k \in 1 .. Len(wire) /\ i + 1 = Len(chan) + k /\ i = Len(chan') + k
      BY <2>2, <1>1, EventsOf
    <3> HIDE DEF k
    <3> QED BY <3>1, <1>1, EventsOf, NextEventsOf, Types
  <2> QED BY <2>1, <2>2
<1> QED BY <1>1, <1>2, <1>3, EventsOf DEF Less

LEMMA ReadDoes ==
  ASSUME TypeOK, Read
  PROVE  /\ chan' \in Seq(Event) /\ wire' \in Seq(Event) /\ Len(chan') <= Capacity
         /\ Same \/ \E k \in 1 .. Len(Events) : Less(k) /\ Events[k] = Position
<1>1. /\ wire' \in Seq(Event) /\ Len(wire') = Len(wire) - 1 /\ 1 \in 1 .. Len(wire)
      /\ Head(wire) = wire[1] /\ wire[1] \in Event
      /\ \A i \in 1 .. Len(wire) - 1 : wire'[i] = wire[i + 1]
  BY Types, TailOf, DomainOf DEF Read
<1>2. CASE Len(chan) < Capacity /\ chan' = Append(chan, Head(wire))
  <2>1. /\ chan' \in Seq(Event) /\ Len(chan') = Len(chan) + 1 /\ chan'[Len(chan) + 1] = wire[1]
        /\ \A i \in 1 .. Len(chan) : chan'[i] = chan[i]
    BY <1>1, <1>2, Types, AppendOf
  <2>2. Len(Events') = Len(Events) /\ Len(chan') <= Capacity
    BY <1>1, <1>2, <2>1, EventsOf, NextEventsOf, PlaybackAssumption
  <2>3. ASSUME NEW i \in 1 .. Len(Events) PROVE Events'[i] = Events[i]
    <3>1. CASE i \in 1 .. Len(chan)
      BY <3>1, <1>1, <2>1, EventsOf, NextEventsOf
    <3>2. CASE i = Len(chan) + 1
      BY <3>2, <1>1, <2>1, EventsOf, NextEventsOf
    <3>3. CASE i \notin 1 .. Len(chan) + 1
      <4> DEFINE k == i - Len(chan) - 1
      <4>1. /\ k \in 1 .. Len(wire) - 1 /\ k + 1 \in 1 .. Len(wire)
            /\ k \in 1 .. Len(wire')
            /\ i = Len(chan) + (k + 1) /\ i = Len(chan') + k
        BY <3>3, <1>1, <2>1, EventsOf
      <4> HIDE DEF k
      <4>2. Events'[i] = wire'[k]
        BY <4>1, <1>1, <2>1, NextEventsOf
      <4>3. Events[i] = wire[k + 1]
        BY <4>1, EventsOf
      <4> QED BY <4>1, <4>2, <4>3, <1>1
    <3> QED BY <3>1, <3>2, <3>3, EventsOf
  <2> QED BY <1>1, <2>1, <2>2, <2>3 DEF Same
<1>3. CASE Len(chan) = Capacity /\ Head(wire) = Position /\ UNCHANGED chan
  <2> DEFINE k == Len(chan) + 1
  <2>1. k \in 1 .. Len(Events) /\ Events[k] = Position /\ Len(Events') = Len(Events) - 1
    <3>1. /\ Len(Events) = Len(chan) + Len(wire) /\ Len(chan) \in Nat
          /\ Events[Len(chan) + 1] = wire[1]
      BY <1>1, EventsOf
    <3>2. Len(Events') = Len(chan') + Len(wire') /\ Len(chan') = Len(chan)
      BY <1>1, <1>3, NextEventsOf, Types
    <3> QED BY <1>1, <1>3, <3>1, <3>2
  <2>2. ASSUME NEW i \in 1 .. Len(Events) - 1
        PROVE  Events'[i] = IF i < k THEN Events[i] ELSE Events[i + 1]
    <3>1. CASE i < k
      <4>1. i \in 1 .. Len(chan) /\ chan' = chan
        BY <3>1, <1>3, EventsOf
      <4>2. Events'[i] = chan[i]
        BY <4>1, <1>1, NextEventsOf, Types
      <4> QED BY <3>1, <4>1, <4>2, EventsOf
    <3>2. CASE ~(i < k)
      <4> DEFINE n == i - Len(chan)
      <4>1. /\ n \in 1 .. Len(wire) - 1 /\ n + 1 \in 1 .. Len(wire) /\ n \in 1 .. Len(wire')
            /\ i = Len(chan) + n /\ i + 1 = Len(chan) + (n + 1)
        BY <3>2, <1>1, EventsOf
      <4> HIDE DEF n
      <4>2. Events'[i] = wire'[n]
        BY <4>1, <1>1, <1>3, NextEventsOf, Types
      <4>3. Events[i + 1] = wire[n + 1]
        BY <4>1, EventsOf
      <4> QED BY <3>2, <4>1, <4>2, <4>3, <1>1
    <3> QED BY <3>1, <3>2
  <2>3. Less(k)
    BY <2>1, <2>2 DEF Less
  <2> HIDE DEF k
  <2> QED BY <1>1, <1>3, <2>1, <2>3, Types, PlaybackAssumption
<1> QED BY <1>2, <1>3 DEF Read

(* play_current loads a track, or there is none and the loop ends.         *)
Loads(j) ==
  /\ mpv.alive
  /\ cursor' = j /\ status' = "running"
  /\ loads' = loads + 1 /\ playing' = Append(playing, j)
  /\ cmds' = cmds \o LoadCommands /\ paused' = FALSE
Stops ==
  /\ status' \in {"finished", "failed"}
  /\ UNCHANGED <<loads, playing, cmds, paused>>

LEMMA PlayFromDoes ==
  ASSUME TypeOK, NEW i \in Nat, PlayFrom(i)
  PROVE  \/ \E j \in i .. Last0 : i .. j - 1 \subseteq Unresolvable /\ Loads(j)
         \/ Stops /\ cursor' \in 0 .. Last0 + 1 /\ (status' = "finished" =>
              status # "starting" /\ i .. Last0 \subseteq Unresolvable)
<1>1. CASE \E j \in i .. Last0 :
             /\ i .. j - 1 \subseteq Unresolvable
             /\ cursor' = j
             /\ IF mpv.alive
                THEN /\ status' = "running"
                     /\ loads' = loads + 1
                     /\ playing' = Append(playing, j)
                     /\ cmds' = cmds \o LoadCommands
                     /\ paused' = FALSE
                ELSE status' = "failed" /\ UNCHANGED <<loads, playing, cmds, paused>>
  <2>1. PICK j \in i .. Last0 :
             /\ i .. j - 1 \subseteq Unresolvable
             /\ cursor' = j
             /\ IF mpv.alive
                THEN /\ status' = "running"
                     /\ loads' = loads + 1
                     /\ playing' = Append(playing, j)
                     /\ cmds' = cmds \o LoadCommands
                     /\ paused' = FALSE
                ELSE status' = "failed" /\ UNCHANGED <<loads, playing, cmds, paused>>
    BY <1>1
  <2>2. CASE mpv.alive
    BY <2>1, <2>2 DEF Loads
  <2>3. CASE ~mpv.alive
    <3>1. cursor' \in 0 .. Last0 + 1
      BY <2>1, LastPosition
    <3> QED BY <2>1, <2>3, <3>1 DEF Stops
  <2> QED BY <2>2, <2>3
<1>2. CASE /\ i .. Last0 \subseteq Unresolvable
           /\ cursor' = IF i > Last0 THEN cursor ELSE Last0
           /\ status' = IF status = "starting" THEN "failed" ELSE "finished"
           /\ UNCHANGED <<paused, loads, playing, cmds>>
  <2>1. cursor' \in 0 .. Last0 + 1
    BY <1>2, LastPosition, Types
  <2> QED BY <1>2, <2>1 DEF Stops
<1> QED BY <1>1, <1>2 DEF PlayFrom

LEMMA CommandTypes ==
  /\ \A n \in Nat : LoadFile(n) \in Command
  /\ \A v \in BOOLEAN : SetPause(v) \in Command
  /\ SetPause(FALSE) \in Command
BY DEF Command, LoadFile, SetPause

(* The commands of a load come last.                                       *)
LEMMA LoadsDoes ==
  ASSUME TypeOK, cmds' = cmds \o LoadCommands
  PROVE  /\ cmds' \in Seq(Command) /\ Len(cmds) \in Nat /\ Len(cmds') \in Nat
         /\ DOMAIN cmds' = 1 .. Len(cmds') /\ DOMAIN cmds = 1 .. Len(cmds)
         /\ \A i \in 1 .. Len(cmds) : cmds'[i] = cmds[i]
         /\ cmds'[Len(cmds) + 1] = LoadFile(loads + 1)
         /\ paused = FALSE => Len(cmds') = Len(cmds) + 1
         /\ paused = TRUE => /\ Len(cmds') = Len(cmds) + 2
                             /\ cmds'[Len(cmds) + 2] = SetPause(FALSE)
<1> DEFINE load == LoadFile(loads + 1)
<1>1. load \in Command /\ SetPause(FALSE) \in Command
  <2>1. loads + 1 \in Nat
    BY Types
  <2> QED BY <2>1, CommandTypes, Zenon
<1>2. CASE paused = FALSE
  <2>1. cmds' = cmds \o <<load>>
    <3>1. LoadCommands = <<load>> \o << >>
      BY <1>2 DEF LoadCommands
    <3> QED BY <3>1, <1>1
  <2> HIDE DEF load
  <2>2. /\ cmds' \in Seq(Command) /\ Len(cmds') = Len(cmds) + 1 /\ cmds'[Len(cmds) + 1] = load
        /\ \A i \in 1 .. Len(cmds) : cmds'[i] = cmds[i]
    BY <2>1, <1>1, Types, ConcatOf, OneOrNone, DomainOf
  <2> QED BY <1>2, <2>2, Types, DomainOf DEF load
<1>3. CASE paused = TRUE
  <2> DEFINE resume == SetPause(FALSE)
             both == <<load>> \o <<resume>>
  <2>1. cmds' = cmds \o both
    BY <1>3 DEF LoadCommands
  <2> HIDE DEF load, resume
  <2>2. both \in Seq(Command) /\ Len(both) = 2 /\ both[1] = load /\ both[2] = resume
    <3>1. <<load>> \in Seq(Command) /\ Len(<<load>>) = 1 /\ <<load>>[1] = load
      BY <1>1, OneOrNone
    <3>2. <<resume>> \in Seq(Command) /\ Len(<<resume>>) = 1 /\ <<resume>>[1] = resume
      BY <1>1, OneOrNone DEF resume
    <3> QED BY <3>1, <3>2, ConcatOf
  <2> HIDE DEF both
  <2>3. /\ cmds' \in Seq(Command) /\ Len(cmds') = Len(cmds) + 2
        /\ cmds'[Len(cmds) + 1] = load /\ cmds'[Len(cmds) + 2] = resume
        /\ \A i \in 1 .. Len(cmds) : cmds'[i] = cmds[i]
    <3>1. 1 \in 1 .. Len(both) /\ 2 \in 1 .. Len(both) /\ cmds \in Seq(Command)
      BY <2>2, Types
    <3>2. /\ cmds' \in Seq(Command) /\ Len(cmds') = Len(cmds) + Len(both)
          /\ \A i \in 1 .. Len(cmds) : cmds'[i] = cmds[i]
          /\ \A i \in 1 .. Len(both) : cmds'[Len(cmds) + i] = both[i]
      <4>1. /\ cmds \o both \in Seq(Command) /\ Len(cmds \o both) = Len(cmds) + Len(both)
            /\ \A i \in 1 .. Len(cmds) : (cmds \o both)[i] = cmds[i]
            /\ \A i \in 1 .. Len(both) : (cmds \o both)[Len(cmds) + i] = both[i]
        <5>1. cmds \in Seq(Command) /\ both \in Seq(Command)
          BY <2>2, <3>1
        <5> QED BY ONLY <5>1, ConcatOf
      <4> QED BY <2>1, <4>1
    <3> QED BY <2>2, <3>1, <3>2
  <2> QED BY <1>3, <2>3, Types, DomainOf DEF load, resume
<1> QED BY <1>2, <1>3, Types

LEMMA PlayFromType ==
  ASSUME TypeOK, NEW i \in Nat, PlayFrom(i)
  PROVE  /\ cursor' \in 0 .. Last0 + 1 /\ paused' \in BOOLEAN
         /\ status' \in {"starting", "running", "finished", "quit", "failed"}
         /\ cmds' \in Seq(Command) /\ loads' \in Nat /\ playing' \in Seq(0 .. Last0)
<1>1. ASSUME NEW j \in i .. Last0, Loads(j)
      PROVE  /\ cursor' \in 0 .. Last0 + 1 /\ paused' \in BOOLEAN
             /\ status' = "running"
             /\ cmds' \in Seq(Command) /\ loads' \in Nat /\ playing' \in Seq(0 .. Last0)
  <2>1. j \in 0 .. Last0 /\ j \in 0 .. Last0 + 1 /\ loads + 1 \in Nat
    BY LastPosition, Types
  <2>2. cmds' \in Seq(Command)
    BY <1>1, LoadsDoes DEF Loads
  <2>3. playing' \in Seq(0 .. Last0)
    BY <1>1, <2>1, Types, AppendOf DEF Loads
  <2> QED BY <1>1, <2>1, <2>2, <2>3 DEF Loads
<1>2. ASSUME Stops, cursor' \in 0 .. Last0 + 1
      PROVE  /\ cursor' \in 0 .. Last0 + 1 /\ paused' \in BOOLEAN
             /\ status' \in {"finished", "failed"}
             /\ cmds' \in Seq(Command) /\ loads' \in Nat /\ playing' \in Seq(0 .. Last0)
  BY <1>2, Types DEF Stops
<1> QED BY <1>1, <1>2, PlayFromDoes

LEMMA StepType ==
  ASSUME TypeOK, Next
  PROVE  TypeOK'
<1>1. CASE Start
  BY <1>1, PlayFromType DEF Start, TypeOK
<1>2. CASE NextKey
  <2>1. CASE CanAdvance
    BY <1>2, <2>1, PlayFromType, Types DEF NextKey, TypeOK
  <2>2. CASE ~CanAdvance
    BY <1>2, <2>2 DEF NextKey, TypeOK
  <2> QED BY <2>1, <2>2
<1>3. CASE PreviousKey
  <2>1. Before \in Nat
    BY Types DEF Before
  <2> QED BY <1>3, <2>1, PlayFromType DEF PreviousKey, TypeOK
<1>4. CASE TogglePause
  <2>1. paused' \in BOOLEAN /\ status' \in {status, "failed"}
    BY <1>4 DEF TogglePause
  <2>2. cmds' \in Seq(Command)
    <3>1. SetPause(paused') \in Command
      BY <2>1, CommandTypes, Zenon
    <3>2. cmds' = Append(cmds, SetPause(paused')) \/ cmds' = cmds
      BY <1>4 DEF TogglePause
    <3>3. Append(cmds, SetPause(paused')) \in Seq(Command)
      BY <3>1, Types, AppendOf, Zenon
    <3> QED BY <3>2, <3>3, Types
  <2> QED BY <1>4, <2>1, <2>2 DEF TogglePause, TypeOK
<1>5. CASE Quit
  BY <1>5 DEF Quit, TypeOK
<1>6. CASE HandleEvent
  <2>1. chan' \in Seq(Event) /\ Len(chan') <= Capacity
    <3>1. Len(chan') = Len(chan) - 1 /\ Len(chan) \in Nat /\ Len(chan) <= Capacity
      BY <1>6, Types, TailOf, DomainOf DEF HandleEvent, TypeOK
    <3> QED BY <1>6, <3>1, PopDoes, PlaybackAssumption DEF HandleEvent
  <2>2. UNCHANGED <<interactive, mpv, wire>>
    BY <1>6 DEF HandleEvent
  <2>3. CASE /\ Head(chan).kind = "end" /\ Head(chan).reason \in {"eof", "error"}
             /\ early' = (early \/ Head(chan).of # loads)
             /\ AdvanceAfterEnd
    <3>1. early' \in BOOLEAN
      BY <2>3
    <3>2. CASE CanAdvance
      BY <2>1, <2>2, <2>3, <3>1, <3>2, PlayFromType, Types DEF AdvanceAfterEnd, TypeOK
    <3>3. CASE ~CanAdvance
      BY <2>1, <2>2, <2>3, <3>1, <3>3 DEF AdvanceAfterEnd, TypeOK
    <3> QED BY <3>2, <3>3
  <2>4. CASE UNCHANGED <<session, cmds>>
    BY <2>1, <2>2, <2>4 DEF session, TypeOK
  <2>5. CASE /\ Head(chan).kind = "pause" /\ paused' = Head(chan).value
             /\ UNCHANGED <<cursor, status, loads, playing, early, cmds>>
    <3>1. paused' \in BOOLEAN
      BY <1>6, <2>5, PopDoes DEF HandleEvent, Event
    <3> QED BY <2>1, <2>2, <2>5, <3>1 DEF TypeOK
  <2> QED BY <1>6, <2>3, <2>4, <2>5 DEF HandleEvent
<1>7. CASE Closed
  BY <1>7 DEF Closed, TypeOK
<1>8. CASE Read
  BY <1>8, ReadDoes DEF Read, TypeOK, session
<1>9. CASE MpvLoads
  <2>1. cmds' \in Seq(Command) /\ Head(cmds).n \in Nat
    <3>1. cmds' \in Seq(Command) /\ Head(cmds) \in Command /\ Head(cmds).name = "load"
      BY <1>9, Types, TailOf DEF MpvLoads
    <3> QED BY <3>1 DEF Command
  <2>2. wire' \in Seq(Event)
    <3>1. End("stop", mpv.playing) \in Event
      BY Types, EventTypes
    <3> QED BY <1>9, <3>1, EmitDoes DEF MpvLoads
  <2>3. mpv' \in [playing : Nat, pause : BOOLEAN, alive : BOOLEAN]
    BY <1>9, <2>1 DEF MpvLoads, TypeOK
  <2> QED BY <1>9, <2>1, <2>2, <2>3 DEF MpvLoads, TypeOK, session
<1>10. CASE MpvPauses
  <2>1. cmds' \in Seq(Command) /\ Head(cmds).value \in BOOLEAN
    <3>1. cmds' \in Seq(Command) /\ Head(cmds) \in Command /\ Head(cmds).name = "pause"
      BY <1>10, Types, TailOf DEF MpvPauses
    <3> QED BY <3>1 DEF Command
  <2>2. mpv' \in [playing : Nat, pause : BOOLEAN, alive : BOOLEAN]
    BY <1>10, <2>1 DEF MpvPauses, TypeOK
  <2>3. wire' \in Seq(Event)
    <3>1. Pause(mpv'.pause) \in Event
      BY <2>2, EventTypes, Zenon
    <3> QED BY <1>10, <3>1, EmitDoes DEF MpvPauses
  <2> QED BY <1>10, <2>1, <2>2, <2>3 DEF MpvPauses, TypeOK, session
<1>11. CASE MpvEnds
  <2>1. wire' \in Seq(Event)
    <3>1. End("eof", mpv.playing) \in Event /\ End("error", mpv.playing) \in Event
      BY Types, EventTypes
    <3> QED BY <1>11, <3>1, EmitDoes DEF MpvEnds
  <2>2. mpv' \in [playing : Nat, pause : BOOLEAN, alive : BOOLEAN]
    BY <1>11 DEF MpvEnds, TypeOK
  <2> QED BY <1>11, <2>1, <2>2 DEF MpvEnds, TypeOK, session
<1>12. CASE MpvTicks
  <2>1. wire' \in Seq(Event)
    BY <1>12, EventTypes, EmitDoes DEF MpvTicks
  <2> QED BY <1>12, <2>1 DEF MpvTicks, TypeOK, session
<1>13. CASE MpvExits
  <2>1. mpv' \in [playing : Nat, pause : BOOLEAN, alive : BOOLEAN]
    BY <1>13 DEF MpvExits, TypeOK
  <2> QED BY <1>13, <2>1 DEF MpvExits, TypeOK, session
<1> QED
  BY <1>1, <1>2, <1>3, <1>4, <1>5, <1>6, <1>7, <1>8, <1>9, <1>10, <1>11, <1>12, <1>13
  DEF Next, Loop, Mpv

(* A load keeps what is said of loads; nothing else sends any.             *)
LEMMA PlayFromLoaded ==
  ASSUME TypeOK, Loaded, LastLoad, NEW i \in Nat, PlayFrom(i), UNCHANGED mpv
  PROVE  Loaded' /\ LastLoad'
<1>1. ASSUME NEW j, j \in i .. Last0, Loads(j) PROVE Loaded' /\ LastLoad'
  <2>1. Loaded'
    <3>1. j \in 0 .. Last0
      BY <1>1, LastPosition
    <3>2. Len(playing') = Len(playing) + 1 /\ playing'[Len(playing) + 1] = j
      BY <1>1, <3>1, Types, AppendOf DEF Loads
    <3> QED BY <1>1, <3>2, Types DEF Loads, Loaded
  <2>1a. cmds' = cmds \o LoadCommands
    BY <1>1 DEF Loads
  <2>1b. SetPause(FALSE).name # "load"
    BY DEF SetPause
  <2>1c. LoadFile(loads + 1).name = "load" /\ LoadFile(loads + 1).n = loads + 1
    BY DEF LoadFile
  <2>1d. paused = TRUE \/ paused = FALSE
    BY Types
  <2>2. PICK n \in Nat : n = Len(cmds) + 1
    BY <2>1a, LoadsDoes
  <2>3. PICK m \in Nat : m = Len(cmds') /\ m \in {n, n + 1} /\ DOMAIN cmds' = 1 .. m
    <3>1. CASE paused = TRUE
      BY <2>1a, <2>2, <3>1, LoadsDoes
    <3>2. CASE paused = FALSE
      BY <2>1a, <2>2, <3>2, LoadsDoes
    <3> QED BY <2>1d, <3>1, <3>2
  <2>4. cmds'[n].name = "load" /\ cmds'[n].n = loads + 1
    BY <2>1a, <2>1c, <2>2, LoadsDoes
  <2>5. m = n + 1 => cmds'[n + 1].name # "load"
    <3>1. ASSUME paused = TRUE PROVE cmds'[n + 1].name # "load"
      <4>1. cmds'[Len(cmds) + 2] = SetPause(FALSE)
        BY <2>1a, <3>1, LoadsDoes, Zenon
      <4>2. Len(cmds) + 2 = n + 1
        BY <2>1a, <2>2, LoadsDoes
      <4> QED BY <2>1b, <4>1, <4>2, Zenon
    <3>2. ASSUME paused = FALSE PROVE m = n
      BY <2>1a, <2>2, <2>3, <3>2, LoadsDoes
    <3>3. m = n + 1 => m # n
      BY <2>2
    <3> QED BY <2>1d, <3>1, <3>2, <3>3
  <2>6. n \in DOMAIN cmds' /\ IsLoad(n)'
    <3>1. n \in 1 .. m
      BY <2>2, <2>3, <2>1a, LoadsDoes
    <3> QED BY <2>3, <2>4, <3>1 DEF IsLoad
  <2>7. ASSUME NEW k \in 1 .. m, IsLoad(k)', \A l \in k + 1 .. m : ~IsLoad(l)'
        PROVE  cmds'[k].n = loads'
    <3>1. ~(k < n)
      <4>1. k < n => n \in k + 1 .. m
        BY <2>3
      <4> QED BY <2>6, <2>7, <4>1
    <3>2. m = n + 1 => k # n + 1
      BY <2>5, <2>7 DEF IsLoad
    <3>3. k = n
      BY <2>3, <3>1, <3>2
    <3> QED BY <1>1, <2>4, <3>3 DEF Loads
  <2> QED BY <2>1, <2>3, <2>6, <2>7 DEF LastLoad
<1>2. ASSUME Stops PROVE Loaded' /\ LastLoad'
  BY <1>2 DEF Stops, Loaded, LastLoad, IsLoad
<1> QED BY <1>1, <1>2, PlayFromDoes

LEMMA StepLoaded ==
  ASSUME TypeOK, Loaded, LastLoad, Next
  PROVE  Loaded' /\ LastLoad'
<1>0. ASSUME UNCHANGED <<cursor, loads, playing, cmds, mpv>>,
             status' = status \/ status' \in {"finished", "quit", "failed"}
      PROVE  Loaded' /\ LastLoad'
  BY <1>0 DEF Loaded, LastLoad, IsLoad
<1>a. ASSUME cmds # << >>, cmds' = Tail(cmds), UNCHANGED <<cursor, loads, playing, status>>,
             mpv'.playing = IF Head(cmds).name = "load" THEN Head(cmds).n ELSE mpv.playing
      PROVE  Loaded' /\ LastLoad'
  <2>1. /\ Len(cmds') = Len(cmds) - 1 /\ Head(cmds) = cmds[1]
        /\ DOMAIN cmds = 1 .. Len(cmds) /\ DOMAIN cmds' = 1 .. Len(cmds')
        /\ Len(cmds) \in Nat /\ 1 \in DOMAIN cmds
        /\ \A i \in 1 .. Len(cmds) - 1 : cmds'[i] = cmds[i + 1]
    BY <1>a, Types, TailOf, DomainOf
  <2>2. \A i \in DOMAIN cmds' : i + 1 \in DOMAIN cmds /\ (IsLoad(i)' <=> IsLoad(i + 1))
    BY <2>1 DEF IsLoad
  <2>3. \A i \in DOMAIN cmds : i = 1 \/ (i - 1 \in DOMAIN cmds' /\ (i - 1) + 1 = i)
    BY <2>1
  <2>4. ASSUME NEW i \in DOMAIN cmds', IsLoad(i)', \A j \in i + 1 .. Len(cmds') : ~IsLoad(j)'
        PROVE  cmds'[i].n = loads'
    <3>1. \A j \in (i + 1) + 1 .. Len(cmds) : ~IsLoad(j)
      <4> TAKE j \in (i + 1) + 1 .. Len(cmds)
      <4>1. j - 1 \in i + 1 .. Len(cmds') /\ j - 1 \in DOMAIN cmds' /\ (j - 1) + 1 = j
        BY <2>1
      <4> QED BY <2>2, <2>4, <4>1
    <3>2. IsLoad(i + 1) /\ cmds'[i] = cmds[i + 1]
      BY <2>1, <2>2, <2>4
    <3> QED BY <1>a, <2>2, <3>1, <3>2 DEF LastLoad
  <2>5. ASSUME \A i \in DOMAIN cmds' : ~IsLoad(i)'
        PROVE  mpv'.playing \in {0, loads'}
    <3>1. \A i \in DOMAIN cmds : i # 1 => ~IsLoad(i)
      BY <2>2, <2>3, <2>5
    <3>2. CASE IsLoad(1)
      <4>1. \A j \in 1 + 1 .. Len(cmds) : ~IsLoad(j)
        BY <2>1, <3>1
      <4>2. cmds[1].n = loads
        BY <2>1, <3>2, <4>1 DEF LastLoad
      <4> QED BY <1>a, <2>1, <3>2, <4>2 DEF IsLoad
    <3>3. CASE ~IsLoad(1)
      <4>1. mpv.playing \in {0, loads}
        BY <3>1, <3>3 DEF LastLoad
      <4> QED BY <1>a, <2>1, <3>3, <4>1 DEF IsLoad
    <3> QED BY <3>2, <3>3
  <2> QED BY <1>a, <2>4, <2>5 DEF LastLoad, Loaded
<1>1. CASE Start
  BY <1>1, PlayFromLoaded DEF Start
<1>2. CASE NextKey
  BY <1>0, <1>2, PlayFromLoaded, Types DEF NextKey
<1>3. CASE PreviousKey
  <2>1. Before \in Nat
    BY Types DEF Before
  <2> QED BY <1>3, <2>1, PlayFromLoaded DEF PreviousKey
<1>4. CASE TogglePause
  <2>1. CASE mpv.alive
    <3>1. cmds' = Append(cmds, SetPause(paused')) /\ SetPause(paused').name = "pause"
      BY <1>4, <2>1 DEF TogglePause, SetPause
    <3>2. paused' \in BOOLEAN
      BY <1>4 DEF TogglePause
    <3>3. SetPause(paused') \in Command
      BY <3>2, CommandTypes, Zenon
    <3> DEFINE c == SetPause(paused')
    <3>4. c \in Command /\ c.name = "pause" /\ cmds' = Append(cmds, c)
      BY <3>1, <3>3
    <3> HIDE DEF c
    <3>5. /\ Len(cmds) \in Nat /\ Len(cmds') = Len(cmds) + 1 /\ cmds'[Len(cmds) + 1] = c
          /\ DOMAIN cmds = 1 .. Len(cmds) /\ DOMAIN cmds' = 1 .. Len(cmds')
          /\ \A i \in 1 .. Len(cmds) : cmds'[i] = cmds[i]
      BY <3>4, Types, AppendOf, DomainOf
    <3>6. \A i \in 1 .. Len(cmds') : IsLoad(i)' => i \in 1 .. Len(cmds) /\ IsLoad(i)
      BY <3>4, <3>5 DEF IsLoad
    <3>7. \A i \in 1 .. Len(cmds) : IsLoad(i) => i \in 1 .. Len(cmds') /\ IsLoad(i)'
      BY <3>5 DEF IsLoad
    <3>8. UNCHANGED <<cursor, loads, playing, mpv, status>> /\ status = "running"
      BY <1>4, <2>1 DEF TogglePause, Pressed
    <3>9. ASSUME NEW i \in DOMAIN cmds', IsLoad(i)', \A j \in i + 1 .. Len(cmds') : ~IsLoad(j)'
          PROVE  cmds'[i].n = loads'
      <4>1. i \in DOMAIN cmds /\ IsLoad(i) /\ cmds'[i] = cmds[i]
        BY <3>5, <3>6, <3>9
      <4>2. \A j \in i + 1 .. Len(cmds) : ~IsLoad(j)
        BY <3>5, <3>7, <3>9
      <4> QED BY <3>8, <4>1, <4>2 DEF LastLoad
    <3> QED BY <3>5, <3>7, <3>8, <3>9 DEF LastLoad, Loaded
  <2>2. CASE ~mpv.alive
    BY <1>0, <1>4, <2>2 DEF TogglePause
  <2> QED BY <2>1, <2>2
<1>5. CASE Quit \/ Closed
  BY <1>0, <1>5 DEF Quit, Closed
<1>6. CASE HandleEvent
  <2>1. ASSUME AdvanceAfterEnd PROVE Loaded' /\ LastLoad'
    <3>1. CASE CanAdvance
      BY <1>6, <2>1, <3>1, PlayFromLoaded, Types DEF HandleEvent, AdvanceAfterEnd
    <3>2. CASE ~CanAdvance
      BY <1>0, <1>6, <2>1, <3>2 DEF HandleEvent, AdvanceAfterEnd
    <3> QED BY <3>1, <3>2
  <2> QED BY <1>0, <1>6, <2>1 DEF HandleEvent, session
<1>7. CASE Read \/ MpvTicks
  BY <1>0, <1>7 DEF Read, MpvTicks, session
<1>8. CASE MpvLoads
  <2>1. mpv'.playing = Head(cmds).n
    BY <1>8 DEF MpvLoads, TypeOK
  <2> QED BY <1>8, <1>a, <2>1 DEF MpvLoads, session
<1>9. CASE MpvPauses
  <2>1. mpv'.playing = mpv.playing
    BY <1>9 DEF MpvPauses, TypeOK
  <2> QED BY <1>9, <1>a, <2>1 DEF MpvPauses, session
<1>10. CASE MpvEnds \/ MpvExits
  <2>1. mpv'.playing = 0
    BY <1>10 DEF MpvEnds, MpvExits, TypeOK
  <2> QED BY <1>10, <2>1 DEF MpvEnds, MpvExits, session, Loaded, LastLoad, IsLoad
<1> QED
  BY <1>1, <1>2, <1>3, <1>4, <1>5, <1>6, <1>7, <1>8, <1>9, <1>10 DEF Next, Loop, Mpv

-----------------------------------------------------------------------------
(* The pause flags.                                                        *)

Told ==
  \A i \in DOMAIN Events :
    IsPause(i) /\ (\A j \in i + 1 .. Len(Events) : ~IsPause(j)) => Events[i].value = mpv.pause
Quiet == \A i \in DOMAIN Events : ~IsPause(i)
Calm == \A i \in DOMAIN cmds : cmds[i].name = "pause" => cmds[i].value = mpv.pause

LEMMA Converging ==
  PauseConverges <=> (mpv.alive => Told /\ (Quiet /\ Calm => paused = mpv.pause))
BY DEF PauseConverges, Told, Quiet, Calm

LEMMA MoreTold ==
  ASSUME TypeOK, chan' \in Seq(Event), wire' \in Seq(Event), NEW e, More(e)
  PROVE  /\ e.kind = "pause" /\ e.value = mpv'.pause => Told' /\ ~Quiet'
         /\ e.kind # "pause" /\ mpv'.pause = mpv.pause =>
              (Told => Told') /\ (Quiet' => Quiet)
<1>1. PICK n \in Nat : n = Len(Events) /\ DOMAIN Events = 1 .. n
  BY EventsOf
<1>2. PICK m \in Nat : m = Len(Events') /\ DOMAIN Events' = 1 .. m /\ m = n + 1
  BY <1>1, NextEventsOf DEF More
<1>3. Events'[m] = e /\ \A i \in 1 .. n : Events'[i] = Events[i]
  BY <1>1, <1>2 DEF More
<1>4. m \in 1 .. m /\ (IsPause(m)' <=> e.kind = "pause")
  BY <1>1, <1>2, <1>3 DEF IsPause
<1>5. \A i \in 1 .. n : i \in 1 .. m /\ (IsPause(i)' <=> IsPause(i))
  BY <1>1, <1>2, <1>3 DEF IsPause
<1>6. ASSUME e.kind = "pause", e.value = mpv'.pause PROVE Told' /\ ~Quiet'
  <2>1. ASSUME NEW i \in 1 .. m, \A j \in i + 1 .. m : ~IsPause(j)' PROVE Events'[i].value = mpv'.pause
    <3>1. i # m => m \in i + 1 .. m
      BY <1>2
    <3>2. i = m
      BY <1>4, <1>6, <2>1, <3>1
    <3> QED BY <1>3, <1>6, <3>2
  <2> QED BY <1>2, <1>4, <1>6, <2>1 DEF Told, Quiet
<1>7. ASSUME e.kind # "pause", mpv'.pause = mpv.pause PROVE (Told => Told') /\ (Quiet' => Quiet)
  <2>1. ASSUME Told, NEW i \in 1 .. m, IsPause(i)', \A j \in i + 1 .. m : ~IsPause(j)'
        PROVE  Events'[i].value = mpv'.pause
    <3>1. i \in 1 .. n
      BY <1>2, <1>4, <1>7, <2>1
    <3>2. \A j \in i + 1 .. n : ~IsPause(j)
      BY <1>2, <1>5, <2>1
    <3>3. Events[i].value = mpv.pause
      BY <1>1, <1>5, <2>1, <3>1, <3>2 DEF Told
    <3> QED BY <1>3, <1>7, <3>1, <3>3
  <2>2. Told => Told'
    BY <1>2, <2>1 DEF Told
  <2>3. Quiet' => Quiet
    BY <1>1, <1>2, <1>5 DEF Quiet
  <2> QED BY <2>2, <2>3
<1> QED BY <1>6, <1>7

LEMMA SameTold ==
  ASSUME TypeOK, chan' \in Seq(Event), wire' \in Seq(Event), Same, mpv'.pause = mpv.pause
  PROVE  (Told => Told') /\ (Quiet' => Quiet)
<1>1. PICK n \in Nat : n = Len(Events) /\ DOMAIN Events = 1 .. n
  BY EventsOf
<1>2. Len(Events') = n /\ DOMAIN Events' = 1 .. n /\ \A i \in 1 .. n : Events'[i] = Events[i]
  BY <1>1, NextEventsOf DEF Same
<1>3. \A i : IsPause(i)' <=> IsPause(i)
  BY <1>1, <1>2 DEF IsPause
<1> QED BY <1>1, <1>2, <1>3 DEF Told, Quiet

LEMMA LessTold ==
  ASSUME TypeOK, chan' \in Seq(Event), wire' \in Seq(Event), NEW k \in Nat, Less(k),
         k = 1 \/ Events[k].kind # "pause", mpv'.pause = mpv.pause, Told
  PROVE  /\ Told'
         /\ Quiet' => Quiet \/ (k = 1 /\ IsPause(1) /\ Events[1].value = mpv.pause)
<1>1. PICK n \in Nat : n = Len(Events) /\ DOMAIN Events = 1 .. n
  BY EventsOf
<1>2. PICK m \in Nat : m = Len(Events') /\ DOMAIN Events' = 1 .. m /\ n = m + 1 /\ k \in 1 .. n
  BY <1>1, NextEventsOf DEF Less
<1>3. /\ \A i \in 1 .. m : i < k => Events'[i] = Events[i]
      /\ \A i \in 1 .. m : ~(i < k) => Events'[i] = Events[i + 1]
  BY <1>1, <1>2 DEF Less
<1>4. /\ \A i \in 1 .. m : i < k => i \in 1 .. n /\ (IsPause(i)' <=> IsPause(i))
      /\ \A i \in 1 .. m : ~(i < k) => i + 1 \in 1 .. n /\ (IsPause(i)' <=> IsPause(i + 1))
  BY <1>1, <1>2, <1>3 DEF IsPause
<1>5. /\ \A j \in 1 .. n : j < k => j \in 1 .. m
      /\ \A j \in 1 .. n : j > k => j - 1 \in 1 .. m /\ ~(j - 1 < k) /\ (j - 1) + 1 = j
  BY <1>2
<1>6. k # 1 => ~IsPause(k)
  BY DEF IsPause
<1>7. ASSUME NEW i \in 1 .. m, IsPause(i)', \A j \in i + 1 .. m : ~IsPause(j)'
      PROVE  Events'[i].value = mpv'.pause
  <2>1. CASE i < k
    <3>1. \A j \in i + 1 .. n : ~IsPause(j)
      <4> TAKE j \in i + 1 .. n
      <4>1. CASE j < k
        BY <1>4, <1>5, <1>7, <4>1
      <4>2. CASE j = k
        BY <1>6, <2>1, <4>2
      <4>3. CASE j > k
        <5>1. j \in 1 .. n /\ j - 1 \in i + 1 .. m
          BY <1>2, <2>1, <4>3
        <5>2. ~IsPause(j - 1)'
          BY <1>7, <5>1
        <5>3. IsPause(j - 1)' <=> IsPause((j - 1) + 1)
          BY <1>4, <1>5, <4>3, <5>1
        <5>4. (j - 1) + 1 = j
          BY <5>1
        <5> QED BY <5>2, <5>3, <5>4
      <4> QED BY <1>2, <4>1, <4>2, <4>3
    <3>2. Events[i].value = mpv.pause
      BY <1>1, <1>4, <1>7, <2>1, <3>1 DEF Told
    <3> QED BY <1>3, <2>1, <3>2
  <2>2. CASE ~(i < k)
    <3>1. \A j \in (i + 1) + 1 .. n : ~IsPause(j)
      <4> TAKE j \in (i + 1) + 1 .. n
      <4>1. j \in 1 .. n /\ j > k /\ j - 1 \in i + 1 .. m
        BY <1>2, <2>2
      <4>2. ~IsPause(j - 1)'
        BY <1>7, <4>1
      <4>3. IsPause(j - 1)' <=> IsPause((j - 1) + 1)
        BY <1>4, <1>5, <4>1
      <4> QED BY <4>1, <4>2, <4>3
    <3>2. Events[i + 1].value = mpv.pause
      BY <1>1, <1>4, <1>7, <2>2, <3>1 DEF Told
    <3> QED BY <1>3, <2>2, <3>2
  <2> QED BY <2>1, <2>2
<1>8. Told'
  BY <1>2, <1>7 DEF Told
<1>9. ASSUME Quiet', ~Quiet PROVE k = 1 /\ IsPause(1) /\ Events[1].value = mpv.pause
  <2>1. \A j \in 1 .. n : j # k => ~IsPause(j)
    <3> TAKE j \in 1 .. n
    <3>1. CASE j < k
      BY <1>2, <1>4, <1>5, <1>9, <3>1 DEF Quiet
    <3>2. CASE j > k
      <4>1. ~IsPause(j - 1)'
        BY <1>2, <1>5, <1>9, <3>2 DEF Quiet
      <4>2. IsPause(j - 1)' <=> IsPause((j - 1) + 1)
        BY <1>4, <1>5, <3>2
      <4>3. (j - 1) + 1 = j
        OBVIOUS
      <4> QED BY <4>1, <4>2, <4>3
    <3> QED BY <1>2, <3>1, <3>2
  <2>2. k = 1 /\ IsPause(1)
    BY <1>1, <1>6, <1>9, <2>1 DEF Quiet
  <2>3. \A j \in 1 + 1 .. n : ~IsPause(j)
    BY <2>1, <2>2
  <2> QED BY <1>1, <1>2, <2>2, <2>3 DEF Told
<1> QED BY <1>8, <1>9, Zenon

(* What is said of the flags, after a step.                                *)
Agreed == mpv.alive => Told /\ (Quiet /\ Calm => paused = mpv.pause)

LEMMA PlayFromPause ==
  ASSUME TypeOK, NEW i \in Nat, PlayFrom(i), UNCHANGED mpv,
         mpv.alive => Told' /\ (Quiet' /\ Calm => paused = mpv.pause)
  PROVE  Agreed'
<1>1. ASSUME Stops PROVE Agreed'
  <2>1. Calm' <=> Calm
    BY <1>1 DEF Stops, Calm
  <2> QED BY <1>1, <2>1 DEF Stops, Agreed
<1>2. ASSUME NEW j, Loads(j) PROVE Agreed'
  <2>1. cmds' = cmds \o LoadCommands /\ paused' = FALSE /\ mpv.alive
    BY <1>2 DEF Loads
  <2>2. CASE paused = FALSE
    <3>1. /\ DOMAIN cmds' = 1 .. Len(cmds') /\ DOMAIN cmds = 1 .. Len(cmds)
          /\ \A k \in 1 .. Len(cmds) : cmds'[k] = cmds[k]
          /\ Len(cmds') = Len(cmds) + 1 /\ Len(cmds) \in Nat
      BY <2>1, <2>2, LoadsDoes, Zenon
    <3>2. DOMAIN cmds \subseteq DOMAIN cmds'
      BY <3>1
    <3>3. Calm' => Calm
      BY <1>2, <3>1, <3>2 DEF Calm
    <3> QED BY <2>1, <2>2, <3>3 DEF Agreed
  <2>3. CASE paused = TRUE
    <3>1. PICK m : m \in DOMAIN cmds' /\ cmds'[m] = SetPause(FALSE)
      <4>1. Len(cmds) + 2 \in DOMAIN cmds'
        BY <2>1, <2>3, LoadsDoes
      <4>2. cmds'[Len(cmds) + 2] = SetPause(FALSE)
        BY <2>1, <2>3, LoadsDoes, Zenon
      <4> QED BY <4>1, <4>2
    <3>2. Calm' => mpv'.pause = FALSE
      BY <3>1 DEF Calm, SetPause
    <3> QED BY <2>1, <3>2 DEF Agreed
  <2> QED BY <2>2, <2>3, Types
<1> QED BY <1>1, <1>2, PlayFromDoes

LEMMA StepPause ==
  ASSUME TypeOK, TypeOK', Agreed, Next
  PROVE  Agreed'
<1> USE Types
<1>0. chan' \in Seq(Event) /\ wire' \in Seq(Event)
  BY DEF TypeOK
<1>a. ASSUME UNCHANGED <<chan, wire, mpv>>
      PROVE  mpv.alive => Told' /\ (Quiet' /\ Calm => paused = mpv.pause)
  BY <1>0, <1>a, SameDoes, SameTold DEF Agreed
<1>b. ASSUME UNCHANGED <<chan, wire, mpv, cmds, paused>> PROVE Agreed'
  <2>1. Calm' <=> Calm
    BY <1>b DEF Calm
  <2> QED BY <1>a, <1>b, <2>1 DEF Agreed
<1>c. ASSUME cmds # << >>, cmds' = Tail(cmds), mpv'.pause = mpv.pause,
             Head(cmds).name = "pause" => Head(cmds).value = mpv.pause
      PROVE  Calm' => Calm
  <2>1. /\ Head(cmds) = cmds[1]
        /\ DOMAIN cmds = 1 .. Len(cmds) /\ DOMAIN cmds' = 1 .. Len(cmds) - 1
        /\ \A i \in 1 .. Len(cmds) - 1 : cmds'[i] = cmds[i + 1]
        /\ Len(cmds) \in Nat
    BY <1>c, TailOf, DomainOf
  <2>2. ASSUME Calm', NEW i \in DOMAIN cmds, cmds[i].name = "pause" PROVE cmds[i].value = mpv.pause
    <3>1. CASE i = 1
      BY <1>c, <2>1, <2>2, <3>1
    <3>2. CASE i # 1
      <4>1. PICK k \in DOMAIN cmds' : k + 1 = i
        <5>1. i - 1 \in DOMAIN cmds' /\ (i - 1) + 1 = i
          BY <2>1, <3>2
        <5> QED BY <5>1
      <4>2. cmds'[k] = cmds[i]
        BY <2>1, <4>1
      <4> QED BY <1>c, <2>2, <4>2 DEF Calm
    <3> QED BY <3>1, <3>2
  <2> QED BY <2>2 DEF Calm
<1>1. CASE Start
  BY <1>a, <1>1, PlayFromPause DEF Start
<1>2. CASE NextKey
  BY <1>a, <1>b, <1>2, PlayFromPause DEF NextKey
<1>3. CASE PreviousKey
  <2>1. Before \in Nat
    BY DEF Before
  <2> QED BY <1>a, <1>3, <2>1, PlayFromPause DEF PreviousKey
<1>4. CASE TogglePause
  <2>1. CASE mpv.alive
    <3>1. paused' \in BOOLEAN /\ cmds' = Append(cmds, SetPause(paused'))
      BY <1>4, <2>1 DEF TogglePause
    <3> DEFINE c == SetPause(paused')
    <3>2. c \in Command /\ c.name = "pause" /\ c.value = paused'
      <4>1. c \in Command
        BY <3>1, CommandTypes, Zenon
      <4> QED BY <4>1 DEF SetPause
    <3> HIDE DEF c
    <3>3. PICK m : m \in DOMAIN cmds' /\ cmds'[m] = c
      <4>1. cmds' = Append(cmds, c)
        BY <3>1 DEF c
      <4> QED BY <4>1, <3>2, AppendOf, DomainOf
    <3>4. Calm' => mpv'.pause = paused'
      BY <3>2, <3>3 DEF Calm
    <3>5. Told'
      BY <1>a, <1>4, <2>1 DEF TogglePause
    <3> QED BY <3>4, <3>5 DEF Agreed
  <2>2. CASE ~mpv.alive
    BY <1>4, <2>2 DEF TogglePause, Agreed
  <2> QED BY <2>1, <2>2
<1>5. CASE Quit \/ Closed
  BY <1>b, <1>5 DEF Quit, Closed
<1>6. CASE HandleEvent
  <2> DEFINE e == Head(chan)
  <2>1. Less(1) /\ e = Events[1] /\ e \in Event /\ UNCHANGED mpv /\ chan # << >>
    BY <1>6, PopDoes DEF HandleEvent
  <2>2. IsPause(1) <=> e.kind = "pause"
    BY <2>1, EventsOf DEF IsPause, Less
  <2>3. Told => Told' /\ (Quiet' => Quiet \/ (e.kind = "pause" /\ e.value = mpv.pause))
    <3>1. 1 = 1 \/ Events[1].kind # "pause"
      OBVIOUS
    <3>2. mpv'.pause = mpv.pause
      BY <2>1
    <3> QED BY <1>0, <2>1, <2>2, <3>1, <3>2, LessTold
  <2> HIDE DEF e
  <2>4. e.kind # "pause" => (mpv.alive => Told' /\ (Quiet' /\ Calm => paused = mpv.pause))
    BY <2>3 DEF Agreed
  <2>5. ASSUME e.kind # "pause", UNCHANGED <<cmds, paused>> PROVE Agreed'
    <3>1. Calm' <=> Calm
      BY <2>1, <2>5 DEF Calm
    <3> QED BY <2>1, <2>4, <2>5, <3>1 DEF Agreed
  <2>6. ASSUME e.kind = "end", AdvanceAfterEnd PROVE Agreed'
    <3>1. CASE CanAdvance
      BY <2>1, <2>4, <2>6, <3>1, PlayFromPause DEF AdvanceAfterEnd
    <3>2. CASE ~CanAdvance
      BY <2>5, <2>6, <3>2 DEF AdvanceAfterEnd
    <3> QED BY <3>1, <3>2
  <2>7. ASSUME e.kind = "pause", paused' = e.value PROVE Agreed'
    <3>1. ~Quiet
      BY <2>1, <2>2, <2>7 DEF Quiet, IsPause
    <3> QED BY <2>1, <2>3, <2>7, <3>1 DEF Agreed
  <2> QED BY <1>6, <2>5, <2>6, <2>7 DEF HandleEvent, session, e
<1>7. CASE Read
  <2>1. UNCHANGED <<mpv, cmds, paused>>
    BY <1>7 DEF Read, session
  <2>2. Told => Told' /\ (Quiet' => Quiet)
    <3>1. CASE Same
      BY <1>0, <2>1, <3>1, SameTold
    <3>2. ASSUME NEW k \in 1 .. Len(Events), Less(k), Events[k] = Position
          PROVE  Told => Told' /\ (Quiet' => Quiet)
      <4>1. k \in Nat /\ Events[k].kind # "pause"
        BY <3>2, EventsOf DEF Position
      <4>2. ~(k = 1 /\ IsPause(1))
        BY <4>1 DEF IsPause
      <4> QED BY <1>0, <2>1, <3>2, <4>1, <4>2, LessTold
    <3> QED BY <1>7, <3>1, <3>2, ReadDoes
  <2>3. Calm' <=> Calm
    BY <2>1 DEF Calm
  <2> QED BY <2>1, <2>2, <2>3 DEF Agreed
<1>8. CASE MpvLoads
  <2>1. /\ mpv'.pause = mpv.pause /\ mpv'.alive = mpv.alive /\ UNCHANGED <<chan, paused>>
        /\ cmds # << >> /\ cmds' = Tail(cmds) /\ Head(cmds).name = "load"
        /\ Emit(<<End("stop", mpv.playing)>>) \/ Emit(<< >>)
    BY <1>8 DEF MpvLoads, TypeOK, session
  <2>2. Calm' => Calm
    BY <1>c, <2>1
  <2>3. (Told => Told') /\ (Quiet' => Quiet)
    <3> DEFINE e == End("stop", mpv.playing)
    <3>1. e \in Event /\ e.kind # "pause"
      BY EventTypes DEF End
    <3> HIDE DEF e
    <3>2. CASE Emit(<<e>>)
      BY <1>0, <2>1, <3>1, <3>2, EmitDoes, MoreTold
    <3>3. CASE Emit(<< >>)
      BY <1>0, <2>1, <3>1, <3>3, EmitDoes, SameTold
    <3> QED BY <2>1, <3>2, <3>3 DEF e
  <2> QED BY <2>1, <2>2, <2>3 DEF Agreed
<1>9. CASE MpvPauses
  <2> DEFINE e == Pause(mpv'.pause)
  <2>1. /\ mpv'.pause = Head(cmds).value /\ mpv'.alive = mpv.alive /\ UNCHANGED <<chan, paused>>
        /\ cmds # << >> /\ cmds' = Tail(cmds) /\ Head(cmds).name = "pause"
        /\ IF mpv.pause # mpv'.pause THEN Emit(<<e>>) ELSE Emit(<< >>)
    BY <1>9 DEF MpvPauses, TypeOK, session
  <2>2. e \in Event /\ e.kind = "pause" /\ e.value = mpv'.pause
    <3>1. mpv'.pause \in BOOLEAN
      BY DEF TypeOK
    <3>2. e \in Event
      BY <3>1, EventTypes, Zenon
    <3> QED BY <3>2 DEF Pause
  <2> HIDE DEF e
  <2>3. CASE mpv.pause # mpv'.pause
    <3>1. Told' /\ ~Quiet'
      BY <1>0, <2>1, <2>2, <2>3, EmitDoes, MoreTold
    <3> QED BY <3>1 DEF Agreed
  <2>4. CASE mpv.pause = mpv'.pause
    <3>1. (Told => Told') /\ (Quiet' => Quiet)
      BY <1>0, <2>1, <2>2, <2>4, EmitDoes, SameTold
    <3>2. Calm' => Calm
      BY <1>c, <2>1, <2>4
    <3> QED BY <2>1, <2>4, <3>1, <3>2 DEF Agreed
  <2> QED BY <2>3, <2>4
<1>10. CASE MpvEnds \/ MpvTicks
  <2>1. mpv'.pause = mpv.pause /\ mpv'.alive = mpv.alive /\ UNCHANGED <<chan, paused, cmds>>
    BY <1>10 DEF MpvEnds, MpvTicks, TypeOK, session
  <2>2. PICK e \in Event : e.kind # "pause" /\ Emit(<<e>>)
    <3>1. \A why : End(why, mpv.playing).kind # "pause"
      BY DEF End
    <3>2. Position.kind # "pause"
      BY DEF Position
    <3> QED BY <1>10, <3>1, <3>2, EventTypes DEF MpvEnds, MpvTicks
  <2>3. (Told => Told') /\ (Quiet' => Quiet)
    BY <1>0, <2>1, <2>2, EmitDoes, MoreTold
  <2>4. Calm' <=> Calm
    BY <2>1 DEF Calm
  <2> QED BY <2>1, <2>3, <2>4 DEF Agreed
<1>11. CASE MpvExits
  <2>1. ~mpv'.alive
    BY <1>11 DEF MpvExits, TypeOK
  <2> QED BY <2>1 DEF Agreed
<1> QED
  BY <1>1, <1>2, <1>3, <1>4, <1>5, <1>6, <1>7, <1>8, <1>9, <1>10, <1>11 DEF Next, Loop, Mpv

-----------------------------------------------------------------------------
(* Left alone: one track at a time.                                        *)

PausesFalse == \A i \in DOMAIN Events : IsPause(i) => Events[i].value = FALSE
NoEnds == \A i \in DOMAIN Events : ~IsEnd(i)
OneEnd == \A i, j \in DOMAIN Events : IsEnd(i) /\ IsEnd(j) => i = j

LEMMA MoreEnds ==
  ASSUME TypeOK, chan' \in Seq(Event), wire' \in Seq(Event), NEW e, More(e)
  PROVE  /\ e.kind # "pause" /\ PausesFalse => PausesFalse'
         /\ e.kind # "end" => (NoEnds => NoEnds') /\ (OneEnd => OneEnd')
         /\ NoEnds => OneEnd'
<1>1. PICK n \in Nat : n = Len(Events) /\ DOMAIN Events = 1 .. n
  BY EventsOf
<1>2. PICK m \in Nat : m = Len(Events') /\ DOMAIN Events' = 1 .. m /\ m = n + 1
  BY <1>1, NextEventsOf DEF More
<1>3. Events'[m] = e /\ \A i \in 1 .. n : Events'[i] = Events[i]
  BY <1>1, <1>2 DEF More
<1>4. /\ \A i \in 1 .. m : i = m \/ i \in 1 .. n
      /\ (IsPause(m)' => e.kind = "pause") /\ (IsEnd(m)' => e.kind = "end")
  BY <1>2, <1>3 DEF IsPause, IsEnd
<1>5. \A i \in 1 .. n : (IsPause(i)' => IsPause(i)) /\ (IsEnd(i)' => IsEnd(i))
  BY <1>1, <1>2, <1>3 DEF IsPause, IsEnd
<1>6. e.kind # "pause" /\ PausesFalse => PausesFalse'
  BY <1>1, <1>2, <1>3, <1>4, <1>5 DEF PausesFalse
<1>7. e.kind # "end" => (NoEnds => NoEnds') /\ (OneEnd => OneEnd')
  BY <1>1, <1>2, <1>4, <1>5 DEF NoEnds, OneEnd
<1>8. NoEnds => OneEnd'
  BY <1>1, <1>2, <1>4, <1>5 DEF NoEnds, OneEnd
<1> QED BY <1>6, <1>7, <1>8

LEMMA SameEnds ==
  ASSUME TypeOK, chan' \in Seq(Event), wire' \in Seq(Event), Same
  PROVE  (PausesFalse => PausesFalse') /\ (NoEnds => NoEnds') /\ (OneEnd => OneEnd')
<1>1. PICK n \in Nat : n = Len(Events) /\ DOMAIN Events = 1 .. n
  BY EventsOf
<1>2. DOMAIN Events' = 1 .. n /\ \A i \in 1 .. n : Events'[i] = Events[i]
  BY <1>1, NextEventsOf DEF Same
<1>3. \A i : (IsPause(i)' <=> IsPause(i)) /\ (IsEnd(i)' <=> IsEnd(i))
  BY <1>1, <1>2 DEF IsPause, IsEnd
<1> QED BY <1>1, <1>2, <1>3 DEF PausesFalse, NoEnds, OneEnd

LEMMA LessEnds ==
  ASSUME TypeOK, chan' \in Seq(Event), wire' \in Seq(Event), NEW k \in Nat, Less(k)
  PROVE  /\ (PausesFalse => PausesFalse') /\ (NoEnds => NoEnds') /\ (OneEnd => OneEnd')
         /\ OneEnd /\ IsEnd(k) => NoEnds'
<1>1. PICK n \in Nat : n = Len(Events) /\ DOMAIN Events = 1 .. n
  BY EventsOf
<1>2. PICK m \in Nat : m = Len(Events') /\ DOMAIN Events' = 1 .. m /\ n = m + 1 /\ k \in 1 .. n
  BY <1>1, NextEventsOf DEF Less
<1> DEFINE f(i) == IF i < k THEN i ELSE i + 1
<1>3. \A i \in 1 .. m : f(i) \in 1 .. n /\ f(i) # k /\ Events'[i] = Events[f(i)]
  BY <1>1, <1>2 DEF Less
<1>4. \A i, j \in 1 .. m : f(i) = f(j) => i = j
  BY <1>2
<1> HIDE DEF f
<1>5. \A i \in 1 .. m : (IsPause(i)' => IsPause(f(i))) /\ (IsEnd(i)' => IsEnd(f(i)))
  BY <1>1, <1>2, <1>3 DEF IsPause, IsEnd
<1>6. PausesFalse => PausesFalse'
  BY <1>1, <1>2, <1>3, <1>5 DEF PausesFalse
<1>7. NoEnds => NoEnds'
  BY <1>1, <1>2, <1>3, <1>5 DEF NoEnds
<1>8. OneEnd => OneEnd'
  BY <1>1, <1>2, <1>3, <1>4, <1>5 DEF OneEnd
<1>9. OneEnd /\ IsEnd(k) => NoEnds'
  BY <1>1, <1>2, <1>3, <1>5 DEF OneEnd, NoEnds
<1> QED BY <1>6, <1>7, <1>8, <1>9

(* OneAtATime by these names.                                              *)
Due ==
  /\ paused = FALSE
  /\ PausesFalse
  /\ cmds # << >> => Len(cmds) = 1 /\ IsLoad(1) /\ mpv.playing = 0
  /\ cmds # << >> \/ mpv.playing # 0 \/ status = "starting" => NoEnds
  /\ OneEnd
  /\ status = "finished" => cmds = << >> /\ mpv.playing = 0

(* A load when nothing is due.                                             *)
LEMMA PlayFromDue ==
  ASSUME TypeOK, TypeOK', NEW i \in Nat, PlayFrom(i), UNCHANGED mpv,
         cmds = << >>, mpv.playing = 0, paused = FALSE,
         PausesFalse', NoEnds', OneEnd'
  PROVE  Due'
<1>1. ASSUME Stops PROVE Due'
  BY <1>1 DEF Stops, Due
<1>2. ASSUME NEW j, Loads(j) PROVE Due'
  <2>1. cmds' = cmds \o LoadCommands /\ paused' = FALSE /\ status' = "running"
    BY <1>2 DEF Loads
  <2>2. Len(cmds) = 0
    BY Types, DomainOf
  <2>3. Len(cmds') = 1 /\ cmds'[1] = LoadFile(loads + 1) /\ 1 \in DOMAIN cmds'
    <3>1. /\ Len(cmds') = Len(cmds) + 1 /\ cmds'[Len(cmds) + 1] = LoadFile(loads + 1)
          /\ DOMAIN cmds' = 1 .. Len(cmds')
      BY <2>1, LoadsDoes, Zenon
    <3>2. Len(cmds) + 1 = 1
      BY <2>2
    <3>3. Len(cmds') = 1 /\ cmds'[1] = LoadFile(loads + 1)
      BY <3>1, <3>2, Zenon
    <3> QED BY <3>1, <3>3
  <2>4. IsLoad(1)'
    BY <2>3 DEF IsLoad, LoadFile
  <2> QED BY <2>1, <2>3, <2>4 DEF Due
<1> QED BY <1>1, <1>2, PlayFromDoes

LEMMA StepDue ==
  ASSUME TypeOK, TypeOK', Loaded, Due, Next, ~interactive
  PROVE  Due'
<1>0. chan' \in Seq(Event) /\ wire' \in Seq(Event)
  BY DEF TypeOK
<1>a. ASSUME UNCHANGED <<chan, wire>>
      PROVE  (PausesFalse => PausesFalse') /\ (NoEnds => NoEnds') /\ (OneEnd => OneEnd')
  BY <1>0, <1>a, SameDoes, SameEnds
<1>1. CASE Start
  <2>1. cmds = << >> /\ mpv.playing = 0 /\ NoEnds
    BY <1>1 DEF Start, Loaded, Due
  <2>2. PausesFalse' /\ NoEnds' /\ OneEnd' /\ paused = FALSE
    BY <1>1, <1>a, <2>1 DEF Start, Due
  <2>3. PlayFrom(0) /\ UNCHANGED mpv /\ 0 \in Nat
    BY <1>1 DEF Start
  <2> QED BY <2>1, <2>2, <2>3, PlayFromDue
<1>2. CASE NextKey \/ PreviousKey \/ TogglePause
  BY <1>2 DEF NextKey, PreviousKey, TogglePause, Pressed
<1>3. CASE Quit \/ Closed
  <2>1. UNCHANGED <<chan, wire, paused, cmds, mpv>> /\ status' \in {"quit", "failed"}
    BY <1>3 DEF Quit, Closed
  <2>2. IsLoad(1)' <=> IsLoad(1)
    BY <2>1 DEF IsLoad
  <2> QED BY <1>a, <2>1, <2>2 DEF Due
<1>4. CASE HandleEvent
  <2> DEFINE e == Head(chan)
  <2>1. Less(1) /\ e = Events[1] /\ e \in Event /\ UNCHANGED mpv /\ status = "running"
    BY <1>4, PopDoes DEF HandleEvent
  <2>2. (IsPause(1) <=> e.kind = "pause") /\ (IsEnd(1) <=> e.kind = "end") /\ 1 \in DOMAIN Events
    BY <2>1, EventsOf DEF IsPause, IsEnd, Less
  <2>3. /\ PausesFalse' /\ (NoEnds => NoEnds') /\ OneEnd'
        /\ e.kind = "end" => NoEnds'
    BY <1>0, <2>1, <2>2, LessEnds DEF Due
  <2> HIDE DEF e
  <2>4. ASSUME UNCHANGED <<cmds, paused>>, status' = status \/ e.kind = "end" PROVE Due'
    <3>1. IsLoad(1)' <=> IsLoad(1)
      BY <2>4 DEF IsLoad
    <3>2. e.kind = "end" => cmds = << >> /\ mpv.playing = 0
      BY <2>2 DEF Due, NoEnds
    <3> QED BY <2>1, <2>3, <2>4, <3>1, <3>2 DEF Due
  <2>5. ASSUME e.kind = "end", AdvanceAfterEnd PROVE Due'
    <3>1. cmds = << >> /\ mpv.playing = 0
      BY <2>2, <2>5 DEF Due, NoEnds
    <3>2. CASE CanAdvance
      <4>1. PlayFrom(cursor + 1) /\ UNCHANGED mpv /\ cursor + 1 \in Nat /\ paused = FALSE
        BY <2>1, <2>5, <3>2, Types DEF AdvanceAfterEnd, Due
      <4>2. PausesFalse' /\ NoEnds' /\ OneEnd'
        BY <2>3, <2>5
      <4> QED BY <3>1, <4>1, <4>2, PlayFromDue
    <3>3. CASE ~CanAdvance
      BY <2>4, <2>5, <3>3 DEF AdvanceAfterEnd
    <3> QED BY <3>2, <3>3
  <2>6. ASSUME e.kind = "pause", paused' = e.value, UNCHANGED <<cmds, status>> PROVE Due'
    <3>1. paused' = FALSE
      BY <2>1, <2>2, <2>6 DEF Due, PausesFalse
    <3> QED BY <2>4, <2>6, <3>1 DEF Due
  <2> QED BY <1>4, <2>4, <2>5, <2>6 DEF HandleEvent, session, e
<1>5. CASE Read
  <2>1. UNCHANGED <<mpv, cmds, paused, status>>
    BY <1>5 DEF Read, session
  <2>2. PausesFalse' /\ (NoEnds => NoEnds') /\ OneEnd'
    <3>1. CASE Same
      BY <1>0, <3>1, SameEnds DEF Due
    <3>2. CASE \E k \in 1 .. Len(Events) : Less(k) /\ Events[k] = Position
      BY <1>0, <3>2, LessEnds, EventsOf DEF Due
    <3> QED BY <1>5, <3>1, <3>2, ReadDoes
  <2>3. IsLoad(1)' <=> IsLoad(1)
    BY <2>1 DEF IsLoad
  <2> QED BY <2>1, <2>2, <2>3 DEF Due
<1>6. CASE MpvLoads
  <2>1. cmds # << >> /\ cmds' = Tail(cmds) /\ UNCHANGED <<chan, paused, status>>
    BY <1>6 DEF MpvLoads, session
  <2>2. Len(cmds) = 1 /\ mpv.playing = 0 /\ NoEnds /\ status # "finished"
    BY <2>1 DEF Due
  <2>3. Emit(<< >>)
    BY <1>6, <2>2 DEF MpvLoads
  <2>4. Same
    BY <2>1, <2>3, EmitDoes, EventTypes
  <2>5. cmds' = << >>
    BY <2>1, <2>2, Types, TailOf, DomainOf
  <2>6. PausesFalse' /\ NoEnds' /\ OneEnd'
    BY <1>0, <2>2, <2>4, SameEnds DEF Due
  <2> QED BY <2>1, <2>2, <2>5, <2>6 DEF Due
<1>7. CASE MpvPauses
  <2>1. cmds # << >> /\ Head(cmds).name = "pause"
    BY <1>7 DEF MpvPauses
  <2>2. Head(cmds) = cmds[1]
    BY <2>1, Types, TailOf
  <2> QED BY <2>1, <2>2 DEF Due, IsLoad
<1>8. CASE MpvEnds
  <2>1. mpv'.playing = 0 /\ mpv.playing # 0 /\ UNCHANGED <<chan, cmds, paused, status>>
    BY <1>8 DEF MpvEnds, TypeOK, session
  <2>2. cmds = << >> /\ NoEnds /\ status # "starting" /\ status # "finished"
    BY <2>1 DEF Due, Loaded
  <2>3. PICK e \in Event : e.kind = "end" /\ Emit(<<e>>)
    <3>1. \A why : End(why, mpv.playing).kind = "end"
      BY DEF End
    <3> QED BY <1>8, <3>1, EventTypes, Types DEF MpvEnds
  <2>4. PausesFalse' /\ OneEnd'
    BY <1>0, <2>1, <2>2, <2>3, EmitDoes, MoreEnds DEF Due
  <2> QED BY <2>1, <2>2, <2>4 DEF Due
<1>9. CASE MpvTicks
  <2>1. UNCHANGED <<chan, cmds, paused, status, mpv>> /\ Emit(<<Position>>)
    BY <1>9 DEF MpvTicks, session
  <2>2. Position.kind = "position"
    BY DEF Position
  <2>3. PausesFalse' /\ (NoEnds => NoEnds') /\ OneEnd'
    BY <1>0, <2>1, <2>2, EventTypes, EmitDoes, MoreEnds DEF Due
  <2>4. IsLoad(1)' <=> IsLoad(1)
    BY <2>1 DEF IsLoad
  <2> QED BY <2>1, <2>3, <2>4 DEF Due
<1>10. CASE MpvExits
  <2>1. UNCHANGED <<chan, wire, cmds, paused, status>> /\ mpv'.playing = 0
    BY <1>10 DEF MpvExits, TypeOK, session
  <2>2. IsLoad(1)' <=> IsLoad(1)
    BY <2>1 DEF IsLoad
  <2> QED BY <1>a, <2>1, <2>2 DEF Due
<1> QED
  BY <1>1, <1>2, <1>3, <1>4, <1>5, <1>6, <1>7, <1>8, <1>9, <1>10 DEF Next, Loop, Mpv

-----------------------------------------------------------------------------
(* Left alone: in order.                                                   *)

LEMMA StepInOrder ==
  ASSUME TypeOK, Loaded, InOrder, Next, ~interactive, ~interactive'
  PROVE  InOrder'
<1>a. /\ playing \in Seq(0 .. Last0) /\ DOMAIN playing = 1 .. Len(playing)
      /\ Len(playing) = loads /\ loads \in Nat /\ cursor \in Nat
  BY Types, DomainOf DEF Loaded
<1>0. ASSUME UNCHANGED <<cursor, playing>>, status' = status \/ status' # "finished"
      PROVE  InOrder'
  BY <1>0 DEF InOrder, Prior
(* One more load, of the first track after the last one that resolves. *)
<1>b. ASSUME NEW j \in 0 .. Last0, Loads(j),
             Prior(loads + 1) < j, Prior(loads + 1) + 1 .. j - 1 \subseteq Unresolvable
      PROVE  InOrder'
  <2>1. /\ DOMAIN playing' = 1 .. loads + 1 /\ playing'[loads + 1] = j
        /\ \A n \in 1 .. loads : playing'[n] = playing[n]
        /\ status' # "finished"
    <3>1. playing' = Append(playing, j) /\ status' # "finished"
      BY <1>b DEF Loads
    <3> DEFINE S == 0 .. Last0
    <3>2. playing \in Seq(S) /\ j \in S
      BY <1>a
    <3> HIDE DEF S
    <3> QED BY <1>a, <3>1, <3>2, AppendOf
  <2>2. \A n \in 1 .. loads + 1 : Prior(n)' = Prior(n)
    BY <1>a, <2>1 DEF Prior
  <2>3. ASSUME NEW n \in 1 .. loads + 1
        PROVE  Prior(n)' < playing'[n] /\ Prior(n)' + 1 .. playing'[n] - 1 \subseteq Unresolvable
    <3>1. CASE n = loads + 1
      BY <1>b, <2>1, <2>2, <3>1
    <3>2. CASE n # loads + 1
      <4>1. n \in DOMAIN playing /\ n \in 1 .. loads
        BY <1>a, <3>2
      <4>2. Prior(n) < playing[n] /\ Prior(n) + 1 .. playing[n] - 1 \subseteq Unresolvable
        BY <4>1 DEF InOrder
      <4> QED BY <2>1, <2>2, <4>1, <4>2
    <3> QED BY <3>1, <3>2
  <2> QED BY <2>1, <2>3 DEF InOrder
(* The end, when nothing that resolves is left. *)
<1>c. ASSUME UNCHANGED playing,
             status' = "finished" => Prior(loads + 1) + 1 .. Last0 \subseteq Unresolvable
      PROVE  InOrder'
  BY <1>a, <1>c DEF InOrder, Prior
<1>1. CASE Start
  <2>1. status = "starting" /\ loads = 0
    BY <1>1 DEF Start, Loaded
  <2>2. PlayFrom(0) /\ 0 \in Nat
    BY <1>1 DEF Start
  <2>3. Prior(loads + 1) = -1
    BY <2>1 DEF Prior
  <2>4. CASE Stops /\ status' # "finished"
    BY <1>c, <2>4 DEF Stops
  <2>5. ASSUME NEW j \in 0 .. Last0, 0 .. j - 1 \subseteq Unresolvable, Loads(j) PROVE InOrder'
    <3>1. -1 < j /\ -1 + 1 .. j - 1 \subseteq Unresolvable
      BY <2>5, LastPosition
    <3> QED BY <1>b, <2>3, <2>5, <3>1
  <2> QED BY <2>1, <2>2, <2>4, <2>5, PlayFromDoes
<1>2. CASE NextKey \/ PreviousKey \/ TogglePause
  BY <1>2 DEF NextKey, PreviousKey, TogglePause, Pressed
<1>3. CASE Quit \/ Closed \/ Read \/ MpvLoads \/ MpvPauses \/ MpvEnds \/ MpvTicks \/ MpvExits
  BY <1>0, <1>3
  DEF Quit, Closed, Read, MpvLoads, MpvPauses, MpvEnds, MpvTicks, MpvExits, session
<1>4. CASE HandleEvent
  <2>1. status = "running" /\ loads > 0 /\ playing[loads] = cursor
    BY <1>4 DEF HandleEvent, Loaded
  <2>2. Prior(loads + 1) = cursor
    BY <1>a, <2>1 DEF Prior
  <2>3. ASSUME AdvanceAfterEnd, CanAdvance PROVE InOrder'
    <3>1. PlayFrom(cursor + 1) /\ cursor + 1 \in Nat
      BY <1>a, <2>3 DEF AdvanceAfterEnd
    <3>2. ASSUME Stops, status' = "finished" => cursor + 1 .. Last0 \subseteq Unresolvable
          PROVE  InOrder'
      BY <1>c, <2>2, <3>2 DEF Stops
    <3>3. ASSUME NEW j \in cursor + 1 .. Last0, cursor + 1 .. j - 1 \subseteq Unresolvable, Loads(j)
          PROVE  InOrder'
      <4>1. j \in 0 .. Last0 /\ cursor < j
        BY <1>a, LastPosition
      <4> QED BY <1>b, <2>2, <3>3, <4>1
    <3> QED BY <3>1, <3>2, <3>3, PlayFromDoes
  <2>4. ASSUME AdvanceAfterEnd, ~CanAdvance PROVE InOrder'
    <3>1. cursor + 1 .. Last0 \subseteq Unresolvable
      BY <1>a, <2>4, LastPosition DEF CanAdvance
    <3> QED BY <1>c, <2>2, <2>4, <3>1 DEF AdvanceAfterEnd
  <2> QED BY <1>0, <1>4, <2>3, <2>4 DEF HandleEvent, session
<1> QED BY <1>1, <1>2, <1>3, <1>4 DEF Next, Loop, Mpv

-----------------------------------------------------------------------------
LEMMA Flags == (PauseConverges <=> Agreed) /\ (OneAtATime <=> (~interactive => Due))
<1>1. PauseConverges <=> Agreed
  BY Converging DEF Agreed
<1>2. OneAtATime <=> (~interactive => Due)
  BY DEF OneAtATime, Due, PausesFalse, NoEnds, OneEnd
<1> QED BY <1>1, <1>2

LEMMA InitInv == ASSUME Init PROVE IInv
<1>1. TypeOK
  <2>1. /\ cmds = << >> /\ wire = <<Pause(FALSE)>> /\ chan = << >> /\ playing = << >>
        /\ mpv = [playing |-> 0, pause |-> FALSE, alive |-> TRUE]
        /\ cursor = 0 /\ loads = 0 /\ interactive \in BOOLEAN
        /\ paused = FALSE /\ status = "starting" /\ early = FALSE
    BY DEF Init
  <2>2. wire \in Seq(Event)
    <3> DEFINE e == Pause(FALSE)
    <3>1. e \in Event /\ wire = <<e>>
      BY <2>1, EventTypes
    <3> HIDE DEF e
    <3> QED BY <3>1, OneOrNone
  <2>3. cursor \in 0 .. Last0 + 1
    BY <2>1, LastPosition
  <2>4. mpv \in [playing : Nat, pause : BOOLEAN, alive : BOOLEAN]
    BY <2>1
  <2>5. Len(chan) <= Capacity
    BY <2>1, PlaybackAssumption
  <2>6. cmds \in Seq(Command) /\ chan \in Seq(Event) /\ playing \in Seq(0 .. Last0)
    BY <2>1
  <2> QED BY <2>1, <2>2, <2>3, <2>4, <2>5, <2>6 DEF TypeOK
<1>2. cmds = << >> /\ mpv.playing = 0 /\ mpv.pause = FALSE /\ loads = 0 /\ playing = << >>
      /\ status = "starting" /\ paused = FALSE
  BY DEF Init
<1>3. DOMAIN Events = {1} /\ Events[1] = Pause(FALSE) /\ Len(Events) = 1
  <2> DEFINE e == Pause(FALSE)
  <2>1. wire = <<e>> /\ chan = << >> /\ e \in Event
    BY EventTypes DEF Init
  <2> HIDE DEF e
  <2>2. Len(wire) = 1 /\ wire[1] = e /\ Len(chan) = 0
    BY <2>1, OneOrNone
  <2>3. Len(Events) = 1 /\ Events[1] = e
    <3>1. Len(Events) = 1
      BY <1>1, <2>2, EventsOf
    <3>2. 1 \in 1 .. Len(wire) /\ Len(chan) + 1 = 1
      BY <2>2
    <3>3. Events[1] = wire[1]
      BY <1>1, <3>2, EventsOf
    <3> QED BY <2>2, <3>1, <3>3
  <2> QED BY <1>1, <2>3, EventsOf DEF e
<1>4. /\ Events[1].kind = "pause" /\ Events[1].value = FALSE /\ IsPause(1)
      /\ \A i : ~IsEnd(i)
  BY <1>3 DEF Pause, IsPause, IsEnd
<1>5. LastLoad /\ Loaded /\ InOrder
  BY <1>2 DEF LastLoad, Loaded, InOrder, Prior
<1>6. Agreed
  BY <1>2, <1>3, <1>4 DEF Agreed, Told, Quiet
<1>7. Due
  BY <1>2, <1>3, <1>4 DEF Due, PausesFalse, NoEnds, OneEnd
<1> QED BY <1>1, <1>5, <1>6, <1>7, Flags DEF IInv

LEMMA NextInv == ASSUME IInv, [Next]_vars PROVE IInv'
<1>1. ASSUME Next PROVE IInv'
  <2>1. TypeOK' /\ LastLoad' /\ Loaded'
    BY <1>1, StepType, StepLoaded DEF IInv
  <2>2. PauseConverges'
    <3>1. Agreed'
      BY <1>1, <2>1, StepPause, Flags DEF IInv
    <3>2. PauseConverges' <=> Agreed'
      BY Flags, PTL
    <3> QED BY <3>1, <3>2
  <2>3. interactive' = interactive
    BY <1>1 DEF Next, Loop, Mpv, Start, HandleEvent, Closed, NextKey, PreviousKey, TogglePause,
                Quit, Read, MpvLoads, MpvPauses, MpvEnds, MpvTicks, MpvExits, session
  <2>4. OneAtATime'
    <3>1. ~interactive => Due'
      BY <1>1, <2>1, StepDue, Flags DEF IInv
    <3>2. OneAtATime' <=> (~interactive' => Due')
      BY Flags, PTL
    <3> QED BY <2>3, <3>1, <3>2
  <2>5. InOrder'
    <3>1. CASE interactive
      BY <2>3, <3>1 DEF InOrder
    <3>2. CASE ~interactive
      BY <1>1, <2>3, <3>2, StepInOrder DEF IInv
    <3> QED BY <3>1, <3>2
  <2> QED BY <2>1, <2>2, <2>4, <2>5 DEF IInv
<1>2. ASSUME UNCHANGED vars PROVE IInv'
  <2>1. /\ interactive' = interactive /\ cursor' = cursor /\ paused' = paused
        /\ status' = status /\ cmds' = cmds /\ mpv' = mpv /\ wire' = wire /\ chan' = chan
        /\ loads' = loads /\ playing' = playing /\ early' = early
    BY <1>2 DEF vars
  <2>2. Events' = Events
    BY <2>1 DEF Events
  <2> QED
    BY <2>1, <2>2
    DEF IInv, TypeOK, LastLoad, IsLoad, Loaded, PauseConverges, IsPause, OneAtATime, IsEnd,
        InOrder, Prior
<1> QED BY <1>1, <1>2

LEMMA Invariance == Spec => []IInv
BY InitInv, NextInv, PTL DEF Spec

-----------------------------------------------------------------------------
(* The playback of any playlist is well typed: in particular the channel   *)
(* of mpv events is never over its capacity.                               *)
THEOREM TypeCorrect == Spec => []TypeOK
<1>1. IInv => TypeOK
  BY DEF IInv
<1> QED BY Invariance, <1>1, PTL

(* Whatever keys are pressed and however late mpv acts and its events are  *)
(* heard: once mpv has no command to handle it plays the latest load, and  *)
(* that was for the track under the cursor.                                *)
THEOREM CursorPlays == Spec => []PlaysTheCursor
<1>1. IInv => PlaysTheCursor
  <2>1. SUFFICES ASSUME IInv, status = "running", cmds = << >>, mpv.playing # 0
                 PROVE  mpv.playing = loads /\ playing[mpv.playing] = cursor
    BY DEF PlaysTheCursor
  <2>2. mpv.playing = loads
    BY <2>1 DEF IInv, LastLoad
  <2> QED BY <2>1, <2>2 DEF IInv, Loaded
<1> QED BY Invariance, <1>1, PTL

(* The pause flags of the session and of mpv come together again.          *)
THEOREM PauseAgrees == Spec => []PauseConverges
<1>1. IInv => PauseConverges
  BY DEF IInv
<1> QED BY Invariance, <1>1, PTL

(* Left alone, rsc does not end the playback while a track plays or is on  *)
(* its way to mpv.                                                         *)
THEOREM NothingIsCutOff == Spec => []NothingCutOff
<1>1. IInv => NothingCutOff
  BY Flags DEF IInv, Due, NothingCutOff
<1> QED BY Invariance, <1>1, PTL

(* Left alone, the tracks that resolve are loaded in the order of the      *)
(* playlist, each once, from its beginning to its end.                     *)
THEOREM OrderKept == Spec => []InOrder
<1>1. IInv => InOrder
  BY DEF IInv
<1> QED BY Invariance, <1>1, PTL
=============================================================================
