-------------------------- MODULE LifecycleProofs --------------------------
(***************************************************************************)
(* Nothing is left behind, for a socket of any size: the invariants of     *)
(* Lifecycle.                                                              *)
(***************************************************************************)
EXTENDS Lifecycle, TLAPS

Before == {"library", "register", "spawn"}
Closing == {"quit", "wait", "remove", "exited"}

(* There is a child exactly from `spawn' on, and a socket only where there *)
(* has been a child. *)
ChildInv ==
  /\ pc \in Before => child = "none"
  /\ pc \notin Before \cup {"exited"} => child # "none"
  /\ socket => child # "none"

(* Raw mode belongs to the scope of `run'. *)
RawInv == raw => pc \in {"start", "loop", "act", "send", "unpause"}

(* What each way out has cleaned up. *)
OutInv ==
  /\ outcome # "none" => pc \in Closing
  /\ outcome = "killed" => pc = "exited" /\ child = "none"
  /\ pc = "remove" => child = "dead"
  /\ pc = "exited" => /\ child \in {"none", "dead"}
                      /\ outcome # "no player" => ~socket

IInv == TypeOK /\ ChildInv /\ RawInv /\ OutInv

-----------------------------------------------------------------------------
LEMMA NoneUnread == 0 \in 0 .. Buffer /\ 0 \in 0 .. Backlog
BY LifecycleAssumption

LEMMA InitInv == Init => IInv
<1> SUFFICES ASSUME Init PROVE IInv
  OBVIOUS
<1>1. TypeOK
  BY NoneUnread, Zenon DEF Init, TypeOK
<1>2. ChildInv /\ RawInv /\ OutInv
  BY DEF Init, ChildInv, RawInv, OutInv, Before, Closing
<1> QED BY <1>1, <1>2 DEF IInv

(* The parts of an action that say what they change. *)
USE DEF Go, End, DropChild, DropPlayer, Leave, Broken, Mpv, Outside, Exited, Alive

(* The type invariant, in two parts that different provers are good at.    *)
Control ==
  /\ pc \in {"library", "register", "spawn", "connect", "retry", "observe",
             "enter", "start", "loop", "act", "send", "unpause", "quit", "wait", "remove", "exited"}
  /\ outcome \in {"none", "killed", "no player", "error", "ok", "panic"}
  /\ child \in {"none", "starting", "up", "hung", "dead"}
  /\ unread \in 0 .. Buffer /\ reports \in 0 .. Backlog
Flags ==
  /\ interactive \in BOOLEAN /\ raw \in BOOLEAN /\ told \in BOOLEAN
  /\ socket \in BOOLEAN /\ late \in BOOLEAN

LEMMA WriteType ==
  ASSUME Control, Write
  PROVE  unread' \in 0 .. Buffer
<1>1. unread \in 0 .. Buffer /\ Buffer \in Nat
  BY LifecycleAssumption DEF Control
<1> QED BY <1>1 DEF Write

LEMMA ReportsType ==
  ASSUME Control, EventTurn \/ MpvReports
  PROVE  reports' \in 0 .. Backlog
<1>1. reports \in 0 .. Backlog /\ Backlog \in Nat
  BY LifecycleAssumption DEF Control
<1>2. CASE reports > 0 /\ reports' = reports - 1
  BY <1>1, <1>2
<1>3. CASE reports < Backlog /\ reports' = reports + 1
  BY <1>1, <1>3
<1> QED BY <1>2, <1>3 DEF EventTurn, MpvReports

LEMMA StepControl ==
  ASSUME Control, Next
  PROVE  Control'
<1> USE DEF Control
<1>1. CASE Library BY <1>1 DEF Library
<1>2. CASE Register BY <1>2 DEF Register
<1>3. CASE Spawn BY <1>3 DEF Spawn
<1>4. CASE Connect BY <1>4 DEF Connect
<1>5. CASE Retry BY <1>5 DEF Retry
<1>6. CASE Observe BY <1>6, WriteType DEF Observe
<1>7. CASE Enter BY <1>7 DEF Enter
<1>8. CASE Start BY <1>8 DEF Start
<1>9. CASE Act BY <1>9 DEF Act
<1>10. CASE Closed BY <1>10 DEF Closed
<1>11. CASE Signalled BY <1>11 DEF Signalled
<1>12. CASE QuitKey BY <1>12 DEF QuitKey
<1>13. CASE Quit BY <1>13, WriteType DEF Quit
<1>14. CASE Wait BY <1>14 DEF Wait
<1>15. CASE Remove BY <1>15 DEF Remove
<1>16. CASE EventTurn BY <1>16, ReportsType DEF EventTurn
<1>17. CASE Panic BY <1>17 DEF Panic
<1>18. CASE Signal BY <1>18 DEF Signal
<1>19. CASE Timer BY <1>19 DEF Timer
<1>20. CASE MpvListens BY <1>20 DEF MpvListens
<1>21. CASE MpvExits BY <1>21 DEF MpvExits
<1>22. CASE MpvHangs BY <1>22 DEF MpvHangs
<1>23. CASE MpvResumes BY <1>23, NoneUnread DEF MpvResumes
<1>24. CASE KeyTurn BY <1>24 DEF KeyTurn
<1>25. CASE Send BY <1>25, WriteType DEF Send
<1>26. CASE MpvReports BY <1>26, ReportsType DEF MpvReports
<1> QED
  BY <1>1, <1>2, <1>3, <1>4, <1>5, <1>6, <1>7, <1>8, <1>9, <1>10,
     <1>11, <1>12, <1>13, <1>14, <1>15, <1>16, <1>17, <1>18, <1>19,
     <1>20, <1>21, <1>22, <1>23, <1>24, <1>25, <1>26 DEF Next, Program

LEMMA StepFlags ==
  ASSUME Flags, Next
  PROVE  Flags'
<1> USE DEF Flags
<1>1. CASE Library BY <1>1, Zenon DEF Library
<1>2. CASE Register BY <1>2, Zenon DEF Register
<1>3. CASE Spawn BY <1>3, Zenon DEF Spawn
<1>4. CASE Connect BY <1>4, Zenon DEF Connect
<1>5. CASE Retry BY <1>5, Zenon DEF Retry
<1>6. CASE Observe BY <1>6, Zenon DEF Observe
<1>7. CASE Enter BY <1>7, Zenon DEF Enter
<1>8. CASE Start BY <1>8, Zenon DEF Start
<1>9. CASE Act BY <1>9, Zenon DEF Act
<1>10. CASE Closed BY <1>10, Zenon DEF Closed
<1>11. CASE Signalled BY <1>11, Zenon DEF Signalled
<1>12. CASE QuitKey BY <1>12, Zenon DEF QuitKey
<1>13. CASE Quit BY <1>13, Zenon DEF Quit
<1>14. CASE Wait BY <1>14, Zenon DEF Wait
<1>15. CASE Remove BY <1>15, Zenon DEF Remove
<1>16. CASE EventTurn BY <1>16, Zenon DEF EventTurn
<1>17. CASE Panic BY <1>17, Zenon DEF Panic
<1>18. CASE Signal BY <1>18, Zenon DEF Signal
<1>19. CASE Timer BY <1>19, Zenon DEF Timer
<1>20. CASE MpvListens BY <1>20, Zenon DEF MpvListens
<1>21. CASE MpvExits BY <1>21, Zenon DEF MpvExits
<1>22. CASE MpvHangs BY <1>22, Zenon DEF MpvHangs
<1>23. CASE MpvResumes BY <1>23, Zenon DEF MpvResumes
<1>24. CASE KeyTurn BY <1>24, Zenon DEF KeyTurn
<1>25. CASE Send BY <1>25, Zenon DEF Send
<1>26. CASE MpvReports BY <1>26, Zenon DEF MpvReports
<1> QED
  BY <1>1, <1>2, <1>3, <1>4, <1>5, <1>6, <1>7, <1>8, <1>9, <1>10,
     <1>11, <1>12, <1>13, <1>14, <1>15, <1>16, <1>17, <1>18, <1>19,
     <1>20, <1>21, <1>22, <1>23, <1>24, <1>25, <1>26 DEF Next, Program

LEMMA StepClean ==
  ASSUME IInv, Next
  PROVE  ChildInv' /\ RawInv' /\ OutInv'
<1> USE DEF IInv, TypeOK, ChildInv, RawInv, OutInv, Before, Closing
<1>1. CASE Library BY <1>1 DEF Library
<1>2. CASE Register BY <1>2 DEF Register
<1>3. CASE Spawn BY <1>3 DEF Spawn
<1>4. CASE Connect BY <1>4 DEF Connect
<1>5. CASE Retry BY <1>5 DEF Retry
<1>6. CASE Observe BY <1>6 DEF Observe
<1>7. CASE Enter BY <1>7 DEF Enter
<1>8. CASE Start BY <1>8 DEF Start
<1>9. CASE Act BY <1>9 DEF Act
<1>10. CASE Closed BY <1>10 DEF Closed
<1>11. CASE Signalled BY <1>11 DEF Signalled
<1>12. CASE QuitKey BY <1>12 DEF QuitKey
<1>13. CASE Quit BY <1>13 DEF Quit
<1>14. CASE Wait BY <1>14 DEF Wait
<1>15. CASE Remove BY <1>15 DEF Remove
<1>16. CASE EventTurn BY <1>16 DEF EventTurn
<1>17. CASE Panic BY <1>17 DEF Panic
<1>18. CASE Signal BY <1>18 DEF Signal
<1>19. CASE Timer BY <1>19 DEF Timer
<1>20. CASE MpvListens BY <1>20 DEF MpvListens
<1>21. CASE MpvExits BY <1>21 DEF MpvExits
<1>22. CASE MpvHangs BY <1>22 DEF MpvHangs
<1>23. CASE MpvResumes BY <1>23 DEF MpvResumes
<1>24. CASE KeyTurn BY <1>24 DEF KeyTurn
<1>25. CASE Send BY <1>25 DEF Send
<1>26. CASE MpvReports BY <1>26 DEF MpvReports
<1> QED
  BY <1>1, <1>2, <1>3, <1>4, <1>5, <1>6, <1>7, <1>8, <1>9, <1>10,
     <1>11, <1>12, <1>13, <1>14, <1>15, <1>16, <1>17, <1>18, <1>19,
     <1>20, <1>21, <1>22, <1>23, <1>24, <1>25, <1>26 DEF Next, Program

LEMMA NextInv == IInv /\ [Next]_vars => IInv'
<1> SUFFICES ASSUME IInv, [Next]_vars PROVE IInv'
  OBVIOUS
<1>1. Control /\ Flags
  BY Zenon DEF IInv, TypeOK, Control, Flags
<1>2. CASE Next
  <2>1. Control' /\ Flags' BY <1>1, <1>2, StepControl, StepFlags
  <2>2. TypeOK' BY <2>1, Zenon DEF TypeOK, Control, Flags
  <2>3. ChildInv' /\ RawInv' /\ OutInv' BY <1>2, StepClean
  <2> QED BY <2>2, <2>3 DEF IInv
<1>3. CASE UNCHANGED vars
  <2>1. TypeOK'
    <3>1. Control' BY <1>1, <1>3 DEF vars, Control
    <3>2. /\ interactive' = interactive /\ raw' = raw /\ told' = told
          /\ socket' = socket /\ late' = late
      BY <1>3 DEF vars
    <3>3. Flags' BY <1>1, <3>2, Zenon DEF Flags
    <3> QED BY <3>1, <3>3, Zenon DEF TypeOK, Control, Flags
  <2>2. ChildInv' /\ RawInv' /\ OutInv'
    BY <1>3, Zenon DEF vars, IInv, ChildInv, RawInv, OutInv
  <2> QED BY <2>1, <2>2 DEF IInv
<1> QED BY <1>2, <1>3

LEMMA Invariance == Spec => []IInv
BY InitInv, NextInv, PTL DEF Spec

-----------------------------------------------------------------------------
(* The state of the program stays within its types.                        *)
THEOREM TypeCorrect == Spec => []TypeOK
<1>1. IInv => TypeOK BY DEF IInv
<1> QED BY <1>1, Invariance, PTL

(* However rsc play ends, by a key, a signal, an error or a panic, mpv is  *)
(* not left running and the terminal is not left in raw mode; and once     *)
(* there has been a player, its socket is removed.                         *)
THEOREM CleanExit == Spec => []NothingLeft
<1>1. IInv => NothingLeft
  BY DEF IInv, TypeOK, RawInv, OutInv, NothingLeft
<1> QED BY <1>1, Invariance, PTL

(* A signal that still has its default action finds no mpv to orphan and   *)
(* no terminal to restore.                                                 *)
THEOREM HandlersInTime == Spec => []KilledEarly
<1>1. IInv => KilledEarly
  BY DEF IInv, RawInv, OutInv, KilledEarly
<1> QED BY <1>1, Invariance, PTL
=============================================================================
