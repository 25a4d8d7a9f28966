----------------------------- MODULE TokenFile -----------------------------
(***************************************************************************)
(* What TokenStore promises: the token file is a register that is replaced *)
(* as a whole.  Readers see the old value or the new one, and a power loss *)
(* brings back a value the file has had, never a fragment of one.  It      *)
(* brings back nothing, once something has been persisted, only as long as *)
(* the directory of the file is so new that its own name is not on disk.   *)
(***************************************************************************)
CONSTANTS Tokens,   \* the values that can be saved
          None      \* no token file

VARIABLES visible,  \* what a reader gets now
          durable,  \* what the directory on disk has
          kept      \* is the directory's own name on disk?

fileVars == <<visible, durable, kept>>

Init == visible = None /\ durable = None /\ kept \in BOOLEAN

(* A save makes its value visible. *)
Publish(t) == visible' = t /\ durable' = durable /\ kept' = kept

(* What is visible reaches the disk. *)
Persist == durable' = visible /\ visible' = visible /\ kept' = kept

(* The directory's name reaches the disk. *)
Keep == kept' = TRUE /\ UNCHANGED <<visible, durable>>

(* Power loss: back to what the disk has. *)
Revert ==
  /\ durable' = IF kept THEN durable ELSE None
  /\ visible' = durable'
  /\ kept' = kept

Next == (\E t \in Tokens : Publish(t)) \/ Persist \/ Keep \/ Revert

Spec == Init /\ [][Next]_fileVars
=============================================================================
