----------------------------- MODULE MCPlayback -----------------------------
(* Model-checking instances of Playback. *)
EXTENDS Playback

(* A queue of four, the blocked track dropped. *)
FiveTracks == <<"playable", "blocked", "playable", "preview", "playable">>

(* A shorter one to show how a track is skipped early. *)
FourTracks == <<"playable", "blocked", "preview", "playable">>
=============================================================================
