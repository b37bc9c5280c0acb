-------------------------- MODULE MCPlaybackQueue ---------------------------
(* The instances of PlaybackQueue that TLC checks. *)
EXTENDS PlaybackQueue

CONSTANTS c1, c2, h1

=============================================================================
