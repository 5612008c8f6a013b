------------------------------- MODULE MCChat -------------------------------
(* Small instances of Chat for TLC. *)
EXTENDS Chat

CONSTANTS s1, s2

OneStream  == {s1}
TwoStreams == {s1, s2}
=============================================================================
