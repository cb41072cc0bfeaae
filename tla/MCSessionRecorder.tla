------------------------- MODULE MCSessionRecorder -------------------------
(* SessionRecorder with a small session.                                   *)
EXTENDS SessionRecorder

\* Two anchors: a later recording may belong to another reference.
MCAnchors == 0 .. 1
=============================================================================
