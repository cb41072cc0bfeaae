------------------------ MODULE MCSessionController ------------------------
(* SessionController on a small transport.                                 *)
EXTENDS SessionController

\* Two attempts, so that a stale id of the first can meet the second.
MCActivationIds == 1 .. 2

\* Three instants: an anomaly needs a time below the last one above the anchor.
MCSourceTimes == 0 .. 2
=============================================================================
