--------------------------- MODULE MCLiveSession ---------------------------
(* LiveSession on a small session.                                         *)
EXTENDS LiveSession

\* Two attempts: a recording may span a reopen, and one may fail.
MCActivationIds == 1 .. 2

\* Two instants are enough for an anomaly: an event at the second, then one at
\* the first.
MCSourceTimes == 0 .. 1
=============================================================================
