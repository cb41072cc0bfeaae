--------------------------- MODULE SessionStream ---------------------------
(***************************************************************************)
(* What a session promises to every consumer of its event stream: the      *)
(* abstract specification that SessionController implements.  The only     *)
(* state is the stream emitted so far; nothing is said of queues, nested   *)
(* deliveries or the activation filter's variables.                        *)
(*                                                                         *)
(* An event carries two fields the C++ struct does not have: `act`, the    *)
(* activation its observation named, and `derived`, TRUE for a diagnostic  *)
(* the controller made itself.                                             *)
(***************************************************************************)
EXTENDS Integers, Sequences, SequencesExt

VARIABLE stream

Opened == "TransportOpened"
Closed == "TransportClosed"
Error  == "Error"

Observed(s) == {i \in DOMAIN s : ~s[i].derived}

\* The activation that is live at the end of s; 0 when there is none.
LiveActivation(s) ==
  LET boundaries == {i \in Observed(s) : s[i].type \in {Opened, Closed}}
      latest     == CHOOSE i \in boundaries : \A j \in boundaries : j <= i
  IN  IF boundaries = {} \/ s[latest].type = Closed THEN 0 ELSE s[latest].act

\* Every attempt id s has given away, to a success or to a failure.
UsedAttempts(s) == {s[i].act : i \in Observed(s)}

\* The session time of the last observation in s.
LastTime(s) ==
  LET latest == CHOOSE i \in Observed(s) : \A j \in Observed(s) : j <= i
  IN  s[latest].timestampNs

\* The observations whose source time ran behind the session.
Anomalous(s) ==
  {i \in Observed(s) :
     s[i].sourceTimestampNs - s[1].sourceTimestampNs < s[i].timestampNs}

-----------------------------------------------------------------------------
(* What may be appended to s.                                              *)

\* An attempt id opens at most once, and never after it failed.
MayOpen(s, e) == /\ e.type = Opened
                 /\ \A a \in UsedAttempts(s) : a < e.act
                 /\ e.act > 0

\* A failed open reports itself once, on an id nobody has seen.
MayFailToOpen(s, e) == /\ e.type = Error
                       /\ \A a \in UsedAttempts(s) : a < e.act
                       /\ e.act > 0

\* Everything else belongs to the activation that is live.
BelongsToLive(s, e) == /\ e.type # Opened
                       /\ e.act = LiveActivation(s)
                       /\ e.act # 0

\* The anchor is at 0; afterwards max(last, source - anchor).
TimeIsMapped(s, e) ==
  e.timestampNs =
    IF s = <<>> THEN 0
    ELSE LET raw == e.sourceTimestampNs - s[1].sourceTimestampNs
         IN  IF raw < LastTime(s) THEN LastTime(s) ELSE raw

IsObservation(s, e) ==
  /\ ~e.derived
  /\ MayOpen(s, e) \/ MayFailToOpen(s, e) \/ BelongsToLive(s, e)
  /\ TimeIsMapped(s, e)

\* Diagnostics answer the anomalies one for one, in their order, and carry the
\* times of the event they are about.
IsDiagnostic(s, e) ==
  /\ e.derived
  /\ e.type = Error
  /\ LET answered == {i \in DOMAIN s : s[i].derived}
         open     == {i \in Anomalous(s) :
                        Cardinality({j \in Anomalous(s) : j <= i})
                          > Cardinality(answered)}
     IN  \E i \in open :
           /\ \A j \in open : i <= j
           /\ e.timestampNs = s[i].timestampNs
           /\ e.sourceTimestampNs = s[i].sourceTimestampNs

-----------------------------------------------------------------------------
Init == stream = <<>>

Emit == /\ stream' # <<>>
        /\ stream = Front(stream')
        /\ LET e == Last(stream')
           IN  /\ e.sequence = Len(stream')
               /\ IsObservation(stream, e) \/ IsDiagnostic(stream, e)

Spec == Init /\ [][Emit]_stream
=============================================================================
