----------------------------- MODULE Transport -----------------------------
(***************************************************************************)
(* What a transport promises to whoever observes it (the conformance rules *)
(* of itransport.h:40-57): the abstract specification that KomportSerial   *)
(* implements and that LiveSession takes for granted of its transport.     *)
(*                                                                         *)
(* A step emits a short sequence of observations; an observation is its    *)
(* signal, the activation id it carries and, for an error, its kind.       *)
(***************************************************************************)
EXTENDS Integers, Sequences

VARIABLES
  live,       \* the live activation, 0 for none
  attempts,   \* how many opens were tried: each one has its number as id
  emitted     \* the observations of the latest step

vars == <<live, attempts, emitted>>

Observation(signal, id, kind) == [signal |-> signal, act |-> id, kind |-> kind]

Opened(id) == Observation("opened", id, "")
Closed(id) == Observation("closed", id, "")
OpenFailed(id) == Observation("transportError", id, "open")

\* What may be said of an activation between its opening and its closing.
Reports(id) ==
  {Observation(signal, id, "") :
     signal \in {"bytesReceived", "bytesWritten", "configurationChanged"}}
    \cup {Observation("transportError", id, kind) : kind \in {"apply", "write", "runtime"}}

\* A new attempt ends the activation that is live, as a boundary of its own.
Ending == IF live = 0 THEN <<>> ELSE <<Closed(live)>>

Init ==
  /\ live = 0
  /\ attempts = 0
  /\ emitted = <<>>

Open ==
  /\ attempts' = attempts + 1
  /\ live' = attempts'
  /\ emitted' = Ending \o <<Opened(attempts')>>

\* A failed attempt uses up its id and is reported once, on that id.
FailToOpen ==
  /\ attempts' = attempts + 1
  /\ live' = 0
  /\ emitted' = Ending \o <<OpenFailed(attempts')>>

Close ==
  /\ live' = 0
  /\ emitted' = Ending
  /\ UNCHANGED attempts

\* Nothing is said but of the live activation.
Report ==
  /\ emitted' \in Seq(Reports(live))
  /\ live = 0 => emitted' = <<>>
  /\ UNCHANGED <<live, attempts>>

Next == Open \/ FailToOpen \/ Close \/ Report

Spec == Init /\ [][Next]_vars
=============================================================================
