---------------------------- MODULE SessionFile ----------------------------
(***************************************************************************)
(* What a reader of a .kpsession file may rely on: the abstract            *)
(* specification that SessionRecorder implements.  A file is a header and  *)
(* an append-only run of records of consecutive events; once a write has   *)
(* failed nothing follows, so what is readable is always a gapless prefix  *)
(* of what the session emitted since the file was started.                 *)
(***************************************************************************)
EXTENDS Integers, Sequences, SequencesExt

CONSTANTS
  HeaderStates,     \* what can be left of a header: none of it, a part, all
  CompleteHeader    \* the one of them a reader accepts

VARIABLES
  header,
  anchor,     \* the header's clock reference
  records,    \* sequence numbers of the events the file holds completely
  torn,       \* the last write left a part of a record behind
  writable    \* more records may follow

vars == <<header, anchor, records, torn, writable>>

Follows(n) == records # <<>> => n = Last(records) + 1

Init ==
  /\ header \in HeaderStates
  /\ records = <<>>
  /\ ~torn
  /\ ~writable

\* A new file replaces the old one; its header is complete from the start.
StartFile ==
  /\ header' = CompleteHeader
  /\ records' = <<>>
  /\ ~torn'
  /\ writable'

\* A start that fails may leave an unusable file, but never a recording.
FailToStart ==
  /\ header' \in HeaderStates
  /\ records' = <<>>
  /\ ~torn'
  /\ ~writable'

AppendRecord ==
  /\ writable
  /\ records' # <<>>
  /\ records = Front(records')
  /\ Follows(Last(records'))
  /\ UNCHANGED <<header, anchor, torn, writable>>

\* The end: by a stop, or by a failure that may leave a part of a record.
End ==
  /\ writable
  /\ ~writable'
  /\ torn' \in BOOLEAN
  /\ UNCHANGED <<header, anchor, records>>

Next ==
  \/ ~writable /\ (StartFile \/ FailToStart)
  \/ AppendRecord
  \/ End

Spec == Init /\ [][Next]_vars
=============================================================================
