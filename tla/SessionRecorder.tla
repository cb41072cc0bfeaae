-------------------------- MODULE SessionRecorder --------------------------
(***************************************************************************)
(* komport/sessionrecorder.cpp: one recording at a time of the session's   *)
(* events, appended to a file as they are emitted, flushed by a one-shot   *)
(* timer that the first unflushed write arms.                              *)
(*                                                                         *)
(* The three seams of sessionrecorderseams.h are external: a sink that may *)
(* refuse, shorten or fail any call, a scheduler that keeps one pending    *)
(* callback, and a monotonic clock.  A unit written (header or record) is  *)
(* UnitBytes long and its payload is the event's sequence number.  Left    *)
(* out: the path (one sink has one file at a time), the wording of reasons,*)
(* and mLastSessionTimestampNs, which the code writes and never reads.     *)
(***************************************************************************)
EXTENDS Integers, Sequences, SequencesExt

CONSTANTS
  Anchors,         \* source times the clock domain may be anchored at
  FlushInterval,   \* kFlushIntervalMs, in ticks of the clock
  MaxTime,         \* bound on the clock
  MaxEvents        \* bound on the events the session emits

ASSUME AnchorsAssumption  == Anchors \subseteq Nat
ASSUME IntervalAssumption == FlushInterval \in Nat
ASSUME BoundsAssumption   == MaxTime \in Nat /\ MaxEvents \in Nat

VARIABLES
  mState,              \* "Stopped", "Live" or "Damaged"
  mFileOpen,
  mFlushPending,
  mRecords,
  mBytes,
  mStartNs,
  mEndNs,
  mRecordingStarted,
  mLastReport,
  alive,            \* the recorder object exists
  scheduled,        \* the scheduler: the due instants of its pending callback
  file,             \* the sink: what it has accepted
  unflushedSince,   \* the sink: since when its buffer has held something
  now,              \* the clock
  observed          \* the controller: sequence number of its latest event

measureVars == <<mRecords, mBytes, mStartNs, mEndNs, mRecordingStarted>>
sinkVars    == <<file, unflushedSince>>
vars == <<mState, mFileOpen, mFlushPending, measureVars, mLastReport, alive,
          scheduled, sinkVars, now, observed>>

UnitBytes == 2
None == {}

\* What QFile::write may return for a unit: an error, a part, or all of it.
Accepted == -1 .. UnitBytes

Reasons == {"", "no session data", "unencodable", "incomplete", "unflushed"}

EmptyReport ==
  [records |-> 0, bytes |-> 0, durationNs |-> 0, damaged |-> FALSE, reason |-> ""]

EmptyFile == [header |-> 0, anchor |-> 0, records |-> <<>>, tail |-> 0]

FileBytes == file.header + UnitBytes * Len(file.records) + file.tail

Init ==
  /\ mState = "Stopped"
  /\ mFileOpen = FALSE
  /\ mFlushPending = FALSE
  /\ mRecords = 0
  /\ mBytes = 0
  /\ mStartNs = 0
  /\ mEndNs = 0
  /\ mRecordingStarted = FALSE
  /\ mLastReport = EmptyReport
  /\ alive = TRUE
  /\ scheduled = None
  /\ file = EmptyFile
  /\ unflushedSince = None
  /\ now = 0
  /\ observed = 0

-----------------------------------------------------------------------------
(* Reports.                                                                *)

\* Mutant: the error code of a failed write is counted as bytes.
AsReturned(n) == n

AtLeastZero(n) == IF n < 0 THEN 0 ELSE n

\* Mutant: a damaged recording is measured until it is stopped.
DurationToNow == IF mRecordingStarted THEN AtLeastZero(now - mStartNs) ELSE 0

DurationNs ==
  LET end == IF mState = "Damaged" THEN mEndNs ELSE now
  IN  IF mRecordingStarted THEN AtLeastZero(end - mStartNs) ELSE 0

\* The report of stop(); the flush is tried only on an undamaged file.
FinalReport(flushes) ==
  LET damaged == mState = "Damaged"
  IN  [records |-> mRecords, bytes |-> mBytes, durationNs |-> DurationNs,
       damaged |-> damaged \/ ~flushes,
       reason |-> CASE damaged -> mLastReport.reason
                    [] ~damaged /\ ~flushes -> "unflushed"
                    [] ~damaged /\ flushes /\ mRecords = 0 -> "no session data"
                    [] OTHER -> ""]

-----------------------------------------------------------------------------
(* start() and stop().                                                     *)

\* clearRecordingState()
ClearRecordingState ==
  /\ mRecords' = 0
  /\ mBytes' = 0
  /\ mStartNs' = 0
  /\ mEndNs' = 0
  /\ mRecordingStarted' = FALSE
  /\ mFlushPending' = FALSE

Stop(flushes) ==
  /\ alive
  /\ mState # "Stopped"
  /\ mLastReport' = FinalReport(flushes)
  /\ mState' = "Stopped"
  /\ mFileOpen' = FALSE
  /\ scheduled' = None
  /\ unflushedSince' = None
  /\ ClearRecordingState
  /\ UNCHANGED <<alive, file, now, observed>>

\* A damaged recording is finalised by the next start; its report is kept.
FinaliseDamaged ==
  mLastReport' = IF mState = "Damaged" THEN FinalReport(TRUE) ELSE mLastReport

NewFile(header, anchor) ==
  [header |-> header, anchor |-> anchor, records |-> <<>>, tail |-> 0]

\* Refused before the target is touched: the session is not live, has no
\* anchor, the header does not encode, or the target does not open.
StartRefused ==
  /\ alive
  /\ mState # "Live"
  /\ FinaliseDamaged
  /\ mState' = "Stopped"
  /\ mFileOpen' = FALSE
  /\ scheduled' = None
  /\ unflushedSince' = None
  /\ ClearRecordingState
  /\ UNCHANGED <<alive, file, now, observed>>

\* Mutant: a header that was cut short is good enough.
AnyHeader(accepted) == accepted > 0

IsComplete(accepted) == accepted = UnitBytes

\* Refused after the target was opened: the header is not all there, or its
\* flush failed.  There is no recording to damage yet.
StartFails(anchor, accepted, flushes) ==
  /\ alive
  /\ mState # "Live"
  /\ ~(IsComplete(accepted) /\ flushes)
  /\ FinaliseDamaged
  /\ mState' = "Stopped"
  /\ mFileOpen' = FALSE
  /\ scheduled' = None
  /\ unflushedSince' = None
  /\ file' = NewFile(AtLeastZero(accepted), anchor)
  /\ ClearRecordingState
  /\ UNCHANGED <<alive, now, observed>>

StartSucceeds(anchor, accepted) ==
  /\ alive
  /\ mState # "Live"
  /\ IsComplete(accepted)
  /\ FinaliseDamaged
  /\ mState' = "Live"
  /\ mFileOpen' = TRUE
  /\ mRecords' = 0
  /\ mBytes' = UnitBytes
  /\ mFlushPending' = FALSE
  /\ mEndNs' = 0
  /\ mStartNs' = now
  /\ mRecordingStarted' = TRUE
  /\ scheduled' = None
  /\ file' = NewFile(AtLeastZero(accepted), anchor)
  /\ unflushedSince' = None
  /\ UNCHANGED <<alive, now, observed>>

\* start() while the controller's state and reference are as given.
Start(sessionIsLive, anchorIsValid, anchor) ==
  \/ StartRefused
  \/ /\ sessionIsLive
     /\ anchorIsValid
     /\ \E accepted \in Accepted :
          \/ StartSucceeds(anchor, accepted)
          \/ \E flushes \in BOOLEAN : StartFails(anchor, accepted, flushes)

-----------------------------------------------------------------------------
(* Recording.                                                              *)

\* endDamaged(): the file stays open until stop() and is not flushed again.
EndDamaged(bytes, reason) ==
  /\ mState' = "Damaged"
  /\ scheduled' = None
  /\ mFlushPending' = FALSE
  /\ mEndNs' = now
  /\ mLastReport' = [records |-> mRecords, bytes |-> bytes, durationNs |-> DurationNs,
                     damaged |-> TRUE, reason |-> reason]
  /\ UNCHANGED <<mRecords, mStartNs, mRecordingStarted, mFileOpen>>

\* Mutant: every write pushes the flush back by a whole interval.
ArmAlways ==
  /\ mFlushPending' = TRUE
  /\ scheduled' = {now + FlushInterval}

\* armFlush(): only the first unflushed write arms the timer.
ArmFlush ==
  IF mFlushPending
  THEN UNCHANGED <<mFlushPending, scheduled>>
  ELSE /\ mFlushPending' = TRUE
       /\ scheduled' = {now + FlushInterval}

\* Mutant: a damaged recording goes on writing.
IsOpenForWriting == mState # "Stopped"

\* Mutant: what arrives while a flush is pending is skipped.
IsRecordingWhenFlushed == mState = "Live" /\ ~mFlushPending

IsRecording == mState = "Live"

RecordUnencodable ==
  /\ EndDamaged(mBytes, "unencodable")
  /\ UNCHANGED <<mBytes, sinkVars>>

\* Mutant: only complete units are counted.
BytesIfComplete(accepted) == IF IsComplete(accepted) THEN accepted ELSE 0

\* writeUnit(): an error counts as nothing accepted.
BytesWritten(accepted) == AtLeastZero(accepted)

RecordCutShort(accepted) ==
  /\ ~IsComplete(accepted)
  /\ mBytes' = mBytes + BytesWritten(accepted)
  /\ EndDamaged(mBytes', "incomplete")
  /\ file' = [file EXCEPT !.tail = AtLeastZero(accepted)]
  /\ UNCHANGED unflushedSince

RecordWritten(sequence, accepted) ==
  /\ IsComplete(accepted)
  /\ mBytes' = mBytes + BytesWritten(accepted)
  /\ mRecords' = mRecords + 1
  /\ file' = [file EXCEPT !.records = Append(@, sequence)]
  /\ unflushedSince' = IF unflushedSince = None THEN {now} ELSE unflushedSince
  /\ ArmFlush
  /\ UNCHANGED <<mState, mFileOpen, mStartNs, mEndNs, mRecordingStarted, mLastReport>>

\* The session emits its next event; the recorder's slot runs at once.
OnEventObserved ==
  /\ observed < MaxEvents
  /\ observed' = observed + 1
  /\ UNCHANGED <<alive, now>>
  /\ IF alive /\ IsRecording
     THEN \/ RecordUnencodable
          \/ \E accepted \in Accepted :
               RecordCutShort(accepted) \/ RecordWritten(observed + 1, accepted)
     ELSE UNCHANGED <<mState, mFileOpen, mFlushPending, measureVars, mLastReport,
                      scheduled, sinkVars>>

\* The scheduled callback, onFlushTimer(); the scheduler forgets it first.
OnFlushTimer(flushes) ==
  /\ alive
  /\ \E due \in scheduled : due <= now
  /\ IF mState # "Live"
     THEN /\ mFlushPending' = FALSE
          /\ scheduled' = None
          /\ UNCHANGED <<mState, measureVars, mFileOpen, mLastReport, unflushedSince>>
     ELSE IF flushes
     THEN /\ mFlushPending' = FALSE
          /\ scheduled' = None
          /\ unflushedSince' = None
          /\ UNCHANGED <<mState, measureVars, mFileOpen, mLastReport>>
     ELSE /\ EndDamaged(mBytes, "unflushed")
          /\ UNCHANGED <<mBytes, unflushedSince>>
  /\ UNCHANGED <<alive, file, now, observed>>

\* ~SessionRecorder(): flush and close what is open, report nothing.
Destroy ==
  /\ alive
  /\ alive' = FALSE
  /\ scheduled' = None
  /\ mFileOpen' = FALSE
  /\ unflushedSince' = IF mFileOpen THEN None ELSE unflushedSince
  /\ UNCHANGED <<mState, mFlushPending, measureVars, mLastReport, file, now, observed>>

\* Time passes while the event loop is idle: a due timer is served first.
Tick ==
  /\ now < MaxTime
  /\ \A due \in scheduled : now < due
  /\ now' = now + 1
  /\ UNCHANGED <<mState, mFileOpen, mFlushPending, measureVars, mLastReport, alive,
                 scheduled, sinkVars, observed>>

-----------------------------------------------------------------------------
Next ==
  \/ \E live, valid \in BOOLEAN, anchor \in Anchors : Start(live, valid, anchor)
  \/ \E flushes \in BOOLEAN : Stop(flushes) \/ OnFlushTimer(flushes)
  \/ OnEventObserved
  \/ Destroy
  \/ Tick

Spec == Init /\ [][Next]_vars
-----------------------------------------------------------------------------
(* Properties.                                                             *)

Report ==
  [records : Nat, bytes : Nat, durationNs : Nat, damaged : BOOLEAN, reason : Reasons]

File == [header : 0 .. UnitBytes, anchor : Nat, records : Seq(Nat), tail : 0 .. UnitBytes]

TypeOK ==
  /\ mState \in {"Stopped", "Live", "Damaged"}
  /\ mFileOpen \in BOOLEAN
  /\ mFlushPending \in BOOLEAN
  /\ mRecords \in Nat
  /\ mBytes \in Nat
  /\ mStartNs \in Nat
  /\ mEndNs \in Nat
  /\ mRecordingStarted \in BOOLEAN
  /\ mLastReport \in Report
  /\ alive \in BOOLEAN
  /\ scheduled \in SUBSET Nat
  /\ file \in File
  /\ unflushedSince \in SUBSET Nat
  /\ now \in Nat
  /\ observed \in Nat

\* ADR-010 section 8 and sessionrecorder.h:35-37: what a crash of the process can
\* lose is bounded, on a busy line and on one that has gone quiet.  Whatever a
\* live recording has written has been handed to the system, or was written no
\* longer than one flush interval ago.
BufferedTailIsBounded ==
  (alive /\ mState = "Live") => \A since \in unflushedSince : now <= since + FlushInterval

\* Each report that ends a live recording counts what is in the file: the
\* complete records, and every byte the sink accepted, a partial tail included.
ReportDescribesFile ==
  [][(mState = "Live" /\ mState' # "Live") =>
       /\ mLastReport'.records = Len(file'.records)
       /\ mLastReport'.bytes = FileBytes']_vars

\* A reader's view of the file, and the promise about it (SPEC-M9 5.5, 5.6): a
\* complete header, then a gapless run of the session's events, then at most one
\* torn record, and nothing after a failure.
Promised == INSTANCE SessionFile WITH
  HeaderStates <- 0 .. UnitBytes, CompleteHeader <- UnitBytes,
  header <- file.header, anchor <- file.anchor, records <- file.records,
  torn <- file.tail > 0, writable <- alive /\ mState = "Live"

ImplementsSessionFile == Promised!Spec

\* What recordingEnded() announced when a recording was damaged is what the
\* stop() or start() that finalises it reports, however much later it runs.
DamageReportIsFinal ==
  [][(mState = "Damaged" /\ mState' # "Damaged") => mLastReport' = mLastReport]_vars
=============================================================================
