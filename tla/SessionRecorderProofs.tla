----------------------- MODULE SessionRecorderProofs -----------------------
(***************************************************************************)
(* Theorems about SessionRecorder for every flush interval, every set of   *)
(* anchors and every bound on the clock and on the session.                *)
(***************************************************************************)
EXTENDS SessionRecorder, TLAPS

USE AnchorsAssumption, IntervalAssumption, BoundsAssumption

LEMMA AtLeastZeroType == \A n \in Int : AtLeastZero(n) \in Nat
  BY DEF AtLeastZero

\* While it runs, a duration is measured to now; once damaged, to the damage.
LEMMA DurationType ==
  ASSUME TypeOK
  PROVE  DurationNs \in Nat
  BY DEF TypeOK, DurationNs, AtLeastZero

LEMMA AcceptedBytes ==
  ASSUME NEW accepted \in Accepted
  PROVE  /\ AtLeastZero(accepted) \in 0 .. UnitBytes
         /\ BytesWritten(accepted) = AtLeastZero(accepted)
         /\ IsComplete(accepted) => BytesWritten(accepted) = UnitBytes
  BY DEF Accepted, UnitBytes, AtLeastZero, BytesWritten, IsComplete

-----------------------------------------------------------------------------
(* Type correctness.                                                       *)

LEMMA FinalReportType ==
  ASSUME TypeOK, NEW flushes \in BOOLEAN
  PROVE  FinalReport(flushes) \in Report
  <1>1. DurationNs \in Nat
    BY DurationType
  <1>2. (CASE mState = "Damaged" -> mLastReport.reason
          [] ~(mState = "Damaged") /\ ~flushes -> "unflushed"
          [] ~(mState = "Damaged") /\ flushes /\ mRecords = 0 -> "no session data"
          [] OTHER -> "") \in Reasons
    BY DEF TypeOK, Report, Reasons
  <1>3. QED BY <1>1, <1>2 DEF FinalReport, Report, TypeOK

LEMMA NewFileType ==
  ASSUME NEW anchor \in Anchors, NEW header \in 0 .. UnitBytes
  PROVE  NewFile(header, anchor) \in File
  <1>1. <<>> \in Seq(Nat)
    OBVIOUS
  <1>2. QED BY <1>1 DEF NewFile, File, UnitBytes

LEMMA StartType ==
  ASSUME TypeOK, NEW live \in BOOLEAN, NEW valid \in BOOLEAN, NEW anchor \in Anchors,
         Start(live, valid, anchor)
  PROVE  TypeOK'
  <1>1. FinaliseDamaged => mLastReport' \in Report
    BY FinalReportType DEF FinaliseDamaged, TypeOK
  <1>2. CASE StartRefused
    BY <1>1, <1>2 DEF StartRefused, ClearRecordingState, TypeOK, None
  <1>3. ASSUME NEW accepted \in Accepted, NEW flushes \in BOOLEAN,
               StartFails(anchor, accepted, flushes)
        PROVE  TypeOK'
    <2>1. file' \in File
      BY <1>3, AcceptedBytes, NewFileType DEF StartFails
    <2>2. QED BY <1>1, <1>3, <2>1 DEF StartFails, ClearRecordingState, TypeOK, None
  <1>4. ASSUME NEW accepted \in Accepted, StartSucceeds(anchor, accepted)
        PROVE  TypeOK'
    <2>1. file' \in File
      BY <1>4, AcceptedBytes, NewFileType DEF StartSucceeds
    <2>2. QED BY <1>1, <1>4, <2>1 DEF StartSucceeds, TypeOK, None, UnitBytes
  <1>5. QED BY <1>2, <1>3, <1>4 DEF Start

LEMMA EndDamagedType ==
  ASSUME TypeOK, NEW bytes \in Nat, NEW reason \in Reasons, EndDamaged(bytes, reason)
  PROVE  /\ mState' \in {"Stopped", "Live", "Damaged"}
         /\ scheduled' \in SUBSET Nat
         /\ mFlushPending' \in BOOLEAN
         /\ mEndNs' \in Nat
         /\ mLastReport' \in Report
         /\ UNCHANGED <<mRecords, mStartNs, mRecordingStarted, mFileOpen>>
  BY DurationType DEF EndDamaged, TypeOK, Report, None

LEMMA EventType == TypeOK /\ OnEventObserved => TypeOK'
  <1> SUFFICES ASSUME TypeOK, OnEventObserved PROVE TypeOK'
    OBVIOUS
  <1>1. observed' \in Nat /\ UNCHANGED <<alive, now>>
    BY DEF OnEventObserved, TypeOK
  <1>2. CASE RecordUnencodable
    <2>1. mBytes \in Nat /\ "unencodable" \in Reasons
      BY DEF TypeOK, Reasons
    <2>2. EndDamaged(mBytes, "unencodable") /\ UNCHANGED <<mBytes, sinkVars>>
      BY <1>2 DEF RecordUnencodable
    <2>3. QED BY <1>1, <2>1, <2>2, EndDamagedType DEF TypeOK, sinkVars
  <1>3. ASSUME NEW accepted \in Accepted, RecordCutShort(accepted)
        PROVE  TypeOK'
    <2>1. mBytes' \in Nat
      BY <1>3, AcceptedBytes DEF RecordCutShort, TypeOK, UnitBytes
    <2>2. file' \in File
      BY <1>3, AcceptedBytes DEF RecordCutShort, TypeOK, File
    <2>3. EndDamaged(mBytes', "incomplete") /\ UNCHANGED unflushedSince
      BY <1>3 DEF RecordCutShort
    <2>4. QED BY <1>1, <2>1, <2>2, <2>3, EndDamagedType DEF TypeOK, Reasons
  <1>4. ASSUME NEW accepted \in Accepted, RecordWritten(observed + 1, accepted)
        PROVE  TypeOK'
    <2>1. mBytes' \in Nat /\ mRecords' \in Nat
      BY <1>4, AcceptedBytes DEF RecordWritten, TypeOK, UnitBytes
    <2>2. file' \in File
      <3>1. Append(file.records, observed + 1) \in Seq(Nat)
        BY DEF TypeOK, File
      <3>2. QED BY <1>4, <3>1 DEF RecordWritten, TypeOK, File
    <2>3. unflushedSince' \in SUBSET Nat
      BY <1>4 DEF RecordWritten, TypeOK, None
    <2>4. scheduled' \in SUBSET Nat /\ mFlushPending' \in BOOLEAN
      <3>1. now + FlushInterval \in Nat
        BY DEF TypeOK
      <3>2. CASE mFlushPending
        BY <1>4, <3>2 DEF RecordWritten, ArmFlush, TypeOK
      <3>3. CASE ~mFlushPending
        BY <1>4, <3>1, <3>3 DEF RecordWritten, ArmFlush
      <3>4. QED BY <3>2, <3>3
    <2>5. QED BY <1>1, <1>4, <2>1, <2>2, <2>3, <2>4 DEF RecordWritten, TypeOK
  <1>5. CASE UNCHANGED <<mState, mFileOpen, mFlushPending, measureVars, mLastReport,
                         scheduled, sinkVars>>
    BY <1>1, <1>5 DEF TypeOK, measureVars, sinkVars
  <1>6. QED BY <1>2, <1>3, <1>4, <1>5 DEF OnEventObserved

LEMMA TimerType ==
  ASSUME TypeOK, NEW flushes \in BOOLEAN, OnFlushTimer(flushes)
  PROVE  TypeOK'
  <1>1. CASE EndDamaged(mBytes, "unflushed") /\ UNCHANGED <<mBytes, unflushedSince>>
    <2>1. mBytes \in Nat /\ "unflushed" \in Reasons
      BY DEF TypeOK, Reasons
    <2>2. QED BY <1>1, <2>1, EndDamagedType DEF OnFlushTimer, TypeOK
  <1>2. CASE ~(EndDamaged(mBytes, "unflushed") /\ UNCHANGED <<mBytes, unflushedSince>>)
    BY <1>2 DEF OnFlushTimer, TypeOK, measureVars, None
  <1>3. QED BY <1>1, <1>2

LEMMA InitType == Init => TypeOK
  <1> SUFFICES ASSUME Init PROVE TypeOK
    OBVIOUS
  <1>1. <<>> \in Seq(Nat)
    OBVIOUS
  <1>2. file \in File
    BY <1>1 DEF Init, EmptyFile, File, UnitBytes
  <1>3. mLastReport \in Report
    BY DEF Init, EmptyReport, Report, Reasons
  <1>4. QED BY <1>2, <1>3 DEF Init, TypeOK, None

LEMMA NextType == TypeOK /\ [Next]_vars => TypeOK'
  <1> SUFFICES ASSUME TypeOK, [Next]_vars PROVE TypeOK'
    OBVIOUS
  <1>1. ASSUME NEW live \in BOOLEAN, NEW valid \in BOOLEAN, NEW anchor \in Anchors,
               Start(live, valid, anchor)
        PROVE  TypeOK'
    BY <1>1, StartType
  <1>2. ASSUME NEW flushes \in BOOLEAN, Stop(flushes)
        PROVE  TypeOK'
    BY <1>2, FinalReportType DEF Stop, ClearRecordingState, TypeOK, None
  <1>3. ASSUME NEW flushes \in BOOLEAN, OnFlushTimer(flushes)
        PROVE  TypeOK'
    BY <1>3, TimerType
  <1>4. CASE OnEventObserved
    BY <1>4, EventType
  <1>5. CASE Destroy
    BY <1>5 DEF Destroy, TypeOK, measureVars, None
  <1>6. CASE Tick
    BY <1>6 DEF Tick, TypeOK, measureVars, sinkVars
  <1>7. CASE UNCHANGED vars
    BY <1>7 DEF vars, TypeOK, measureVars, sinkVars
  <1>8. QED BY <1>1, <1>2, <1>3, <1>4, <1>5, <1>6, <1>7 DEF Next

\* Every member of the recorder keeps its type, whatever the sink answers
\* (sessionrecorder.cpp:101-383).
THEOREM TypeCorrect == Spec => []TypeOK
  BY InitType, NextType, PTL DEF Spec

-----------------------------------------------------------------------------
(* The buffered tail.                                                      *)

\* The bound on the tail is not inductive without the timer that enforces it:
\* the scheduler's pending callback is due exactly one interval after the oldest
\* unflushed write, and time does not pass a due callback.
TimerMatchesTail ==
  (alive /\ mState = "Live") =>
    /\ scheduled = {since + FlushInterval : since \in unflushedSince}
    /\ mFlushPending <=> unflushedSince # {}
    /\ \A due \in scheduled : now <= due

TailInv == TypeOK /\ TimerMatchesTail

LEMMA NextTail == TailInv /\ [Next]_vars => TailInv'
  <1> SUFFICES ASSUME TailInv, [Next]_vars PROVE TimerMatchesTail'
    BY NextType DEF TailInv
  <1>1. now \in Nat /\ now + FlushInterval \in Nat /\ now <= now + FlushInterval
    BY DEF TailInv, TypeOK
  <1>2. ASSUME NEW live \in BOOLEAN, NEW valid \in BOOLEAN, NEW anchor \in Anchors,
               Start(live, valid, anchor)
        PROVE  TimerMatchesTail'
    <2>1. CASE StartRefused
      BY <2>1 DEF StartRefused, TimerMatchesTail
    <2>2. ASSUME NEW accepted \in Accepted, NEW flushes \in BOOLEAN,
                 StartFails(anchor, accepted, flushes)
          PROVE  TimerMatchesTail'
      BY <2>2 DEF StartFails, TimerMatchesTail
    <2>3. ASSUME NEW accepted \in Accepted, StartSucceeds(anchor, accepted)
          PROVE  TimerMatchesTail'
      BY <2>3 DEF StartSucceeds, TimerMatchesTail, None
    <2>4. QED BY <1>2, <2>1, <2>2, <2>3 DEF Start
  <1>3. ASSUME NEW flushes \in BOOLEAN, Stop(flushes)
        PROVE  TimerMatchesTail'
    BY <1>3 DEF Stop, TimerMatchesTail
  <1>4. ASSUME NEW flushes \in BOOLEAN, OnFlushTimer(flushes)
        PROVE  TimerMatchesTail'
    BY <1>4 DEF OnFlushTimer, EndDamaged, TimerMatchesTail, None
  <1>5. CASE OnEventObserved
    <2>1. CASE RecordUnencodable
      BY <2>1 DEF RecordUnencodable, EndDamaged, TimerMatchesTail
    <2>2. ASSUME NEW accepted \in Accepted, RecordCutShort(accepted)
          PROVE  TimerMatchesTail'
      BY <2>2 DEF RecordCutShort, EndDamaged, TimerMatchesTail
    <2>3. ASSUME NEW accepted \in Accepted, RecordWritten(observed + 1, accepted),
                 alive, mState = "Live"
          PROVE  TimerMatchesTail'
      <3>1. UNCHANGED <<now, alive, mState>>
        BY <1>5, <2>3 DEF OnEventObserved, RecordWritten
      <3>2. CASE mFlushPending
        BY <2>3, <3>1, <3>2
           DEF RecordWritten, ArmFlush, TimerMatchesTail, TailInv, None
      <3>3. CASE ~mFlushPending
        <4>1. unflushedSince' = {now}
          BY <2>3, <3>3 DEF RecordWritten, TimerMatchesTail, TailInv, TypeOK, None
        <4>2. scheduled' = {now + FlushInterval} /\ mFlushPending' = TRUE
          BY <2>3, <3>3 DEF RecordWritten, ArmFlush
        <4>3. QED BY <1>1, <3>1, <4>1, <4>2 DEF TimerMatchesTail
      <3>4. QED BY <3>2, <3>3
    <2>4. CASE UNCHANGED <<mState, mFileOpen, mFlushPending, measureVars, mLastReport,
                           scheduled, sinkVars>>
      BY <1>5, <2>4 DEF OnEventObserved, TimerMatchesTail, TailInv, sinkVars
    <2>5. QED BY <1>5, <2>1, <2>2, <2>3, <2>4 DEF OnEventObserved, IsRecording
  <1>6. CASE Destroy
    BY <1>6 DEF Destroy, TimerMatchesTail
  <1>7. CASE Tick
    <2>1. \A due \in scheduled : now + 1 <= due
      BY <1>7 DEF Tick, TailInv, TypeOK
    <2>2. QED BY <1>7, <2>1 DEF Tick, TimerMatchesTail, TailInv, sinkVars
  <1>8. CASE UNCHANGED vars
    BY <1>8 DEF vars, TimerMatchesTail, TailInv, sinkVars
  <1>9. QED BY <1>2, <1>3, <1>4, <1>5, <1>6, <1>7, <1>8 DEF Next

\* A crash of the process loses no record of a live recording that was written
\* longer than one flush interval ago (sessionrecorder.cpp:264-299).
THEOREM TailIsBounded == Spec => []BufferedTailIsBounded
  <1>1. Init => TailInv
    <2> SUFFICES ASSUME Init PROVE TailInv
      OBVIOUS
    <2>1. TypeOK
      BY InitType
    <2>2. TimerMatchesTail
      BY DEF Init, TimerMatchesTail
    <2>3. QED BY <2>1, <2>2 DEF TailInv
  <1>2. TailInv => BufferedTailIsBounded
    BY DEF TailInv, TimerMatchesTail, BufferedTailIsBounded
  <1>3. QED BY <1>1, <1>2, NextTail, PTL DEF Spec

-----------------------------------------------------------------------------
(* The reports.                                                            *)

\* What the recorder counts is what the sink has accepted, and a damage report
\* is the report finalisation will compute again.
CountsMatchFile ==
  /\ mState \in {"Live", "Damaged"} =>
       /\ mRecords = Len(file.records)
       /\ mBytes = FileBytes
  /\ mState = "Live" => file.tail = 0

DamageIsReported ==
  mState = "Damaged" =>
    mLastReport = [records |-> mRecords, bytes |-> mBytes, durationNs |-> DurationNs,
                   damaged |-> TRUE, reason |-> mLastReport.reason]

ReportInv == TypeOK /\ CountsMatchFile /\ DamageIsReported

\* A damage report is the one stop() or the next start() gives.
LEMMA FinalReportIsDamageReport ==
  ASSUME ReportInv, mState = "Damaged", NEW flushes \in BOOLEAN
  PROVE  FinalReport(flushes) = mLastReport
  <1>1. (CASE mState = "Damaged" -> mLastReport.reason
          [] ~(mState = "Damaged") /\ ~flushes -> "unflushed"
          [] ~(mState = "Damaged") /\ flushes /\ mRecords = 0 -> "no session data"
          [] OTHER -> "") = mLastReport.reason
    OBVIOUS
  <1>2. FinalReport(flushes)
          = [records |-> mRecords, bytes |-> mBytes, durationNs |-> DurationNs,
             damaged |-> TRUE, reason |-> mLastReport.reason]
    BY <1>1 DEF FinalReport
  <1>3. QED BY <1>2 DEF ReportInv, DamageIsReported

\* The duration a damage report states is the one measured from then on.
LEMMA DamageDuration ==
  ASSUME TypeOK, mState = "Live", NEW bytes \in Nat, NEW reason \in Reasons,
         EndDamaged(bytes, reason)
  PROVE  /\ mState' = "Damaged"
         /\ mLastReport'.records = mRecords'
         /\ mLastReport'.bytes = bytes
         /\ (mBytes' = bytes) => DamageIsReported'
  BY DEF EndDamaged, DamageIsReported, DurationNs, TypeOK

LEMMA EventReport == ReportInv /\ OnEventObserved => ReportInv'
  <1> SUFFICES ASSUME ReportInv, OnEventObserved PROVE ReportInv'
    OBVIOUS
  <1>1. TypeOK /\ TypeOK'
    BY EventType DEF ReportInv
  <1>2. mBytes \in Nat /\ mBytes' \in Nat /\ "unencodable" \in Reasons /\ "incomplete" \in Reasons
    BY <1>1 DEF TypeOK, Reasons
  <1>3. /\ file.header \in Nat
        /\ file.tail \in Nat
        /\ file.records \in Seq(Nat)
        /\ Len(file.records) \in Nat
        /\ file = [header |-> file.header, anchor |-> file.anchor,
                   records |-> file.records, tail |-> file.tail]
    BY <1>1 DEF TypeOK, File, UnitBytes
  <1>4. ASSUME mState = "Live", RecordUnencodable
        PROVE  ReportInv'
    <2>1. EndDamaged(mBytes, "unencodable") /\ UNCHANGED <<mBytes, sinkVars>>
      BY <1>4 DEF RecordUnencodable
    <2>2. mState' = "Damaged" /\ DamageIsReported'
      BY <1>1, <1>2, <1>4, <2>1, DamageDuration
    <2>3. CountsMatchFile'
      BY <1>4, <2>1, <2>2 DEF CountsMatchFile, ReportInv, EndDamaged, FileBytes, sinkVars
    <2>4. QED BY <1>1, <2>2, <2>3 DEF ReportInv
  <1>5. ASSUME mState = "Live", NEW accepted \in Accepted, RecordCutShort(accepted)
        PROVE  ReportInv'
    <2>1. EndDamaged(mBytes', "incomplete")
      BY <1>5 DEF RecordCutShort
    <2>2. mState' = "Damaged" /\ DamageIsReported'
      BY <1>1, <1>2, <1>5, <2>1, DamageDuration
    <2>3. /\ file'.header = file.header
          /\ file'.records = file.records
          /\ file'.tail = AtLeastZero(accepted)
      BY <1>3, <1>5 DEF RecordCutShort
    <2>4. mBytes' = mBytes + AtLeastZero(accepted) /\ AtLeastZero(accepted) \in Nat
      BY <1>5, AcceptedBytes DEF RecordCutShort, UnitBytes
    <2>5. mRecords' = mRecords
      BY <2>1 DEF EndDamaged
    <2>6. mBytes' = FileBytes'
      BY <1>3, <1>5, <2>3, <2>4 DEF CountsMatchFile, ReportInv, FileBytes, UnitBytes
    <2>7. CountsMatchFile'
      BY <1>5, <2>2, <2>3, <2>5, <2>6 DEF CountsMatchFile, ReportInv
    <2>8. QED BY <1>1, <2>2, <2>7 DEF ReportInv
  <1>6. ASSUME mState = "Live", NEW accepted \in Accepted,
               RecordWritten(observed + 1, accepted)
        PROVE  ReportInv'
    <2>1. /\ file'.header = file.header
          /\ file'.records = Append(file.records, observed + 1)
          /\ file'.tail = file.tail
      BY <1>3, <1>6 DEF RecordWritten
    <2>2. Len(file'.records) = Len(file.records) + 1
      BY <1>1, <1>3, <2>1 DEF TypeOK
    <2>3. mBytes' = mBytes + UnitBytes /\ mRecords' = mRecords + 1
      BY <1>6, AcceptedBytes DEF RecordWritten
    <2>4. mBytes' = FileBytes'
      BY <1>3, <1>6, <2>1, <2>2, <2>3 DEF CountsMatchFile, ReportInv, FileBytes, UnitBytes
    <2>5. CountsMatchFile'
      BY <1>6, <2>1, <2>2, <2>3, <2>4 DEF CountsMatchFile, ReportInv, RecordWritten
    <2>6. DamageIsReported'
      BY <1>6 DEF RecordWritten, DamageIsReported
    <2>7. QED BY <1>1, <2>5, <2>6 DEF ReportInv
  <1>7. CASE UNCHANGED <<mState, mFileOpen, mFlushPending, measureVars, mLastReport,
                         scheduled, sinkVars>>
    <2>1. UNCHANGED now
      BY DEF OnEventObserved
    <2>2. DurationNs' = DurationNs
      BY <1>7, <2>1 DEF DurationNs, measureVars
    <2>3. CountsMatchFile'
      BY <1>7 DEF CountsMatchFile, ReportInv, FileBytes, measureVars, sinkVars
    <2>4. DamageIsReported'
      BY <1>7, <2>2 DEF DamageIsReported, ReportInv, measureVars
    <2>5. QED BY <1>1, <2>3, <2>4 DEF ReportInv
  <1>8. QED BY <1>4, <1>5, <1>6, <1>7 DEF OnEventObserved, IsRecording

LEMMA StartReport ==
  ASSUME ReportInv, NEW live \in BOOLEAN, NEW valid \in BOOLEAN, NEW anchor \in Anchors,
         Start(live, valid, anchor)
  PROVE  /\ ReportInv'
         /\ mState # "Live"
         /\ mState = "Damaged" => mLastReport' = mLastReport
  <1>1. TypeOK'
    BY StartType DEF ReportInv
  <1>2. FinaliseDamaged => (mState = "Damaged" => mLastReport' = mLastReport)
    BY FinalReportIsDamageReport DEF FinaliseDamaged
  <1>3. CASE StartRefused
    BY <1>1, <1>2, <1>3 DEF StartRefused, ReportInv, CountsMatchFile, DamageIsReported
  <1>4. ASSUME NEW accepted \in Accepted, NEW flushes \in BOOLEAN,
               StartFails(anchor, accepted, flushes)
        PROVE  /\ ReportInv'
               /\ mState # "Live"
               /\ mState = "Damaged" => mLastReport' = mLastReport
    BY <1>1, <1>2, <1>4 DEF StartFails, ReportInv, CountsMatchFile, DamageIsReported
  <1>5. ASSUME NEW accepted \in Accepted, StartSucceeds(anchor, accepted)
        PROVE  /\ ReportInv'
               /\ mState # "Live"
               /\ mState = "Damaged" => mLastReport' = mLastReport
    <2>1. AtLeastZero(accepted) = UnitBytes
      BY <1>5 DEF StartSucceeds, IsComplete, AtLeastZero, UnitBytes
    <2>2. /\ file'.header = UnitBytes
          /\ file'.records = <<>>
          /\ file'.tail = 0
      BY <1>5, <2>1 DEF StartSucceeds, NewFile
    <2>3. mBytes' = FileBytes' /\ mRecords' = Len(file'.records)
      BY <1>5, <2>2 DEF StartSucceeds, FileBytes, UnitBytes
    <2>4. CountsMatchFile' /\ DamageIsReported'
      BY <1>5, <2>2, <2>3 DEF StartSucceeds, CountsMatchFile, DamageIsReported
    <2>5. QED BY <1>1, <1>2, <1>5, <2>4 DEF StartSucceeds, ReportInv
  <1>6. QED BY <1>3, <1>4, <1>5 DEF Start

LEMMA TimerReport ==
  ASSUME ReportInv, NEW flushes \in BOOLEAN, OnFlushTimer(flushes)
  PROVE  /\ ReportInv'
         /\ mState = "Damaged" => mState' = "Damaged"
         /\ mState = "Live" /\ mState' # "Live" =>
              /\ mLastReport'.records = mRecords'
              /\ mLastReport'.bytes = mBytes'
  <1>1. TypeOK /\ TypeOK' /\ mBytes \in Nat /\ "unflushed" \in Reasons
    BY TimerType DEF ReportInv, TypeOK, Reasons
  <1>2. UNCHANGED <<alive, file, now, observed>>
    BY DEF OnFlushTimer
  <1>3. CASE mState = "Live" /\ EndDamaged(mBytes, "unflushed")
                             /\ UNCHANGED <<mBytes, unflushedSince>>
    <2>1. /\ mState' = "Damaged"
          /\ mLastReport'.records = mRecords'
          /\ mLastReport'.bytes = mBytes'
          /\ DamageIsReported'
      BY <1>1, <1>3, DamageDuration
    <2>2. CountsMatchFile'
      BY <1>2, <1>3, <2>1 DEF EndDamaged, CountsMatchFile, ReportInv, FileBytes
    <2>3. QED BY <1>1, <1>3, <2>1, <2>2 DEF ReportInv
  <1>4. CASE UNCHANGED <<mState, measureVars, mLastReport>>
    <2>1. DurationNs' = DurationNs
      BY <1>2, <1>4 DEF DurationNs, measureVars
    <2>2. CountsMatchFile' /\ DamageIsReported'
      BY <1>2, <1>4, <2>1 DEF CountsMatchFile, DamageIsReported, ReportInv, FileBytes, measureVars
    <2>3. QED BY <1>1, <1>4, <2>2 DEF ReportInv
  <1>5. QED BY <1>3, <1>4 DEF OnFlushTimer

LEMMA StopReport ==
  ASSUME ReportInv, NEW flushes \in BOOLEAN, Stop(flushes)
  PROVE  /\ ReportInv'
         /\ mState = "Damaged" => mLastReport' = mLastReport
         /\ mState = "Live" =>
              /\ mLastReport'.records = mRecords
              /\ mLastReport'.bytes = mBytes
         /\ UNCHANGED file
  <1>1. TypeOK'
    BY FinalReportType DEF ReportInv, Stop, ClearRecordingState, TypeOK, None
  <1>2. mState = "Damaged" => mLastReport' = mLastReport
    BY FinalReportIsDamageReport DEF Stop
  <1>3. mLastReport'.records = mRecords /\ mLastReport'.bytes = mBytes
    BY DEF Stop, FinalReport
  <1>4. QED BY <1>1, <1>2, <1>3 DEF Stop, ReportInv, CountsMatchFile, DamageIsReported

LEMMA InitReport == Init => ReportInv
  BY InitType DEF Init, ReportInv, CountsMatchFile, DamageIsReported

LEMMA NextReport ==
  ASSUME ReportInv, [Next]_vars
  PROVE  /\ ReportInv'
         /\ mState = "Damaged" /\ mState' # "Damaged" => mLastReport' = mLastReport
         /\ mState = "Live" /\ mState' # "Live" =>
              /\ mLastReport'.records = Len(file'.records)
              /\ mLastReport'.bytes = FileBytes'
  <1>1. ASSUME NEW live \in BOOLEAN, NEW valid \in BOOLEAN, NEW anchor \in Anchors,
               Start(live, valid, anchor)
        PROVE  /\ ReportInv'
               /\ mState = "Damaged" => mLastReport' = mLastReport
               /\ mState # "Live"
    BY <1>1, StartReport
  <1>2. ASSUME NEW flushes \in BOOLEAN, Stop(flushes)
        PROVE  /\ ReportInv'
               /\ mState = "Damaged" => mLastReport' = mLastReport
               /\ mState = "Live" =>
                    /\ mLastReport'.records = Len(file'.records)
                    /\ mLastReport'.bytes = FileBytes'
    BY <1>2, StopReport DEF ReportInv, CountsMatchFile, FileBytes
  <1>3. ASSUME NEW flushes \in BOOLEAN, OnFlushTimer(flushes)
        PROVE  /\ ReportInv'
               /\ mState = "Damaged" => mState' = "Damaged"
               /\ mState = "Live" /\ mState' # "Live" =>
                    /\ mLastReport'.records = Len(file'.records)
                    /\ mLastReport'.bytes = FileBytes'
    <2>1. /\ ReportInv'
          /\ mState = "Damaged" => mState' = "Damaged"
          /\ mState = "Live" /\ mState' # "Live" =>
               /\ mLastReport'.records = mRecords'
               /\ mLastReport'.bytes = mBytes'
      BY <1>3, TimerReport
    <2>2. mState = "Live" /\ mState' # "Live" => mState' = "Damaged"
      BY <1>3 DEF OnFlushTimer, EndDamaged
    <2>3. QED BY <2>1, <2>2 DEF ReportInv, CountsMatchFile
  <1>4. ASSUME OnEventObserved
        PROVE  /\ ReportInv'
               /\ mState = "Damaged" => mState' = "Damaged"
               /\ mState = "Live" /\ mState' # "Live" =>
                    /\ mLastReport'.records = Len(file'.records)
                    /\ mLastReport'.bytes = FileBytes'
    <2>1. ReportInv'
      BY <1>4, EventReport
    <2>2. mState = "Damaged" => mState' = "Damaged"
      BY <1>4 DEF OnEventObserved, IsRecording
    <2>3. mState = "Live" /\ mState' # "Live" =>
            mState' = "Damaged" /\ mLastReport'.records = mRecords' /\ mLastReport'.bytes = mBytes'
      BY <1>4 DEF OnEventObserved, RecordUnencodable, RecordCutShort, RecordWritten, EndDamaged
    <2>4. QED BY <2>1, <2>2, <2>3 DEF ReportInv, CountsMatchFile
  <1>5. ASSUME UNCHANGED <<mState, measureVars, mLastReport, file>>, UNCHANGED now \/ Tick
        PROVE  ReportInv' /\ mState' = mState
    <2>1. TypeOK'
      BY NextType DEF ReportInv
    <2>2. mState = "Damaged" => DurationNs' = DurationNs
      BY <1>5 DEF DurationNs, measureVars
    <2>3. QED BY <1>5, <2>1, <2>2
              DEF ReportInv, CountsMatchFile, DamageIsReported, FileBytes, measureVars
  <1>6. CASE Destroy
    BY <1>5, <1>6 DEF Destroy, measureVars
  <1>7. CASE Tick
    BY <1>5, <1>7 DEF Tick, measureVars, sinkVars
  <1>8. CASE UNCHANGED vars
    BY <1>5, <1>8 DEF vars, measureVars, sinkVars
  <1>9. QED BY <1>1, <1>2, <1>3, <1>4, <1>6, <1>7, <1>8 DEF Next

\* Every report that ends a live recording counts what the sink has accepted, to
\* the byte (sessionrecorder.cpp:253-264, 324-345, 347-383).
THEOREM ReportsAreTrue == Spec => ReportDescribesFile
  <1>1. ReportInv /\ [Next]_vars =>
          ReportInv' /\ [(mState = "Live" /\ mState' # "Live") =>
                           /\ mLastReport'.records = Len(file'.records)
                           /\ mLastReport'.bytes = FileBytes']_vars
    BY NextReport
  <1>2. QED BY <1>1, InitReport, PTL DEF Spec, ReportDescribesFile

\* The report of a damaged recording is fixed at the damage, its duration too
\* (sessionrecorder.cpp:301-310, 332-344, 364-378).
THEOREM DamageReportsAreFinal == Spec => DamageReportIsFinal
  <1>1. ReportInv /\ [Next]_vars =>
          ReportInv' /\ [(mState = "Damaged" /\ mState' # "Damaged") =>
                           mLastReport' = mLastReport]_vars
    BY NextReport
  <1>2. QED BY <1>1, InitReport, PTL DEF Spec, DamageReportIsFinal

-----------------------------------------------------------------------------
(* The file.                                                               *)

\* Appending is the inverse of Front and Last.
LEMMA FrontOfAppend ==
  ASSUME NEW s \in Seq(Nat), NEW n \in Nat
  PROVE  /\ Front(Append(s, n)) = s
         /\ Last(Append(s, n)) = n
         /\ Append(s, n) # <<>>
  BY DEF Front, Last

\* A live recording has the newest event, unless it has none at all.
NewestIsRecorded ==
  (alive /\ mState = "Live" /\ file.records # <<>>) => Last(file.records) = observed

FileInv == TypeOK /\ NewestIsRecorded

LEMMA NextFile ==
  ASSUME FileInv, [Next]_vars
  PROVE  FileInv' /\ [Promised!Next]_(Promised!vars)
  <1>1. TypeOK /\ TypeOK'
    BY NextType DEF FileInv
  <1> DEFINE Step == NewestIsRecorded' /\ [Promised!Next]_(Promised!vars)
  <1> SUFFICES Step
    BY <1>1 DEF FileInv
  <1>2. ASSUME UNCHANGED <<alive, mState, file>>, mState # "Live" \/ ~alive \/ UNCHANGED observed
        PROVE  Step
    BY <1>2 DEF NewestIsRecorded, FileInv, Promised!vars
  <1>3. ASSUME mState # "Live", mState' # "Live", UNCHANGED file
        PROVE  Step
    BY <1>3 DEF NewestIsRecorded, Promised!vars
  <1>4. ASSUME alive, mState = "Live", ~(alive' /\ mState' = "Live"),
               file'.header = file.header, file'.anchor = file.anchor,
               file'.records = file.records
        PROVE  Step
    BY <1>4 DEF NewestIsRecorded, Promised!Next, Promised!End
  <1>5. ASSUME NEW live \in BOOLEAN, NEW valid \in BOOLEAN, NEW anchor \in Anchors,
               Start(live, valid, anchor)
        PROVE  Step
    <2>1. CASE StartRefused
      BY <1>3, <2>1 DEF StartRefused
    <2>2. ASSUME NEW accepted \in Accepted, NEW flushes \in BOOLEAN,
                 StartFails(anchor, accepted, flushes)
          PROVE  Step
      <3>1. /\ file'.header \in 0 .. UnitBytes
            /\ file'.records = <<>>
            /\ file'.tail = 0
            /\ mState # "Live" /\ mState' # "Live"
        BY <2>2, AcceptedBytes DEF StartFails, NewFile
      <3>2. Promised!FailToStart
        BY <3>1 DEF Promised!FailToStart
      <3>3. QED BY <3>1, <3>2 DEF NewestIsRecorded, Promised!Next
    <2>3. ASSUME NEW accepted \in Accepted, StartSucceeds(anchor, accepted)
          PROVE  Step
      <3>1. /\ file'.header = UnitBytes
            /\ file'.records = <<>>
            /\ file'.tail = 0
            /\ mState # "Live" /\ mState' = "Live" /\ alive'
        BY <2>3, AcceptedBytes DEF StartSucceeds, NewFile, IsComplete, AtLeastZero, UnitBytes
      <3>2. Promised!StartFile
        BY <3>1 DEF Promised!StartFile
      <3>3. QED BY <3>1, <3>2 DEF NewestIsRecorded, Promised!Next
    <2>4. QED BY <1>5, <2>1, <2>2, <2>3 DEF Start
  <1>6. ASSUME NEW flushes \in BOOLEAN, Stop(flushes)
        PROVE  Step
    BY <1>3, <1>4, <1>6 DEF Stop
  <1>7. ASSUME NEW flushes \in BOOLEAN, OnFlushTimer(flushes)
        PROVE  Step
    <2>1. UNCHANGED <<alive, file, observed>> /\ alive
      BY <1>7 DEF OnFlushTimer
    <2>2. UNCHANGED mState \/ (mState = "Live" /\ mState' = "Damaged")
      BY <1>7 DEF OnFlushTimer, EndDamaged
    <2>3. QED BY <1>2, <1>4, <2>1, <2>2
  <1>8. CASE OnEventObserved
    <2>1. ASSUME alive, mState = "Live", RecordUnencodable
          PROVE  Step
      BY <1>4, <2>1 DEF RecordUnencodable, EndDamaged, sinkVars
    <2>2. ASSUME alive, mState = "Live", NEW accepted \in Accepted, RecordCutShort(accepted)
          PROVE  Step
      <3>1. /\ file'.header = file.header
            /\ file'.anchor = file.anchor
            /\ file'.records = file.records
        BY <1>1, <2>2 DEF RecordCutShort, TypeOK, File
      <3>2. mState' = "Damaged"
        BY <2>2 DEF RecordCutShort, EndDamaged
      <3>3. QED BY <1>4, <2>2, <3>1, <3>2
    <2>3. ASSUME alive, mState = "Live", NEW accepted \in Accepted,
                 RecordWritten(observed + 1, accepted)
          PROVE  Step
      <3>1. /\ file'.header = file.header
            /\ file'.anchor = file.anchor
            /\ file'.tail = file.tail
            /\ file'.records = Append(file.records, observed + 1)
        BY <1>1, <2>3 DEF RecordWritten, TypeOK, File
      <3>2. /\ mState' = "Live" /\ alive' = alive
            /\ observed' = observed + 1
        BY <1>8, <2>3 DEF OnEventObserved, RecordWritten
      <3>3. file.records \in Seq(Nat) /\ observed + 1 \in Nat
        BY <1>1 DEF TypeOK, File
      <3>4. /\ Front(file'.records) = file.records
            /\ Last(file'.records) = observed + 1
            /\ file'.records # <<>>
        BY <3>1, <3>3, FrontOfAppend
      <3>5. Promised!Follows(Last(file'.records))
        BY <2>3, <3>4 DEF Promised!Follows, Promised!Last, Last, FileInv, NewestIsRecorded
      <3>6. Promised!AppendRecord
        BY <2>3, <3>1, <3>2, <3>4, <3>5
           DEF Promised!AppendRecord, Promised!Front, Front, Promised!Last, Last
      <3>7. QED BY <3>2, <3>4, <3>6 DEF NewestIsRecorded, Promised!Next
    <2>4. CASE ~(alive /\ mState = "Live")
      BY <1>2, <1>8, <2>4 DEF OnEventObserved, IsRecording, sinkVars
    <2>5. QED BY <1>8, <2>1, <2>2, <2>3, <2>4 DEF OnEventObserved, IsRecording
  <1>9. CASE Destroy
    <2>1. alive /\ ~alive' /\ UNCHANGED <<mState, file>>
      BY <1>9 DEF Destroy
    <2>2. CASE mState = "Live"
      BY <1>4, <2>1, <2>2
    <2>3. CASE mState # "Live"
      BY <1>3, <2>1, <2>3
    <2>4. QED BY <2>2, <2>3
  <1>10. CASE Tick
    BY <1>2, <1>10 DEF Tick, sinkVars
  <1>11. CASE UNCHANGED vars
    BY <1>2, <1>11 DEF vars, sinkVars
  <1>12. QED
    BY <1>5, <1>6, <1>7, <1>8, <1>9, <1>10, <1>11 DEF Next

\* The recorder keeps the promise of SessionFile: whatever the sink answers, the
\* file is a complete header and a gapless run of events, and nothing is written
\* after a failure (sessionrecorder.cpp:146-383).
THEOREM RecorderImplementsFile == Spec => ImplementsSessionFile
  <1>1. Init => FileInv
    BY InitType DEF Init, FileInv, NewestIsRecorded
  <1>2. Init => Promised!Init
    BY DEF Init, EmptyFile, Promised!Init, UnitBytes
  <1>3. FileInv /\ [Next]_vars => FileInv' /\ [Promised!Next]_(Promised!vars)
    BY NextFile
  <1>4. QED BY <1>1, <1>2, <1>3, PTL DEF Spec, ImplementsSessionFile, Promised!Spec
=============================================================================
