-------------------------- MODULE LiveSessionProofs --------------------------
(***************************************************************************)
(* Theorems about LiveSession for every set of ids and times, every flush  *)
(* interval and every bound: the controller's own invariants carry over to *)
(* the composition, and the properties that relate the controller's stream *)
(* to the recorder's file follow from them.                                *)
(***************************************************************************)
EXTENDS LiveSession, SessionControllerProofs

USE IdsAssumption, TimesAssumption, BoundAssumption, ClockAssumption

-----------------------------------------------------------------------------
(* Types of the recorder.                                                  *)

LEMMA AtLeastZeroType == \A n \in Int : Recorder!AtLeastZero(n) \in Nat
  BY DEF Recorder!AtLeastZero

\* While it runs, a duration is measured to now; once damaged, to the damage.
LEMMA DurationType ==
  ASSUME Recorder!TypeOK
  PROVE  Recorder!DurationNs \in Nat
  BY DEF Recorder!TypeOK, Recorder!DurationNs, Recorder!AtLeastZero

LEMMA AcceptedBytes ==
  ASSUME NEW taken \in Recorder!Accepted
  PROVE  /\ Recorder!AtLeastZero(taken) \in 0 .. Recorder!UnitBytes
         /\ Recorder!BytesWritten(taken) = Recorder!AtLeastZero(taken)
         /\ Recorder!IsComplete(taken) => Recorder!BytesWritten(taken) = Recorder!UnitBytes
  BY DEF Recorder!Accepted, Recorder!UnitBytes, Recorder!AtLeastZero,
         Recorder!BytesWritten, Recorder!IsComplete

-----------------------------------------------------------------------------
(* Type correctness.                                                       *)

LEMMA FinalReportType ==
  ASSUME Recorder!TypeOK, NEW flushes \in BOOLEAN
  PROVE  Recorder!FinalReport(flushes) \in Recorder!Report
  <1>1. Recorder!DurationNs \in Nat
    BY DurationType
  <1>2. (CASE rState = "Damaged" -> rLastReport.reason
          [] ~(rState = "Damaged") /\ ~flushes -> "unflushed"
          [] ~(rState = "Damaged") /\ flushes /\ rRecords = 0 -> "no session data"
          [] OTHER -> "") \in Recorder!Reasons
    BY DEF Recorder!TypeOK, Recorder!Report, Recorder!Reasons
  <1>3. QED BY <1>1, <1>2 DEF Recorder!FinalReport, Recorder!Report, Recorder!TypeOK

LEMMA NewFileType ==
  ASSUME NEW anchor \in SourceTimes, NEW header \in 0 .. Recorder!UnitBytes
  PROVE  Recorder!NewFile(header, anchor) \in Recorder!File
  <1>1. <<>> \in Seq(Nat)
    OBVIOUS
  <1>2. QED BY <1>1 DEF Recorder!NewFile, Recorder!File, Recorder!UnitBytes

LEMMA RecorderStartType ==
  ASSUME Recorder!TypeOK,
         NEW live \in BOOLEAN, NEW valid \in BOOLEAN, NEW anchor \in SourceTimes,
         Recorder!Start(live, valid, anchor)
  PROVE  Recorder!TypeOK'
  <1>1. Recorder!FinaliseDamaged => rLastReport' \in Recorder!Report
    BY FinalReportType DEF Recorder!FinaliseDamaged, Recorder!TypeOK
  <1>2. CASE Recorder!StartRefused
    BY <1>1, <1>2
       DEF Recorder!StartRefused, Recorder!ClearRecordingState, Recorder!TypeOK,
           Recorder!None
  <1>3. ASSUME NEW taken \in Recorder!Accepted, NEW flushes \in BOOLEAN,
               Recorder!StartFails(anchor, taken, flushes)
        PROVE  Recorder!TypeOK'
    <2>1. file' \in Recorder!File
      BY <1>3, AcceptedBytes, NewFileType DEF Recorder!StartFails
    <2>2. QED BY <1>1, <1>3, <2>1
                 DEF Recorder!StartFails, Recorder!ClearRecordingState, Recorder!TypeOK,
                     Recorder!None
  <1>4. ASSUME NEW taken \in Recorder!Accepted, Recorder!StartSucceeds(anchor, taken)
        PROVE  Recorder!TypeOK'
    <2>1. file' \in Recorder!File
      BY <1>4, AcceptedBytes, NewFileType DEF Recorder!StartSucceeds
    <2>2. QED BY <1>1, <1>4, <2>1
                 DEF Recorder!StartSucceeds, Recorder!TypeOK, Recorder!None,
                     Recorder!UnitBytes
  <1>5. QED BY <1>2, <1>3, <1>4 DEF Recorder!Start

LEMMA EndDamagedType ==
  ASSUME Recorder!TypeOK, NEW bytes \in Nat, NEW reason \in Recorder!Reasons,
         Recorder!EndDamaged(bytes, reason)
  PROVE  /\ rState' \in {"Stopped", "Live", "Damaged"}
         /\ scheduled' \in SUBSET Nat
         /\ rFlushPending' \in BOOLEAN
         /\ rEndNs' \in Nat
         /\ rLastReport' \in Recorder!Report
         /\ UNCHANGED <<rRecords, rStartNs, rRecordingStarted, rFileOpen>>
  BY DurationType DEF Recorder!EndDamaged, Recorder!TypeOK, Recorder!Report, Recorder!None

LEMMA RecorderEventType == Recorder!TypeOK /\ Recorder!OnEventObserved => Recorder!TypeOK'
  <1> SUFFICES ASSUME Recorder!TypeOK, Recorder!OnEventObserved PROVE Recorder!TypeOK'
    OBVIOUS
  <1>1. mLastSequence' \in Nat /\ UNCHANGED <<rAlive, now>>
    BY DEF Recorder!OnEventObserved, Recorder!TypeOK
  <1>2. CASE Recorder!RecordUnencodable
    <2>1. rBytes \in Nat /\ "unencodable" \in Recorder!Reasons
      BY DEF Recorder!TypeOK, Recorder!Reasons
    <2>2. Recorder!EndDamaged(rBytes, "unencodable") /\ UNCHANGED <<rBytes, Recorder!sinkVars>>
      BY <1>2 DEF Recorder!RecordUnencodable
    <2>3. QED BY <1>1, <2>1, <2>2, EndDamagedType DEF Recorder!TypeOK, Recorder!sinkVars
  <1>3. ASSUME NEW taken \in Recorder!Accepted, Recorder!RecordCutShort(taken)
        PROVE  Recorder!TypeOK'
    <2>1. rBytes' \in Nat
      BY <1>3, AcceptedBytes
         DEF Recorder!RecordCutShort, Recorder!TypeOK, Recorder!UnitBytes
    <2>2. file' \in Recorder!File
      BY <1>3, AcceptedBytes DEF Recorder!RecordCutShort, Recorder!TypeOK, Recorder!File
    <2>3. Recorder!EndDamaged(rBytes', "incomplete") /\ UNCHANGED unflushedSince
      BY <1>3 DEF Recorder!RecordCutShort
    <2>4. QED BY <1>1, <2>1, <2>2, <2>3, EndDamagedType
                 DEF Recorder!TypeOK, Recorder!Reasons
  <1>4. ASSUME NEW taken \in Recorder!Accepted, Recorder!RecordWritten(mLastSequence + 1, taken)
        PROVE  Recorder!TypeOK'
    <2>1. rBytes' \in Nat /\ rRecords' \in Nat
      BY <1>4, AcceptedBytes DEF Recorder!RecordWritten, Recorder!TypeOK, Recorder!UnitBytes
    <2>2. file' \in Recorder!File
      <3>1. Append(file.records, mLastSequence + 1) \in Seq(Nat)
        BY DEF Recorder!TypeOK, Recorder!File
      <3>2. QED BY <1>4, <3>1 DEF Recorder!RecordWritten, Recorder!TypeOK, Recorder!File
    <2>3. unflushedSince' \in SUBSET Nat
      BY <1>4 DEF Recorder!RecordWritten, Recorder!TypeOK, Recorder!None
    <2>4. scheduled' \in SUBSET Nat /\ rFlushPending' \in BOOLEAN
      <3>1. now + FlushInterval \in Nat
        BY DEF Recorder!TypeOK
      <3>2. CASE rFlushPending
        BY <1>4, <3>2 DEF Recorder!RecordWritten, Recorder!ArmFlush, Recorder!TypeOK
      <3>3. CASE ~rFlushPending
        BY <1>4, <3>1, <3>3 DEF Recorder!RecordWritten, Recorder!ArmFlush
      <3>4. QED BY <3>2, <3>3
    <2>5. QED BY <1>1, <1>4, <2>1, <2>2, <2>3, <2>4
                 DEF Recorder!RecordWritten, Recorder!TypeOK
  <1>5. CASE UNCHANGED <<rState, rFileOpen, rFlushPending, Recorder!measureVars, rLastReport,
                         scheduled, Recorder!sinkVars>>
    BY <1>1, <1>5 DEF Recorder!TypeOK, Recorder!measureVars, Recorder!sinkVars
  <1>6. QED BY <1>2, <1>3, <1>4, <1>5 DEF Recorder!OnEventObserved

LEMMA RecorderTimerType ==
  ASSUME Recorder!TypeOK, NEW flushes \in BOOLEAN, Recorder!OnFlushTimer(flushes)
  PROVE  Recorder!TypeOK'
  <1>1. CASE Recorder!EndDamaged(rBytes, "unflushed") /\ UNCHANGED <<rBytes, unflushedSince>>
    <2>1. rBytes \in Nat /\ "unflushed" \in Recorder!Reasons
      BY DEF Recorder!TypeOK, Recorder!Reasons
    <2>2. QED BY <1>1, <2>1, EndDamagedType DEF Recorder!OnFlushTimer, Recorder!TypeOK
  <1>2. CASE ~(Recorder!EndDamaged(rBytes, "unflushed") /\ UNCHANGED <<rBytes, unflushedSince>>)
    BY <1>2 DEF Recorder!OnFlushTimer, Recorder!TypeOK, Recorder!measureVars, Recorder!None
  <1>3. QED BY <1>1, <1>2

LEMMA RecorderInitType == Recorder!Init => Recorder!TypeOK
  <1> SUFFICES ASSUME Recorder!Init PROVE Recorder!TypeOK
    OBVIOUS
  <1>1. <<>> \in Seq(Nat)
    OBVIOUS
  <1>2. file \in Recorder!File
    BY <1>1 DEF Recorder!Init, Recorder!EmptyFile, Recorder!File, Recorder!UnitBytes
  <1>3. rLastReport \in Recorder!Report
    BY DEF Recorder!Init, Recorder!EmptyReport, Recorder!Report, Recorder!Reasons
  <1>4. QED BY <1>2, <1>3 DEF Recorder!Init, Recorder!TypeOK, Recorder!None

LEMMA RecorderNextType == Recorder!TypeOK /\ [Recorder!Next]_(Recorder!vars) => Recorder!TypeOK'
  <1> SUFFICES ASSUME Recorder!TypeOK, [Recorder!Next]_(Recorder!vars) PROVE Recorder!TypeOK'
    OBVIOUS
  <1>1. ASSUME NEW live \in BOOLEAN, NEW valid \in BOOLEAN, NEW anchor \in SourceTimes,
               Recorder!Start(live, valid, anchor)
        PROVE  Recorder!TypeOK'
    BY <1>1, RecorderStartType
  <1>2. ASSUME NEW flushes \in BOOLEAN, Recorder!Stop(flushes)
        PROVE  Recorder!TypeOK'
    BY <1>2, FinalReportType
       DEF Recorder!Stop, Recorder!ClearRecordingState, Recorder!TypeOK, Recorder!None
  <1>3. ASSUME NEW flushes \in BOOLEAN, Recorder!OnFlushTimer(flushes)
        PROVE  Recorder!TypeOK'
    BY <1>3, RecorderTimerType
  <1>4. CASE Recorder!OnEventObserved
    BY <1>4, RecorderEventType
  <1>5. CASE Recorder!Destroy
    BY <1>5 DEF Recorder!Destroy, Recorder!TypeOK, Recorder!measureVars, Recorder!None
  <1>6. CASE Recorder!Tick
    BY <1>6 DEF Recorder!Tick, Recorder!TypeOK, Recorder!measureVars, Recorder!sinkVars
  <1>7. CASE UNCHANGED Recorder!vars
    BY <1>7 DEF Recorder!vars, Recorder!TypeOK, Recorder!measureVars, Recorder!sinkVars
  <1>8. QED BY <1>1, <1>2, <1>3, <1>4, <1>5, <1>6, <1>7 DEF Recorder!Next

-----------------------------------------------------------------------------
(* The document.                                                           *)

\* What the two orders are, step by step.
LEMMA Orders ==
  /\ CloseOrder # <<>> /\ Head(CloseOrder) = "transport"
  /\ Tail(CloseOrder) # <<>> /\ Head(Tail(CloseOrder)) = "recorder"
  /\ Tail(Tail(CloseOrder)) = <<>>
  /\ DestroyOrder # <<>> /\ Head(DestroyOrder) = "controller"
  /\ Tail(DestroyOrder) # <<>> /\ Head(Tail(DestroyOrder)) = "recorder"
  /\ Tail(Tail(DestroyOrder)) # <<>> /\ Head(Tail(Tail(DestroyOrder))) = "transport"
  /\ Tail(Tail(Tail(DestroyOrder))) = <<>>
  BY DEF CloseOrder, DestroyOrder

\* While the document closes nothing of it has been destroyed; the port is closed
\* before the recording is, and the controller is gone before the port.
DocumentOK ==
  /\ closing \in {CloseOrder, Tail(CloseOrder), <<>>}
  /\ closed \in BOOLEAN
  /\ destroying \in {DestroyOrder, Tail(DestroyOrder), Tail(Tail(DestroyOrder)), <<>>}
  /\ controllerAlive \in BOOLEAN
  /\ closing # <<>> => controllerAlive /\ destroying = <<>>
  /\ closing = Tail(CloseOrder) => activation = 0
  /\ destroying \in {Tail(DestroyOrder), Tail(Tail(DestroyOrder))} => ~controllerAlive

\* The controller follows the transport.
Agreement ==
  /\ activation \in Ids /\ attempts \in Ids
  /\ mState = "Live" <=> mCurrentActivationId # 0
  /\ controllerAlive => activation = mCurrentActivationId

\* Outside the drain loop nothing waits.
Drained == ~mDelivering => mFifo = <<>> /\ emitting = <<>>

-----------------------------------------------------------------------------
(* Each step of the session is one of the controller and one of the        *)
(* recorder, or leaves them alone.                                         *)

LEMMA TransportStep ==
  ASSUME activation \in Ids, NEW t \in SourceTimes,
         \/ TransportOpens(t) \/ TransportFailsToOpen(t)
         \/ TransportCloses(t) \/ TransportReports(t)
  PROVE  Observe
  <1>1. CASE TransportOpens(t)
    <2>1. attempts' \in Ids /\ OnOpened(attempts', t)
      BY <1>1 DEF TransportOpens, Ids
    <2>2. QED BY <2>1 DEF Observe
  <1>2. CASE TransportFailsToOpen(t)
    <2>1. attempts' \in Ids /\ OnTransportError(attempts', t)
      BY <1>2 DEF TransportFailsToOpen, Ids
    <2>2. QED BY <2>1 DEF Observe
  <1>3. CASE TransportCloses(t)
    BY <1>3 DEF TransportCloses, Observe
  <1>4. CASE TransportReports(t)
    BY <1>4 DEF TransportReports, Observe
  <1>5. QED BY <1>1, <1>2, <1>3, <1>4

LEMMA ControllerStep ==
  ASSUME activation \in Ids, SessionNext
  PROVE  \/ Observe /\ (TransportActs \/ CloseTransport)
         \/ ControllerEmits /\ Deliver
         \/ ControllerContinues /\ (DeliveryReturns \/ DrainEnds)
         \/ UNCHANGED vars
  <1>1. CASE TransportActs
    BY <1>1, TransportStep DEF TransportActs
  <1>2. CASE ControllerEmits
    BY <1>2 DEF ControllerEmits
  <1>3. CASE ControllerContinues
    BY <1>3 DEF ControllerContinues
  <1>4. CASE CloseTransport
    <2>1. CASE activation = 0
      BY <1>4, <2>1 DEF CloseTransport, controllerVars
    <2>2. CASE activation # 0
      <3>1. PICK t \in SourceTimes : OnClosed(activation, t)
        BY <1>4, <2>2 DEF CloseTransport
      <3>2. QED BY <1>4, <3>1 DEF Observe
    <2>3. QED BY <2>1, <2>2
  <1>5. CASE \/ StartRecording \/ StopRecording \/ FlushTimer \/ TimePasses
             \/ CloseSession \/ CloseRecorder \/ DestroyDocument
             \/ DestroyController \/ DestroyRecorder \/ DestroyTransport
    BY <1>5 DEF StartRecording, StopRecording, FlushTimer, TimePasses, CloseSession,
                CloseRecorder, DestroyDocument, DestroyController, DestroyRecorder,
                DestroyTransport, DestroyStep, controllerVars
  <1>6. QED BY <1>1, <1>2, <1>3, <1>4, <1>5 DEF SessionNext

\* A recording that starts gets the anchor of the stream.
LEMMA ReferenceIsATime ==
  ASSUME AnchorInv, mReferenceSet
  PROVE  mReferenceSourceTimestampNs \in SourceTimes
  <1>1. events \in Seq(Event) /\ events # <<>>
    BY DEF AnchorInv, TypeOK, Anchored
  <1>2. events[1] \in Event
    BY <1>1
  <1>3. QED BY <1>2 DEF AnchorInv, Anchored, Event

LEMMA RecorderStep ==
  ASSUME AnchorInv, SessionNext
  PROVE  [Recorder!Next]_(Recorder!vars)
  <1>1. CASE StartRecording
    <2>1. Recorder!Start(mState = "Live", mReferenceSet, mReferenceSourceTimestampNs)
      BY <1>1 DEF StartRecording
    <2>2. \E anchor \in SourceTimes : Recorder!Start(mState = "Live", mReferenceSet, anchor)
      <3>1. CASE Recorder!StartRefused
        BY <3>1 DEF Recorder!Start
      <3>2. CASE ~Recorder!StartRefused
        BY <2>1, <3>2, ReferenceIsATime DEF Recorder!Start
      <3>3. QED BY <3>1, <3>2
    <2>3. mReferenceSet \in BOOLEAN /\ (mState = "Live") \in BOOLEAN
      BY DEF AnchorInv, TypeOK
    <2>4. QED BY <2>2, <2>3 DEF Recorder!Next
  <1>2. CASE StopRecording \/ FlushTimer
    BY <1>2 DEF StopRecording, FlushTimer, Recorder!Next
  <1>3. CASE TimePasses
    BY <1>3 DEF TimePasses, Recorder!Next
  <1>4. CASE ControllerEmits
    BY <1>4 DEF ControllerEmits, Recorder!Next
  <1>5. CASE DestroyRecorder
    BY <1>5 DEF DestroyRecorder, Recorder!Next
  <1>6. ASSUME UNCHANGED recorderVars, UNCHANGED mLastSequence
        PROVE  UNCHANGED Recorder!vars
    BY <1>6 DEF recorderVars, Recorder!vars, Recorder!measureVars, Recorder!sinkVars
  <1>7. CASE CloseRecorder
    <2>1. CASE rState = "Stopped"
      BY <1>6, <1>7, <2>1 DEF CloseRecorder, controllerVars, vars
    <2>2. CASE rState # "Stopped"
      BY <1>7, <2>2 DEF CloseRecorder, Recorder!Next
    <2>3. QED BY <2>1, <2>2
  <1>8. CASE \/ TransportActs \/ ControllerContinues \/ CloseSession \/ CloseTransport
             \/ DestroyDocument \/ DestroyController \/ DestroyTransport
    <2>1. UNCHANGED recorderVars
      BY <1>8 DEF TransportActs, ControllerContinues, CloseSession, CloseTransport,
                  DestroyDocument, DestroyController, DestroyTransport
    <2>2. UNCHANGED mLastSequence
      <3>1. CASE TransportActs
        BY <3>1 DEF TransportActs, TransportOpens, TransportFailsToOpen, TransportCloses,
                    TransportReports, OnOpened, OnClosed, OnTransportError, OnData, OnNonData,
                    Enqueue
      <3>2. CASE ControllerContinues
        BY <3>2 DEF ControllerContinues, DeliveryReturns, DrainEnds
      <3>3. CASE CloseTransport
        BY <3>3 DEF CloseTransport, OnClosed, Enqueue, controllerVars, vars
      <3>4. CASE CloseSession \/ DestroyDocument \/ DestroyController \/ DestroyTransport
        BY <3>4 DEF CloseSession, DestroyDocument, DestroyController, DestroyTransport,
                    DestroyStep, controllerVars, vars
      <3>5. QED BY <1>8, <3>1, <3>2, <3>3, <3>4
    <2>3. QED BY <1>6, <2>1, <2>2
  <1>9. QED BY <1>1, <1>2, <1>3, <1>4, <1>5, <1>7, <1>8 DEF SessionNext

-----------------------------------------------------------------------------
(* Document and controller agree.                                          *)

LEMMA ObserveActivation ==
  ASSUME TypeOK, Observe, mState = "Live" <=> mCurrentActivationId # 0
  PROVE  mState' = "Live" <=> mCurrentActivationId' # 0
  BY DEF Observe, OnOpened, OnClosed, OnTransportError, OnData, OnNonData, filterVars, TypeOK

LEMMA DrainActivation ==
  ASSUME Deliver \/ DeliveryReturns \/ DrainEnds \/ UNCHANGED vars
  PROVE  UNCHANGED <<mState, mCurrentActivationId>>
  BY DEF Deliver, DeliveryReturns, DrainEnds, filterVars, vars

LEMMA NextAgreement ==
  ASSUME TypeOK, Agreement, DocumentOK, SessionNext
  PROVE  Agreement'
  <1>1. CASE TransportActs
    <2>1. Observe /\ controllerAlive /\ controllerAlive'
      BY <1>1, TransportStep DEF TransportActs, IsRunning, documentVars, Agreement
    <2>2. mState' = "Live" <=> mCurrentActivationId' # 0
      BY <2>1, ObserveActivation DEF Agreement
    <2>3. PICK t \in SourceTimes :
            \/ TransportOpens(t) \/ TransportFailsToOpen(t)
            \/ TransportCloses(t) \/ TransportReports(t)
      BY <1>1 DEF TransportActs
    <2>4. activation' = mCurrentActivationId' /\ activation' \in Ids /\ attempts' \in Ids
      <3>1. CASE TransportOpens(t)
        BY <3>1 DEF TransportOpens, OnOpened, Ids
      <3>2. CASE TransportFailsToOpen(t)
        BY <2>1, <3>2 DEF TransportFailsToOpen, OnTransportError, Ids, Agreement
      <3>3. CASE TransportCloses(t)
        BY <3>3 DEF TransportCloses, OnClosed, Ids, Agreement
      <3>4. CASE TransportReports(t)
        BY <2>1, <3>4 DEF TransportReports, OnTransportError, OnData, OnNonData, filterVars,
                          transportVars, Agreement
      <3>5. QED BY <2>3, <3>1, <3>2, <3>3, <3>4
    <2>5. QED BY <2>1, <2>2, <2>4 DEF Agreement
  <1>2. CASE CloseTransport
    <2>1. UNCHANGED <<attempts, controllerAlive>> /\ controllerAlive
      BY <1>2 DEF CloseTransport, CloseStep, DocumentOK
    <2>2. CASE activation = 0
      BY <1>2, <2>1, <2>2 DEF CloseTransport, controllerVars, vars, filterVars, Agreement
    <2>3. CASE activation # 0
      BY <1>2, <2>1, <2>3 DEF CloseTransport, OnClosed, Agreement, Ids
    <2>4. QED BY <2>2, <2>3
  <1>3. CASE ControllerEmits \/ ControllerContinues
    <2>1. UNCHANGED <<activation, attempts, controllerAlive, mState, mCurrentActivationId>>
      BY <1>3, DrainActivation
         DEF ControllerEmits, ControllerContinues, transportVars, documentVars
    <2>2. QED BY <2>1 DEF Agreement
  <1>4. CASE \/ StartRecording \/ StopRecording \/ FlushTimer \/ TimePasses
             \/ CloseSession \/ CloseRecorder \/ DestroyDocument
    <2>1. UNCHANGED <<activation, attempts, controllerAlive, mState, mCurrentActivationId>>
      BY <1>4 DEF StartRecording, StopRecording, FlushTimer, TimePasses, CloseSession,
                  CloseRecorder, CloseStep, DestroyDocument, transportVars, documentVars,
                  controllerVars, vars, filterVars
    <2>2. QED BY <2>1 DEF Agreement
  <1>5. CASE DestroyController \/ DestroyRecorder
    <2>1. /\ UNCHANGED <<activation, attempts, mState, mCurrentActivationId>>
          /\ controllerAlive' => controllerAlive
      BY <1>5 DEF DestroyController, DestroyRecorder, DestroyStep, transportVars,
                  controllerVars, vars, filterVars
    <2>2. QED BY <2>1 DEF Agreement
  <1>6. CASE DestroyTransport
    <2>1. ~controllerAlive'
      BY <1>6, Orders DEF DestroyTransport, DestroyStep, DocumentOK
    <2>2. UNCHANGED <<attempts, mState, mCurrentActivationId>> /\ activation' = 0
      BY <1>6 DEF DestroyTransport, DestroyStep, controllerVars, vars, filterVars
    <2>3. QED BY <2>1, <2>2 DEF Agreement, Ids
  <1>7. QED BY <1>1, <1>2, <1>3, <1>4, <1>5, <1>6 DEF SessionNext

LEMMA NextDocument ==
  ASSUME DocumentOK, SessionNext
  PROVE  DocumentOK'
  <1>1. CASE UNCHANGED documentVars
    <2>1. CASE ~TransportActs
      <3>1. CASE UNCHANGED activation
        BY <1>1, <3>1 DEF documentVars, DocumentOK
      <3>2. CASE ~UNCHANGED activation
        <4>1. activation' = 0 \/ UNCHANGED activation
          BY <2>1 DEF SessionNext, ControllerEmits, ControllerContinues, StartRecording,
                      StopRecording, FlushTimer, TimePasses, CloseSession, CloseTransport,
                      CloseRecorder, DestroyDocument, DestroyController, DestroyRecorder,
                      DestroyTransport, transportVars
        <4>2. QED BY <1>1, <3>2, <4>1 DEF documentVars, DocumentOK
      <3>3. QED BY <3>1, <3>2
    <2>2. CASE TransportActs
      BY <1>1, <2>2, Orders DEF TransportActs, IsRunning, documentVars, DocumentOK
    <2>3. QED BY <2>1, <2>2
  <1>2. CASE CloseSession
    BY <1>2, Orders DEF CloseSession, IsRunning, transportVars, DocumentOK
  <1>3. CASE CloseTransport
    <2>1. activation' = 0
      BY <1>3 DEF CloseTransport
    <2>2. QED BY <1>3, <2>1, Orders DEF CloseTransport, CloseStep, DocumentOK
  <1>4. CASE CloseRecorder
    <2>1. closing = Tail(CloseOrder) /\ closing' = <<>>
      BY <1>4, Orders DEF CloseRecorder, CloseStep, DocumentOK
    <2>2. QED BY <1>4, <2>1, Orders DEF CloseRecorder, CloseStep, DocumentOK
  <1>5. CASE DestroyDocument
    BY <1>5, Orders DEF DestroyDocument, DocumentOK
  <1>6. CASE DestroyController
    BY <1>6, Orders DEF DestroyController, DestroyStep, DocumentOK
  <1>7. CASE DestroyRecorder
    BY <1>7, Orders DEF DestroyRecorder, DestroyStep, DocumentOK
  <1>8. CASE DestroyTransport
    BY <1>8, Orders DEF DestroyTransport, DestroyStep, DocumentOK
  <1>9. QED
    BY <1>1, <1>2, <1>3, <1>4, <1>5, <1>6, <1>7, <1>8
       DEF SessionNext, TransportActs, ControllerEmits, ControllerContinues, StartRecording,
           StopRecording, FlushTimer, TimePasses

LEMMA NextDrained ==
  ASSUME activation \in Ids, TypeOK, Drained, SessionNext
  PROVE  Drained'
  <1>1. CASE Observe
    <2>1. mDelivering' = TRUE
      BY <1>1, ObserveEnqueues DEF Enqueue
    <2>2. QED BY <2>1 DEF Drained
  <1>2. CASE Deliver \/ DeliveryReturns
    <2>1. mDelivering /\ mDelivering' = mDelivering
      BY <1>2 DEF Deliver, DeliveryReturns, Drained, TypeOK
    <2>2. QED BY <2>1 DEF Drained
  <1>3. CASE DrainEnds
    BY <1>3 DEF DrainEnds, LoopIsDone, Drained
  <1>4. CASE UNCHANGED vars
    BY <1>4 DEF vars, Drained
  <1>5. QED BY <1>1, <1>2, <1>3, <1>4, ControllerStep

-----------------------------------------------------------------------------
(* What becomes of the recording while the session goes on.                *)

Listens == rAlive /\ rState = "Live"

\* The file of a sound recording is left alone by all that emits nothing.
SameFile ==
  /\ file'.header = file.header /\ file'.anchor = file.anchor /\ file'.records = file.records
  /\ Listens' =>
       Listens /\ (Observe \/ DeliveryReturns \/ DrainEnds \/ UNCHANGED vars)

\* A recording begins, or fails to: only a live and anchored session has its file replaced.
NewRecording ==
  /\ UNCHANGED vars
  /\ mState = "Live" /\ mReferenceSet
  /\ file'.anchor = mReferenceSourceTimestampNs /\ file'.records = <<>>

\* An event is emitted and becomes the newest record.
NewRecord ==
  /\ Deliver
  /\ Listens
  /\ file'.header = file.header /\ file'.anchor = file.anchor
  /\ file'.records = Append(file.records, mLastSequence + 1)

LEMMA EndedRecording ==
  ASSUME NEW bytes, NEW reason, Recorder!EndDamaged(bytes, reason)
  PROVE  ~Listens'
  BY DEF Recorder!EndDamaged, Listens

LEMMA FileStep ==
  ASSUME activation \in Ids, Recorder!TypeOK, SessionNext
  PROVE  SameFile \/ NewRecording \/ NewRecord
  <1>1. CASE ControllerEmits
    <2>1. Deliver /\ Recorder!OnEventObserved /\ UNCHANGED rAlive
      BY <1>1 DEF ControllerEmits, Recorder!OnEventObserved
    <2>2. CASE Recorder!RecordUnencodable
      BY <2>2, EndedRecording DEF Recorder!RecordUnencodable, Recorder!sinkVars, SameFile
    <2>3. ASSUME NEW taken \in Recorder!Accepted, Recorder!RecordCutShort(taken)
          PROVE  SameFile
      BY <2>3, EndedRecording DEF Recorder!RecordCutShort, Recorder!TypeOK, Recorder!File, SameFile
    <2>4. ASSUME Listens, NEW taken \in Recorder!Accepted,
                 Recorder!RecordWritten(mLastSequence + 1, taken)
          PROVE  NewRecord
      BY <2>1, <2>4 DEF Recorder!RecordWritten, Recorder!TypeOK, Recorder!File, NewRecord
    <2>5. CASE /\ ~(rAlive /\ Recorder!IsRecording)
               /\ UNCHANGED <<rState, Recorder!sinkVars>>
      BY <2>1, <2>5 DEF Recorder!IsRecording, Recorder!sinkVars, SameFile, Listens
    <2>6. QED BY <2>1, <2>2, <2>3, <2>4, <2>5
              DEF Recorder!OnEventObserved, Recorder!IsRecording, Listens
  <1>2. CASE StartRecording
    <2>1. UNCHANGED vars
      BY <1>2 DEF StartRecording, controllerVars
    <2>2. CASE Recorder!StartRefused
      BY <2>2 DEF Recorder!StartRefused, SameFile, Listens
    <2>3. CASE ~Recorder!StartRefused
      <3>1. /\ mState = "Live" /\ mReferenceSet
            /\ \E taken \in Recorder!Accepted :
                 \/ Recorder!StartSucceeds(mReferenceSourceTimestampNs, taken)
                 \/ \E flushes \in BOOLEAN :
                      Recorder!StartFails(mReferenceSourceTimestampNs, taken, flushes)
        BY <1>2, <2>3 DEF StartRecording, Recorder!Start
      <3>2. PICK taken :
              file' = Recorder!NewFile(Recorder!AtLeastZero(taken), mReferenceSourceTimestampNs)
        BY <3>1 DEF Recorder!StartSucceeds, Recorder!StartFails
      <3>3. QED BY <2>1, <3>1, <3>2 DEF Recorder!NewFile, NewRecording
    <2>4. QED BY <2>2, <2>3
  <1>3. CASE \/ StopRecording
             \/ CloseRecorder /\ rState # "Stopped"
    <2>1. PICK flushes : Recorder!Stop(flushes)
      BY <1>3 DEF StopRecording, CloseRecorder
    <2>2. QED BY <2>1 DEF Recorder!Stop, SameFile, Listens
  <1>4. CASE FlushTimer
    <2>1. UNCHANGED vars
      BY <1>4 DEF FlushTimer, controllerVars
    <2>2. PICK flushes \in BOOLEAN : Recorder!OnFlushTimer(flushes)
      BY <1>4 DEF FlushTimer
    <2>3. UNCHANGED file /\ (Listens' => Listens)
      BY <2>2, EndedRecording DEF Recorder!OnFlushTimer, Listens
    <2>4. QED BY <2>1, <2>3 DEF SameFile
  <1>5. CASE TimePasses
    BY <1>5 DEF TimePasses, controllerVars, Recorder!Tick, Recorder!sinkVars, SameFile, Listens
  <1>6. CASE DestroyRecorder
    BY <1>6 DEF DestroyRecorder, Recorder!Destroy, SameFile, Listens
  <1>7. CASE \/ TransportActs \/ ControllerContinues \/ CloseSession \/ CloseTransport
             \/ CloseRecorder /\ rState = "Stopped"
             \/ DestroyDocument \/ DestroyController \/ DestroyTransport
    <2>1. UNCHANGED <<rAlive, rState, file>>
      BY <1>7 DEF TransportActs, ControllerContinues, CloseSession, CloseTransport,
                  CloseRecorder, DestroyDocument, DestroyController, DestroyTransport,
                  recorderVars
    <2>2. ~ControllerEmits => Observe \/ DeliveryReturns \/ DrainEnds \/ UNCHANGED vars
      BY ControllerStep
    <2>3. QED BY <1>1, <2>1, <2>2 DEF SameFile, Listens
  <1>8. QED BY <1>1, <1>2, <1>3, <1>4, <1>5, <1>6, <1>7 DEF SessionNext

-----------------------------------------------------------------------------
(* The header and the newest record.                                       *)

RecordsAreEvents == \A i \in 1 .. Len(file.records) : file.records[i] \in 1 .. Len(events)

HeaderOK ==
  file.header # 0 => mReferenceSet /\ file.anchor = mReferenceSourceTimestampNs

NewestOK ==
  (Listens /\ file.records # <<>>) => file.records[Len(file.records)] = Len(events)

FileOK == SequenceCounts /\ RecordsAreEvents /\ HeaderOK /\ NewestOK

\* The stream only grows, by the event that is emitted, and keeps its reference.
LEMMA StreamStep ==
  ASSUME TypeOK, SequenceCounts, [Next]_vars
  PROVE  /\ SequenceCounts'
         /\ Deliver => \E e : events' = Append(events, e) /\ e.type = Head(mFifo).type
         /\ ~Deliver => UNCHANGED <<events, mLastSequence>>
         /\ mReferenceSet => mReferenceSet' /\ UNCHANGED mReferenceSourceTimestampNs
  <1>1. CASE Observe
    <2>1. UNCHANGED <<events, mLastSequence, mReferenceSet, mReferenceSourceTimestampNs, emitting>>
      BY <1>1, ObserveEnqueues DEF Enqueue, timeVars
    <2>2. ~Deliver
      <3>1. Deliver => emitting = <<>> /\ emitting' # <<>>
        <4>1. \A r : <<r>> # <<>>
          OBVIOUS
        <4>2. QED BY <4>1, Zenon DEF Deliver, DeliverObservation, DeliverDiagnostic, Emit
      <3>2. QED BY <2>1, <3>1
    <2>3. QED BY <2>1, <2>2 DEF SequenceCounts
  <1>2. CASE Deliver
    <2>1. PICK e : /\ events' = Append(events, e) /\ e.type = Head(mFifo).type
                   /\ mLastSequence' = mLastSequence + 1
      BY <1>2 DEF Deliver, DeliverObservation, DeliverDiagnostic, Emit
    <2>2. Len(events') = Len(events) + 1
      BY <2>1 DEF TypeOK
    <2>3. mReferenceSet => mReferenceSet' /\ UNCHANGED mReferenceSourceTimestampNs
      BY <1>2 DEF Deliver, DeliverObservation, DeliverDiagnostic, IsAnchor, timeVars
    <2>4. QED BY <1>2, <2>1, <2>2, <2>3 DEF SequenceCounts
  <1>3. CASE ~Deliver /\ (DeliveryReturns \/ DrainEnds \/ UNCHANGED vars)
    BY <1>3 DEF DeliveryReturns, DrainEnds, vars, timeVars, SequenceCounts
  <1>4. QED BY <1>1, <1>2, <1>3 DEF Next, Drain

LEMMA NextFileOK ==
  ASSUME AnchorInv, Recorder!TypeOK, activation \in Ids, FileOK, SessionNext
  PROVE  FileOK'
  <1>1. [Next]_vars
    BY ControllerStep DEF Next, Drain
  <1>2. TypeOK /\ TypeOK' /\ Recorder!TypeOK'
    <2>1. TypeOK
      BY DEF AnchorInv
    <2>2. TypeOK'
      BY <1>1, <2>1, NextType
    <2>3. Recorder!TypeOK'
      BY RecorderStep, RecorderNextType
    <2>4. QED BY <2>1, <2>2, <2>3
  <1>3. /\ file.records \in Seq(Nat) /\ file'.records \in Seq(Nat)
        /\ Len(events) \in Nat /\ Len(events') \in Nat
        /\ file.header \in Nat
    <2>1. \A f \in Recorder!File : f.records \in Seq(Nat) /\ f.header \in Nat
      BY DEF Recorder!File, Recorder!UnitBytes
    <2>2. file \in Recorder!File /\ file' \in Recorder!File
      BY <1>2 DEF Recorder!TypeOK
    <2>3. events \in Seq(Event) /\ events' \in Seq(Event)
      BY <1>2 DEF TypeOK
    <2>4. QED BY <2>1, <2>2, <2>3
  <1>4. /\ SequenceCounts'
        /\ Deliver => Len(events') = Len(events) + 1
        /\ ~Deliver => UNCHANGED <<events, mLastSequence>>
        /\ mReferenceSet => mReferenceSet' /\ UNCHANGED mReferenceSourceTimestampNs
    <2>1. \A e : events \in Seq(Event) /\ Append(events, e) \in Seq(Event)
                  => Len(Append(events, e)) = Len(events) + 1
      OBVIOUS
    <2>2. QED BY <1>1, <1>2, <2>1, StreamStep DEF FileOK, TypeOK
  <1>5. CASE SameFile
    <2>1. RecordsAreEvents'
      BY <1>3, <1>4, <1>5 DEF SameFile, RecordsAreEvents, FileOK
    <2>2. HeaderOK'
      BY <1>4, <1>5 DEF SameFile, HeaderOK, FileOK
    <2>3. NewestOK'
      <3>1. Listens' => Listens /\ UNCHANGED events
        <4>1. Observe \/ DeliveryReturns \/ DrainEnds \/ UNCHANGED vars => UNCHANGED events
          BY ObserveEnqueues DEF Enqueue, DeliveryReturns, DrainEnds, vars
        <4>2. QED BY <1>5, <4>1 DEF SameFile
      <3>2. QED BY <1>5, <3>1 DEF SameFile, NewestOK, FileOK
    <2>4. QED BY <1>4, <2>1, <2>2, <2>3 DEF FileOK
  <1>6. CASE NewRecording
    <2>1. Len(file'.records) = 0 /\ file'.records = <<>>
      BY <1>6 DEF NewRecording
    <2>2. HeaderOK'
      BY <1>6 DEF NewRecording, HeaderOK, vars, timeVars
    <2>3. QED BY <1>4, <2>1, <2>2 DEF FileOK, RecordsAreEvents, NewestOK
  <1>7. CASE NewRecord
    <2> DEFINE old == file.records
               new == file'.records
               last == mLastSequence + 1
    <2>1. /\ new = Append(old, last) /\ last = Len(events') /\ last \in Nat
          /\ Len(events') = Len(events) + 1
      BY <1>3, <1>4, <1>7 DEF NewRecord, FileOK, SequenceCounts
    <2>2. /\ Len(new) = Len(old) + 1 /\ new[Len(new)] = last
          /\ \A i \in 1 .. Len(old) : new[i] = old[i]
      <3> HIDE DEF old, new, last
      <3>1. old \in Seq(Nat)
        BY <1>3 DEF old
      <3>2. QED BY <2>1, <3>1, AppendFacts
    <2>3. RecordsAreEvents'
      <3> SUFFICES ASSUME NEW i \in 1 .. Len(new) PROVE new[i] \in 1 .. Len(events')
        BY DEF RecordsAreEvents
      <3>1. CASE i = Len(new)
        BY <1>3, <2>1, <2>2, <3>1
      <3>2. CASE i # Len(new)
        <4>1. i \in 1 .. Len(old)
          BY <1>3, <2>2, <3>2
        <4>2. new[i] = old[i] /\ old[i] \in 1 .. Len(events)
          BY <2>2, <4>1 DEF RecordsAreEvents, FileOK
        <4>3. QED BY <1>3, <2>1, <4>2
      <3>3. QED BY <3>1, <3>2
    <2>4. HeaderOK'
      BY <1>4, <1>7 DEF NewRecord, HeaderOK, FileOK
    <2>5. NewestOK'
      BY <2>1, <2>2 DEF NewestOK
    <2>6. QED BY <1>4, <2>3, <2>4, <2>5 DEF FileOK
  <1>8. QED BY <1>5, <1>6, <1>7, FileStep

-----------------------------------------------------------------------------
(* The end of the session in the recording.                                *)

IsBoundary(type) == type \in {Opened, Closed}

\* The last boundary in the queue is a closing, or there is none in it and the last
\* one in the file is a closing.
ClosedWaits ==
  \E i \in 1 .. Len(mFifo) :
    /\ mFifo[i].type = Closed
    /\ \A j \in i + 1 .. Len(mFifo) : ~IsBoundary(mFifo[j].type)

NoBoundaryWaits == \A j \in 1 .. Len(mFifo) : ~IsBoundary(mFifo[j].type)

Recorded(i) == events[file.records[i]].type

ClosedIsRecorded ==
  \E i \in 1 .. Len(file.records) :
    /\ Recorded(i) = Closed
    /\ \A j \in i + 1 .. Len(file.records) : ~IsBoundary(Recorded(j))

\* A recording can only begin while the session is live, so the closing of a session
\* that is not live any more comes after its beginning: it is in the file, or will be.
CloseComes ==
  (Listens /\ mState # "Live") => ClosedWaits \/ (NoBoundaryWaits /\ ClosedIsRecorded)

\* What a step that emits nothing does to the queue.
LEMMA QueueStep ==
  ASSUME TypeOK, Observe \/ DeliveryReturns \/ DrainEnds \/ UNCHANGED vars
  PROVE  \/ mFifo' = mFifo /\ mState' = mState
         \/ \E p \in PendingObservation :
              /\ mFifo' = Append(mFifo, p)
              /\ \/ mState' = "Live"
                 \/ p.type = Closed
                 \/ ~IsBoundary(p.type) /\ mState' = mState
  <1>1. CASE Observe
    <2>1. PICK type \in EventTypes, id \in Ids, t \in SourceTimes :
            /\ Enqueue(type, id, t)
            /\ \/ mState' = "Live"
               \/ type = Closed
               \/ ~IsBoundary(type) /\ mState' = mState
      BY <1>1 DEF Observe, OnOpened, OnClosed, OnTransportError, OnData, OnNonData, filterVars,
                  EventTypes, DataTypes, NonDataTypes, IsBoundary, Opened, Closed, Error
    <2> DEFINE p == [type |-> type, act |-> id, sourceTimestampNs |-> t,
                     sessionTimeMapped |-> FALSE, sessionTimestampNs |-> 0]
    <2>2. mFifo' = Append(mFifo, p) /\ p.type = type /\ p \in PendingObservation
      BY <2>1 DEF Enqueue, Queue, PendingObservation
    <2> HIDE DEF p
    <2>3. QED BY <2>1, <2>2
  <1>2. CASE DeliveryReturns
    <2>1. mState' = mState
      BY <1>2 DEF DeliveryReturns, filterVars
    <2>2. CASE ~emitting[1].anomaly
      BY <1>2, <2>1, <2>2 DEF DeliveryReturns
    <2>3. CASE emitting[1].anomaly
      <3> DEFINE p == [type |-> Error, act |-> emitting[1].act,
                       sourceTimestampNs |-> emitting[1].sourceTimestampNs,
                       sessionTimeMapped |-> TRUE, sessionTimestampNs |-> emitting[1].time]
      <3>1. mFifo' = Append(mFifo, p)
        BY <1>2, <2>3 DEF DeliveryReturns, Queue
      <3>2. emitting[1] \in Emission
        <4>1. emitting \in Seq(Emission) /\ emitting # <<>>
          BY <1>2 DEF DeliveryReturns, TypeOK, Emission
        <4>2. QED BY <4>1
      <3>3. p \in PendingObservation /\ p.type = Error
        BY <3>2 DEF PendingObservation, Emission, EventTypes
      <3>4. ~IsBoundary(Error)
        BY DEF IsBoundary, Opened, Closed, Error
      <3> HIDE DEF p
      <3>5. QED BY <2>1, <3>1, <3>3, <3>4
    <2>4. QED BY <2>2, <2>3
  <1>3. CASE DrainEnds \/ UNCHANGED vars
    BY <1>3 DEF DrainEnds, vars, filterVars
  <1>4. QED BY <1>1, <1>2, <1>3

LEMMA NextCloseComes ==
  ASSUME AnchorInv, Recorder!TypeOK, activation \in Ids, FileOK, CloseComes, SessionNext
  PROVE  CloseComes'
  <1> SUFFICES ASSUME Listens', mState' # "Live"
               PROVE  (ClosedWaits \/ (NoBoundaryWaits /\ ClosedIsRecorded))'
    BY DEF CloseComes
  <1>1. TypeOK /\ mFifo \in Seq(PendingObservation) /\ Len(mFifo) \in Nat
    BY DEF AnchorInv, TypeOK
  <1>2. CASE SameFile
    <2>1. /\ Listens /\ file'.records = file.records
          /\ Observe \/ DeliveryReturns \/ DrainEnds \/ UNCHANGED vars
      BY <1>2 DEF SameFile
    <2>2. UNCHANGED events
      BY <2>1, ObserveEnqueues DEF Enqueue, DeliveryReturns, DrainEnds, vars
    <2>3. ClosedIsRecorded => ClosedIsRecorded'
      BY <2>1, <2>2 DEF ClosedIsRecorded, Recorded
    <2>4. CASE mFifo' = mFifo /\ mState' = mState
      BY <2>1, <2>3, <2>4 DEF CloseComes, ClosedWaits, NoBoundaryWaits
    <2>5. ASSUME NEW p \in PendingObservation, mFifo' = Append(mFifo, p),
                 p.type = Closed \/ (~IsBoundary(p.type) /\ mState' = mState)
          PROVE  (ClosedWaits \/ (NoBoundaryWaits /\ ClosedIsRecorded))'
      <3> DEFINE last == Len(mFifo) + 1
      <3>1. /\ Len(mFifo') = last /\ mFifo'[last] = p
            /\ \A i \in 1 .. Len(mFifo) : mFifo'[i] = mFifo[i]
        BY <1>1, <2>5, AppendFacts
      <3>2. CASE p.type = Closed
        BY <1>1, <3>1, <3>2 DEF ClosedWaits
      <3>3. CASE ~IsBoundary(p.type) /\ mState' = mState
        <4>1. \A i \in 1 .. last : i # last => i \in 1 .. Len(mFifo)
          BY <1>1
        <4>2. ClosedWaits => ClosedWaits'
          <5> SUFFICES ASSUME NEW i \in 1 .. Len(mFifo), mFifo[i].type = Closed,
                              \A j \in i + 1 .. Len(mFifo) : ~IsBoundary(mFifo[j].type)
                       PROVE  ClosedWaits'
            BY DEF ClosedWaits
          <5>1. i \in 1 .. last /\ mFifo'[i].type = Closed
            BY <1>1, <3>1
          <5>2. ASSUME NEW j \in i + 1 .. last PROVE ~IsBoundary(mFifo'[j].type)
            <6>1. CASE j = last
              BY <3>1, <3>3, <6>1
            <6>2. CASE j # last
              <7>1. j \in i + 1 .. Len(mFifo) /\ j \in 1 .. Len(mFifo)
                BY <1>1, <6>2
              <7>2. QED BY <3>1, <7>1
            <6>3. QED BY <6>1, <6>2
          <5>3. QED BY <3>1, <5>1, <5>2 DEF ClosedWaits
        <4>3. NoBoundaryWaits => NoBoundaryWaits'
          BY <3>1, <3>3, <4>1 DEF NoBoundaryWaits
        <4>4. ClosedWaits \/ (NoBoundaryWaits /\ ClosedIsRecorded)
          BY <2>1, <3>3 DEF CloseComes
        <4>5. QED BY <2>3, <4>2, <4>3, <4>4
      <3>4. QED BY <2>5, <3>2, <3>3
    <2>6. QED BY <1>1, <2>1, <2>4, <2>5, QueueStep
  <1>3. CASE NewRecording
    BY <1>3 DEF NewRecording, vars, filterVars
  <1>4. CASE NewRecord
    <2> DEFINE old == file.records
               new == file'.records
               last == Len(events) + 1
    <2>1. Listens /\ mState = mState' /\ Deliver
      BY <1>4, DrainActivation DEF NewRecord
    <2>2. PICK e : events' = Append(events, e) /\ e.type = Head(mFifo).type
      <3>1. [Next]_vars
        BY ControllerStep DEF Next, Drain
      <3>2. QED BY <1>1, <2>1, <3>1, StreamStep DEF FileOK
    <2>3. /\ mFifo # <<>> /\ mFifo' = Tail(mFifo)
      BY <2>1 DEF Deliver
    <2>4. /\ Head(mFifo) = mFifo[1]
          /\ Len(mFifo') = Len(mFifo) - 1
          /\ \A i \in 1 .. Len(mFifo') : mFifo'[i] = mFifo[i + 1]
      BY <1>1, <2>3, TailFacts
    <2>5. /\ old \in Seq(Nat) /\ Len(old) \in Nat
          /\ Len(events) \in Nat
          /\ events'[last] = e /\ \A i \in 1 .. Len(events) : events'[i] = events[i]
      <3>1. \A f \in Recorder!File : f.records \in Seq(Nat)
        BY DEF Recorder!File
      <3>2. events \in Seq(Event)
        BY <1>1 DEF TypeOK
      <3>3. QED BY <2>2, <3>1, <3>2 DEF Recorder!TypeOK
    <2>6. /\ Len(new) = Len(old) + 1 /\ new[Len(old) + 1] = last
          /\ \A i \in 1 .. Len(old) : new[i] = old[i]
      <3>1. new = Append(old, last) /\ last \in Nat
        BY <1>4, <2>5 DEF NewRecord, FileOK, SequenceCounts
      <3> HIDE DEF old, new, last
      <3>2. QED BY <2>5, <3>1, AppendFacts
    <2> PICK n \in Nat : n = Len(old)
      BY <2>5
    <2>7. /\ Recorded(n + 1)' = mFifo[1].type
          /\ \A i \in 1 .. n : Recorded(i)' = Recorded(i)
      <3>1. events'[new[n + 1]].type = mFifo[1].type
        BY <2>2, <2>4, <2>5, <2>6
      <3>2. \A i \in 1 .. n : events'[new[i]] = events[old[i]]
        BY <2>5, <2>6 DEF FileOK, RecordsAreEvents
      <3>3. QED BY <3>1, <3>2 DEF Recorded
    <2>8. ClosedWaits \/ (NoBoundaryWaits /\ ClosedIsRecorded)
      BY <2>1 DEF CloseComes
    <2>9. CASE ClosedWaits
      <3>1. PICK i \in 1 .. Len(mFifo) :
              /\ mFifo[i].type = Closed
              /\ \A j \in i + 1 .. Len(mFifo) : ~IsBoundary(mFifo[j].type)
        BY <2>9 DEF ClosedWaits
      <3>2. CASE i = 1
        <4>1. NoBoundaryWaits'
          <5> SUFFICES ASSUME NEW j \in 1 .. Len(mFifo') PROVE ~IsBoundary(mFifo'[j].type)
            BY DEF NoBoundaryWaits
          <5>1. j + 1 \in i + 1 .. Len(mFifo)
            BY <1>1, <2>4, <3>2
          <5>2. QED BY <2>4, <3>1, <5>1
        <4>2. ClosedIsRecorded'
          <5>1. n + 1 \in 1 .. Len(new) /\ Recorded(n + 1)' = Closed
            BY <2>6, <2>7, <3>1, <3>2
          <5>2. \A j \in (n + 1) + 1 .. Len(new) : ~IsBoundary(Recorded(j)')
            BY <2>6
          <5>3. QED BY <5>1, <5>2 DEF ClosedIsRecorded
        <4>3. QED BY <4>1, <4>2
      <3>3. CASE i # 1
        <4>1. i - 1 \in 1 .. Len(mFifo') /\ mFifo'[i - 1].type = Closed
          BY <1>1, <2>4, <3>1, <3>3
        <4>2. ASSUME NEW j \in (i - 1) + 1 .. Len(mFifo') PROVE ~IsBoundary(mFifo'[j].type)
          <5>1. j + 1 \in i + 1 .. Len(mFifo) /\ j \in 1 .. Len(mFifo')
            BY <1>1, <2>4
          <5>2. QED BY <2>4, <3>1, <5>1
        <4>3. QED BY <4>1, <4>2 DEF ClosedWaits
      <3>4. QED BY <3>2, <3>3
    <2>10. CASE NoBoundaryWaits /\ ClosedIsRecorded
      <3>1. NoBoundaryWaits'
        <4> SUFFICES ASSUME NEW j \in 1 .. Len(mFifo') PROVE ~IsBoundary(mFifo'[j].type)
          BY DEF NoBoundaryWaits
        <4>1. j + 1 \in 1 .. Len(mFifo)
          BY <1>1, <2>4
        <4>2. QED BY <2>4, <2>10, <4>1 DEF NoBoundaryWaits
      <3>2. PICK i \in 1 .. n :
              /\ Recorded(i) = Closed
              /\ \A j \in i + 1 .. n : ~IsBoundary(Recorded(j))
        BY <2>10 DEF ClosedIsRecorded
      <3>3. i \in 1 .. Len(new) /\ Recorded(i)' = Closed
        BY <2>5, <2>6, <2>7, <3>2
      <3>4. ~IsBoundary(mFifo[1].type)
        <4>1. 1 \in 1 .. Len(mFifo)
          BY <1>1, <2>3
        <4>2. QED BY <2>10, <4>1 DEF NoBoundaryWaits
      <3>5. ASSUME NEW j \in i + 1 .. Len(new) PROVE ~IsBoundary(Recorded(j)')
        <4>1. CASE j = n + 1
          BY <2>7, <3>4, <4>1
        <4>2. CASE j # n + 1
          <5>1. j \in i + 1 .. n /\ j \in 1 .. n
            BY <2>6, <4>2
          <5>2. QED BY <2>7, <3>2, <5>1
        <4>3. QED BY <4>1, <4>2
      <3>6. ClosedIsRecorded'
        BY <3>3, <3>5 DEF ClosedIsRecorded
      <3>7. QED BY <3>1, <3>6
    <2>11. QED BY <2>8, <2>9, <2>10
  <1>5. QED BY <1>2, <1>3, <1>4, FileStep

-----------------------------------------------------------------------------
(* The theorems.                                                           *)

SInv ==
  /\ AnchorInv /\ Recorder!TypeOK
  /\ DocumentOK /\ Agreement /\ Drained
  /\ FileOK /\ CloseComes

LEMMA InitSInv == SessionInit => SInv
  <1> SUFFICES ASSUME SessionInit PROVE SInv
    OBVIOUS
  <1>1. AnchorInv
    BY InitAnchor DEF SessionInit
  <1>2. Recorder!TypeOK
    BY RecorderInitType DEF SessionInit
  <1>3. DocumentOK
    BY Orders DEF SessionInit, DocumentOK
  <1>4. Agreement /\ Drained
    BY DEF SessionInit, Init, Agreement, Drained, Ids
  <1>5. FileOK
    <2>1. file.records = <<>> /\ file.header = 0 /\ Len(file.records) = 0
      BY DEF SessionInit, Recorder!Init, Recorder!EmptyFile
    <2>2. Len(events) = 0 /\ mLastSequence = 0
      BY DEF SessionInit, Init
    <2>3. QED BY <2>1, <2>2 DEF FileOK, SequenceCounts, RecordsAreEvents, HeaderOK, NewestOK
  <1>6. CloseComes
    BY DEF SessionInit, Recorder!Init, CloseComes, Listens
  <1>7. QED BY <1>1, <1>2, <1>3, <1>4, <1>5, <1>6 DEF SInv

LEMMA NextSInv == SInv /\ [SessionNext]_sessionVars => SInv'
  <1> SUFFICES ASSUME SInv, [SessionNext]_sessionVars PROVE SInv'
    OBVIOUS
  <1>1. CASE SessionNext
    <2>1. activation \in Ids /\ TypeOK
      BY DEF SInv, Agreement, AnchorInv
    <2>2. AnchorInv'
      <3>1. [Next]_vars
        BY <1>1, <2>1, ControllerStep DEF Next, Drain
      <3>2. QED BY <3>1, NextAnchor DEF SInv
    <2>3. Recorder!TypeOK'
      BY <1>1, RecorderStep, RecorderNextType DEF SInv
    <2>4. DocumentOK' /\ Agreement' /\ Drained'
      BY <1>1, <2>1, NextDocument, NextAgreement, NextDrained DEF SInv
    <2>5. FileOK' /\ CloseComes'
      BY <1>1, <2>1, NextFileOK, NextCloseComes DEF SInv
    <2>6. QED BY <2>2, <2>3, <2>4, <2>5 DEF SInv
  <1>2. CASE UNCHANGED sessionVars
    <2>1. UNCHANGED <<transportVars, vars, recorderVars, documentVars>>
      BY <1>2 DEF sessionVars, controllerVars
    <2>2. AnchorInv'
      BY <2>1, NextAnchor DEF SInv
    <2>3. Recorder!TypeOK'
      <3>1. UNCHANGED Recorder!vars
        BY <2>1 DEF vars, recorderVars, Recorder!vars, Recorder!measureVars, Recorder!sinkVars
      <3>2. QED BY <3>1, RecorderNextType DEF SInv
    <2>4. DocumentOK' /\ Agreement' /\ Drained'
      BY <2>1 DEF SInv, DocumentOK, Agreement, Drained, transportVars, documentVars, vars,
                  filterVars
    <2>5. FileOK'
      BY <2>1 DEF SInv, FileOK, SequenceCounts, RecordsAreEvents, HeaderOK, NewestOK, Listens,
                  recorderVars, vars, timeVars
    <2>6. CloseComes'
      BY <2>1 DEF SInv, CloseComes, ClosedWaits, NoBoundaryWaits, ClosedIsRecorded, Recorded,
                  Listens, recorderVars, vars, filterVars
    <2>7. QED BY <2>2, <2>3, <2>4, <2>5, <2>6 DEF SInv
  <1>3. QED BY <1>1, <1>2

LEMMA SessionInvariance == SessionSpec => []SInv
  BY InitSInv, NextSInv, PTL DEF SessionSpec

\* Whatever document, transport, user and timers do, the composition's variables keep
\* their types, and the document closes and is destroyed in its order (komportdoc.cpp:55-67,
\* 235-246).
THEOREM SessionTypeCorrect == SessionSpec => []SessionTypeOK
  <1>1. SInv => SessionTypeOK
    BY DEF SInv, SessionTypeOK, Agreement, DocumentOK
  <1>2. QED BY <1>1, SessionInvariance, PTL

\* The document composes the two without disturbing either: every session is a behaviour
\* of the controller with any transport, and of the recorder on any session
\* (komportdoc.cpp:32-53), so the theorems about the two hold of it.
THEOREM SessionIsBoth == SessionSpec => Spec /\ Recorder!Spec
  <1>1. SessionInit => Init /\ Recorder!Init
    BY DEF SessionInit
  <1>2. SInv /\ [SessionNext]_sessionVars => [Next]_vars
    <2>1. SInv /\ SessionNext => [Next]_vars
      BY ControllerStep DEF SInv, Agreement, Next, Drain
    <2>2. UNCHANGED sessionVars => UNCHANGED vars
      BY DEF sessionVars, controllerVars
    <2>3. QED BY <2>1, <2>2
  <1>3. SInv /\ [SessionNext]_sessionVars => [Recorder!Next]_(Recorder!vars)
    <2>1. SInv /\ SessionNext => [Recorder!Next]_(Recorder!vars)
      BY RecorderStep DEF SInv
    <2>2. UNCHANGED sessionVars => UNCHANGED Recorder!vars
      BY DEF sessionVars, controllerVars, vars, recorderVars, Recorder!vars,
             Recorder!measureVars, Recorder!sinkVars
    <2>3. QED BY <2>1, <2>2
  <1>4. QED BY <1>1, <1>2, <1>3, SessionInvariance, PTL DEF SessionSpec, Spec, Recorder!Spec

\* A header holds the anchor of the one clock domain there is, whenever the recording was
\* started and whatever was reopened (sessionrecorder.cpp:170-197).
THEOREM HeadersAnchorTheStream == SessionSpec => []HeaderAnchorsTheStream
  <1>1. SInv => HeaderAnchorsTheStream
    BY DEF SInv, FileOK, HeaderOK, AnchorInv, Anchored, HeaderAnchorsTheStream
  <1>2. QED BY <1>1, SessionInvariance, PTL

\* A sound recording is never behind the stream (sessionrecorder.cpp:236-262).
THEOREM RecordingsKeepUp == SessionSpec => []RecordingKeepsUp
  <1>1. SInv => RecordingKeepsUp
    BY DEF SInv, FileOK, NewestOK, Listens, RecordingKeepsUp, Last
  <1>2. QED BY <1>1, SessionInvariance, PTL

\* Closing a session, which the event loop does between deliveries, records its end:
\* the deliveries that the close itself causes, nested ones among them, are over
\* before the recorder is stopped (komportdoc.cpp:235-246).
THEOREM ClosingIsRecorded == SessionSpec => CloseIsRecorded
  <1> DEFINE Type(i)    == events[file.records[i]].type
             boundaries == {i \in DOMAIN file.records : Type(i) \in {Opened, Closed}}
             EndsClosed == \E i \in boundaries : /\ Type(i) = Closed
                                                 /\ \A j \in boundaries : j <= i
  <1>1. ASSUME SInv, SessionNext, closing # <<>>, rState = "Live", rState' = "Stopped"
        PROVE  EndsClosed
    <2>1. CloseRecorder /\ rAlive
      <3>1. ASSUME IsRunning PROVE FALSE
        BY <1>1, <3>1 DEF IsRunning
      <3>2. ~UNCHANGED rState /\ destroying = <<>>
        BY <1>1 DEF SInv, DocumentOK
      <3>3. ~ControllerEmits
        BY <1>1 DEF ControllerEmits, Recorder!OnEventObserved, Recorder!RecordUnencodable,
                    Recorder!RecordCutShort, Recorder!RecordWritten, Recorder!EndDamaged
      <3>4. CloseRecorder
        BY <1>1, <3>1, <3>2, <3>3
           DEF SessionNext, TransportActs, ControllerContinues, StartRecording, StopRecording,
               FlushTimer, TimePasses, CloseSession, CloseTransport, DestroyDocument,
               DestroyController, DestroyRecorder, DestroyTransport, DestroyStep, recorderVars
      <3>5. rAlive
        BY <1>1, <3>4 DEF CloseRecorder, Recorder!Stop
      <3>6. QED BY <3>4, <3>5
    <2>2. closing = Tail(CloseOrder) /\ ~mDelivering
      BY <1>1, <2>1, Orders DEF CloseRecorder, CloseStep, SInv, DocumentOK
    <2>3. mState # "Live" /\ mFifo = <<>>
      BY <1>1, <2>2, Orders DEF SInv, DocumentOK, Agreement, Drained
    <2>4. ~ClosedWaits
      <3>1. Len(mFifo) = 0
        BY <2>3
      <3>2. QED BY <3>1 DEF ClosedWaits
    <2>5. ClosedIsRecorded
      BY <1>1, <2>1, <2>3, <2>4 DEF SInv, CloseComes, Listens
    <2>6. PICK i \in 1 .. Len(file.records) :
            /\ Recorded(i) = Closed
            /\ \A j \in i + 1 .. Len(file.records) : ~IsBoundary(Recorded(j))
      BY <2>5 DEF ClosedIsRecorded
    <2>7. DOMAIN file.records = 1 .. Len(file.records) /\ Len(file.records) \in Nat
      <3>1. \A f \in Recorder!File : f.records \in Seq(Nat)
        BY DEF Recorder!File
      <3>2. QED BY <1>1, <3>1 DEF SInv, Recorder!TypeOK
    <2>8. i \in boundaries /\ Type(i) = Closed
      BY <2>6, <2>7 DEF Recorded
    <2>9. ASSUME NEW j \in boundaries PROVE j <= i
      <3>1. j \in 1 .. Len(file.records) /\ IsBoundary(Recorded(j))
        BY <2>7 DEF Recorded, IsBoundary
      <3>2. QED BY <2>6, <2>7, <3>1
    <2>10. QED BY <2>8, <2>9
  <1>2. ASSUME SInv, [SessionNext]_sessionVars,
               closing # <<>>, rState = "Live", rState' = "Stopped"
        PROVE  EndsClosed
    <2>1. SessionNext
      BY <1>2 DEF sessionVars, recorderVars
    <2>2. QED BY <1>1, <1>2, <2>1
  <1>3. SInv /\ [SessionNext]_sessionVars =>
          [(closing # <<>> /\ rState = "Live" /\ rState' = "Stopped") => EndsClosed]_sessionVars
    BY <1>2
  <1>4. QED BY <1>3, SessionInvariance, PTL DEF SessionSpec, CloseIsRecorded

-----------------------------------------------------------------------------
(* The session keeps the promises of both its parts.                       *)

\* The theorems about the recorder, for the recorder of a session.
RecorderFacts == INSTANCE SessionRecorderProofs WITH
  Anchors <- SourceTimes, MaxEvents <- 2 * MaxObservations,
  mState <- rState, mFileOpen <- rFileOpen, mFlushPending <- rFlushPending,
  mRecords <- rRecords, mBytes <- rBytes, mStartNs <- rStartNs, mEndNs <- rEndNs,
  mRecordingStarted <- rRecordingStarted, mLastReport <- rLastReport,
  alive <- rAlive, observed <- mLastSequence

\* It is the recorder the session is composed of.
LEMMA SameReports ==
  /\ Recorder!DurationNs = RecorderFacts!DurationNs
  /\ \A flushes \in BOOLEAN : Recorder!FinalReport(flushes) = RecorderFacts!FinalReport(flushes)
  <1>1. Recorder!DurationNs = RecorderFacts!DurationNs
    BY DEF Recorder!DurationNs, RecorderFacts!DurationNs, Recorder!AtLeastZero,
           RecorderFacts!AtLeastZero
  <1> QED BY <1>1 DEF Recorder!FinalReport, RecorderFacts!FinalReport

LEMMA SameInit == Recorder!Init <=> RecorderFacts!Init
  BY DEF Recorder!Init, RecorderFacts!Init, Recorder!None, RecorderFacts!None,
         Recorder!EmptyReport, RecorderFacts!EmptyReport, Recorder!EmptyFile,
         RecorderFacts!EmptyFile

LEMMA SameStart ==
  ASSUME NEW live, NEW valid, NEW anchor
  PROVE  Recorder!Start(live, valid, anchor) <=> RecorderFacts!Start(live, valid, anchor)
  <1>1. Recorder!StartRefused <=> RecorderFacts!StartRefused
    BY SameReports
       DEF Recorder!StartRefused, RecorderFacts!StartRefused, Recorder!FinaliseDamaged,
           RecorderFacts!FinaliseDamaged, Recorder!ClearRecordingState,
           RecorderFacts!ClearRecordingState, Recorder!None, RecorderFacts!None
  <1>2. ASSUME NEW taken, NEW flushes
        PROVE  Recorder!StartFails(anchor, taken, flushes)
                 <=> RecorderFacts!StartFails(anchor, taken, flushes)
    BY SameReports
       DEF Recorder!StartFails, RecorderFacts!StartFails, Recorder!FinaliseDamaged,
           RecorderFacts!FinaliseDamaged, Recorder!ClearRecordingState,
           RecorderFacts!ClearRecordingState, Recorder!NewFile, RecorderFacts!NewFile,
           Recorder!IsComplete, RecorderFacts!IsComplete, Recorder!UnitBytes,
           RecorderFacts!UnitBytes, Recorder!AtLeastZero, RecorderFacts!AtLeastZero,
           Recorder!None, RecorderFacts!None
  <1>3. ASSUME NEW taken
        PROVE  Recorder!StartSucceeds(anchor, taken)
                 <=> RecorderFacts!StartSucceeds(anchor, taken)
    BY SameReports
       DEF Recorder!StartSucceeds, RecorderFacts!StartSucceeds, Recorder!FinaliseDamaged,
           RecorderFacts!FinaliseDamaged, Recorder!NewFile, RecorderFacts!NewFile,
           Recorder!IsComplete, RecorderFacts!IsComplete, Recorder!UnitBytes,
           RecorderFacts!UnitBytes, Recorder!AtLeastZero, RecorderFacts!AtLeastZero,
           Recorder!None, RecorderFacts!None
  <1> QED BY <1>1, <1>2, <1>3
         DEF Recorder!Start, RecorderFacts!Start, Recorder!Accepted, RecorderFacts!Accepted,
             Recorder!UnitBytes, RecorderFacts!UnitBytes

LEMMA SameRecording ==
  Recorder!OnEventObserved <=> RecorderFacts!OnEventObserved
  <1>1. ASSUME NEW bytes, NEW reason
        PROVE  Recorder!EndDamaged(bytes, reason) <=> RecorderFacts!EndDamaged(bytes, reason)
    BY SameReports
       DEF Recorder!EndDamaged, RecorderFacts!EndDamaged, Recorder!None, RecorderFacts!None
  <1>2. Recorder!RecordUnencodable <=> RecorderFacts!RecordUnencodable
    BY <1>1
       DEF Recorder!RecordUnencodable, RecorderFacts!RecordUnencodable, Recorder!sinkVars,
           RecorderFacts!sinkVars
  <1>3. ASSUME NEW taken
        PROVE  Recorder!RecordCutShort(taken) <=> RecorderFacts!RecordCutShort(taken)
    BY <1>1
       DEF Recorder!RecordCutShort, RecorderFacts!RecordCutShort, Recorder!BytesWritten,
           RecorderFacts!BytesWritten, Recorder!IsComplete, RecorderFacts!IsComplete,
           Recorder!UnitBytes, RecorderFacts!UnitBytes, Recorder!AtLeastZero,
           RecorderFacts!AtLeastZero
  <1>4. ASSUME NEW sequence, NEW taken
        PROVE  Recorder!RecordWritten(sequence, taken)
                 <=> RecorderFacts!RecordWritten(sequence, taken)
    BY DEF Recorder!RecordWritten, RecorderFacts!RecordWritten, Recorder!ArmFlush,
           RecorderFacts!ArmFlush, Recorder!BytesWritten, RecorderFacts!BytesWritten,
           Recorder!IsComplete, RecorderFacts!IsComplete, Recorder!UnitBytes,
           RecorderFacts!UnitBytes, Recorder!AtLeastZero, RecorderFacts!AtLeastZero,
           Recorder!None, RecorderFacts!None
  <1> QED BY <1>2, <1>3, <1>4
         DEF Recorder!OnEventObserved, RecorderFacts!OnEventObserved, Recorder!IsRecording,
             RecorderFacts!IsRecording, Recorder!Accepted, RecorderFacts!Accepted,
             Recorder!UnitBytes, RecorderFacts!UnitBytes, Recorder!measureVars,
             RecorderFacts!measureVars, Recorder!sinkVars, RecorderFacts!sinkVars

LEMMA SameNext == Recorder!Next <=> RecorderFacts!Next
  <1>1. ASSUME NEW flushes \in BOOLEAN
        PROVE  Recorder!Stop(flushes) <=> RecorderFacts!Stop(flushes)
    BY SameReports
       DEF Recorder!Stop, RecorderFacts!Stop, Recorder!ClearRecordingState,
           RecorderFacts!ClearRecordingState, Recorder!None, RecorderFacts!None
  <1>2. ASSUME NEW flushes \in BOOLEAN
        PROVE  Recorder!OnFlushTimer(flushes) <=> RecorderFacts!OnFlushTimer(flushes)
    BY SameReports
       DEF Recorder!OnFlushTimer, RecorderFacts!OnFlushTimer, Recorder!EndDamaged,
           RecorderFacts!EndDamaged, Recorder!None, RecorderFacts!None,
           Recorder!measureVars, RecorderFacts!measureVars
  <1>3. (Recorder!Destroy <=> RecorderFacts!Destroy) /\ (Recorder!Tick <=> RecorderFacts!Tick)
    BY DEF Recorder!Destroy, RecorderFacts!Destroy, Recorder!Tick, RecorderFacts!Tick,
           Recorder!None, RecorderFacts!None, Recorder!measureVars,
           RecorderFacts!measureVars, Recorder!sinkVars, RecorderFacts!sinkVars
  <1> QED BY <1>1, <1>2, <1>3, SameStart, SameRecording
         DEF Recorder!Next, RecorderFacts!Next

LEMMA SameStep ==
  [Recorder!Next]_(Recorder!vars) => [RecorderFacts!Next]_(RecorderFacts!vars)
  <1>1. UNCHANGED Recorder!vars <=> UNCHANGED RecorderFacts!vars
    BY DEF Recorder!vars, RecorderFacts!vars, Recorder!measureVars,
           RecorderFacts!measureVars, Recorder!sinkVars, RecorderFacts!sinkVars
  <1> QED BY <1>1, SameNext

LEMMA SamePromise == RecorderFacts!ImplementsSessionFile => Recorder!ImplementsSessionFile
  <1>1. RecorderFacts!Promised!Init => Recorder!Promised!Init
    BY DEF Recorder!Promised!Init, RecorderFacts!Promised!Init, Recorder!UnitBytes,
           RecorderFacts!UnitBytes
  <1>2. RecorderFacts!Promised!Next => Recorder!Promised!Next
    BY DEF Recorder!Promised!Next, RecorderFacts!Promised!Next, Recorder!Promised!StartFile,
           RecorderFacts!Promised!StartFile, Recorder!Promised!FailToStart,
           RecorderFacts!Promised!FailToStart, Recorder!Promised!AppendRecord,
           RecorderFacts!Promised!AppendRecord, Recorder!Promised!End,
           RecorderFacts!Promised!End, Recorder!Promised!Follows,
           RecorderFacts!Promised!Follows, Recorder!Promised!Front,
           RecorderFacts!Promised!Front, Recorder!Promised!Last,
           RecorderFacts!Promised!Last, Recorder!UnitBytes, RecorderFacts!UnitBytes
  <1>3. UNCHANGED RecorderFacts!Promised!vars => UNCHANGED Recorder!Promised!vars
    BY DEF Recorder!Promised!vars, RecorderFacts!Promised!vars
  <1>4. [RecorderFacts!Promised!Next]_(RecorderFacts!Promised!vars) =>
          [Recorder!Promised!Next]_(Recorder!Promised!vars)
    BY <1>2, <1>3
  <1> QED BY <1>1, <1>4, PTL
         DEF Recorder!ImplementsSessionFile, RecorderFacts!ImplementsSessionFile,
             Recorder!Promised!Spec, RecorderFacts!Promised!Spec

\* What a consumer of a session sees is a session stream, and what a reader of its
\* recording finds is a session file, whatever the document does to either
\* (komportdoc.cpp:32-67, 235-246).
THEOREM SessionKeepsItsPromises ==
  SessionSpec => ImplementsSessionStream /\ Recorder!ImplementsSessionFile
  <1>1. /\ RecorderFacts!AnchorsAssumption
        /\ RecorderFacts!IntervalAssumption
        /\ RecorderFacts!BoundsAssumption
    BY DEF RecorderFacts!AnchorsAssumption, RecorderFacts!IntervalAssumption,
           RecorderFacts!BoundsAssumption
  <1>2. RecorderFacts!Spec => RecorderFacts!ImplementsSessionFile
    BY <1>1, RecorderFacts!RecorderImplementsFile
  <1>3. Recorder!Spec => RecorderFacts!Spec
    BY SameInit, SameStep, PTL DEF Recorder!Spec, RecorderFacts!Spec
  <1> QED BY <1>2, <1>3, SamePromise, SessionIsBoth, ImplementsTheStream, PTL
=============================================================================
