---------------------------- MODULE LiveSession ----------------------------
(***************************************************************************)
(* komport/komportdoc.cpp: the document owns the transport, the session    *)
(* controller that observes it and the recorder that consumes the          *)
(* controller's events; it closes the session and tears the three down.    *)
(*                                                                         *)
(* SessionController is extended, SessionRecorder is instanced on the      *)
(* variables below, and the transport is one that keeps the rules of       *)
(* itransport.h:40-57.  Every link is a direct call: an observation runs   *)
(* the controller's slot, an emission runs the recorder's slot, in the     *)
(* step that makes it.                                                     *)
(***************************************************************************)
EXTENDS SessionController, SequencesExt

CONSTANTS FlushInterval, MaxTime

ASSUME ClockAssumption == SourceTimes # {} /\ FlushInterval \in Nat /\ MaxTime \in Nat

VARIABLES
  activation,      \* transport: its live activation, 0 for none
  attempts,        \* transport: the last activation id it has handed out
  rState, rFileOpen, rFlushPending, rRecords, rBytes, rStartNs, rEndNs,
  rRecordingStarted, rLastReport,       \* the recorder's members
  rAlive, scheduled, file, unflushedSince, now,
  controllerAlive,
  closing,         \* document: the steps closeSession() has still to take
  closed,          \* document: closeSession() has returned
  destroying       \* document: the steps its destructor has still to take

transportVars  == <<activation, attempts>>
controllerVars == vars
recorderVars   == <<rState, rFileOpen, rFlushPending, rRecords, rBytes, rStartNs,
                    rEndNs, rRecordingStarted, rLastReport, rAlive, scheduled, file,
                    unflushedSince, now>>
documentVars   == <<controllerAlive, closing, closed, destroying>>
sessionVars    == <<transportVars, controllerVars, recorderVars, documentVars>>

Recorder == INSTANCE SessionRecorder WITH
  Anchors <- SourceTimes, MaxEvents <- 2 * MaxObservations,
  mState <- rState, mFileOpen <- rFileOpen, mFlushPending <- rFlushPending,
  mRecords <- rRecords, mBytes <- rBytes, mStartNs <- rStartNs, mEndNs <- rEndNs,
  mRecordingStarted <- rRecordingStarted, mLastReport <- rLastReport,
  alive <- rAlive, observed <- mLastSequence

\* Mutant: the recording is finalised before the port is closed.
RecorderFirst == <<"recorder", "transport">>

\* closeSession(): the port, then the recording.
CloseOrder == <<"transport", "recorder">>

\* ~KomportDoc(): two resets, then the member mSerial.
DestroyOrder == <<"controller", "recorder", "transport">>

SessionInit ==
  /\ Init
  /\ Recorder!Init
  /\ activation = 0
  /\ attempts = 0
  /\ controllerAlive = TRUE
  /\ closing = <<>>
  /\ closed = FALSE
  /\ destroying = <<>>

\* Code outside the document may call into it: the event loop, or a consumer
\* of the event being emitted, but nobody once the document closes.
IsRunning == controllerAlive /\ closing = <<>> /\ ~closed /\ destroying = <<>>

-----------------------------------------------------------------------------
(* The transport and the observations it makes.                            *)

TransportOpens(t) ==
  /\ activation = 0
  /\ attempts + 1 \in ActivationIds
  /\ attempts' = attempts + 1
  /\ activation' = attempts'
  /\ OnOpened(attempts', t)

TransportFailsToOpen(t) ==
  /\ activation = 0
  /\ attempts + 1 \in ActivationIds
  /\ attempts' = attempts + 1
  /\ UNCHANGED activation
  /\ OnTransportError(attempts', t)

TransportCloses(t) ==
  /\ activation # 0
  /\ activation' = 0
  /\ UNCHANGED attempts
  /\ OnClosed(activation, t)

TransportReports(t) ==
  /\ activation # 0
  /\ UNCHANGED transportVars
  /\ \/ OnTransportError(activation, t)
     \/ \E type \in DataTypes : OnData(type, activation, t, FALSE)
     \/ \E type \in NonDataTypes : OnNonData(type, activation, t)

TransportActs ==
  /\ IsRunning
  /\ \E t \in SourceTimes :
       \/ TransportOpens(t)
       \/ TransportFailsToOpen(t)
       \/ TransportCloses(t)
       \/ TransportReports(t)
  /\ UNCHANGED <<recorderVars, documentVars>>

-----------------------------------------------------------------------------
(* The controller emits, the recorder consumes.                            *)

ControllerEmits ==
  /\ Deliver
  /\ Recorder!OnEventObserved
  /\ UNCHANGED <<transportVars, documentVars>>

ControllerContinues ==
  /\ DeliveryReturns \/ DrainEnds
  /\ UNCHANGED <<transportVars, recorderVars, documentVars>>

-----------------------------------------------------------------------------
(* The recorder's other callers: the user, the event loop, the clock.      *)

StartRecording ==
  /\ IsRunning
  /\ CanBeCalled
  /\ Recorder!Start(mState = "Live", mReferenceSet, mReferenceSourceTimestampNs)
  /\ UNCHANGED <<transportVars, controllerVars, documentVars>>

StopRecording ==
  /\ IsRunning
  /\ CanBeCalled
  /\ \E flushes \in BOOLEAN : Recorder!Stop(flushes)
  /\ UNCHANGED <<transportVars, controllerVars, documentVars>>

FlushTimer ==
  /\ IsRunning
  /\ ~mDelivering
  /\ \E flushes \in BOOLEAN : Recorder!OnFlushTimer(flushes)
  /\ UNCHANGED <<transportVars, controllerVars, documentVars>>

TimePasses ==
  /\ IsRunning
  /\ ~mDelivering
  /\ Recorder!Tick
  /\ UNCHANGED <<transportVars, controllerVars, documentVars>>

-----------------------------------------------------------------------------
(* The document.                                                           *)

\* Only closeEvent() closes a session (komport.cpp:966), and the event loop runs it.
\* No consumer of an event runs an event loop or closes a window, so no delivery is
\* under way, and outside the drain loop nothing is queued.
CloseSession ==
  /\ IsRunning
  /\ ~mDelivering
  /\ closing' = CloseOrder
  /\ UNCHANGED <<transportVars, controllerVars, recorderVars, controllerAlive, closed,
                 destroying>>

\* The next step of closeSession() runs when the one before it has returned,
\* with every delivery it caused.
CloseStep(step) ==
  /\ closing # <<>>
  /\ Head(closing) = step
  /\ ~mDelivering
  /\ closing' = Tail(closing)
  /\ closed' = (Tail(closing) = <<>>)
  /\ UNCHANGED <<controllerAlive, destroying>>

CloseTransport ==
  /\ CloseStep("transport")
  /\ IF activation = 0
     THEN UNCHANGED <<activation, controllerVars>>
     ELSE /\ activation' = 0
          /\ \E t \in SourceTimes : OnClosed(activation, t)
  /\ UNCHANGED <<attempts, recorderVars>>

CloseRecorder ==
  /\ CloseStep("recorder")
  /\ IF rState = "Stopped"
     THEN UNCHANGED recorderVars
     ELSE \E flushes \in BOOLEAN : Recorder!Stop(flushes)
  /\ UNCHANGED <<transportVars, controllerVars>>

\* The document may die without closeSession(): the destructor is the safety net.
DestroyDocument ==
  /\ controllerAlive
  /\ closing = <<>>
  /\ destroying = <<>>
  /\ ~mDelivering
  /\ destroying' = DestroyOrder
  /\ UNCHANGED <<transportVars, controllerVars, recorderVars, controllerAlive, closing,
                 closed>>

DestroyStep(part) ==
  /\ destroying # <<>>
  /\ Head(destroying) = part
  /\ destroying' = Tail(destroying)
  /\ UNCHANGED <<controllerVars, closing, closed>>

DestroyController ==
  /\ DestroyStep("controller")
  /\ controllerAlive' = FALSE
  /\ UNCHANGED <<transportVars, recorderVars>>

DestroyRecorder ==
  /\ DestroyStep("recorder")
  /\ Recorder!Destroy
  /\ UNCHANGED <<transportVars, controllerAlive>>

\* ~KomportSerial() closes the port and emits nothing.
DestroyTransport ==
  /\ DestroyStep("transport")
  /\ activation' = 0
  /\ UNCHANGED <<attempts, recorderVars, controllerAlive>>

-----------------------------------------------------------------------------
SessionNext ==
  \/ TransportActs
  \/ ControllerEmits \/ ControllerContinues
  \/ StartRecording \/ StopRecording \/ FlushTimer \/ TimePasses
  \/ CloseSession \/ CloseTransport \/ CloseRecorder
  \/ DestroyDocument \/ DestroyController \/ DestroyRecorder \/ DestroyTransport

SessionSpec == SessionInit /\ [][SessionNext]_sessionVars
-----------------------------------------------------------------------------
(* Properties.                                                             *)

SessionTypeOK ==
  /\ activation \in Ids
  /\ attempts \in Ids
  /\ Recorder!TypeOK
  /\ controllerAlive \in BOOLEAN
  /\ closing \in {CloseOrder, Tail(CloseOrder), <<>>}
  /\ closed \in BOOLEAN
  /\ destroying \in {DestroyOrder, Tail(DestroyOrder), Tail(Tail(DestroyOrder)), <<>>}

\* ADR-006 and ADR-010 section 4: a reader maps every record back to source time
\* through the header's reference.  It is the anchor of the one clock domain the
\* stream has, whenever the recording was started and whatever was reopened
\* before or since.
HeaderAnchorsTheStream ==
  file.header # 0 =>
    /\ events # <<>>
    /\ file.anchor = events[1].sourceTimestampNs
    /\ mReferenceSourceTimestampNs = file.anchor

\* SPEC-M9 5.8, the normative close ordering (komportdoc.cpp:237-241): a recording
\* that is still sound when closeSession() finalises it holds the end of the
\* session, so the last boundary in the file is a TransportClosed, even when its
\* own diagnostic follows it.
CloseIsRecorded ==
  [][(closing # <<>> /\ rState = "Live" /\ rState' = "Stopped") =>
       LET Type(i)    == events[file.records[i]].type
           boundaries == {i \in DOMAIN file.records : Type(i) \in {Opened, Closed}}
       IN  \E i \in boundaries : /\ Type(i) = Closed
                                 /\ \A j \in boundaries : j <= i]_sessionVars

\* While a recording runs it has every event the session has emitted since it
\* started: the file's newest record is the stream's newest event.
RecordingKeepsUp ==
  (rAlive /\ rState = "Live" /\ file.records # <<>>) =>
     Last(file.records) = Len(events)
=============================================================================
