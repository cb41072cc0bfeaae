------------------------- MODULE SessionController -------------------------
(***************************************************************************)
(* komport/sessioncontroller.cpp: the adapter from transport observations  *)
(* to session events.  It filters observations by activation id, queues    *)
(* the accepted ones, and delivers them one at a time: an observation that *)
(* arrives while a consumer is still handling an event (the consumer wrote *)
(* to the transport, say) waits in the queue.                              *)
(*                                                                         *)
(* Everything runs on one thread, so a handler is interrupted only where   *)
(* the code emits eventObserved: between the emission (Deliver) and the    *)
(* return of the last consumer (DeliveryReturns), further observations may *)
(* arrive.  The transport is any ITransport, conforming or not: the        *)
(* controller trusts the id of an observation and nothing else.            *)
(***************************************************************************)
EXTENDS Integers, Sequences, FiniteSets

CONSTANTS
  ActivationIds,    \* ids an observation may carry besides 0
  SourceTimes,      \* values of the source's monotonic clock
  MaxObservations   \* bound: observations accepted in one behaviour

ASSUME IdsAssumption   == ActivationIds \subseteq Nat \ {0}
ASSUME TimesAssumption == SourceTimes \subseteq Nat
ASSUME BoundAssumption == MaxObservations \in Nat

VARIABLES
  mFifo,                          \* accepted, not yet emitted
  mDelivering,                    \* the drain loop is running
  mState,                         \* "Idle" or "Live"
  mCurrentActivationId,           \* the live activation, 0 for none
  mHighestAttemptId,              \* watermark of all attempts seen
  mLastSequence,
  mReferenceSet,
  mReferenceSourceTimestampNs,    \* source time of the anchor event
  mLastEmittedSessionTimestampNs,
  emitting,   \* locals of the loop iteration whose emission has not returned:
              \* a sequence of at most one record
  events,     \* history: every event emitted
  accepted    \* history: every observation the filter let through

filterVars == <<mState, mCurrentActivationId, mHighestAttemptId>>
timeVars   == <<mReferenceSet, mReferenceSourceTimestampNs,
                mLastEmittedSessionTimestampNs>>
vars == <<mFifo, mDelivering, filterVars, mLastSequence, timeVars,
          emitting, events, accepted>>

Opened == "TransportOpened"
Closed == "TransportClosed"
Error  == "Error"
DataTypes == {"Rx", "Tx"}   \* SessionEventType::Data with its direction
NonDataTypes == {"TransportConfigChanged", "LineStateChanged"}
EventTypes == {Opened, Closed, Error} \cup DataTypes \cup NonDataTypes

Ids == ActivationIds \cup {0}

PendingObservation ==
  [type : EventTypes, act : Ids, sourceTimestampNs : SourceTimes,
   sessionTimeMapped : BOOLEAN, sessionTimestampNs : Nat]

Event ==
  [sequence : Nat, type : EventTypes, act : Ids, sourceTimestampNs : SourceTimes,
   timestampNs : Nat, derived : BOOLEAN]

Init ==
  /\ mFifo = <<>>
  /\ mDelivering = FALSE
  /\ mState = "Idle"
  /\ mCurrentActivationId = 0
  /\ mHighestAttemptId = 0
  /\ mLastSequence = 0
  /\ mReferenceSet = FALSE
  /\ mReferenceSourceTimestampNs = 0
  /\ mLastEmittedSessionTimestampNs = 0
  /\ emitting = <<>>
  /\ events = <<>>
  /\ accepted = <<>>

-----------------------------------------------------------------------------
(* Observations.  A slot of the controller runs when the program is outside *)
(* it, or from a consumer of the event being emitted.                       *)

CanBeCalled == mDelivering => emitting # <<>>

\* Mutant: a nested observation overtakes the ones that wait.
QueueOvertaking(pending) == <<pending>> \o mFifo

Queue(pending) == Append(mFifo, pending)

\* enqueue(): append and start the drain loop unless it is already running.
Enqueue(type, id, t) ==
  /\ Len(accepted) < MaxObservations
  /\ mFifo' = Queue([type |-> type, act |-> id, sourceTimestampNs |-> t,
                     sessionTimeMapped |-> FALSE, sessionTimestampNs |-> 0])
  /\ accepted' = Append(accepted, [type |-> type, act |-> id, sourceTimestampNs |-> t])
  /\ mDelivering' = TRUE
  /\ UNCHANGED <<mLastSequence, timeVars, emitting, events>>

BelongsToLive(id) == id # 0 /\ id = mCurrentActivationId

\* Mutant: attempts are compared with the live activation, not the watermark.
NewSinceCurrent(id) == id > mCurrentActivationId

\* An attempt is admitted once: above every attempt seen so far.
IsNewAttempt(id) == id > mHighestAttemptId

OnData(type, id, t, isEmpty) ==
  /\ CanBeCalled
  /\ ~isEmpty
  /\ BelongsToLive(id)
  /\ UNCHANGED filterVars
  /\ Enqueue(type, id, t)

OnOpened(id, t) ==
  /\ CanBeCalled
  /\ id # 0
  /\ IsNewAttempt(id)
  /\ mCurrentActivationId' = id
  /\ mHighestAttemptId' = id
  /\ mState' = "Live"
  /\ Enqueue(Opened, id, t)

OnClosed(id, t) ==
  /\ CanBeCalled
  /\ BelongsToLive(id)
  /\ mCurrentActivationId' = 0
  /\ mState' = "Idle"
  /\ UNCHANGED mHighestAttemptId
  /\ Enqueue(Closed, id, t)

\* onConfigurationChanged() and onLineStateChanged().
OnNonData(type, id, t) ==
  /\ CanBeCalled
  /\ BelongsToLive(id)
  /\ UNCHANGED filterVars
  /\ Enqueue(type, id, t)

\* An error of the live activation, or the one report of a failed open: that
\* one consumes the attempt id.
OnTransportError(id, t) ==
  /\ CanBeCalled
  /\ \/ BelongsToLive(id) /\ UNCHANGED mHighestAttemptId
     \/ /\ ~BelongsToLive(id)
        /\ IsNewAttempt(id)
        /\ mHighestAttemptId' = id
  /\ UNCHANGED <<mState, mCurrentActivationId>>
  /\ Enqueue(Error, id, t)

-----------------------------------------------------------------------------
(* drainFifo(): one iteration is Deliver, then DeliveryReturns.            *)

\* Mutant: every activation re-anchors the clock domain.
AnchorsEachActivation(type) == ~mReferenceSet \/ type = Opened

\* Mutant: a failed open is not taken for an anchor.
AnchorsUnlessError(type) == ~mReferenceSet /\ type # Error

\* The first event of the domain is its anchor, whatever its type.
IsAnchor(type) == ~mReferenceSet

\* Mutant: the raw difference is emitted, however far it runs backwards.
MapRaw(t) ==
  [time |-> IF mReferenceSet THEN t - mReferenceSourceTimestampNs ELSE 0,
   anomaly |-> FALSE]

\* Mutant: a repeated time is reported as an anomaly.
MapStrictly(t) ==
  LET raw == t - mReferenceSourceTimestampNs
  IN  IF ~mReferenceSet
      THEN [time |-> 0, anomaly |-> FALSE]
      ELSE IF raw <= mLastEmittedSessionTimestampNs
      THEN [time |-> mLastEmittedSessionTimestampNs, anomaly |-> TRUE]
      ELSE [time |-> raw, anomaly |-> FALSE]

MapSourceTime(t) ==
  LET raw == t - mReferenceSourceTimestampNs
  IN  IF ~mReferenceSet
      THEN [time |-> 0, anomaly |-> FALSE]
      ELSE IF raw < mLastEmittedSessionTimestampNs
      THEN [time |-> mLastEmittedSessionTimestampNs, anomaly |-> TRUE]
      ELSE [time |-> raw, anomaly |-> FALSE]

Emit(pending, time, anomaly) ==
  /\ mLastSequence' = mLastSequence + 1
  /\ events' = Append(events,
       [sequence |-> mLastSequence + 1, type |-> pending.type, act |-> pending.act,
        sourceTimestampNs |-> pending.sourceTimestampNs, timestampNs |-> time,
        derived |-> pending.sessionTimeMapped])
  /\ emitting' = <<[act |-> pending.act, time |-> time, anomaly |-> anomaly,
                    sourceTimestampNs |-> pending.sourceTimestampNs]>>

\* An observation of the transport is mapped; the first one is the anchor.
DeliverObservation ==
  /\ ~Head(mFifo).sessionTimeMapped
  /\ LET t == Head(mFifo).sourceTimestampNs
         anchor == IsAnchor(Head(mFifo).type)
     IN  /\ mReferenceSet' = (mReferenceSet \/ anchor)
         /\ mReferenceSourceTimestampNs' =
              IF anchor THEN t ELSE mReferenceSourceTimestampNs
         /\ mLastEmittedSessionTimestampNs' = MapSourceTime(t).time
         /\ Emit(Head(mFifo), MapSourceTime(t).time, MapSourceTime(t).anomaly)

\* A diagnostic already carries its session time and is not mapped again.
DeliverDiagnostic ==
  /\ Head(mFifo).sessionTimeMapped
  /\ Emit(Head(mFifo), Head(mFifo).sessionTimestampNs, FALSE)
  /\ UNCHANGED timeVars

Deliver ==
  /\ mDelivering
  /\ emitting = <<>>
  /\ mFifo # <<>>
  /\ mFifo' = Tail(mFifo)
  /\ DeliverObservation \/ DeliverDiagnostic
  /\ UNCHANGED <<mDelivering, filterVars, accepted>>

\* All consumers have returned; an anomaly queues its one diagnostic now, that
\* is, behind whatever the consumers caused.
DeliveryReturns ==
  /\ emitting # <<>>
  /\ emitting' = <<>>
  /\ mFifo' = IF emitting[1].anomaly
              THEN Queue([type |-> Error, act |-> emitting[1].act,
                          sourceTimestampNs |-> emitting[1].sourceTimestampNs,
                          sessionTimeMapped |-> TRUE,
                          sessionTimestampNs |-> emitting[1].time])
              ELSE mFifo
  /\ UNCHANGED <<mDelivering, filterVars, mLastSequence, timeVars, events, accepted>>

\* Mutant: one event per call; what was queued meanwhile waits for the next.
DoneAfterOne == TRUE

LoopIsDone == mFifo = <<>>

DrainEnds ==
  /\ mDelivering
  /\ emitting = <<>>
  /\ LoopIsDone
  /\ mDelivering' = FALSE
  /\ UNCHANGED <<mFifo, filterVars, mLastSequence, timeVars, emitting, events, accepted>>

-----------------------------------------------------------------------------
Observe ==
  \E id \in Ids, t \in SourceTimes :
    \/ OnOpened(id, t)
    \/ OnClosed(id, t)
    \/ OnTransportError(id, t)
    \/ \E type \in DataTypes, isEmpty \in BOOLEAN : OnData(type, id, t, isEmpty)
    \/ \E type \in NonDataTypes : OnNonData(type, id, t)

Drain == Deliver \/ DeliveryReturns \/ DrainEnds

Next == Observe \/ Drain

Spec == Init /\ [][Next]_vars

\* The drain loop is ordinary sequential code and its consumers return.
FairSpec == Spec /\ WF_vars(Drain)
-----------------------------------------------------------------------------
(* Properties.                                                             *)

TypeOK ==
  /\ mFifo \in Seq(PendingObservation)
  /\ mDelivering \in BOOLEAN
  /\ mState \in {"Idle", "Live"}
  /\ mCurrentActivationId \in Ids
  /\ mHighestAttemptId \in Ids
  /\ mLastSequence \in Nat
  /\ mReferenceSet \in BOOLEAN
  /\ mReferenceSourceTimestampNs \in Nat
  /\ mLastEmittedSessionTimestampNs \in Nat
  /\ emitting \in Seq([act : Ids, time : Nat, anomaly : BOOLEAN,
                       sourceTimestampNs : SourceTimes])
  /\ Len(emitting) <= 1
  /\ events \in Seq(Event)
  /\ accepted \in Seq([type : EventTypes, act : Ids, sourceTimestampNs : SourceTimes])

\* A recorder may be started by any code that runs while the session is live,
\* a consumer of the event that opened it included, and writes the anchor into
\* its header: whenever such code can run, the live session has an anchor, and
\* it is the first event of the stream.
LiveMeansAnchored ==
  (mState = "Live" /\ CanBeCalled) =>
    /\ mReferenceSet
    /\ events # <<>>
    /\ mReferenceSourceTimestampNs = events[1].sourceTimestampNs

\* What was emitted and what still waits, as one line.
Line ==
  LET emitted == Len(events)
  IN  [i \in 1 .. emitted + Len(mFifo) |->
         IF i <= emitted
         THEN [type |-> events[i].type, act |-> events[i].act,
               sourceTimestampNs |-> events[i].sourceTimestampNs,
               derived |-> events[i].derived]
         ELSE LET pending == mFifo[i - emitted]
              IN  [type |-> pending.type, act |-> pending.act,
                   sourceTimestampNs |-> pending.sourceTimestampNs,
                   derived |-> pending.sessionTimeMapped]]

\* The place of i among the members of S.
PlaceIn(S, i) == Cardinality({j \in S : j <= i})

\* An accepted observation is emitted exactly once and in its place, however
\* the deliveries nest: the k-th observation of the line is the k-th that the
\* filter let through, and the line holds no other.
NothingLostNothingReordered ==
  LET observations == {i \in DOMAIN Line : ~Line[i].derived}
  IN  /\ Cardinality(observations) = Len(accepted)
      /\ \A i \in observations :
           accepted[PlaceIn(observations, i)] =
             [type |-> Line[i].type, act |-> Line[i].act,
              sourceTimestampNs |-> Line[i].sourceTimestampNs]

\* What passes the filter for an activation comes after that activation's
\* opening and before its closing; an Error may instead be the only thing ever
\* said of an attempt that failed.
FilterIsSound ==
  \A j \in 1 .. Len(accepted) :
    LET id == accepted[j].act
        opening == \E i \in 1 .. j - 1 :
                     /\ accepted[i].type = Opened
                     /\ accepted[i].act = id
                     /\ \A k \in i + 1 .. j - 1 :
                          /\ accepted[k].type # Opened
                          /\ accepted[k].type = Closed => accepted[k].act # id
        unseen == \A i \in 1 .. j - 1 : accepted[i].act < id
    IN  /\ id # 0
        /\ accepted[j].type = Opened => unseen
        /\ accepted[j].type = Error => opening \/ unseen
        /\ accepted[j].type \notin {Opened, Error} => opening

\* The emitted times of the observations alone never run backwards.
ObservationTimesNeverDecrease ==
  \A i, j \in DOMAIN events :
    (i < j /\ ~events[i].derived /\ ~events[j].derived) =>
       events[i].timestampNs <= events[j].timestampNs

\* sessionevent.h:79-82 and SPEC-M8 section 8: session time is non-decreasing
\* within the clock domain, over every event of the stream.
SessionTimeNonDecreasing ==
  \A i, j \in DOMAIN events :
    i < j => events[i].timestampNs <= events[j].timestampNs

\* The reference never moves once it is set: a reopen does not re-anchor.
ReferenceNeverMoves ==
  [][mReferenceSet =>
       /\ mReferenceSet'
       /\ mReferenceSourceTimestampNs' = mReferenceSourceTimestampNs]_vars

\* The stream the controller emits is a session stream.
Promised == INSTANCE SessionStream WITH stream <- events
ImplementsSessionStream == Promised!Spec

\* Whatever is accepted is delivered: the loop always runs dry.
EverythingIsDelivered == mDelivering ~> (~mDelivering /\ mFifo = <<>>)
=============================================================================
