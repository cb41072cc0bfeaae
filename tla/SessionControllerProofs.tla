---------------------- MODULE SessionControllerProofs ----------------------
(***************************************************************************)
(* Theorems about SessionController for every set of activation ids, every *)
(* set of source times and every bound.                                    *)
(***************************************************************************)
EXTENDS SessionController, FiniteSetTheorems, TLAPS

USE IdsAssumption, TimesAssumption, BoundAssumption

\* Appending keeps what was there and adds one element at the end.
LEMMA AppendFacts ==
  ASSUME NEW S, NEW s \in Seq(S), NEW e \in S
  PROVE  /\ Append(s, e) \in Seq(S)
         /\ Len(Append(s, e)) = Len(s) + 1
         /\ Append(s, e)[Len(s) + 1] = e
         /\ \A i \in 1 .. Len(s) : Append(s, e)[i] = s[i]
  OBVIOUS

\* Taking the head off a nonempty queue leaves a queue of what followed.
LEMMA TailFacts ==
  ASSUME NEW S, NEW s \in Seq(S), s # <<>>
  PROVE  /\ Head(s) \in S
         /\ Head(s) = s[1]
         /\ Tail(s) \in Seq(S)
         /\ Len(Tail(s)) = Len(s) - 1
         /\ \A i \in 1 .. Len(Tail(s)) : Tail(s)[i] = s[i + 1]
  OBVIOUS

-----------------------------------------------------------------------------
(* Type correctness.                                                       *)

Emission ==
  [act : Ids, time : Nat, anomaly : BOOLEAN, sourceTimestampNs : SourceTimes]

Acceptance ==
  [type : EventTypes, act : Ids, sourceTimestampNs : SourceTimes]

\* What every slot does once it has admitted an observation.
LEMMA EnqueueType ==
  ASSUME TypeOK, NEW type \in EventTypes, NEW id \in Ids, NEW t \in SourceTimes,
         Enqueue(type, id, t)
  PROVE  /\ mFifo' \in Seq(PendingObservation)
         /\ accepted' \in Seq(Acceptance)
         /\ mDelivering' = TRUE
  <1>1. [type |-> type, act |-> id, sourceTimestampNs |-> t,
         sessionTimeMapped |-> FALSE, sessionTimestampNs |-> 0] \in PendingObservation
    BY DEF PendingObservation
  <1>2. [type |-> type, act |-> id, sourceTimestampNs |-> t] \in Acceptance
    BY DEF Acceptance
  <1>3. mFifo' \in Seq(PendingObservation)
    BY <1>1 DEF TypeOK, Enqueue, Queue
  <1>4. accepted' \in Seq(Acceptance)
    BY <1>2 DEF TypeOK, Enqueue, Acceptance
  <1>5. QED BY <1>3, <1>4 DEF Enqueue

\* A step of any slot keeps the types.
LEMMA ObserveType == TypeOK /\ Observe => TypeOK'
  <1> SUFFICES ASSUME TypeOK, NEW id \in Ids, NEW t \in SourceTimes,
                      \/ OnOpened(id, t)
                      \/ OnClosed(id, t)
                      \/ OnTransportError(id, t)
                      \/ \E type \in DataTypes, isEmpty \in BOOLEAN :
                           OnData(type, id, t, isEmpty)
                      \/ \E type \in NonDataTypes : OnNonData(type, id, t)
               PROVE  TypeOK'
    BY DEF Observe
  <1>1. PICK type \in EventTypes : Enqueue(type, id, t)
    BY DEF OnOpened, OnClosed, OnTransportError, OnData, OnNonData, EventTypes,
           DataTypes, NonDataTypes, Opened, Closed, Error
  <1>2. /\ mState' \in {"Idle", "Live"}
        /\ mCurrentActivationId' \in Ids
        /\ mHighestAttemptId' \in Ids
    BY DEF TypeOK, OnOpened, OnClosed, OnTransportError, OnData, OnNonData,
           filterVars, Ids
  <1>3. /\ mFifo' \in Seq(PendingObservation)
        /\ accepted' \in Seq(Acceptance)
        /\ mDelivering' \in BOOLEAN
    BY <1>1, EnqueueType
  <1>4. UNCHANGED <<mLastSequence, timeVars, emitting, events>>
    BY <1>1 DEF Enqueue
  <1>5. QED BY <1>2, <1>3, <1>4 DEF TypeOK, timeVars, Acceptance

\* The mapping yields a time of the session, never one before its anchor.
LEMMA MappingType ==
  ASSUME TypeOK, NEW t \in SourceTimes
  PROVE  /\ MapSourceTime(t).time \in Nat
         /\ MapSourceTime(t).anomaly \in BOOLEAN
         /\ mReferenceSet => MapSourceTime(t).time >= mLastEmittedSessionTimestampNs
  BY DEF TypeOK, MapSourceTime

LEMMA DeliverType == TypeOK /\ Deliver => TypeOK'
  <1> SUFFICES ASSUME TypeOK, Deliver PROVE TypeOK'
    OBVIOUS
  <1> DEFINE pending == Head(mFifo)
  <1>1. /\ pending \in PendingObservation
        /\ Tail(mFifo) \in Seq(PendingObservation)
    BY TailFacts DEF TypeOK, Deliver
  <1>2. ASSUME NEW time \in Nat, NEW anomaly \in BOOLEAN, Emit(pending, time, anomaly)
        PROVE  /\ mLastSequence' \in Nat
               /\ events' \in Seq(Event)
               /\ emitting' \in Seq(Emission)
               /\ Len(emitting') <= 1
    <2>1. [sequence |-> mLastSequence + 1, type |-> pending.type, act |-> pending.act,
           sourceTimestampNs |-> pending.sourceTimestampNs, timestampNs |-> time,
           derived |-> pending.sessionTimeMapped] \in Event
      BY <1>1 DEF Event, PendingObservation, TypeOK
    <2>2. [act |-> pending.act, time |-> time, anomaly |-> anomaly,
           sourceTimestampNs |-> pending.sourceTimestampNs] \in Emission
      BY <1>1, <1>2 DEF Emission, PendingObservation
    <2>3. QED BY <1>2, <2>1, <2>2 DEF Emit, TypeOK
  <1>3. CASE DeliverObservation
    <2> DEFINE t == pending.sourceTimestampNs
    <2>1. t \in SourceTimes
      BY <1>1 DEF PendingObservation
    <2>2. /\ mReferenceSet' \in BOOLEAN
          /\ mReferenceSourceTimestampNs' \in Nat
          /\ mLastEmittedSessionTimestampNs' \in Nat
      BY <1>3, <2>1, MappingType DEF DeliverObservation, IsAnchor, TypeOK
    <2>3. Emit(pending, MapSourceTime(t).time, MapSourceTime(t).anomaly)
      BY <1>3 DEF DeliverObservation
    <2>4. /\ mLastSequence' \in Nat
          /\ events' \in Seq(Event)
          /\ emitting' \in Seq(Emission)
          /\ Len(emitting') <= 1
      BY <1>2, <2>1, <2>3, MappingType
    <2>5. QED BY <1>1, <2>2, <2>4 DEF TypeOK, Deliver, filterVars, Emission
  <1>4. CASE DeliverDiagnostic
    <2>1. pending.sessionTimestampNs \in Nat
      BY <1>1 DEF PendingObservation
    <2>2. Emit(pending, pending.sessionTimestampNs, FALSE)
      BY <1>4 DEF DeliverDiagnostic
    <2>3. /\ mLastSequence' \in Nat
          /\ events' \in Seq(Event)
          /\ emitting' \in Seq(Emission)
          /\ Len(emitting') <= 1
      BY <1>2, <2>1, <2>2
    <2>4. QED BY <1>1, <1>4, <2>3
              DEF TypeOK, Deliver, DeliverDiagnostic, filterVars, timeVars, Emission
  <1>5. QED BY <1>3, <1>4 DEF Deliver

LEMMA DeliveryReturnsType == TypeOK /\ DeliveryReturns => TypeOK'
  <1> SUFFICES ASSUME TypeOK, DeliveryReturns PROVE TypeOK'
    OBVIOUS
  <1>1. emitting[1] \in Emission
    <2>1. emitting \in Seq(Emission) /\ emitting # <<>>
      BY DEF TypeOK, DeliveryReturns, Emission
    <2>2. QED BY <2>1, TailFacts
  <1>2. [type |-> Error, act |-> emitting[1].act,
         sourceTimestampNs |-> emitting[1].sourceTimestampNs,
         sessionTimeMapped |-> TRUE,
         sessionTimestampNs |-> emitting[1].time] \in PendingObservation
    BY <1>1 DEF PendingObservation, Emission, EventTypes
  <1>3. mFifo' \in Seq(PendingObservation)
    BY <1>2 DEF DeliveryReturns, Queue, TypeOK
  <1>4. QED BY <1>3 DEF TypeOK, DeliveryReturns, filterVars, timeVars

LEMMA InitType == Init => TypeOK
  <1> SUFFICES ASSUME Init PROVE TypeOK
    OBVIOUS
  <1>1. mFifo = <<>> /\ emitting = <<>> /\ events = <<>> /\ accepted = <<>>
    BY DEF Init
  <1>2. /\ mFifo \in Seq(PendingObservation)
        /\ emitting \in Seq([act : Ids, time : Nat, anomaly : BOOLEAN,
                             sourceTimestampNs : SourceTimes])
        /\ Len(emitting) <= 1
        /\ events \in Seq(Event)
        /\ accepted \in Seq([type : EventTypes, act : Ids,
                             sourceTimestampNs : SourceTimes])
    BY <1>1
  <1>3. QED BY <1>2 DEF Init, TypeOK, Ids

LEMMA NextType == TypeOK /\ [Next]_vars => TypeOK'
  <1> SUFFICES ASSUME TypeOK, [Next]_vars PROVE TypeOK'
    OBVIOUS
  <1>1. CASE Observe
    BY <1>1, ObserveType
  <1>2. CASE Deliver
    BY <1>2, DeliverType
  <1>3. CASE DeliveryReturns
    BY <1>3, DeliveryReturnsType
  <1>4. CASE DrainEnds
    BY <1>4 DEF TypeOK, DrainEnds, filterVars, timeVars
  <1>5. CASE UNCHANGED vars
    BY <1>5 DEF TypeOK, vars, filterVars, timeVars
  <1>6. QED BY <1>1, <1>2, <1>3, <1>4, <1>5 DEF Next, Drain

\* Every variable of the controller keeps its type, whatever the transport
\* reports and however the deliveries nest (sessioncontroller.cpp:102-316).
THEOREM TypeCorrect == Spec => []TypeOK
  BY InitType, NextType, PTL DEF Spec

-----------------------------------------------------------------------------
(* A live session is anchored.                                             *)

\* LiveMeansAnchored alone is not inductive: it says nothing of the moments at
\* which no code outside can run.  Between the opening and its emission the
\* reference is not set yet, but then the queue holds what will set it.
Anchored ==
  mReferenceSet =>
    /\ events # <<>>
    /\ mReferenceSourceTimestampNs = events[1].sourceTimestampNs

NothingBeforeAnchor ==
  ~mReferenceSet =>
    /\ events = <<>>
    /\ emitting = <<>>
    /\ \A i \in 1 .. Len(mFifo) : ~mFifo[i].sessionTimeMapped

LiveWillBeAnchored ==
  (mState = "Live" /\ ~mReferenceSet) => mDelivering /\ mFifo # <<>>

AnchorInv == TypeOK /\ Anchored /\ NothingBeforeAnchor /\ LiveWillBeAnchored

\* What a slot leaves alone, and what it adds to the queue.
LEMMA ObserveEnqueues ==
  ASSUME Observe
  PROVE  \E type \in EventTypes, id \in Ids, t \in SourceTimes : Enqueue(type, id, t)
  BY DEF Observe, OnOpened, OnClosed, OnTransportError, OnData, OnNonData, EventTypes,
         DataTypes, NonDataTypes, Opened, Closed, Error

LEMMA ObserveAnchor == AnchorInv /\ Observe => AnchorInv'
  <1> SUFFICES ASSUME AnchorInv, Observe PROVE AnchorInv'
    OBVIOUS
  <1>1. TypeOK'
    BY ObserveType DEF AnchorInv
  <1>2. PICK type \in EventTypes, id \in Ids, t \in SourceTimes : Enqueue(type, id, t)
    BY ObserveEnqueues
  <1> DEFINE pending == [type |-> type, act |-> id, sourceTimestampNs |-> t,
                         sessionTimeMapped |-> FALSE, sessionTimestampNs |-> 0]
  <1>3. /\ mFifo' = Append(mFifo, pending)
        /\ mDelivering' = TRUE
        /\ UNCHANGED <<events, emitting, mReferenceSet, mReferenceSourceTimestampNs>>
    BY <1>2 DEF Enqueue, Queue, timeVars
  <1>4. pending \in PendingObservation /\ ~pending.sessionTimeMapped
    BY DEF PendingObservation
  <1>5. /\ Len(mFifo') = Len(mFifo) + 1
        /\ mFifo'[Len(mFifo) + 1] = pending
        /\ \A i \in 1 .. Len(mFifo) : mFifo'[i] = mFifo[i]
        /\ mFifo' # <<>>
    <2> HIDE DEF pending
    <2>1. mFifo \in Seq(PendingObservation)
      BY DEF AnchorInv, TypeOK
    <2>2. QED BY <1>3, <1>4, <2>1, AppendFacts
  <1>6. NothingBeforeAnchor'
    <2> SUFFICES ASSUME ~mReferenceSet',
                        NEW i \in 1 .. Len(mFifo')
                 PROVE  events' = <<>> /\ emitting' = <<>> /\ ~mFifo'[i].sessionTimeMapped
      BY <1>3 DEF NothingBeforeAnchor, AnchorInv
    <2>1. events' = <<>> /\ emitting' = <<>>
      BY <1>3 DEF NothingBeforeAnchor, AnchorInv
    <2>2. i \in 1 .. Len(mFifo) \/ i = Len(mFifo) + 1
      BY <1>5 DEF AnchorInv, TypeOK
    <2>3. ~mFifo'[i].sessionTimeMapped
      BY <1>3, <1>4, <1>5, <2>2 DEF NothingBeforeAnchor, AnchorInv
    <2>4. QED BY <2>1, <2>3
  <1>7. Anchored' /\ LiveWillBeAnchored'
    BY <1>3, <1>5 DEF AnchorInv, Anchored, LiveWillBeAnchored
  <1>8. QED BY <1>1, <1>6, <1>7 DEF AnchorInv

LEMMA DeliverAnchor == AnchorInv /\ Deliver => AnchorInv'
  <1> SUFFICES ASSUME AnchorInv, Deliver PROVE AnchorInv'
    OBVIOUS
  <1>1. TypeOK'
    BY DeliverType DEF AnchorInv
  <1> DEFINE pending == Head(mFifo)
  <1>2. /\ mFifo # <<>>
        /\ mFifo \in Seq(PendingObservation)
        /\ pending = mFifo[1]
        /\ Len(mFifo) \in Nat \ {0}
    BY TailFacts DEF AnchorInv, TypeOK, Deliver
  <1>3. PICK e : events' = Append(events, e) /\ e.sourceTimestampNs = pending.sourceTimestampNs
    BY DEF Deliver, DeliverObservation, DeliverDiagnostic, Emit
  <1>4. /\ events' # <<>>
        /\ events # <<>> => events'[1] = events[1]
        /\ events = <<>> => events'[1] = e
    BY <1>3 DEF AnchorInv, TypeOK
  <1>5. CASE mReferenceSet
    <2>1. /\ mReferenceSet'
          /\ mReferenceSourceTimestampNs' = mReferenceSourceTimestampNs
      BY <1>5 DEF Deliver, DeliverObservation, DeliverDiagnostic, IsAnchor, timeVars
    <2>2. Anchored'
      BY <1>4, <1>5, <2>1 DEF Anchored, AnchorInv
    <2>3. QED BY <1>1, <2>1, <2>2 DEF AnchorInv, NothingBeforeAnchor, LiveWillBeAnchored
  <1>6. CASE ~mReferenceSet
    <2>1. ~pending.sessionTimeMapped
      BY <1>2, <1>6 DEF AnchorInv, NothingBeforeAnchor
    <2>2. DeliverObservation
      BY <2>1 DEF Deliver, DeliverDiagnostic
    <2>3. /\ mReferenceSet'
          /\ mReferenceSourceTimestampNs' = pending.sourceTimestampNs
      BY <1>6, <2>2 DEF DeliverObservation, IsAnchor
    <2>4. events = <<>>
      BY <1>6 DEF AnchorInv, NothingBeforeAnchor
    <2>5. Anchored'
      BY <1>3, <1>4, <2>3, <2>4 DEF Anchored
    <2>6. QED BY <1>1, <2>3, <2>5 DEF AnchorInv, NothingBeforeAnchor, LiveWillBeAnchored
  <1>7. QED BY <1>5, <1>6

LEMMA DrainAnchor == AnchorInv /\ (DeliveryReturns \/ DrainEnds) => AnchorInv'
  <1> SUFFICES ASSUME AnchorInv, DeliveryReturns \/ DrainEnds PROVE AnchorInv'
    OBVIOUS
  <1>1. CASE DeliveryReturns
    <2>1. TypeOK'
      BY <1>1, DeliveryReturnsType DEF AnchorInv
    <2>2. mReferenceSet
      BY <1>1 DEF AnchorInv, NothingBeforeAnchor, DeliveryReturns
    <2>3. UNCHANGED <<mReferenceSet, mReferenceSourceTimestampNs, events>>
      BY <1>1 DEF DeliveryReturns, timeVars
    <2>4. QED BY <2>1, <2>2, <2>3
              DEF AnchorInv, Anchored, NothingBeforeAnchor, LiveWillBeAnchored
  <1>2. CASE DrainEnds
    <2>1. TypeOK'
      BY <1>2 DEF AnchorInv, TypeOK, DrainEnds, filterVars, timeVars
    <2>2. mState = "Live" => mReferenceSet
      BY <1>2 DEF AnchorInv, LiveWillBeAnchored, DrainEnds, LoopIsDone
    <2>3. QED BY <1>2, <2>1, <2>2
              DEF AnchorInv, Anchored, NothingBeforeAnchor, LiveWillBeAnchored,
                  DrainEnds, filterVars, timeVars
  <1>3. QED BY <1>1, <1>2

LEMMA InitAnchor == Init => AnchorInv
  <1> SUFFICES ASSUME Init PROVE AnchorInv
    OBVIOUS
  <1>1. TypeOK
    BY InitType
  <1>2. mFifo = <<>> /\ Len(mFifo) = 0
    BY DEF Init
  <1>3. QED BY <1>1, <1>2
            DEF Init, AnchorInv, Anchored, NothingBeforeAnchor, LiveWillBeAnchored

LEMMA NextAnchor == AnchorInv /\ [Next]_vars => AnchorInv'
  <1> SUFFICES ASSUME AnchorInv, [Next]_vars PROVE AnchorInv'
    OBVIOUS
  <1>1. CASE Observe
    BY <1>1, ObserveAnchor
  <1>2. CASE Deliver
    BY <1>2, DeliverAnchor
  <1>3. CASE DeliveryReturns \/ DrainEnds
    BY <1>3, DrainAnchor
  <1>4. CASE UNCHANGED vars
    BY <1>4 DEF AnchorInv, TypeOK, Anchored, NothingBeforeAnchor, LiveWillBeAnchored,
                vars, filterVars, timeVars
  <1>5. QED BY <1>1, <1>2, <1>3, <1>4 DEF Next, Drain

\* Whenever a recorder could be started on a live session, that session has its
\* anchor and it is the first event of the stream (sessioncontroller.cpp:87-100,
\* 241-303): SessionRecorder::start() never writes a header without one.
THEOREM LiveIsAnchored == Spec => []LiveMeansAnchored
  <1>1. AnchorInv => LiveMeansAnchored
    BY DEF AnchorInv, Anchored, NothingBeforeAnchor, LiveWillBeAnchored,
           LiveMeansAnchored, CanBeCalled
  <1>2. QED BY <1>1, InitAnchor, NextAnchor, PTL DEF Spec

-----------------------------------------------------------------------------
(* The reference and the time of the observations.                         *)

\* A reopen does not re-anchor the clock domain, nor does anything else
\* (sessioncontroller.cpp:290-303).
THEOREM ReferenceIsFixed == Spec => ReferenceNeverMoves
  <1>1. [Next]_vars =>
          [mReferenceSet =>
             /\ mReferenceSet'
             /\ mReferenceSourceTimestampNs' = mReferenceSourceTimestampNs]_vars
    <2> SUFFICES ASSUME Next, mReferenceSet
                 PROVE  /\ mReferenceSet'
                        /\ mReferenceSourceTimestampNs' = mReferenceSourceTimestampNs
      OBVIOUS
    <2>1. CASE Observe
      <3>1. PICK type \in EventTypes, id \in Ids, t \in SourceTimes : Enqueue(type, id, t)
        BY <2>1, ObserveEnqueues
      <3>2. QED BY <3>1 DEF Enqueue, timeVars
    <2>2. CASE Drain
      BY <2>2 DEF Drain, Deliver, DeliverObservation, DeliverDiagnostic, DeliveryReturns,
                  DrainEnds, IsAnchor, timeVars
    <2>3. QED BY <2>1, <2>2 DEF Next
  <1>2. QED BY <1>1, PTL DEF Spec, ReferenceNeverMoves

\* The controller's memory of the last mapped time bounds every observation.
BoundedByLastTime ==
  \A i \in 1 .. Len(events) :
    ~events[i].derived => events[i].timestampNs <= mLastEmittedSessionTimestampNs

TimeInv ==
  /\ AnchorInv
  /\ BoundedByLastTime
  /\ ObservationTimesNeverDecrease

LEMMA DeliverTime == TimeInv /\ Deliver => TimeInv'
  <1> SUFFICES ASSUME TimeInv, Deliver PROVE TimeInv'
    OBVIOUS
  <1>1. AnchorInv'
    BY DeliverAnchor DEF TimeInv
  <1> DEFINE pending == Head(mFifo)
             last == Len(events) + 1
  <1>2. /\ pending \in PendingObservation
        /\ pending.sourceTimestampNs \in SourceTimes
        /\ pending.sessionTimeMapped \in BOOLEAN
    <2>1. pending \in PendingObservation
      BY TailFacts DEF TimeInv, AnchorInv, TypeOK, Deliver
    <2>2. QED BY <2>1 DEF PendingObservation
  <1>3. PICK e : /\ events' = Append(events, e)
                 /\ e.derived = pending.sessionTimeMapped
                 /\ DeliverObservation =>
                      e.timestampNs = MapSourceTime(pending.sourceTimestampNs).time
    BY DEF Deliver, DeliverObservation, DeliverDiagnostic, Emit
  <1>4. /\ Len(events) \in Nat
        /\ Len(events') = last
        /\ events'[last] = e
        /\ \A i \in 1 .. Len(events) : events'[i] = events[i]
        /\ \A i \in 1 .. Len(events) : events[i].timestampNs \in Nat
        /\ DOMAIN events' = 1 .. last
    <2>1. events \in Seq(Event)
      BY DEF TimeInv, AnchorInv, TypeOK
    <2>2. \A i \in 1 .. Len(events) : events[i] \in Event
      BY <2>1
    <2>3. QED BY <1>3, <2>1, <2>2 DEF Event
  <1>5. mLastEmittedSessionTimestampNs \in Nat /\ mLastEmittedSessionTimestampNs' \in Nat
    BY <1>1 DEF TimeInv, AnchorInv, TypeOK
  <1>6. CASE DeliverDiagnostic
    <2>1. /\ mLastEmittedSessionTimestampNs' = mLastEmittedSessionTimestampNs
          /\ e.derived
      BY <1>3, <1>6 DEF DeliverDiagnostic, timeVars
    <2>2. BoundedByLastTime'
      BY <1>4, <1>5, <2>1 DEF BoundedByLastTime, TimeInv
    <2>3. ObservationTimesNeverDecrease'
      BY <1>4, <2>1 DEF ObservationTimesNeverDecrease, TimeInv
    <2>4. QED BY <1>1, <2>2, <2>3 DEF TimeInv
  <1>7. CASE DeliverObservation
    <2>1. mLastEmittedSessionTimestampNs' = e.timestampNs
      BY <1>3, <1>7 DEF DeliverObservation
    <2>2. mReferenceSet => e.timestampNs >= mLastEmittedSessionTimestampNs
      BY <1>2, <1>3, <1>7, MappingType DEF TimeInv, AnchorInv
    <2>3. ~mReferenceSet => Len(events) = 0
      BY DEF TimeInv, AnchorInv, NothingBeforeAnchor
    <2>4. \A i \in 1 .. Len(events) :
            ~events[i].derived => events[i].timestampNs <= e.timestampNs
      BY <1>4, <1>5, <2>1, <2>2, <2>3 DEF BoundedByLastTime, TimeInv
    <2>5. BoundedByLastTime'
      BY <1>4, <1>5, <2>1, <2>4 DEF BoundedByLastTime
    <2>6. ObservationTimesNeverDecrease'
      <3> SUFFICES ASSUME NEW i \in 1 .. last, NEW j \in 1 .. last,
                          i < j, ~events'[i].derived, ~events'[j].derived
                   PROVE  events'[i].timestampNs <= events'[j].timestampNs
        BY <1>4 DEF ObservationTimesNeverDecrease
      <3>1. CASE j = last
        BY <1>4, <2>4, <3>1
      <3>2. CASE j \in 1 .. Len(events)
        <4>1. i \in 1 .. Len(events)
          BY <1>4, <3>2
        <4>2. DOMAIN events = 1 .. Len(events)
          BY DEF TimeInv, AnchorInv, TypeOK
        <4>3. QED BY <1>4, <3>2, <4>1, <4>2 DEF ObservationTimesNeverDecrease, TimeInv
      <3>3. j = last \/ j \in 1 .. Len(events)
        <4>1. Len(events) \in Nat
          BY <1>4
        <4>2. QED BY <4>1
      <3>4. QED BY <3>1, <3>2, <3>3
    <2>7. QED BY <1>1, <2>5, <2>6 DEF TimeInv
  <1>8. QED BY <1>6, <1>7 DEF Deliver

\* However the source clock jumps and however deliveries nest, the session times
\* of the observations in the stream are in order; only the diagnostics the
\* controller derives itself can be out of it (sessioncontroller.cpp:283-316).
THEOREM ObservationTimesAreOrdered == Spec => []ObservationTimesNeverDecrease
  <1>1. Init => TimeInv
    <2> SUFFICES ASSUME Init PROVE TimeInv
      OBVIOUS
    <2>1. events = <<>> /\ Len(events) = 0 /\ DOMAIN events = {}
      BY DEF Init
    <2>2. BoundedByLastTime /\ ObservationTimesNeverDecrease
      BY <2>1 DEF BoundedByLastTime, ObservationTimesNeverDecrease
    <2>3. QED BY <2>2, InitAnchor DEF TimeInv
  <1>2. TimeInv /\ [Next]_vars => TimeInv'
    <2> SUFFICES ASSUME TimeInv, [Next]_vars PROVE TimeInv'
      OBVIOUS
    <2>1. AnchorInv'
      BY NextAnchor DEF TimeInv
    <2>2. CASE Deliver
      BY <2>2, DeliverTime
    <2>3. CASE UNCHANGED <<events, mLastEmittedSessionTimestampNs>>
      BY <2>1, <2>3 DEF TimeInv, BoundedByLastTime, ObservationTimesNeverDecrease
    <2>4. CASE Observe
      <3>1. PICK type \in EventTypes, id \in Ids, t \in SourceTimes : Enqueue(type, id, t)
        BY <2>4, ObserveEnqueues
      <3>2. QED BY <2>3, <3>1 DEF Enqueue, timeVars
    <2>5. CASE DeliveryReturns \/ DrainEnds
      BY <2>3, <2>5 DEF DeliveryReturns, DrainEnds, timeVars
    <2>6. QED BY <2>2, <2>3, <2>4, <2>5 DEF Next, Drain, vars, timeVars
  <1>3. QED BY <1>1, <1>2, PTL DEF Spec, TimeInv

-----------------------------------------------------------------------------
(* The activation filter.                                                  *)

\* The three variables of the filter summarise everything accepted so far: the
\* watermark is above every id, and a live activation was opened by the latest
\* opening and has not been closed since.
OpenedAndNotClosed(id, n) ==
  \E i \in 1 .. n :
    /\ accepted[i].type = Opened
    /\ accepted[i].act = id
    /\ \A k \in i + 1 .. n :
         /\ accepted[k].type # Opened
         /\ accepted[k].type = Closed => accepted[k].act # id

Watermark ==
  /\ mCurrentActivationId <= mHighestAttemptId
  /\ \A i \in 1 .. Len(accepted) : accepted[i].act <= mHighestAttemptId

LiveIsTheLatestOpening ==
  mCurrentActivationId # 0 => OpenedAndNotClosed(mCurrentActivationId, Len(accepted))

FilterInv == TypeOK /\ Watermark /\ LiveIsTheLatestOpening /\ FilterIsSound

\* What the filter must have checked before it lets an observation through.
Admissible(type, id) ==
  LET opening == OpenedAndNotClosed(id, Len(accepted))
      unseen  == \A i \in 1 .. Len(accepted) : accepted[i].act < id
  IN  /\ id # 0
      /\ type = Opened => unseen
      /\ type = Error => opening \/ unseen
      /\ type \notin {Opened, Error} => opening

LEMMA AcceptedIds ==
  ASSUME TypeOK
  PROVE  /\ Len(accepted) \in Nat
         /\ \A i \in 1 .. Len(accepted) : accepted[i].act \in Nat
  <1>1. accepted \in Seq(Acceptance)
    BY DEF TypeOK, Acceptance
  <1>2. \A i \in 1 .. Len(accepted) : accepted[i] \in Acceptance
    BY <1>1
  <1>3. \A a \in Acceptance : a.act \in Ids
    BY DEF Acceptance
  <1>4. Ids \subseteq Nat
    BY DEF Ids
  <1>5. \A i \in 1 .. Len(accepted) : accepted[i].act \in Ids
    BY <1>2, <1>3, Zenon
  <1>6. \A i \in 1 .. Len(accepted) : accepted[i].act \in Nat
    BY <1>4, <1>5
  <1>7. Len(accepted) \in Nat
    BY <1>1
  <1>8. QED BY <1>6, <1>7

\* Keeping the records of who opened and closed what while one more is accepted.
LEMMA AcceptanceKept ==
  ASSUME TypeOK, NEW type \in EventTypes, NEW id \in Ids, NEW t \in SourceTimes,
         Enqueue(type, id, t)
  PROVE  /\ Len(accepted) \in Nat
         /\ Len(accepted') = Len(accepted) + 1
         /\ accepted'[Len(accepted) + 1].type = type
         /\ accepted'[Len(accepted) + 1].act = id
         /\ \A i \in 1 .. Len(accepted) : accepted'[i] = accepted[i]
         /\ \A i \in 1 .. Len(accepted) : accepted[i].act \in Nat
  <1> DEFINE a == [type |-> type, act |-> id, sourceTimestampNs |-> t]
  <1>1. a \in Acceptance /\ a.type = type /\ a.act = id
    BY DEF Acceptance
  <1>2. accepted \in Seq(Acceptance)
    BY DEF TypeOK, Acceptance
  <1>3. accepted' = Append(accepted, a)
    BY DEF Enqueue
  <1>4. /\ Len(accepted) \in Nat
        /\ \A i \in 1 .. Len(accepted) : accepted[i].act \in Nat
    BY AcceptedIds
  <1> HIDE DEF a
  <1>5. QED BY <1>1, <1>2, <1>3, <1>4, AppendFacts

\* One more observation that was admissible keeps the filter sound.
LEMMA AdmissibleIsSound ==
  ASSUME TypeOK, FilterIsSound,
         NEW type \in EventTypes, NEW id \in Ids, NEW t \in SourceTimes,
         Enqueue(type, id, t), Admissible(type, id)
  PROVE  FilterIsSound'
  <1> DEFINE n == Len(accepted)
             Sound(s, j) ==
               LET a == s[j].act
                   opening == \E i \in 1 .. j - 1 :
                                /\ s[i].type = Opened
                                /\ s[i].act = a
                                /\ \A k \in i + 1 .. j - 1 :
                                     /\ s[k].type # Opened
                                     /\ s[k].type = Closed => s[k].act # a
                   unseen == \A i \in 1 .. j - 1 : s[i].act < a
               IN  /\ a # 0
                   /\ s[j].type = Opened => unseen
                   /\ s[j].type = Error => opening \/ unseen
                   /\ s[j].type \notin {Opened, Error} => opening
  <1>1. /\ n \in Nat
        /\ Len(accepted') = n + 1
        /\ accepted'[n + 1].type = type
        /\ accepted'[n + 1].act = id
        /\ \A i \in 1 .. n : accepted'[i] = accepted[i]
    BY AcceptanceKept
  <1>2. ASSUME NEW j \in 1 .. n PROVE Sound(accepted', j)
    <2>1. Sound(accepted, j)
      BY DEF FilterIsSound
    <2>2. /\ accepted'[j] = accepted[j]
          /\ \A i \in 1 .. j - 1 : accepted'[i] = accepted[i]
          /\ \A i \in 1 .. j - 1 : \A k \in i + 1 .. j - 1 : accepted'[k] = accepted[k]
      BY <1>1
    <2>3. QED BY <2>1, <2>2
  <1>3. Sound(accepted', n + 1)
    <2>1. (n + 1) - 1 = n
      BY <1>1
    <2>2. \A i \in 1 .. n : \A k \in i + 1 .. n : accepted'[k] = accepted[k]
      BY <1>1
    <2>3. CASE type \in {Opened} \cup {Error}
      BY <1>1, <2>1, <2>2, <2>3 DEF Admissible, OpenedAndNotClosed, Opened, Error
    <2>4. CASE type \notin {Opened, Error}
      BY <1>1, <2>1, <2>2, <2>4 DEF Admissible, OpenedAndNotClosed
    <2>5. QED BY <2>3, <2>4
  <1>4. \A j \in 1 .. Len(accepted') : Sound(accepted', j)
    <2> SUFFICES ASSUME NEW j \in 1 .. n + 1 PROVE Sound(accepted', j)
      BY <1>1
    <2>1. j \in 1 .. n \/ j = n + 1
      <3>1. n \in Nat
        BY <1>1
      <3>2. QED BY <3>1
    <2>2. QED BY <1>2, <1>3, <2>1
  <1>5. QED BY <1>4 DEF FilterIsSound

\* An opening that is in force stays so when something else is accepted.
LEMMA OpeningStays ==
  ASSUME TypeOK, NEW type \in EventTypes, NEW id \in Ids, NEW t \in SourceTimes,
         Enqueue(type, id, t), NEW live \in Ids,
         OpenedAndNotClosed(live, Len(accepted)),
         type # Opened, type = Closed => id # live
  PROVE  OpenedAndNotClosed(live, Len(accepted))'
  <1>1. /\ Len(accepted) \in Nat
        /\ Len(accepted') = Len(accepted) + 1
        /\ accepted'[Len(accepted) + 1].type = type
        /\ accepted'[Len(accepted) + 1].act = id
        /\ \A i \in 1 .. Len(accepted) : accepted'[i] = accepted[i]
    BY AcceptanceKept
  <1>2. PICK i \in 1 .. Len(accepted) :
          /\ accepted[i].type = Opened
          /\ accepted[i].act = live
          /\ \A k \in i + 1 .. Len(accepted) :
               /\ accepted[k].type # Opened
               /\ accepted[k].type = Closed => accepted[k].act # live
    BY DEF OpenedAndNotClosed
  <1>3. \A k \in i + 1 .. Len(accepted') :
          /\ accepted'[k].type # Opened
          /\ accepted'[k].type = Closed => accepted'[k].act # live
    <2> SUFFICES ASSUME NEW k \in i + 1 .. Len(accepted')
                 PROVE  /\ accepted'[k].type # Opened
                        /\ accepted'[k].type = Closed => accepted'[k].act # live
      OBVIOUS
    <2>1. k \in i + 1 .. Len(accepted) \/ k = Len(accepted) + 1
      BY <1>1
    <2>2. CASE k \in i + 1 .. Len(accepted)
      <3>1. k \in 1 .. Len(accepted)
        BY <1>1, <2>2
      <3>2. QED BY <1>1, <1>2, <2>2, <3>1
    <2>3. CASE k = Len(accepted) + 1
      BY <1>1, <2>3
    <2>4. QED BY <2>1, <2>2, <2>3
  <1>4. i \in 1 .. Len(accepted') /\ accepted'[i] = accepted[i]
    BY <1>1
  <1>5. QED BY <1>2, <1>3, <1>4 DEF OpenedAndNotClosed

\* What BelongsToLive() and IsNewAttempt() establish about an observation.
LEMMA FilterAdmits ==
  ASSUME FilterInv, NEW type \in EventTypes, NEW id \in Ids
  PROVE  /\ BelongsToLive(id) /\ type # Opened => Admissible(type, id)
         /\ IsNewAttempt(id) /\ type \in {Opened, Error} => Admissible(type, id)
  <1>1. BelongsToLive(id) => OpenedAndNotClosed(id, Len(accepted)) /\ id # 0
    BY DEF BelongsToLive, FilterInv, LiveIsTheLatestOpening
  <1>2. IsNewAttempt(id) =>
          id # 0 /\ \A i \in 1 .. Len(accepted) : accepted[i].act < id
    <2>1. \A i \in 1 .. Len(accepted) : accepted[i].act \in Nat
      BY AcceptedIds DEF FilterInv
    <2>2. mHighestAttemptId \in Nat /\ id \in Nat
      BY DEF FilterInv, TypeOK, Ids
    <2>3. QED BY <2>1, <2>2 DEF IsNewAttempt, FilterInv, Watermark
  <1>3. QED BY <1>1, <1>2 DEF Admissible, Opened, Error

LEMMA ObserveFilter == FilterInv /\ Observe => FilterInv'
  <1> SUFFICES ASSUME FilterInv, NEW id \in Ids, NEW t \in SourceTimes,
                      \/ OnOpened(id, t)
                      \/ OnClosed(id, t)
                      \/ OnTransportError(id, t)
                      \/ \E type \in DataTypes, isEmpty \in BOOLEAN :
                           OnData(type, id, t, isEmpty)
                      \/ \E type \in NonDataTypes : OnNonData(type, id, t)
               PROVE  FilterInv'
    BY DEF Observe
  <1>1. TypeOK /\ TypeOK'
    <2>1. Observe
      BY DEF Observe
    <2>2. QED BY <2>1, ObserveType DEF FilterInv
  <1>2. PICK type \in EventTypes :
          /\ Enqueue(type, id, t)
          /\ \/ type = Opened /\ OnOpened(id, t)
             \/ type = Closed /\ OnClosed(id, t)
             \/ type = Error /\ OnTransportError(id, t)
             \/ /\ type \notin {Opened, Closed, Error}
                /\ BelongsToLive(id)
                /\ UNCHANGED filterVars
    BY DEF OnOpened, OnClosed, OnTransportError, OnData, OnNonData, EventTypes,
           DataTypes, NonDataTypes, Opened, Closed, Error
  <1>3. Admissible(type, id)
    BY <1>2, FilterAdmits DEF OnOpened, OnClosed, OnTransportError, Opened, Closed, Error
  <1>4. FilterIsSound'
    BY <1>1, <1>2, <1>3, AdmissibleIsSound DEF FilterInv
  <1>5. /\ mCurrentActivationId \in Nat /\ mHighestAttemptId \in Nat /\ id \in Nat
        /\ mCurrentActivationId <= mHighestAttemptId
    BY <1>1 DEF TypeOK, Ids, FilterInv, Watermark
  <1>6. /\ mHighestAttemptId <= mHighestAttemptId'
        /\ mHighestAttemptId' \in Nat
        /\ mCurrentActivationId' <= mHighestAttemptId'
        /\ id <= mHighestAttemptId'
    BY <1>2, <1>5 DEF OnOpened, OnClosed, OnTransportError, IsNewAttempt, BelongsToLive,
                      filterVars
  <1>7. Watermark'
    <2>1. \A i \in 1 .. Len(accepted) :
            accepted[i].act \in Nat /\ accepted[i].act <= mHighestAttemptId
      BY <1>1, <1>2, AcceptanceKept DEF FilterInv, Watermark
    <2>2. \A i \in 1 .. Len(accepted) : accepted[i].act <= mHighestAttemptId'
      BY <1>5, <1>6, <2>1
    <2>3. \A i \in 1 .. Len(accepted') : accepted'[i].act <= mHighestAttemptId'
      <3> SUFFICES ASSUME NEW i \in 1 .. Len(accepted')
                   PROVE  accepted'[i].act <= mHighestAttemptId'
        OBVIOUS
      <3>1. i \in 1 .. Len(accepted) \/ i = Len(accepted) + 1
        BY <1>1, <1>2, AcceptanceKept
      <3>2. QED BY <1>1, <1>2, <1>6, <2>2, <3>1, AcceptanceKept
    <2>4. QED BY <1>6, <2>3 DEF Watermark
  <1>8. LiveIsTheLatestOpening'
    <2>1. CASE type = Opened
      <3>1. mCurrentActivationId' = id
        BY <1>2, <2>1 DEF OnOpened, Opened, Closed, Error
      <3>2. /\ Len(accepted') = Len(accepted) + 1
            /\ Len(accepted) \in Nat
            /\ accepted'[Len(accepted')].type = Opened
            /\ accepted'[Len(accepted')].act = id
        BY <1>1, <1>2, <2>1, AcceptanceKept
      <3>3. OpenedAndNotClosed(id, Len(accepted))'
        BY <3>2 DEF OpenedAndNotClosed
      <3>4. QED BY <3>1, <3>3 DEF LiveIsTheLatestOpening
    <2>2. CASE type = Closed
      BY <1>2, <2>2 DEF OnClosed, LiveIsTheLatestOpening, Opened, Closed, Error
    <2>3. CASE type \notin {Opened, Closed}
      <3>1. mCurrentActivationId' = mCurrentActivationId
        BY <1>2, <2>3 DEF OnTransportError, filterVars
      <3>2. mCurrentActivationId # 0 =>
              OpenedAndNotClosed(mCurrentActivationId, Len(accepted))
        BY DEF FilterInv, LiveIsTheLatestOpening
      <3>3. mCurrentActivationId \in Ids
        BY <1>1 DEF TypeOK
      <3>4. CASE mCurrentActivationId # 0
        <4>1. type = Closed => id # mCurrentActivationId
          BY <2>3
        <4>2. OpenedAndNotClosed(mCurrentActivationId, Len(accepted))'
          BY <1>1, <1>2, <2>3, <3>1, <3>2, <3>3, <3>4, <4>1, OpeningStays
        <4>3. QED BY <4>2 DEF LiveIsTheLatestOpening
      <3>5. QED BY <3>1, <3>4 DEF LiveIsTheLatestOpening
    <2>4. QED BY <2>1, <2>2, <2>3
  <1>9. QED BY <1>1, <1>4, <1>7, <1>8 DEF FilterInv

LEMMA InitFilter == Init => FilterInv
  <1> SUFFICES ASSUME Init PROVE FilterInv
    OBVIOUS
  <1>1. Len(accepted) = 0 /\ mCurrentActivationId = 0 /\ mHighestAttemptId = 0
    BY DEF Init
  <1>2. Watermark /\ LiveIsTheLatestOpening /\ FilterIsSound
    BY <1>1 DEF Watermark, LiveIsTheLatestOpening, FilterIsSound
  <1>3. QED BY <1>2, InitType DEF FilterInv

LEMMA NextFilter == FilterInv /\ [Next]_vars => FilterInv'
  <1> SUFFICES ASSUME FilterInv, [Next]_vars PROVE FilterInv'
    OBVIOUS
  <1>1. TypeOK'
    BY NextType DEF FilterInv
  <1>2. CASE Observe
    BY <1>2, ObserveFilter
  <1>3. CASE UNCHANGED <<filterVars, accepted>>
    BY <1>1, <1>3 DEF FilterInv, Watermark, LiveIsTheLatestOpening, FilterIsSound,
                      OpenedAndNotClosed, filterVars
  <1>4. CASE Drain
    BY <1>3, <1>4 DEF Drain, Deliver, DeliveryReturns, DrainEnds
  <1>5. QED BY <1>2, <1>3, <1>4 DEF Next, vars

\* Nothing of an activation is let through before its opening or after its
\* closing, and no attempt id opens twice or opens after it failed
\* (sessioncontroller.cpp:123-212), whatever the transport reports.
THEOREM FilterSoundness == Spec => []FilterIsSound
  <1>1. QED BY InitFilter, NextFilter, PTL DEF Spec, FilterInv

-----------------------------------------------------------------------------
(* Positions and their places.                                             *)

\* Places in a set of positions: they count from 1, in the order of the positions.
LEMMA PlaceFacts ==
  ASSUME NEW n \in Nat, NEW S \in SUBSET (1 .. n)
  PROVE  /\ IsFiniteSet(S)
         /\ Cardinality(S) \in Nat
         /\ \A i \in S : PlaceIn(S, i) \in 1 .. Cardinality(S)
         /\ \A i, j \in S : i < j => PlaceIn(S, i) < PlaceIn(S, j)
  <1>1. IsFiniteSet(S) /\ Cardinality(S) \in Nat
    <2>1. IsFiniteSet(1 .. n)
      BY FS_Interval
    <2>2. QED BY <2>1, FS_Subset, FS_CardinalityType
  <1> DEFINE Below(i) == {j \in S : j <= i}
  <1>2. \A i : IsFiniteSet(Below(i)) /\ Cardinality(Below(i)) \in Nat
               /\ Cardinality(Below(i)) <= Cardinality(S)
    <2>1. \A i : Below(i) \in SUBSET S
      OBVIOUS
    <2>2. QED BY <1>1, <2>1, FS_Subset, FS_CardinalityType
  <1>3. ASSUME NEW i \in S PROVE Cardinality(Below(i)) # 0
    <2>1. i \in Below(i)
      OBVIOUS
    <2> HIDE DEF Below
    <2>2. Below(i) # {}
      BY <2>1
    <2>3. QED BY <1>2, <2>2, FS_EmptySet
  <1>4. ASSUME NEW i \in S, NEW j \in S, i < j
        PROVE  Cardinality(Below(i)) < Cardinality(Below(j))
    <2>1. Below(i) \in SUBSET Below(j)
      <3>1. \A k \in S : k \in Nat
        OBVIOUS
      <3>2. \A k \in S : k <= i => k <= j
        BY <1>4, <3>1
      <3>3. QED BY <3>2
    <2>2. j \in Below(j) /\ j \notin Below(i)
      BY <1>4
    <2>3. Cardinality(Below(i)) <= Cardinality(Below(j))
      BY <1>2, <2>1, FS_Subset
    <2>4. Cardinality(Below(i)) # Cardinality(Below(j))
      BY <1>2, <2>1, <2>2, FS_Subset
    <2>5. QED BY <1>2, <2>3, <2>4
  <1>5. \A i : PlaceIn(S, i) = Cardinality(Below(i))
    BY DEF PlaceIn
  <1> HIDE DEF Below
  <1>6. \A i \in S : PlaceIn(S, i) \in 1 .. Cardinality(S)
    BY <1>1, <1>2, <1>3, <1>5
  <1>7. QED BY <1>1, <1>4, <1>5, <1>6

\* One more position, after all the others, takes the next place.
LEMMA NextPlace ==
  ASSUME NEW n \in Nat, NEW S \in SUBSET (1 .. n)
  PROVE  /\ Cardinality(S \cup {n + 1}) = Cardinality(S) + 1
         /\ PlaceIn(S \cup {n + 1}, n + 1) = Cardinality(S) + 1
         /\ \A i \in S : PlaceIn(S \cup {n + 1}, i) = PlaceIn(S, i)
  <1>1. IsFiniteSet(S) /\ Cardinality(S) \in Nat
    BY PlaceFacts
  <1>2. n + 1 \notin S
    OBVIOUS
  <1>3. Cardinality(S \cup {n + 1}) = Cardinality(S) + 1
    BY <1>1, <1>2, FS_AddElement
  <1>4. {j \in S \cup {n + 1} : j <= n + 1} = S \cup {n + 1}
    <2>1. \A j \in S \cup {n + 1} : j <= n + 1
      OBVIOUS
    <2>2. QED BY <2>1
  <1>5. \A i \in S : {j \in S \cup {n + 1} : j <= i} = {j \in S : j <= i}
    OBVIOUS
  <1>6. PlaceIn(S \cup {n + 1}, n + 1) = Cardinality(S) + 1
    BY <1>3, <1>4 DEF PlaceIn
  <1>7. \A i \in S : PlaceIn(S \cup {n + 1}, i) = PlaceIn(S, i)
    BY <1>5 DEF PlaceIn
  <1>8. QED BY <1>3, <1>6, <1>7

-----------------------------------------------------------------------------
(* The line of what was emitted and what still waits.                      *)

LineLength == Len(events) + Len(mFifo)

\* Where each entry of the line comes from.
LineIs ==
  /\ Len(events) \in Nat /\ Len(mFifo) \in Nat
  /\ LineLength \in Nat
  /\ DOMAIN Line = 1 .. LineLength
  /\ \A i \in 1 .. Len(events) :
       Line[i] = [type |-> events[i].type, act |-> events[i].act,
                  sourceTimestampNs |-> events[i].sourceTimestampNs,
                  derived |-> events[i].derived]
  /\ \A i \in 1 .. Len(mFifo) :
       Line[Len(events) + i] =
         [type |-> mFifo[i].type, act |-> mFifo[i].act,
          sourceTimestampNs |-> mFifo[i].sourceTimestampNs,
          derived |-> mFifo[i].sessionTimeMapped]

LEMMA LineFacts == TypeOK => LineIs
  <1> SUFFICES ASSUME TypeOK PROVE LineIs
    OBVIOUS
  <1>1. Len(events) \in Nat /\ Len(mFifo) \in Nat
    BY DEF TypeOK
  <1>2. DOMAIN Line = 1 .. LineLength /\ LineLength \in Nat
    BY <1>1 DEF Line, LineLength
  <1>3. \A i \in 1 .. Len(events) :
          /\ i \in 1 .. Len(events) + Len(mFifo)
          /\ i <= Len(events)
    BY <1>1
  <1>4. \A i \in 1 .. Len(mFifo) :
          /\ Len(events) + i \in 1 .. Len(events) + Len(mFifo)
          /\ ~(Len(events) + i <= Len(events))
          /\ (Len(events) + i) - Len(events) = i
    BY <1>1
  <1>5. \A i \in 1 .. Len(events) :
              Line[i] = [type |-> events[i].type, act |-> events[i].act,
                         sourceTimestampNs |-> events[i].sourceTimestampNs,
                         derived |-> events[i].derived]
    BY <1>3 DEF Line
  <1>6. \A i \in 1 .. Len(mFifo) :
              Line[Len(events) + i] =
                [type |-> mFifo[i].type, act |-> mFifo[i].act,
                 sourceTimestampNs |-> mFifo[i].sourceTimestampNs,
                 derived |-> mFifo[i].sessionTimeMapped]
    BY <1>4 DEF Line
  <1>7. QED BY <1>1, <1>2, <1>5, <1>6 DEF LineIs

\* What joins the queue joins the line at its end.
LEMMA LineGrows ==
  ASSUME TypeOK, TypeOK', NEW p \in PendingObservation,
         mFifo' = Append(mFifo, p), events' = events
  PROVE  /\ LineLength' = LineLength + 1
         /\ \A i \in 1 .. LineLength : Line'[i] = Line[i]
         /\ Line'[LineLength + 1] =
              [type |-> p.type, act |-> p.act, sourceTimestampNs |-> p.sourceTimestampNs,
               derived |-> p.sessionTimeMapped]
  <1>0. LineIs /\ LineIs'
    BY LineFacts, PTL
  <1>1. mFifo \in Seq(PendingObservation)
    BY DEF TypeOK
  <1>2. /\ Len(mFifo') = Len(mFifo) + 1
        /\ mFifo'[Len(mFifo) + 1] = p
        /\ \A i \in 1 .. Len(mFifo) : mFifo'[i] = mFifo[i]
    BY <1>1, AppendFacts
  <1>3. Len(events) \in Nat /\ Len(mFifo) \in Nat
    BY <1>0 DEF LineIs
  <1>4. LineLength' = LineLength + 1
    BY <1>2, <1>3 DEF LineLength
  <1>5. ASSUME NEW i \in 1 .. LineLength PROVE Line'[i] = Line[i]
    <2>1. CASE i \in 1 .. Len(events)
      BY <2>1, <1>0 DEF LineIs
    <2>2. CASE i \notin 1 .. Len(events)
      <3>1. PICK k \in 1 .. Len(mFifo) : i = Len(events) + k
        <4>1. i - Len(events) \in 1 .. Len(mFifo) /\ i = Len(events) + (i - Len(events))
          BY <1>3, <2>2 DEF LineLength
        <4>2. QED BY <4>1
      <3>2. k \in 1 .. Len(mFifo')
        BY <1>2, <1>3
      <3>3. Line'[Len(events') + k] =
                [type |-> mFifo'[k].type, act |-> mFifo'[k].act,
                 sourceTimestampNs |-> mFifo'[k].sourceTimestampNs,
                 derived |-> mFifo'[k].sessionTimeMapped]
        BY <3>2, <1>0 DEF LineIs
      <3>4. /\ Line[Len(events) + k] =
                 [type |-> mFifo[k].type, act |-> mFifo[k].act,
                  sourceTimestampNs |-> mFifo[k].sourceTimestampNs,
                  derived |-> mFifo[k].sessionTimeMapped]
            /\ mFifo'[k] = mFifo[k]
        BY <1>0, <1>2, <3>1 DEF LineIs
      <3>5. QED BY <3>1, <3>3, <3>4
    <2>3. QED BY <2>1, <2>2
  <1>6. Line'[LineLength + 1] =
          [type |-> p.type, act |-> p.act, sourceTimestampNs |-> p.sourceTimestampNs,
           derived |-> p.sessionTimeMapped]
    <2>1. Len(mFifo) + 1 \in 1 .. Len(mFifo')
      BY <1>2, <1>3
    <2>2. LineLength + 1 = Len(events') + (Len(mFifo) + 1)
      BY <1>3 DEF LineLength
    <2>3. Line'[Len(events') + (Len(mFifo) + 1)] =
            [type |-> p.type, act |-> p.act, sourceTimestampNs |-> p.sourceTimestampNs,
             derived |-> p.sessionTimeMapped]
      BY <1>2, <2>1, <1>0 DEF LineIs
    <2>4. QED BY <2>2, <2>3
  <1>7. QED BY <1>4, <1>5, <1>6

\* A delivery moves the end of what is emitted; the line itself stays.
LEMMA LineStays ==
  ASSUME TypeOK, TypeOK', Deliver
  PROVE  /\ Line' = Line
         /\ LineLength' = LineLength
         /\ Len(events') = Len(events) + 1
         /\ Len(mFifo) >= 1
         /\ \A i \in 1 .. Len(events) : events'[i] = events[i]
         /\ events'[Len(events) + 1].derived = Head(mFifo).sessionTimeMapped
         /\ events'[Len(events) + 1].sequence = mLastSequence + 1
  <1>0. LineIs /\ LineIs'
    BY LineFacts, PTL
  <1>1. /\ mFifo \in Seq(PendingObservation) /\ mFifo # <<>>
        /\ events \in Seq(Event)
        /\ mFifo' = Tail(mFifo)
    BY DEF TypeOK, Deliver
  <1>2. /\ Head(mFifo) = mFifo[1]
        /\ Len(mFifo') = Len(mFifo) - 1
        /\ \A i \in 1 .. Len(mFifo') : mFifo'[i] = mFifo[i + 1]
    BY <1>1, TailFacts
  <1>3. PICK e : /\ events' = Append(events, e)
                 /\ e.type = Head(mFifo).type
                 /\ e.act = Head(mFifo).act
                 /\ e.sourceTimestampNs = Head(mFifo).sourceTimestampNs
                 /\ e.derived = Head(mFifo).sessionTimeMapped
                 /\ e.sequence = mLastSequence + 1
    BY DEF Deliver, DeliverObservation, DeliverDiagnostic, Emit
  <1>4. /\ Len(events') = Len(events) + 1
        /\ events'[Len(events) + 1] = e
        /\ \A i \in 1 .. Len(events) : events'[i] = events[i]
    BY <1>1, <1>3
  <1>5. Len(events) \in Nat /\ Len(mFifo) \in Nat /\ Len(mFifo) >= 1
    BY <1>1
  <1>6. LineLength' = LineLength /\ DOMAIN Line' = DOMAIN Line
    <2>1. LineLength' = LineLength
      BY <1>2, <1>4, <1>5 DEF LineLength
    <2>2. QED BY <2>1, <1>0 DEF LineIs
  <1>7. ASSUME NEW i \in 1 .. LineLength PROVE Line'[i] = Line[i]
    <2>1. CASE i \in 1 .. Len(events)
      <3>1. i \in 1 .. Len(events')
        BY <1>4, <1>5, <2>1
      <3>2. QED BY <1>4, <2>1, <3>1, <1>0 DEF LineIs
    <2>2. CASE i = Len(events) + 1
      <3>1. i \in 1 .. Len(events') /\ 1 \in 1 .. Len(mFifo)
        BY <1>4, <1>5, <2>2
      <3>2. Line[Len(events) + 1] =
              [type |-> mFifo[1].type, act |-> mFifo[1].act,
               sourceTimestampNs |-> mFifo[1].sourceTimestampNs,
               derived |-> mFifo[1].sessionTimeMapped]
        BY <3>1, <1>0 DEF LineIs
      <3>3. Line'[i] =
              [type |-> e.type, act |-> e.act,
               sourceTimestampNs |-> e.sourceTimestampNs, derived |-> e.derived]
        BY <1>4, <2>2, <3>1, <1>0 DEF LineIs
      <3>4. QED BY <1>2, <1>3, <2>2, <3>2, <3>3
    <2>3. CASE i \notin 1 .. Len(events) + 1
      <3>1. PICK k \in 1 .. Len(mFifo') : i = Len(events') + k
        <4>1. /\ i - Len(events') \in 1 .. Len(mFifo')
              /\ i = Len(events') + (i - Len(events'))
          BY <1>2, <1>4, <1>5, <2>3 DEF LineLength
        <4>2. QED BY <4>1
      <3>2. /\ k + 1 \in 1 .. Len(mFifo)
            /\ i = Len(events) + (k + 1)
        BY <1>2, <1>4, <1>5, <3>1
      <3>3. Line'[i] =
              [type |-> mFifo'[k].type, act |-> mFifo'[k].act,
               sourceTimestampNs |-> mFifo'[k].sourceTimestampNs,
               derived |-> mFifo'[k].sessionTimeMapped]
        BY <3>1, <1>0 DEF LineIs
      <3>4. Line[i] =
              [type |-> mFifo[k + 1].type, act |-> mFifo[k + 1].act,
               sourceTimestampNs |-> mFifo[k + 1].sourceTimestampNs,
               derived |-> mFifo[k + 1].sessionTimeMapped]
        BY <3>2, <1>0 DEF LineIs
      <3>5. QED BY <1>2, <3>3, <3>4
    <2>4. QED BY <1>5, <2>1, <2>2, <2>3
  <1>8. Line' = Line
    <2>1. \A i \in DOMAIN Line : Line'[i] = Line[i]
      BY <1>7, <1>0 DEF LineIs
    <2>2. Line = [i \in DOMAIN Line |-> Line[i]] /\ Line' = [i \in DOMAIN Line' |-> Line'[i]]
      BY Zenon DEF Line
    <2>3. QED BY <1>6, <2>1, <2>2
  <1>9. QED BY <1>3, <1>4, <1>5, <1>6, <1>8

-----------------------------------------------------------------------------
(* Nothing is lost and nothing is reordered.                               *)

\* What the line must say of the observation it holds at place k.
Said(i) == [type |-> Line[i].type, act |-> Line[i].act,
            sourceTimestampNs |-> Line[i].sourceTimestampNs]

Observations == {i \in 1 .. LineLength : ~Line[i].derived}

\* The places of the observations in the line are the positions of accepted.
EachInItsPlace ==
  /\ Cardinality(Observations) = Len(accepted)
  /\ \A i \in Observations : accepted[PlaceIn(Observations, i)] = Said(i)
  /\ \A k \in 1 .. Len(accepted) :
       \E i \in Observations : PlaceIn(Observations, i) = k

OrderInv == TypeOK /\ EachInItsPlace

LEMMA LineOrder == OrderInv => NothingLostNothingReordered
  BY LineFacts DEF OrderInv, EachInItsPlace, NothingLostNothingReordered, Observations,
                   Said, LineIs

\* One more observation at the end of the line is one more accepted.
LEMMA ObserveOrder == OrderInv /\ Observe => OrderInv'
  <1> SUFFICES ASSUME OrderInv, Observe PROVE OrderInv'
    OBVIOUS
  <1>1. TypeOK /\ TypeOK'
    BY ObserveType DEF OrderInv
  <1>2. PICK type \in EventTypes, id \in Ids, t \in SourceTimes : Enqueue(type, id, t)
    BY ObserveEnqueues
  <1> DEFINE p == [type |-> type, act |-> id, sourceTimestampNs |-> t,
                   sessionTimeMapped |-> FALSE, sessionTimestampNs |-> 0]
             a == [type |-> type, act |-> id, sourceTimestampNs |-> t]
  <1> PICK n, m, S : n = LineLength /\ m = Len(accepted) /\ S = Observations
    OBVIOUS
  <1>3. /\ mFifo' = Append(mFifo, p) /\ events' = events /\ accepted' = Append(accepted, a)
        /\ p \in PendingObservation /\ a \in Acceptance
    BY <1>2 DEF Enqueue, Queue, PendingObservation, Acceptance
  <1>4. /\ LineLength' = n + 1
        /\ \A i \in 1 .. n : Line'[i] = Line[i]
        /\ Line'[n + 1] = [type |-> type, act |-> id, sourceTimestampNs |-> t, derived |-> FALSE]
    <2>1. /\ p.type = type /\ p.act = id /\ p.sourceTimestampNs = t
          /\ p.sessionTimeMapped = FALSE
      OBVIOUS
    <2> HIDE DEF p
    <2>2. QED BY <1>1, <1>3, <2>1, LineGrows
  <1>5. n \in Nat /\ S \in SUBSET (1 .. n)
    BY <1>1, LineFacts DEF LineIs, Observations
  <1>6. /\ m \in Nat /\ Len(accepted') = m + 1
        /\ accepted'[m + 1] = a
        /\ \A i \in 1 .. m : accepted'[i] = accepted[i]
    <2>1. accepted \in Seq(Acceptance)
      BY <1>1 DEF TypeOK, Acceptance
    <2> HIDE DEF a
    <2>2. QED BY <1>3, <2>1, AppendFacts
  <1>7. Observations' = S \cup {n + 1}
    BY <1>4, <1>5 DEF Observations
  <1>9. /\ Cardinality(S) = m
        /\ \A i \in S : PlaceIn(S, i) \in 1 .. m
        /\ \A i \in S : accepted[PlaceIn(S, i)] = Said(i)
        /\ \A k \in 1 .. m : \E i \in S : PlaceIn(S, i) = k
    <2>1. \A i \in S : PlaceIn(S, i) \in 1 .. Cardinality(S)
      BY <1>5, PlaceFacts
    <2>2. QED BY <2>1 DEF OrderInv, EachInItsPlace
  <1> DEFINE T == S \cup {n + 1}
  <1>10. /\ Cardinality(T) = m + 1
         /\ PlaceIn(T, n + 1) = m + 1
         /\ \A i \in S : PlaceIn(T, i) = PlaceIn(S, i)
    <2>1. /\ Cardinality(S \cup {n + 1}) = Cardinality(S) + 1
          /\ PlaceIn(S \cup {n + 1}, n + 1) = Cardinality(S) + 1
          /\ \A i \in S : PlaceIn(S \cup {n + 1}, i) = PlaceIn(S, i)
      BY <1>5, NextPlace, Zenon
    <2>2. QED BY <1>9, <2>1
  <1>11. /\ \A i \in S : Said(i)' = Said(i)
         /\ Said(n + 1)' = a
    <2>1. ASSUME NEW i \in S PROVE Said(i)' = Said(i)
      BY <1>4, <1>5 DEF Said
    <2>2. Said(n + 1)' = a
      BY <1>4 DEF Said
    <2>3. QED BY <2>1, <2>2
  <1>12. T = Observations'
    BY <1>7
  <1> HIDE DEF T, a
  <1>13. \A i \in T : accepted'[PlaceIn(T, i)] = Said(i)'
    <2>1. ASSUME NEW i \in S PROVE accepted'[PlaceIn(T, i)] = Said(i)'
      <3>1. /\ PlaceIn(T, i) = PlaceIn(S, i)
            /\ accepted'[PlaceIn(S, i)] = accepted[PlaceIn(S, i)]
        BY <1>6, <1>9, <1>10
      <3>2. QED BY <1>9, <1>11, <3>1
    <2>2. accepted'[PlaceIn(T, n + 1)] = Said(n + 1)'
      BY <1>6, <1>10, <1>11
    <2>3. QED BY <2>1, <2>2 DEF T
  <1>14. \A k \in 1 .. m + 1 : \E i \in T : PlaceIn(T, i) = k
    <2>1. \A k \in 1 .. m : \E i \in T : PlaceIn(T, i) = k
      <3>1. S \subseteq T
        BY DEF T
      <3>2. QED BY <1>9, <1>10, <3>1
    <2>2. \E i \in T : PlaceIn(T, i) = m + 1
      BY <1>10 DEF T
    <2>3. QED BY <1>6, <2>1, <2>2
  <1>15. EachInItsPlace'
    BY <1>6, <1>10, <1>12, <1>13, <1>14 DEF EachInItsPlace
  <1>16. QED BY <1>1, <1>15 DEF OrderInv

\* A diagnostic of the controller's own is no observation.
LEMMA ReturnOrder == OrderInv /\ DeliveryReturns => OrderInv'
  <1> SUFFICES ASSUME OrderInv, DeliveryReturns PROVE OrderInv'
    OBVIOUS
  <1>1. TypeOK /\ TypeOK'
    BY DeliveryReturnsType DEF OrderInv
  <1>2. events' = events /\ accepted' = accepted
    BY DEF DeliveryReturns
  <1>3. CASE mFifo' = mFifo
    <2>1. Line' = Line /\ LineLength' = LineLength
      BY <1>2, <1>3 DEF Line, LineLength
    <2>2. QED BY <1>1, <1>2, <2>1 DEF OrderInv, EachInItsPlace, Observations, Said
  <1>4. CASE mFifo' # mFifo
    <2>1. PICK p \in PendingObservation : p.sessionTimeMapped /\ mFifo' = Append(mFifo, p)
      <3>1. emitting \in Seq(Emission) /\ emitting # <<>>
        BY <1>1 DEF TypeOK, Emission, DeliveryReturns
      <3>2. emitting[1] \in Emission
        BY <3>1, TailFacts
      <3>3. PICK p : /\ p = [type |-> Error, act |-> emitting[1].act,
                             sourceTimestampNs |-> emitting[1].sourceTimestampNs,
                             sessionTimeMapped |-> TRUE,
                             sessionTimestampNs |-> emitting[1].time]
                     /\ mFifo' = Append(mFifo, p)
        BY <1>4 DEF DeliveryReturns, Queue
      <3>4. p \in PendingObservation /\ p.sessionTimeMapped
        BY <3>2, <3>3 DEF PendingObservation, Emission, EventTypes
      <3>5. QED BY <3>3, <3>4
    <2>2. /\ LineLength' = LineLength + 1
          /\ \A i \in 1 .. LineLength : Line'[i] = Line[i]
          /\ Line'[LineLength + 1].derived
      <3>1. Line'[LineLength + 1] =
              [type |-> p.type, act |-> p.act,
               sourceTimestampNs |-> p.sourceTimestampNs, derived |-> p.sessionTimeMapped]
        BY <1>1, <1>2, <2>1, LineGrows, Zenon
      <3>2. /\ LineLength' = LineLength + 1
            /\ \A i \in 1 .. LineLength : Line'[i] = Line[i]
        BY <1>1, <1>2, <2>1, LineGrows, Zenon
      <3>3. QED BY <2>1, <3>1, <3>2
    <2>3. LineLength \in Nat
      BY <1>1, LineFacts DEF LineIs
    <2>4. Observations' = Observations
      BY <2>2, <2>3 DEF Observations
    <2>5. \A i \in Observations : Said(i)' = Said(i)
      BY <2>2, <2>3 DEF Said, Observations
    <2>6. QED BY <1>1, <1>2, <2>4, <2>5 DEF OrderInv, EachInItsPlace
  <1>5. QED BY <1>3, <1>4

LEMMA NextOrder == OrderInv /\ [Next]_vars => OrderInv'
  <1> SUFFICES ASSUME OrderInv, [Next]_vars PROVE OrderInv'
    OBVIOUS
  <1>1. TypeOK /\ TypeOK'
    BY NextType DEF OrderInv
  <1>2. CASE Deliver
    <2>1. Line' = Line /\ LineLength' = LineLength /\ accepted' = accepted
      BY <1>1, <1>2, LineStays DEF Deliver
    <2>2. QED BY <1>1, <2>1 DEF OrderInv, EachInItsPlace, Observations, Said
  <1>3. CASE UNCHANGED <<mFifo, events, accepted>>
    <2>1. Line' = Line /\ LineLength' = LineLength
      BY <1>3, Zenon DEF Line, LineLength
    <2>2. QED BY <1>1, <1>3, <2>1 DEF OrderInv, EachInItsPlace, Observations, Said
  <1>4. DrainEnds \/ UNCHANGED vars => UNCHANGED <<mFifo, events, accepted>>
    BY DEF DrainEnds, vars
  <1>5. QED BY <1>2, <1>3, <1>4, ObserveOrder, ReturnOrder DEF Next, Drain

LEMMA InitOrder == Init => OrderInv
  <1> SUFFICES ASSUME Init PROVE OrderInv
    OBVIOUS
  <1>1. mFifo = <<>> /\ events = <<>> /\ accepted = <<>>
    BY DEF Init
  <1>2. LineLength = 0 /\ Len(accepted) = 0
    BY <1>1 DEF LineLength
  <1>3. Observations = {}
    BY <1>2 DEF Observations
  <1>4. QED BY <1>2, <1>3, InitType, FS_EmptySet DEF OrderInv, EachInItsPlace

\* Whatever the consumers cause while they handle an event, every observation
\* the filter lets through is emitted exactly once, in the order in which it was
\* let through (sessioncontroller.cpp:225-287).
THEOREM NothingIsLostOrReordered == Spec => []NothingLostNothingReordered
  <1>1. QED BY InitOrder, NextOrder, LineOrder, PTL DEF Spec

-----------------------------------------------------------------------------
(* The controller implements the session stream.                           *)

SequenceCounts == mLastSequence = Len(events)

\* What a delivery adds to the stream, and what it remembers meanwhile.
LEMMA DeliverEmits ==
  ASSUME TypeOK, TypeOK', SequenceCounts, Deliver
  PROVE  \E e \in Event :
           /\ events' = Append(events, e)
           /\ e.sequence = Len(events) + 1
           /\ e.type = Head(mFifo).type
           /\ e.act = Head(mFifo).act
           /\ e.sourceTimestampNs = Head(mFifo).sourceTimestampNs
           /\ e.derived = Head(mFifo).sessionTimeMapped
           /\ ~e.derived =>
                /\ DeliverObservation
                /\ e.timestampNs = MapSourceTime(e.sourceTimestampNs).time
                /\ emitting' # <<>>
                /\ emitting'[1].anomaly = MapSourceTime(e.sourceTimestampNs).anomaly
                /\ emitting'[1].time = e.timestampNs
                /\ emitting'[1].sourceTimestampNs = e.sourceTimestampNs
           /\ e.derived =>
                /\ DeliverDiagnostic
                /\ e.timestampNs = Head(mFifo).sessionTimestampNs
                /\ emitting' # <<>>
                /\ ~emitting'[1].anomaly
  <1>1. PICK e : 
           /\ events' = Append(events, e)
           /\ e.sequence = Len(events) + 1
           /\ e.type = Head(mFifo).type
           /\ e.act = Head(mFifo).act
           /\ e.sourceTimestampNs = Head(mFifo).sourceTimestampNs
           /\ e.derived = Head(mFifo).sessionTimeMapped
           /\ ~Head(mFifo).sessionTimeMapped =>
                /\ DeliverObservation
                /\ e.timestampNs = MapSourceTime(Head(mFifo).sourceTimestampNs).time
                /\ emitting' # <<>>
                /\ emitting'[1].anomaly = MapSourceTime(Head(mFifo).sourceTimestampNs).anomaly
                /\ emitting'[1].time = e.timestampNs
                /\ emitting'[1].sourceTimestampNs = e.sourceTimestampNs
           /\ Head(mFifo).sessionTimeMapped =>
                /\ DeliverDiagnostic
                /\ e.timestampNs = Head(mFifo).sessionTimestampNs
                /\ emitting' # <<>>
                /\ ~emitting'[1].anomaly
    <2>1. CASE DeliverObservation
      BY <2>1 DEF DeliverObservation, Emit, SequenceCounts
    <2>2. CASE DeliverDiagnostic
      BY <2>2 DEF DeliverDiagnostic, Emit, SequenceCounts
    <2>3. QED BY <2>1, <2>2 DEF Deliver
  <1>2. e \in Event
    <2>1. events \in Seq(Event) /\ events' \in Seq(Event)
      BY DEF TypeOK
    <2>2. Len(events') = Len(events) + 1 /\ events'[Len(events')] = e /\ Len(events) \in Nat
      BY <1>1, <2>1
    <2>3. QED BY <2>1, <2>2
  <1>3. e.derived = Head(mFifo).sessionTimeMapped /\ e.sourceTimestampNs = Head(mFifo).sourceTimestampNs
    BY <1>1
  <1>4. QED BY <1>1, <1>2, <1>3

\* A step that appends the next event of a session is a step of the session.
LEMMA AppendIsEmit ==
  ASSUME events \in Seq(Event), NEW e \in Event, events' = Append(events, e),
         e.sequence = Len(events) + 1,
         Promised!IsObservation(events, e) \/ Promised!IsDiagnostic(events, e)
  PROVE  Promised!Emit
  <1>1. /\ events' # <<>>
        /\ events' \in Seq(Event)
        /\ Len(events') = Len(events) + 1
        /\ events'[Len(events')] = e
        /\ \A i \in 1 .. Len(events) : events'[i] = events[i]
        /\ Len(events) \in Nat
    BY AppendFacts
  <1>2. events = Promised!Front(events')
    <2>1. Promised!Front(events') = SubSeq(events', 1, Len(events') - 1)
      BY DEF Promised!Front
    <2>2. SubSeq(events', 1, Len(events)) = events
      BY <1>1
    <2>3. Len(events') - 1 = Len(events)
      BY <1>1
    <2>4. QED BY <2>1, <2>2, <2>3
  <1>3. Promised!Last(events') = e
    BY <1>1 DEF Promised!Last
  <1>4. QED BY <1>1, <1>2, <1>3 DEF Promised!Emit

\* The controller's memory of the last mapped time is that of the last
\* observation in the stream.
LastTimeIsRemembered ==
  mReferenceSet =>
    \E i \in DOMAIN events :
      /\ ~events[i].derived
      /\ events[i].timestampNs = mLastEmittedSessionTimestampNs
      /\ \A j \in DOMAIN events : ~events[j].derived => j <= i

StreamInv == AnchorInv /\ SequenceCounts /\ LastTimeIsRemembered

LEMMA NextStream == StreamInv /\ [Next]_vars => StreamInv'
  <1> SUFFICES ASSUME StreamInv, [Next]_vars PROVE StreamInv'
    OBVIOUS
  <1>1. AnchorInv' /\ TypeOK /\ TypeOK'
    BY NextAnchor DEF StreamInv, AnchorInv
  <1>2. CASE UNCHANGED <<events, mLastSequence, mReferenceSet, mLastEmittedSessionTimestampNs>>
    BY <1>1, <1>2 DEF StreamInv, SequenceCounts, LastTimeIsRemembered
  <1>3. CASE Deliver
    <2>1. PICK e \in Event :
            /\ events' = Append(events, e)
            /\ ~e.derived =>
                 /\ DeliverObservation
                 /\ e.timestampNs = MapSourceTime(e.sourceTimestampNs).time
                 /\ e.sourceTimestampNs = Head(mFifo).sourceTimestampNs
            /\ e.derived => DeliverDiagnostic
      BY <1>1, <1>3, DeliverEmits DEF StreamInv
    <2>2. /\ events \in Seq(Event)
          /\ Len(events) \in Nat
          /\ DOMAIN events = 1 .. Len(events)
          /\ DOMAIN events' = 1 .. Len(events) + 1
          /\ Len(events') = Len(events) + 1
          /\ events'[Len(events) + 1] = e
          /\ \A i \in 1 .. Len(events) : events'[i] = events[i]
      BY <1>1, <2>1 DEF TypeOK
    <2>3. SequenceCounts'
      <3>1. mLastSequence' = mLastSequence + 1
        BY <1>3 DEF Deliver, DeliverObservation, DeliverDiagnostic, Emit
      <3>2. QED BY <2>2, <3>1 DEF StreamInv, SequenceCounts
    <2>4. CASE ~e.derived
      <3>1. mLastEmittedSessionTimestampNs' = e.timestampNs
        BY <2>1, <2>4 DEF DeliverObservation
      <3>2. \A j \in DOMAIN events' : j <= Len(events) + 1
        BY <2>2
      <3>3. Len(events) + 1 \in DOMAIN events'
        BY <2>2
      <3>4. LastTimeIsRemembered'
        BY <2>2, <2>4, <3>1, <3>2, <3>3 DEF LastTimeIsRemembered
      <3>5. QED BY <1>1, <2>3, <3>4 DEF StreamInv
    <2>5. CASE e.derived
      <3>1. UNCHANGED <<mReferenceSet, mLastEmittedSessionTimestampNs>>
        BY <2>1, <2>5 DEF DeliverDiagnostic, timeVars
      <3>2. \A j \in DOMAIN events' :
              j \in DOMAIN events \/ (j = Len(events) + 1 /\ events'[j].derived)
        BY <2>2, <2>5
      <3>3. DOMAIN events \subseteq DOMAIN events'
        BY <2>2
      <3>4. LastTimeIsRemembered'
        BY <2>2, <3>1, <3>2, <3>3 DEF StreamInv, LastTimeIsRemembered
      <3>5. QED BY <1>1, <2>3, <3>4 DEF StreamInv
    <2>6. QED BY <2>4, <2>5
  <1>4. CASE Observe
    <2>1. PICK type \in EventTypes, id \in Ids, t \in SourceTimes : Enqueue(type, id, t)
      BY <1>4, ObserveEnqueues
    <2>2. QED BY <1>2, <2>1 DEF Enqueue, timeVars
  <1>5. DeliveryReturns \/ DrainEnds \/ UNCHANGED vars =>
          UNCHANGED <<events, mLastSequence, mReferenceSet, mLastEmittedSessionTimestampNs>>
    BY DEF DeliveryReturns, DrainEnds, vars, timeVars
  <1>6. QED BY <1>2, <1>3, <1>4, <1>5 DEF Next, Drain

LEMMA InitStream == Init => StreamInv
  <1> SUFFICES ASSUME Init PROVE StreamInv
    OBVIOUS
  <1>1. events = <<>> /\ Len(events) = 0 /\ mLastSequence = 0 /\ ~mReferenceSet
    BY DEF Init
  <1>2. QED BY <1>1, InitAnchor DEF StreamInv, SequenceCounts, LastTimeIsRemembered

\* The time an observation is given is the one the session promises.
LEMMA DeliveredTime ==
  ASSUME StreamInv, NEW e \in Event,
         e.timestampNs = MapSourceTime(e.sourceTimestampNs).time
  PROVE  Promised!TimeIsMapped(events, e)
  <1>1. CASE ~mReferenceSet
    <2>1. events = <<>>
      BY <1>1 DEF StreamInv, AnchorInv, NothingBeforeAnchor
    <2>2. e.timestampNs = 0
      BY <1>1 DEF MapSourceTime
    <2>3. QED BY <2>1, <2>2 DEF Promised!TimeIsMapped
  <1>2. CASE mReferenceSet
    <2>1. events # <<>> /\ mReferenceSourceTimestampNs = events[1].sourceTimestampNs
      BY <1>2 DEF StreamInv, AnchorInv, Anchored
    <2>2. Promised!LastTime(events) = mLastEmittedSessionTimestampNs
      <3>1. PICK i \in Promised!Observed(events) :
              /\ events[i].timestampNs = mLastEmittedSessionTimestampNs
              /\ \A j \in Promised!Observed(events) : j <= i
        BY <1>2 DEF StreamInv, LastTimeIsRemembered, Promised!Observed
      <3>2. \A k \in Promised!Observed(events) :
              (\A j \in Promised!Observed(events) : j <= k) => k = i
        <4>1. \A k \in Promised!Observed(events) : k \in Nat
          BY DEF StreamInv, AnchorInv, TypeOK, Promised!Observed
        <4>2. QED BY <3>1, <4>1
      <3>3. (CHOOSE k \in Promised!Observed(events) :
              \A j \in Promised!Observed(events) : j <= k) = i
        BY <3>1, <3>2
      <3>4. QED BY <3>1, <3>3 DEF Promised!LastTime
    <2>3. e.timestampNs =
            IF e.sourceTimestampNs - mReferenceSourceTimestampNs
                 < mLastEmittedSessionTimestampNs
            THEN mLastEmittedSessionTimestampNs
            ELSE e.sourceTimestampNs - mReferenceSourceTimestampNs
      BY <1>2 DEF MapSourceTime
    <2>4. QED BY <2>1, <2>2, <2>3 DEF Promised!TimeIsMapped
  <1>3. QED BY <1>1, <1>2

\* The observations already in the stream are the ones accepted before the one
\* at the head of the queue, each at the place it was accepted.
LEMMA StreamIsAccepted ==
  ASSUME OrderInv, NEW m, m = Len(events) + 1, m \in Observations
  PROVE  \E k \in 1 .. Len(accepted) :
           /\ accepted[k] = Said(m)
           /\ \A i \in Promised!Observed(events) :
                \E q \in 1 .. k - 1 :
                  accepted[q].type = events[i].type /\ accepted[q].act = events[i].act
           /\ \A q \in 1 .. k - 1 :
                \E i \in Promised!Observed(events) :
                  /\ accepted[q].type = events[i].type
                  /\ accepted[q].act = events[i].act
                  /\ \A j \in Promised!Observed(events) :
                       i < j => \E r \in q + 1 .. k - 1 :
                                  /\ accepted[r].type = events[j].type
                                  /\ accepted[r].act = events[j].act
  <1>1. TypeOK /\ LineIs
    BY LineFacts DEF OrderInv
  <1> PICK S : S = Observations
    OBVIOUS
  <1>2. LineLength \in Nat /\ S \in SUBSET (1 .. LineLength) /\ m \in S
    BY <1>1 DEF LineIs, Observations
  <1>3. /\ \A i \in S : PlaceIn(S, i) \in 1 .. Len(accepted)
        /\ \A i, j \in S : i < j => PlaceIn(S, i) < PlaceIn(S, j)
        /\ \A i \in S : accepted[PlaceIn(S, i)] = Said(i)
        /\ \A k \in 1 .. Len(accepted) : \E i \in S : PlaceIn(S, i) = k
    <2>1. PICK n \in Nat : n = LineLength
      BY <1>2
    <2>2. S \in SUBSET (1 .. n)
      BY <1>2, <2>1
    <2>3. /\ \A i \in S : PlaceIn(S, i) \in 1 .. Cardinality(S)
          /\ \A i, j \in S : i < j => PlaceIn(S, i) < PlaceIn(S, j)
      BY <2>2, PlaceFacts, Zenon
    <2>4. QED BY <2>3 DEF OrderInv, EachInItsPlace
  <1>4. \A i : i \in Promised!Observed(events) <=> i \in S /\ i < m
    <2>1. /\ Len(events) \in Nat /\ LineLength \in Nat /\ Len(events) <= LineLength
          /\ DOMAIN events = 1 .. Len(events)
      BY <1>1 DEF LineIs, LineLength, TypeOK
    <2>2. \A i : i \in 1 .. Len(events) <=> i \in 1 .. LineLength /\ i < m
      BY <2>1
    <2>3. ASSUME NEW i \in 1 .. Len(events) PROVE Line[i].derived = events[i].derived
      <3>1. Line[i] = [type |-> events[i].type, act |-> events[i].act,
                       sourceTimestampNs |-> events[i].sourceTimestampNs,
                       derived |-> events[i].derived]
        BY <1>1 DEF LineIs
      <3>2. QED BY <3>1
    <2>4. QED BY <2>1, <2>2, <2>3 DEF Promised!Observed, Observations
  <1>5. ASSUME NEW i \in S, i < m
        PROVE  Said(i).type = events[i].type /\ Said(i).act = events[i].act
    <2>1. i \in 1 .. Len(events)
      <3>1. i \in Nat /\ 1 <= i /\ Len(events) \in Nat
        BY <1>1, <1>2 DEF LineIs
      <3>2. QED BY <1>5, <3>1
    <2>2. Line[i] = [type |-> events[i].type, act |-> events[i].act,
                     sourceTimestampNs |-> events[i].sourceTimestampNs,
                     derived |-> events[i].derived]
      BY <1>1, <2>1 DEF LineIs
    <2>3. QED BY <2>2 DEF Said
  <1> DEFINE k == PlaceIn(S, m)
  <1>6. k \in 1 .. Len(accepted) /\ accepted[k] = Said(m)
    BY <1>2, <1>3
  <1>7. Len(accepted) \in Nat /\ S \subseteq Nat
    BY <1>1, <1>2 DEF TypeOK
  <1>8. ASSUME NEW i \in S, i < m
        PROVE  /\ PlaceIn(S, i) \in 1 .. k - 1
               /\ accepted[PlaceIn(S, i)].type = events[i].type
               /\ accepted[PlaceIn(S, i)].act = events[i].act
    <2>1. PlaceIn(S, i) \in 1 .. Len(accepted) /\ PlaceIn(S, i) < k
      BY <1>2, <1>3, <1>8
    <2>2. accepted[PlaceIn(S, i)] = Said(i)
      BY <1>3
    <2> HIDE DEF k
    <2>3. QED BY <1>5, <1>6, <1>7, <1>8, <2>1, <2>2
  <1>9. ASSUME NEW i \in Promised!Observed(events)
        PROVE  \E q \in 1 .. k - 1 :
                 accepted[q].type = events[i].type /\ accepted[q].act = events[i].act
    BY <1>4, <1>8
  <1>10. ASSUME NEW q \in 1 .. k - 1
         PROVE  \E i \in Promised!Observed(events) :
                  /\ accepted[q].type = events[i].type
                  /\ accepted[q].act = events[i].act
                  /\ \A j \in Promised!Observed(events) :
                       i < j => \E r \in q + 1 .. k - 1 :
                                  /\ accepted[r].type = events[j].type
                                  /\ accepted[r].act = events[j].act
    <2>1. q \in 1 .. Len(accepted) /\ q < k /\ q \in Nat
      BY <1>6, <1>7
    <2>2. PICK i \in S : PlaceIn(S, i) = q
      BY <1>3, <2>1
    <2>3. i < m
      <3>1. CASE i = m
        BY <2>1, <2>2, <3>1
      <3>2. CASE m < i
        <4>1. k < q
          BY <1>2, <1>3, <2>2, <3>2
        <4>2. QED BY <1>6, <1>7, <2>1, <4>1
      <3>3. i \in Nat /\ m \in Nat
        BY <1>2, <1>7
      <3>4. QED BY <3>1, <3>2, <3>3
    <2>4. ASSUME NEW j \in Promised!Observed(events), i < j
          PROVE  \E r \in q + 1 .. k - 1 : /\ accepted[r].type = events[j].type
                                            /\ accepted[r].act = events[j].act
      <3>1. j \in S /\ j < m
        BY <1>4
      <3>2. q < PlaceIn(S, j)
        BY <1>3, <2>2, <2>4, <3>1
      <3>3. /\ PlaceIn(S, j) \in 1 .. k - 1
            /\ accepted[PlaceIn(S, j)].type = events[j].type
            /\ accepted[PlaceIn(S, j)].act = events[j].act
        BY <1>8, <3>1
      <3>4. PlaceIn(S, j) \in q + 1 .. k - 1
        BY <1>6, <1>7, <2>1, <3>2, <3>3
      <3>5. QED BY <3>3, <3>4
    <2>5. i \in Promised!Observed(events)
      BY <1>4, <2>3
    <2>6. QED BY <1>8, <2>2, <2>3, <2>4, <2>5
  <1> HIDE DEF k
  <1>11. QED BY <1>6, <1>9, <1>10

\* What the filter let through is what the session may say next.
LEMMA DeliveredBelongs ==
  ASSUME OrderInv, FilterInv, NEW m, m = Len(events) + 1, m \in Observations,
         NEW e \in Event, e.type = Said(m).type, e.act = Said(m).act
  PROVE  \/ Promised!MayOpen(events, e)
         \/ Promised!MayFailToOpen(events, e)
         \/ Promised!BelongsToLive(events, e)
  <1>1. PICK k \in 1 .. Len(accepted) :
           /\ accepted[k] = Said(m)
           /\ \A i \in Promised!Observed(events) :
                \E q \in 1 .. k - 1 :
                  accepted[q].type = events[i].type /\ accepted[q].act = events[i].act
           /\ \A q \in 1 .. k - 1 :
                \E i \in Promised!Observed(events) :
                  /\ accepted[q].type = events[i].type
                  /\ accepted[q].act = events[i].act
                  /\ \A j \in Promised!Observed(events) :
                       i < j => \E r \in q + 1 .. k - 1 :
                                  /\ accepted[r].type = events[j].type
                                  /\ accepted[r].act = events[j].act
    BY StreamIsAccepted, Zenon
  <1> DEFINE id == accepted[k].act
             Opening(j) == \E i \in 1 .. j - 1 :
                             /\ accepted[i].type = Opened
                             /\ accepted[i].act = accepted[j].act
                             /\ \A r \in i + 1 .. j - 1 :
                                  /\ accepted[r].type # Opened
                                  /\ accepted[r].type = Closed
                                       => accepted[r].act # accepted[j].act
             unseen == \A i \in 1 .. k - 1 : accepted[i].act < id
  <1>2. /\ e.act = id /\ e.type = accepted[k].type
        /\ id # 0
        /\ e.type = Opened => unseen
        /\ e.type = Error => Opening(k) \/ unseen
        /\ e.type \notin {Opened, Error} => Opening(k)
    BY <1>1 DEF FilterInv, FilterIsSound
  <1>3. \A j \in 1 .. Len(accepted) : accepted[j].type = Closed => Opening(j)
    BY DEF FilterInv, FilterIsSound, Opened, Closed, Error
  <1>4. /\ Len(accepted) \in Nat
        /\ \A i \in 1 .. Len(accepted) : accepted[i].act \in Nat
    BY AcceptedIds DEF FilterInv
  <1>5. k \in Nat /\ k - 1 \in Nat /\ 1 .. k - 1 \subseteq 1 .. Len(accepted) /\ id > 0
    BY <1>2, <1>4
  <1>6. unseen => \A a \in Promised!UsedAttempts(events) : a < e.act
    <2> SUFFICES ASSUME unseen, NEW i \in Promised!Observed(events)
                 PROVE  events[i].act < e.act
      BY DEF Promised!UsedAttempts
    <2>1. QED BY <1>1, <1>2
  <1>7. CASE e.type = Opened
    BY <1>2, <1>5, <1>6, <1>7 DEF Promised!MayOpen, Opened, Promised!Opened
  <1>8. CASE e.type = Error /\ unseen
    BY <1>2, <1>5, <1>6, <1>8 DEF Promised!MayFailToOpen, Error, Promised!Error
  <1>9. CASE e.type # Opened /\ Opening(k)
    <2>1. PICK q \in 1 .. k - 1 :
            /\ accepted[q].type = Opened
            /\ accepted[q].act = id
            /\ \A r \in q + 1 .. k - 1 :
                 /\ accepted[r].type # Opened
                 /\ accepted[r].type = Closed => accepted[r].act # id
      BY <1>9
    <2>2. ASSUME NEW r \in q + 1 .. k - 1 PROVE accepted[r].type \notin {Opened, Closed}
      <3>1. accepted[r].type # Opened
        BY <2>1
      <3>2. ASSUME accepted[r].type = Closed PROVE FALSE
        <4>1. r \in 1 .. Len(accepted) /\ r \in Nat /\ q \in Nat /\ q < r
          BY <1>5, <2>1
        <4>2. PICK p \in 1 .. r - 1 :
                /\ accepted[p].type = Opened
                /\ accepted[p].act = accepted[r].act
                /\ \A s \in p + 1 .. r - 1 : accepted[s].type # Opened
          BY <1>3, <3>2, <4>1
        <4>3. CASE p = q
          BY <2>1, <3>2, <4>2, <4>3
        <4>4. CASE p < q
          <5>1. q \in p + 1 .. r - 1
            BY <4>1, <4>2, <4>4
          <5>2. QED BY <2>1, <4>2, <5>1
        <4>5. CASE q < p
          <5>1. p \in q + 1 .. k - 1
            BY <1>5, <4>1, <4>2, <4>5
          <5>2. QED BY <2>1, <4>2, <5>1
        <4>6. p \in Nat
          BY <4>1
        <4>7. QED BY <4>1, <4>3, <4>4, <4>5, <4>6
      <3>3. QED BY <3>1, <3>2
    <2>3. PICK i \in Promised!Observed(events) :
            /\ Opened = events[i].type
            /\ id = events[i].act
            /\ \A j \in Promised!Observed(events) :
                 i < j => \E r \in q + 1 .. k - 1 : accepted[r].type = events[j].type
      <3>1. PICK i \in Promised!Observed(events) :
              /\ accepted[q].type = events[i].type
              /\ accepted[q].act = events[i].act
              /\ \A j \in Promised!Observed(events) :
                   i < j => \E r \in q + 1 .. k - 1 :
                              /\ accepted[r].type = events[j].type
                              /\ accepted[r].act = events[j].act
        BY <1>1, Zenon
      <3>2. QED BY <2>1, <3>1
    <2> DEFINE boundaries == {j \in Promised!Observed(events) :
                                events[j].type \in {Opened, Closed}}
    <2>4. \A j \in boundaries : ~(i < j)
      BY <2>2, <2>3
    <2>5. \A j \in boundaries : j \in Nat
      BY DEF Promised!Observed, OrderInv, TypeOK
    <2>6. i \in boundaries /\ \A j \in boundaries : j <= i
      BY <2>3, <2>4, <2>5
    <2>7. \A j \in boundaries : (\A l \in boundaries : l <= j) => j = i
      BY <2>5, <2>6
    <2> HIDE DEF boundaries
    <2>8. (CHOOSE l \in boundaries : \A j \in boundaries : j <= l) = i
      BY <2>6, <2>7
    <2>9. boundaries # {} /\ events[i].type # Closed
      BY <2>3, <2>6 DEF Opened, Closed
    <2>10. Promised!LiveActivation(events) =
             IF boundaries = {}
                \/ events[CHOOSE l \in boundaries : \A j \in boundaries : j <= l].type = Closed
             THEN 0
             ELSE events[CHOOSE l \in boundaries : \A j \in boundaries : j <= l].act
      BY DEF Promised!LiveActivation, boundaries, Promised!Opened, Promised!Closed,
             Opened, Closed
    <2>11. Promised!LiveActivation(events) = id
      BY <2>3, <2>8, <2>9, <2>10
    <2>12. QED BY <1>2, <1>9, <2>11 DEF Promised!BelongsToLive, Promised!Opened, Opened
  <1>10. QED BY <1>2, <1>7, <1>8, <1>9

-----------------------------------------------------------------------------
(* The diagnostics answer the anomalies one for one.                       *)

Diagnostics == {i \in 1 .. LineLength : Line[i].derived}

\* The session time a diagnostic of the line has or will have.
DiagnosticTime(i) == IF i <= Len(events) THEN events[i].timestampNs
                     ELSE mFifo[i - Len(events)].sessionTimestampNs

Anomalies == Promised!Anomalous(events)

\* The anomaly of the event being emitted has no diagnostic yet.
IsReporting == emitting # <<>> /\ emitting[1].anomaly

\* The d-th diagnostic of the line is about the d-th anomaly of the stream.
IsAnswer(d) ==
  /\ Line[d].type = Error
  /\ \E a \in Anomalies :
       /\ PlaceIn(Anomalies, a) = PlaceIn(Diagnostics, d)
       /\ DiagnosticTime(d) = events[a].timestampNs
       /\ Line[d].sourceTimestampNs = events[a].sourceTimestampNs

Answers ==
  /\ Cardinality(Anomalies) = Cardinality(Diagnostics) + (IF IsReporting THEN 1 ELSE 0)
  /\ \A d \in Diagnostics : IsAnswer(d)
  /\ IsReporting =>
       /\ Len(events) \in Anomalies
       /\ emitting[1].time = events[Len(events)].timestampNs
       /\ emitting[1].sourceTimestampNs = events[Len(events)].sourceTimestampNs

\* The anomalies are positions of the stream.
LEMMA AnomalyFacts ==
  ASSUME TypeOK
  PROVE  /\ Len(events) \in Nat
         /\ DOMAIN events = 1 .. Len(events)
         /\ \A i : i \in Anomalies <=>
                 /\ i \in 1 .. Len(events)
                 /\ ~events[i].derived
                 /\ events[i].sourceTimestampNs - events[1].sourceTimestampNs
                      < events[i].timestampNs
         /\ Anomalies \in SUBSET (1 .. Len(events))
         /\ \A i \in 1 .. Len(events) : /\ events[i].timestampNs \in Nat
                                       /\ events[i].sourceTimestampNs \in Nat
                                       /\ events[i].derived \in BOOLEAN
                                       /\ events[i].type \in EventTypes
  <1>1. events \in Seq(Event)
    BY DEF TypeOK
  <1>2. /\ Len(events) \in Nat
        /\ DOMAIN events = 1 .. Len(events)
        /\ \A i \in 1 .. Len(events) : events[i] \in Event
    BY <1>1
  <1>3. \A i \in 1 .. Len(events) : /\ events[i].timestampNs \in Nat
                                   /\ events[i].sourceTimestampNs \in Nat
                                   /\ events[i].derived \in BOOLEAN
                                   /\ events[i].type \in EventTypes
    BY <1>2 DEF Event
  <1>4. \A i : i \in Anomalies <=>
                 /\ i \in 1 .. Len(events)
                 /\ ~events[i].derived
                 /\ events[i].sourceTimestampNs - events[1].sourceTimestampNs
                      < events[i].timestampNs
    BY <1>2 DEF Anomalies, Promised!Anomalous, Promised!Observed
  <1>5. QED BY <1>2, <1>3, <1>4

\* One more event is one more anomaly exactly when its observation ran behind.
LEMMA DeliverAnomalies ==
  ASSUME StreamInv, TypeOK', Deliver, NEW e \in Event, events' = Append(events, e),
         ~e.derived => e.timestampNs = MapSourceTime(e.sourceTimestampNs).time
  PROVE  /\ ~e.derived /\ MapSourceTime(e.sourceTimestampNs).anomaly =>
              Anomalies' = Anomalies \cup {Len(events) + 1}
         /\ e.derived \/ ~MapSourceTime(e.sourceTimestampNs).anomaly =>
              Anomalies' = Anomalies
         /\ \A a \in Anomalies : events'[a] = events[a]
  <1>1. TypeOK
    BY DEF StreamInv, AnchorInv
  <1>2. /\ events \in Seq(Event)
        /\ Len(events) \in Nat
        /\ Len(events') = Len(events) + 1
        /\ events'[Len(events) + 1] = e
        /\ \A i \in 1 .. Len(events) : events'[i] = events[i]
    BY <1>1, AppendFacts DEF TypeOK
  <1>3. /\ \A i : i \in Anomalies <=>
                 /\ i \in 1 .. Len(events)
                 /\ ~events[i].derived
                 /\ events[i].sourceTimestampNs - events[1].sourceTimestampNs
                      < events[i].timestampNs
        /\ Anomalies \in SUBSET (1 .. Len(events))
    BY <1>1, AnomalyFacts
  <1>4. \A i : i \in Anomalies' <=>
                 /\ i \in 1 .. Len(events')
                 /\ ~events'[i].derived
                 /\ events'[i].sourceTimestampNs - events'[1].sourceTimestampNs
                      < events'[i].timestampNs
    <2>1. DOMAIN events' = 1 .. Len(events')
      BY DEF TypeOK
    <2>2. QED BY <2>1 DEF Anomalies, Promised!Anomalous, Promised!Observed
  <1>5. \A i \in 1 .. Len(events) : i \in Anomalies' <=> i \in Anomalies
    <2>1. ASSUME NEW i \in 1 .. Len(events) PROVE i \in Anomalies' <=> i \in Anomalies
      <3>1. i \in 1 .. Len(events') /\ 1 \in 1 .. Len(events)
        BY <1>2
      <3>2. QED BY <1>2, <1>3, <1>4, <3>1
    <2>2. QED BY <2>1
  <1>6. Len(events) + 1 \in Anomalies' <=>
          /\ ~e.derived
          /\ e.sourceTimestampNs - events'[1].sourceTimestampNs < e.timestampNs
    <2>1. Len(events) + 1 \in 1 .. Len(events')
      BY <1>2
    <2>2. QED BY <1>2, <1>4, <2>1
  <1>7. ~e.derived => (Len(events) + 1 \in Anomalies' <=> MapSourceTime(e.sourceTimestampNs).anomaly)
    <2> SUFFICES ASSUME ~e.derived
                 PROVE  Len(events) + 1 \in Anomalies' <=> MapSourceTime(e.sourceTimestampNs).anomaly
      OBVIOUS
    <2>1. e.sourceTimestampNs \in Nat
      BY DEF Event
    <2>2. CASE ~mReferenceSet
      <3>1. events = <<>> /\ Len(events) = 0
        BY <2>2 DEF StreamInv, AnchorInv, NothingBeforeAnchor
      <3>2. events'[1] = e /\ e.timestampNs = 0 /\ ~MapSourceTime(e.sourceTimestampNs).anomaly
        BY <1>2, <2>2, <3>1 DEF MapSourceTime
      <3>3. QED BY <1>6, <2>1, <3>2
    <2>3. CASE mReferenceSet
      <3>1. events # <<>> /\ mReferenceSourceTimestampNs = events[1].sourceTimestampNs
        BY <2>3 DEF StreamInv, AnchorInv, Anchored
      <3>2. events'[1] = events[1]
        BY <1>2, <3>1
      <3>3. mReferenceSourceTimestampNs \in Nat /\ mLastEmittedSessionTimestampNs \in Nat
        BY <1>1 DEF TypeOK
      <3>4. QED BY <1>6, <2>1, <2>3, <3>1, <3>2, <3>3 DEF MapSourceTime
    <2>4. QED BY <2>2, <2>3
  <1>8. \A i \in Anomalies' : i \in 1 .. Len(events) \/ i = Len(events) + 1
    <2>1. \A i \in Anomalies' : i \in 1 .. Len(events) + 1
      BY <1>2, <1>4
    <2>2. QED BY <1>2, <2>1
  <1>9. QED BY <1>2, <1>3, <1>5, <1>6, <1>7, <1>8

\* An answer stays one while neither its place nor that of its anomaly moves.
LEMMA AnswersStay ==
  ASSUME \A d \in Diagnostics : IsAnswer(d),
         Diagnostics \subseteq Diagnostics', Anomalies \subseteq Anomalies',
         \A d \in Diagnostics : PlaceIn(Diagnostics', d) = PlaceIn(Diagnostics, d),
         \A a \in Anomalies : PlaceIn(Anomalies', a) = PlaceIn(Anomalies, a),
         \A a \in Anomalies : events'[a] = events[a],
         \A d \in Diagnostics :
           Line'[d] = Line[d] /\ DiagnosticTime(d)' = DiagnosticTime(d)
  PROVE  \A d \in Diagnostics : IsAnswer(d)'
  <1> SUFFICES ASSUME NEW d \in Diagnostics PROVE IsAnswer(d)'
    OBVIOUS
  <1>1. PICK a \in Anomalies :
          /\ PlaceIn(Anomalies, a) = PlaceIn(Diagnostics, d)
          /\ DiagnosticTime(d) = events[a].timestampNs
          /\ Line[d].sourceTimestampNs = events[a].sourceTimestampNs
    BY DEF IsAnswer
  <1>2. /\ PlaceIn(Anomalies', a) = PlaceIn(Diagnostics', d)
        /\ DiagnosticTime(d)' = events'[a].timestampNs
        /\ Line'[d].sourceTimestampNs = events'[a].sourceTimestampNs
        /\ Line'[d].type = Error
        /\ a \in Anomalies'
    BY <1>1 DEF IsAnswer
  <1> HIDE DEF Diagnostics, Anomalies, DiagnosticTime, Line, PlaceIn
  <1>3. QED BY <1>2 DEF IsAnswer

\* What the queue already held keeps its session time when it grows.
LEMMA QueuedTimes ==
  ASSUME TypeOK, TypeOK', NEW p \in PendingObservation,
         mFifo' = Append(mFifo, p), events' = events
  PROVE  /\ \A i \in 1 .. LineLength : DiagnosticTime(i)' = DiagnosticTime(i)
         /\ \A i : i = LineLength + 1 => DiagnosticTime(i)' = p.sessionTimestampNs
  <1>1. /\ Len(events) \in Nat /\ Len(mFifo) \in Nat
        /\ LineLength = Len(events) + Len(mFifo)
    BY LineFacts DEF LineIs, LineLength
  <1>2. /\ mFifo'[Len(mFifo) + 1] = p
        /\ \A i \in 1 .. Len(mFifo) : mFifo'[i] = mFifo[i]
    BY AppendFacts DEF TypeOK
  <1>3. ASSUME NEW i \in 1 .. LineLength PROVE DiagnosticTime(i)' = DiagnosticTime(i)
    <2>1. ~(i <= Len(events)) => i - Len(events) \in 1 .. Len(mFifo)
      BY <1>1
    <2>2. QED BY <1>2, <2>1 DEF DiagnosticTime
  <1>4. /\ ~(LineLength + 1 <= Len(events))
        /\ (LineLength + 1) - Len(events) = Len(mFifo) + 1
    BY <1>1
  <1>5. \A i : i = LineLength + 1 => DiagnosticTime(i)' = p.sessionTimestampNs
    BY <1>2, <1>4 DEF DiagnosticTime
  <1>6. QED BY <1>3, <1>5

\* An observation that joins the queue disturbs no answer.
LEMMA ObserveAnswers ==
  ASSUME TypeOK, TypeOK', Answers, Observe
  PROVE  Answers'
  <1>1. PICK type \in EventTypes, id \in Ids, t \in SourceTimes : Enqueue(type, id, t)
    BY ObserveEnqueues
  <1>2. PICK p \in PendingObservation :
          ~p.sessionTimeMapped /\ mFifo' = Append(mFifo, p)
    <2>1. PICK p : /\ p = [type |-> type, act |-> id, sourceTimestampNs |-> t,
                           sessionTimeMapped |-> FALSE, sessionTimestampNs |-> 0]
                   /\ mFifo' = Append(mFifo, p)
      BY <1>1 DEF Enqueue, Queue
    <2>2. p \in PendingObservation /\ ~p.sessionTimeMapped
      BY <2>1 DEF PendingObservation
    <2>3. QED BY <2>1, <2>2
  <1>3. UNCHANGED <<events, emitting>>
    BY <1>1 DEF Enqueue
  <1>4. /\ LineLength' = LineLength + 1
        /\ \A i \in 1 .. LineLength : Line'[i] = Line[i]
    BY <1>2, <1>3, LineGrows, Zenon
  <1>5. ~Line'[LineLength + 1].derived
    <2>1. Line'[LineLength + 1] =
            [type |-> p.type, act |-> p.act,
             sourceTimestampNs |-> p.sourceTimestampNs, derived |-> p.sessionTimeMapped]
      BY <1>2, <1>3, LineGrows, Zenon
    <2>2. QED BY <1>2, <2>1
  <1>6. LineLength \in Nat
    BY LineFacts DEF LineIs
  <1>7. Diagnostics' = Diagnostics
    BY <1>4, <1>5, <1>6 DEF Diagnostics
  <1>8. Anomalies' = Anomalies
    BY <1>3, Zenon DEF Anomalies, Promised!Anomalous, Promised!Observed
  <1>9. \A d \in Diagnostics : Line'[d] = Line[d] /\ DiagnosticTime(d)' = DiagnosticTime(d)
    <2>1. \A d \in 1 .. LineLength : DiagnosticTime(d)' = DiagnosticTime(d)
      BY <1>2, <1>3, QueuedTimes, Zenon
    <2>2. Diagnostics \subseteq 1 .. LineLength
      BY DEF Diagnostics
    <2>3. QED BY <1>4, <2>1, <2>2
  <1>10. \A d \in Diagnostics : IsAnswer(d)'
    BY <1>3, <1>7, <1>8, <1>9, AnswersStay DEF Answers
  <1>11. IsReporting' = IsReporting
    BY <1>3 DEF IsReporting
  <1>12. QED BY <1>3, <1>7, <1>8, <1>10, <1>11 DEF Answers

\* The diagnostic of an anomaly joins the line as the answer to the last one.
LEMMA ReturnAnswers ==
  ASSUME TypeOK, TypeOK', Answers, DeliveryReturns
  PROVE  Answers'
  <1>1. /\ emitting # <<>> /\ events' = events /\ ~IsReporting'
        /\ IsReporting <=> emitting[1].anomaly
    BY DEF DeliveryReturns, IsReporting
  <1>2. Anomalies' = Anomalies
    BY <1>1, Zenon DEF Anomalies, Promised!Anomalous, Promised!Observed
  <1>3. LineLength \in Nat
    BY LineFacts DEF LineIs
  <1>4. CASE ~IsReporting
    <2>1. mFifo' = mFifo
      BY <1>1, <1>4 DEF DeliveryReturns
    <2>2. Line' = Line /\ LineLength' = LineLength
      BY <1>1, <2>1, Zenon DEF Line, LineLength
    <2>3. Diagnostics' = Diagnostics
      BY <2>2 DEF Diagnostics
    <2>4. \A d \in Diagnostics : DiagnosticTime(d)' = DiagnosticTime(d)
      BY <1>1, <2>1 DEF DiagnosticTime
    <2>5. \A d \in Diagnostics : IsAnswer(d)'
      BY <1>1, <1>2, <2>2, <2>3, <2>4, AnswersStay DEF Answers
    <2>6. QED BY <1>1, <1>2, <1>4, <2>3, <2>5 DEF Answers
  <1>5. CASE IsReporting
    <2>1. PICK p \in PendingObservation :
            /\ mFifo' = Append(mFifo, p)
            /\ p.sessionTimeMapped
            /\ p.type = Error
            /\ p.sessionTimestampNs = events[Len(events)].timestampNs
            /\ p.sourceTimestampNs = events[Len(events)].sourceTimestampNs
      <3>1. PICK p : /\ p = [type |-> Error, act |-> emitting[1].act,
                             sourceTimestampNs |-> emitting[1].sourceTimestampNs,
                             sessionTimeMapped |-> TRUE,
                             sessionTimestampNs |-> emitting[1].time]
                     /\ mFifo' = Append(mFifo, p)
        BY <1>1, <1>5 DEF DeliveryReturns, Queue
      <3>2. emitting \in Seq(Emission)
        BY DEF TypeOK, Emission
      <3>3. emitting[1] \in Emission
        BY <1>1, <3>2, TailFacts
      <3>4. p \in PendingObservation
        BY <3>1, <3>3 DEF PendingObservation, Emission, EventTypes
      <3>5. /\ emitting[1].time = events[Len(events)].timestampNs
            /\ emitting[1].sourceTimestampNs = events[Len(events)].sourceTimestampNs
        BY <1>5 DEF Answers
      <3>6. QED BY <3>1, <3>4, <3>5
    <2> PICK n, D, A, z : n = LineLength /\ D = Diagnostics /\ A = Anomalies /\ z = Len(events)
      OBVIOUS
    <2>2. n \in Nat /\ D \in SUBSET (1 .. n) /\ z \in Nat /\ A \in SUBSET (1 .. z)
      BY <1>3, AnomalyFacts DEF Diagnostics
    <2>3. /\ LineLength' = n + 1
          /\ \A i \in 1 .. n : Line'[i] = Line[i]
          /\ Line'[n + 1] =
               [type |-> p.type, act |-> p.act, sourceTimestampNs |-> p.sourceTimestampNs,
                derived |-> p.sessionTimeMapped]
      BY <1>1, <2>1, LineGrows, Zenon
    <2>4. /\ \A i \in 1 .. n : DiagnosticTime(i)' = DiagnosticTime(i)
          /\ DiagnosticTime(n + 1)' = p.sessionTimestampNs
      BY <1>1, <2>1, QueuedTimes, Zenon
    <2>5. Line'[n + 1].derived /\ Line'[n + 1].type = Error
          /\ Line'[n + 1].sourceTimestampNs = p.sourceTimestampNs
      BY <2>1, <2>3
    <2>6. Diagnostics' = D \cup {n + 1}
      BY <2>2, <2>3, <2>5 DEF Diagnostics
    <2>7. /\ Cardinality(D \cup {n + 1}) = Cardinality(D) + 1
          /\ PlaceIn(D \cup {n + 1}, n + 1) = Cardinality(D) + 1
          /\ \A i \in D : PlaceIn(D \cup {n + 1}, i) = PlaceIn(D, i)
      BY <2>2, NextPlace, Zenon
    <2>8. Cardinality(A) = Cardinality(D) + 1 /\ z \in A
      BY <1>5 DEF Answers
    <2>9. PlaceIn(A, z) = Cardinality(A)
      <3>1. \A j \in A : j <= z
        BY <2>2
      <3>2. {j \in A : j <= z} = A
        BY <3>1
      <3>3. QED BY <3>2 DEF PlaceIn
    <2>10. \A d \in D : IsAnswer(d)'
      <3>1. \A d \in Diagnostics : Line'[d] = Line[d] /\ DiagnosticTime(d)' = DiagnosticTime(d)
        BY <2>2, <2>3, <2>4
      <3>2. /\ Diagnostics \subseteq Diagnostics'
            /\ \A d \in Diagnostics : PlaceIn(Diagnostics', d) = PlaceIn(Diagnostics, d)
        BY <2>6, <2>7
      <3>3. /\ Anomalies \subseteq Anomalies'
            /\ \A a \in Anomalies : PlaceIn(Anomalies', a) = PlaceIn(Anomalies, a)
            /\ \A a \in Anomalies : events'[a] = events[a]
        BY <1>1, <1>2
      <3>4. \A d \in Diagnostics : IsAnswer(d)
        BY DEF Answers
      <3>5. QED BY <3>1, <3>2, <3>3, <3>4, AnswersStay, Zenon
    <2>11. IsAnswer(n + 1)'
      <3>1. /\ z \in Anomalies'
            /\ PlaceIn(Anomalies', z) = PlaceIn(Diagnostics', n + 1)
            /\ DiagnosticTime(n + 1)' = events'[z].timestampNs
            /\ Line'[n + 1].sourceTimestampNs = events'[z].sourceTimestampNs
        BY <1>1, <1>2, <2>1, <2>4, <2>5, <2>6, <2>7, <2>8, <2>9
      <3> HIDE DEF Diagnostics, Anomalies, DiagnosticTime, Line, PlaceIn
      <3>2. QED BY <2>5, <3>1 DEF IsAnswer
    <2>12. \A d \in Diagnostics' : IsAnswer(d)'
      BY <2>6, <2>10, <2>11
    <2>13. Cardinality(Anomalies') = Cardinality(Diagnostics')
      BY <1>2, <2>6, <2>7, <2>8
    <2>14. Cardinality(Diagnostics') \in Nat
      <3>1. Cardinality(D) \in Nat
        BY <2>2, PlaceFacts, Zenon
      <3>2. QED BY <2>6, <2>7, <3>1
    <2>15. QED BY <1>1, <2>12, <2>13, <2>14 DEF Answers
  <1>6. QED BY <1>4, <1>5

\* What waits keeps its session time when the head of the queue is delivered,
\* and a diagnostic is delivered with the time it waited with.
LEMMA DeliveredTimes ==
  ASSUME TypeOK, TypeOK', SequenceCounts, Deliver
  PROVE  \A d \in Diagnostics : DiagnosticTime(d)' = DiagnosticTime(d)
  <1> SUFFICES ASSUME NEW d \in Diagnostics PROVE DiagnosticTime(d)' = DiagnosticTime(d)
    OBVIOUS
  <1>1. /\ Len(events) \in Nat /\ Len(mFifo) \in Nat
        /\ d \in 1 .. Len(events) + Len(mFifo)
    BY LineFacts DEF LineIs, LineLength, Diagnostics
  <1>2. /\ mFifo # <<>> /\ mFifo \in Seq(PendingObservation)
        /\ Head(mFifo) = mFifo[1]
        /\ Len(mFifo') = Len(mFifo) - 1
        /\ \A i \in 1 .. Len(mFifo') : mFifo'[i] = mFifo[i + 1]
    BY TailFacts DEF TypeOK, Deliver
  <1>3. PICK e \in Event :
          /\ events' = Append(events, e)
          /\ e.derived = Head(mFifo).sessionTimeMapped
          /\ e.derived => e.timestampNs = Head(mFifo).sessionTimestampNs
    BY DeliverEmits
  <1>4. /\ Len(events') = Len(events) + 1
        /\ events'[Len(events) + 1] = e
        /\ \A i \in 1 .. Len(events) : events'[i] = events[i]
    BY <1>3, AppendFacts DEF TypeOK
  <1>5. CASE d <= Len(events)
    <2>1. d \in 1 .. Len(events) /\ d <= Len(events')
      BY <1>1, <1>4, <1>5
    <2>2. QED BY <1>4, <2>1 DEF DiagnosticTime
  <1>6. CASE d = Len(events) + 1
    <2>1. /\ 1 \in 1 .. Len(mFifo) /\ d = Len(events) + 1
          /\ d <= Len(events') /\ ~(d <= Len(events)) /\ d - Len(events) = 1
      BY <1>1, <1>4, <1>6
    <2>2. Line[Len(events) + 1] =
            [type |-> mFifo[1].type, act |-> mFifo[1].act,
             sourceTimestampNs |-> mFifo[1].sourceTimestampNs,
             derived |-> mFifo[1].sessionTimeMapped]
      BY <2>1, LineFacts DEF LineIs
    <2>3. e.derived
      BY <1>2, <1>3, <2>1, <2>2 DEF Diagnostics
    <2>4. DiagnosticTime(d)' = e.timestampNs
      BY <1>4, <2>1 DEF DiagnosticTime
    <2>5. DiagnosticTime(d) = mFifo[1].sessionTimestampNs
      BY <2>1 DEF DiagnosticTime
    <2>6. QED BY <1>2, <1>3, <2>3, <2>4, <2>5
  <1>7. CASE d > Len(events) + 1
    <2>1. /\ ~(d <= Len(events)) /\ ~(d <= Len(events'))
          /\ d - Len(events') \in 1 .. Len(mFifo')
          /\ (d - Len(events')) + 1 = d - Len(events)
      BY <1>1, <1>2, <1>4, <1>7
    <2>2. mFifo'[d - Len(events')] = mFifo[d - Len(events)]
      BY <1>2, <2>1
    <2>3. QED BY <2>1, <2>2 DEF DiagnosticTime
  <1>8. QED BY <1>1, <1>5, <1>6, <1>7

\* A delivery disturbs no answer; the anomaly it may add is the last one.
LEMMA DeliverAnswers ==
  ASSUME StreamInv, TypeOK', Answers, Deliver
  PROVE  Answers'
  <1>1. TypeOK /\ SequenceCounts
    BY DEF StreamInv, AnchorInv
  <1>2. PICK e \in Event :
          /\ events' = Append(events, e)
          /\ ~e.derived =>
                /\ e.timestampNs = MapSourceTime(e.sourceTimestampNs).time
                /\ emitting' # <<>>
                /\ emitting'[1].anomaly = MapSourceTime(e.sourceTimestampNs).anomaly
                /\ emitting'[1].time = e.timestampNs
                /\ emitting'[1].sourceTimestampNs = e.sourceTimestampNs
          /\ e.derived =>
                /\ emitting' # <<>>
                /\ ~emitting'[1].anomaly
    BY <1>1, DeliverEmits
  <1>3. ~IsReporting
    BY DEF IsReporting, Deliver
  <1>4. Line' = Line /\ LineLength' = LineLength
    BY <1>1, LineStays
  <1>5. Diagnostics' = Diagnostics
    BY <1>4 DEF Diagnostics
  <1>6. \A d \in Diagnostics : Line'[d] = Line[d] /\ DiagnosticTime(d)' = DiagnosticTime(d)
    BY <1>1, <1>4, DeliveredTimes
  <1> DEFINE behind == ~e.derived /\ MapSourceTime(e.sourceTimestampNs).anomaly
  <1>7. /\ behind => Anomalies' = Anomalies \cup {Len(events) + 1}
        /\ ~behind => Anomalies' = Anomalies
        /\ \A a \in Anomalies : events'[a] = events[a]
    <2>1. ~e.derived => e.timestampNs = MapSourceTime(e.sourceTimestampNs).time
      BY <1>2
    <2>2. /\ ~e.derived /\ MapSourceTime(e.sourceTimestampNs).anomaly =>
              Anomalies' = Anomalies \cup {Len(events) + 1}
          /\ e.derived \/ ~MapSourceTime(e.sourceTimestampNs).anomaly =>
              Anomalies' = Anomalies
          /\ \A a \in Anomalies : events'[a] = events[a]
      BY <1>2, <2>1, DeliverAnomalies, Zenon
    <2>3. QED BY <2>2
  <1>8. IsReporting' <=> behind
    BY <1>2 DEF IsReporting
  <1> PICK z, A : z = Len(events) /\ A = Anomalies
    OBVIOUS
  <1>9. z \in Nat /\ A \in SUBSET (1 .. z)
    BY <1>1, AnomalyFacts
  <1>10. /\ Cardinality(A \cup {z + 1}) = Cardinality(A) + 1
         /\ \A a \in A : PlaceIn(A \cup {z + 1}, a) = PlaceIn(A, a)
    BY <1>9, NextPlace, Zenon
  <1>11. Cardinality(A) = Cardinality(Diagnostics) /\ Cardinality(A) \in Nat
    <2>1. Cardinality(A) \in Nat
      BY <1>9, PlaceFacts, Zenon
    <2>2. Cardinality(Diagnostics) \in Nat
      <3> PICK n, D : n = LineLength /\ D = Diagnostics
        OBVIOUS
      <3>1. n \in Nat /\ D \in SUBSET (1 .. n)
        BY <1>1, LineFacts DEF LineIs, Diagnostics
      <3>2. QED BY <3>1, PlaceFacts, Zenon
    <2>3. QED BY <1>3, <2>1, <2>2 DEF Answers
  <1>12. \A d \in Diagnostics' : IsAnswer(d)'
    <2>1. /\ Anomalies \subseteq Anomalies'
          /\ \A a \in Anomalies : PlaceIn(Anomalies', a) = PlaceIn(Anomalies, a)
      BY <1>7, <1>10
    <2>2. /\ Diagnostics \subseteq Diagnostics'
          /\ \A d \in Diagnostics : PlaceIn(Diagnostics', d) = PlaceIn(Diagnostics, d)
      BY <1>5
    <2>3. \A d \in Diagnostics : IsAnswer(d)
      BY DEF Answers
    <2>4. \A d \in Diagnostics : IsAnswer(d)'
      BY <1>6, <1>7, <2>1, <2>2, <2>3, AnswersStay, Zenon
    <2>5. QED BY <1>5, <2>4
  <1>13. CASE ~behind
    BY <1>5, <1>7, <1>8, <1>11, <1>12, <1>13 DEF Answers
  <1>14. CASE behind
    <2>1. /\ Len(events') = z + 1 /\ events'[z + 1] = e
      BY <1>1, <1>2, AppendFacts DEF TypeOK
    <2>2. /\ Len(events') \in Anomalies'
          /\ emitting'[1].time = events'[Len(events')].timestampNs
          /\ emitting'[1].sourceTimestampNs = events'[Len(events')].sourceTimestampNs
      BY <1>2, <1>7, <1>14, <2>1
    <2>3. Cardinality(Anomalies') = Cardinality(Diagnostics') + 1
      BY <1>5, <1>7, <1>10, <1>11, <1>14
    <2>4. QED BY <1>8, <1>12, <1>14, <2>2, <2>3 DEF Answers
  <1>15. QED BY <1>13, <1>14

\* The session counts as the controller does.
LEMMA SameCardinality == \A S : Promised!Cardinality(S) = Cardinality(S)
  BY Zenon DEF Promised!Cardinality, Cardinality

\* The diagnostic at the head of the queue is the one the session promises next.
LEMMA DeliveredDiagnostic ==
  ASSUME TypeOK, Answers, NEW m, m = Len(events) + 1, m \in Diagnostics,
         NEW e \in Event, e.derived, e.type = Line[m].type,
         e.sourceTimestampNs = Line[m].sourceTimestampNs,
         e.timestampNs = DiagnosticTime(m)
  PROVE  Promised!IsDiagnostic(events, e)
  <1> DEFINE answered == {i \in DOMAIN events : events[i].derived}
             open == {i \in Anomalies :
                        Cardinality({j \in Anomalies : j <= i}) > Cardinality(answered)}
  <1>1. LineIs /\ Len(events) \in Nat /\ DOMAIN events = 1 .. Len(events)
    BY LineFacts, AnomalyFacts
  <1> PICK A, D, z : A = Anomalies /\ D = Diagnostics /\ z = Len(events)
    OBVIOUS
  <1>2. z \in Nat /\ A \in SUBSET (1 .. z) /\ m = z + 1 /\ D \subseteq Nat
    BY <1>1, AnomalyFacts DEF Diagnostics
  <1>3. PlaceIn(D, m) = Cardinality(answered) + 1
    <2>1. answered = {i \in D : i <= z}
      <3>1. ASSUME NEW i \in 1 .. z
            PROVE  events[i].derived <=> i \in D
        <4>1. Line[i] = [type |-> events[i].type, act |-> events[i].act,
                         sourceTimestampNs |-> events[i].sourceTimestampNs,
                         derived |-> events[i].derived]
          BY <1>1 DEF LineIs
        <4>2. i \in 1 .. LineLength
          BY <1>1, <1>2 DEF LineIs, LineLength
        <4>3. QED BY <4>1, <4>2 DEF Diagnostics
      <3>2. \A i \in D : i <= z => i \in 1 .. z
        BY <1>1, <1>2 DEF Diagnostics, LineIs
      <3>3. \A i \in 1 .. z : i <= z
        BY <1>2
      <3>4. answered = {i \in 1 .. z : events[i].derived}
        BY <1>1
      <3> HIDE DEF answered
      <3>5. QED BY <3>1, <3>2, <3>3, <3>4
    <2>2. {j \in D : j <= m} = answered \cup {z + 1}
      <3>1. \A j \in D : j <= m <=> j <= z \/ j = z + 1
        BY <1>2
      <3>2. m \in D
        OBVIOUS
      <3> HIDE DEF answered
      <3>3. QED BY <1>2, <2>1, <3>1, <3>2
    <2>3. answered \in SUBSET (1 .. z)
      BY <1>1
    <2> HIDE DEF answered
    <2>4. PICK W : W = answered
      OBVIOUS
    <2>5. Cardinality(W \cup {z + 1}) = Cardinality(W) + 1
      BY <1>2, <2>3, <2>4, NextPlace, Zenon
    <2>6. QED BY <2>2, <2>4, <2>5 DEF PlaceIn
  <1>4. PICK a \in A :
          /\ PlaceIn(A, a) = PlaceIn(D, m)
          /\ DiagnosticTime(m) = events[a].timestampNs
          /\ Line[m].sourceTimestampNs = events[a].sourceTimestampNs
    BY DEF Answers, IsAnswer
  <1>5. e.type = Error
    BY DEF Answers, IsAnswer
  <1>6. /\ \A i \in A : PlaceIn(A, i) \in Nat
        /\ \A i, j \in A : i < j => PlaceIn(A, i) < PlaceIn(A, j)
    <2>1. /\ \A i \in A : PlaceIn(A, i) \in 1 .. Cardinality(A)
          /\ \A i, j \in A : i < j => PlaceIn(A, i) < PlaceIn(A, j)
      BY <1>2, PlaceFacts, Zenon
    <2>2. QED BY <2>1
  <1>7. open = {i \in A : PlaceIn(A, i) > Cardinality(answered)}
    BY DEF PlaceIn
  <1>8. Cardinality(answered) \in Nat
    <2> HIDE DEF answered
    <2>1. PICK W : W = answered
      OBVIOUS
    <2>2. W \in SUBSET (1 .. z)
      BY <1>1, <2>1 DEF answered
    <2>3. Cardinality(W) \in Nat
      BY <1>2, <2>2, PlaceFacts, Zenon
    <2>4. QED BY <2>1, <2>3
  <1> HIDE DEF answered, open
  <1>9. a \in open
    BY <1>3, <1>4, <1>7, <1>8
  <1>10. ASSUME NEW j \in open PROVE a <= j
    <2>1. j \in A /\ PlaceIn(A, j) > Cardinality(answered)
      BY <1>7
    <2>2. a \in Nat /\ j \in Nat
      BY <1>2, <2>1
    <2>3. ASSUME j < a PROVE FALSE
      <3>1. PlaceIn(A, j) < PlaceIn(A, a)
        BY <1>6, <2>1, <2>3
      <3>2. PlaceIn(A, j) \in Nat
        BY <1>6, <2>1
      <3>3. QED BY <1>3, <1>4, <1>8, <2>1, <3>1, <3>2
    <2>4. QED BY <2>2, <2>3
  <1>11. \E i \in open : /\ \A j \in open : i <= j
                         /\ e.timestampNs = events[i].timestampNs
                         /\ e.sourceTimestampNs = events[i].sourceTimestampNs
    BY <1>4, <1>9, <1>10
  <1>12. open = {i \in Promised!Anomalous(events) :
                   Promised!Cardinality({j \in Promised!Anomalous(events) : j <= i})
                     > Promised!Cardinality({j \in DOMAIN events : events[j].derived})}
    BY SameCardinality DEF open, answered, Anomalies
  <1>13. QED BY <1>5, <1>11, <1>12 DEF Promised!IsDiagnostic, Promised!Error, Error

\* What the refinement needs to know of the controller.
RefinementInv == StreamInv /\ OrderInv /\ FilterInv /\ Answers

LEMMA InitRefinement == Init => RefinementInv /\ Promised!Init
  <1> SUFFICES ASSUME Init PROVE RefinementInv /\ Promised!Init
    OBVIOUS
  <1>1. StreamInv /\ OrderInv /\ FilterInv
    BY InitStream, InitOrder, InitFilter
  <1>2. events = <<>> /\ mFifo = <<>> /\ emitting = <<>> /\ Len(events) = 0 /\ Len(mFifo) = 0
    BY DEF Init
  <1>3. Anomalies = {}
    BY <1>1, <1>2, AnomalyFacts DEF OrderInv
  <1>4. Diagnostics = {}
    BY <1>2 DEF Diagnostics, LineLength
  <1>5. Answers
    BY <1>2, <1>3, <1>4, FS_EmptySet DEF Answers, IsReporting
  <1>6. QED BY <1>1, <1>2, <1>5 DEF RefinementInv, Promised!Init

LEMMA NextRefinement == RefinementInv /\ [Next]_vars => RefinementInv'
  <1> SUFFICES ASSUME RefinementInv, [Next]_vars PROVE RefinementInv'
    OBVIOUS
  <1>1. StreamInv /\ StreamInv' /\ OrderInv' /\ FilterInv'
    BY NextStream, NextOrder, NextFilter DEF RefinementInv
  <1>2. TypeOK /\ TypeOK' /\ Answers
    BY <1>1 DEF RefinementInv, StreamInv, AnchorInv
  <1>3. CASE UNCHANGED <<events, mFifo, emitting>>
    <2>1. Line' = Line /\ LineLength' = LineLength
      BY <1>3, Zenon DEF Line, LineLength
    <2>2. Diagnostics' = Diagnostics /\ IsReporting' = IsReporting
      BY <1>3, <2>1 DEF Diagnostics, IsReporting
    <2>3. Anomalies' = Anomalies
      BY <1>3, Zenon DEF Anomalies, Promised!Anomalous, Promised!Observed
    <2>4. \A d : DiagnosticTime(d)' = DiagnosticTime(d)
      BY <1>3, Zenon DEF DiagnosticTime
    <2>5. \A d \in Diagnostics : IsAnswer(d)'
      BY <1>2, <1>3, <2>1, <2>2, <2>3, <2>4, AnswersStay DEF Answers
    <2>6. Answers'
      BY <1>2, <1>3, <2>2, <2>3, <2>5 DEF Answers
    <2>7. QED BY <1>1, <2>6 DEF RefinementInv
  <1>4. CASE Observe \/ Deliver \/ DeliveryReturns
    BY <1>1, <1>2, <1>4, ObserveAnswers, DeliverAnswers, ReturnAnswers DEF RefinementInv
  <1>5. DrainEnds \/ UNCHANGED vars => UNCHANGED <<events, mFifo, emitting>>
    BY DEF DrainEnds, vars
  <1>6. QED BY <1>3, <1>4, <1>5 DEF Next, Drain

\* A delivery is a step of the session; no other step touches the stream.
LEMMA StepRefines == RefinementInv /\ [Next]_vars => [Promised!Emit]_events
  <1> SUFFICES ASSUME RefinementInv, [Next]_vars, ~UNCHANGED events PROVE Promised!Emit
    OBVIOUS
  <1>1. Deliver
    <2>1. Observe => UNCHANGED events
      BY ObserveEnqueues DEF Enqueue
    <2>2. DeliveryReturns \/ DrainEnds \/ UNCHANGED vars => UNCHANGED events
      BY DEF DeliveryReturns, DrainEnds, vars
    <2>3. QED BY <2>1, <2>2 DEF Next, Drain
  <1>2. TypeOK /\ TypeOK' /\ SequenceCounts /\ LineIs
    BY NextType, LineFacts DEF RefinementInv, StreamInv, AnchorInv
  <1>3. PICK e \in Event :
          /\ events' = Append(events, e)
          /\ e.sequence = Len(events) + 1
          /\ e.type = Head(mFifo).type
          /\ e.act = Head(mFifo).act
          /\ e.sourceTimestampNs = Head(mFifo).sourceTimestampNs
          /\ e.derived = Head(mFifo).sessionTimeMapped
          /\ ~e.derived => e.timestampNs = MapSourceTime(e.sourceTimestampNs).time
          /\ e.derived => e.timestampNs = Head(mFifo).sessionTimestampNs
    BY <1>1, <1>2, DeliverEmits
  <1> PICK m : m = Len(events) + 1
    OBVIOUS
  <1>4. Line[m] = [type |-> e.type, act |-> e.act,
                   sourceTimestampNs |-> e.sourceTimestampNs, derived |-> e.derived]
    <2>1. mFifo \in Seq(PendingObservation) /\ mFifo # <<>>
      BY <1>1, <1>2 DEF TypeOK, Deliver
    <2>2. Head(mFifo) = mFifo[1] /\ 1 \in 1 .. Len(mFifo)
      BY <2>1
    <2>3. Line[m] = [type |-> mFifo[1].type, act |-> mFifo[1].act,
                     sourceTimestampNs |-> mFifo[1].sourceTimestampNs,
                     derived |-> mFifo[1].sessionTimeMapped]
      BY <1>2, <2>2 DEF LineIs
    <2>4. QED BY <1>3, <2>2, <2>3
  <1>5. /\ m \in 1 .. LineLength
        /\ DiagnosticTime(m) = Head(mFifo).sessionTimestampNs
    <2>1. mFifo \in Seq(PendingObservation) /\ mFifo # <<>>
      BY <1>1, <1>2 DEF TypeOK, Deliver
    <2>2. Head(mFifo) = mFifo[1] /\ Len(mFifo) >= 1 /\ Len(events) \in Nat /\ Len(mFifo) \in Nat
      BY <1>2, <2>1 DEF LineIs
    <2>3. ~(m <= Len(events)) /\ m - Len(events) = 1 /\ m \in 1 .. LineLength
      BY <2>2 DEF LineLength
    <2>4. QED BY <2>2, <2>3 DEF DiagnosticTime
  <1>6. CASE ~e.derived
    <2>1. m \in Observations /\ e.type = Said(m).type /\ e.act = Said(m).act
      BY <1>4, <1>5, <1>6 DEF Observations, Said
    <2>2. \/ Promised!MayOpen(events, e)
          \/ Promised!MayFailToOpen(events, e)
          \/ Promised!BelongsToLive(events, e)
      BY <2>1, DeliveredBelongs DEF RefinementInv
    <2>3. Promised!TimeIsMapped(events, e)
      BY <1>3, <1>6, DeliveredTime DEF RefinementInv
    <2>4. Promised!IsObservation(events, e)
      BY <1>6, <2>2, <2>3 DEF Promised!IsObservation
    <2>5. QED BY <1>2, <1>3, <2>4, AppendIsEmit DEF TypeOK
  <1>7. CASE e.derived
    <2>1. /\ m \in Diagnostics
          /\ e.type = Line[m].type
          /\ e.sourceTimestampNs = Line[m].sourceTimestampNs
          /\ e.timestampNs = DiagnosticTime(m)
      BY <1>3, <1>4, <1>5, <1>7 DEF Diagnostics
    <2>2. Promised!IsDiagnostic(events, e)
      BY <1>2, <1>7, <2>1, DeliveredDiagnostic DEF RefinementInv
    <2>3. QED BY <1>2, <1>3, <2>2, AppendIsEmit DEF TypeOK
  <1>8. QED BY <1>6, <1>7

\* Every behaviour of the controller shows its consumers a session stream.
THEOREM ImplementsTheStream == Spec => ImplementsSessionStream
  <1>1. QED BY InitRefinement, NextRefinement, StepRefines, PTL
            DEF Spec, ImplementsSessionStream, Promised!Spec
=============================================================================
