--------------------------- MODULE KomportSerial ---------------------------
(***************************************************************************)
(* komport/komportserial.cpp: the serial transport's activations and its   *)
(* configuration transactions.                                             *)
(*                                                                         *)
(* One thread runs everything.  The port is external: it may fail to open, *)
(* refuse a setting or round it, and raise errors, at once or later.  A    *)
(* transaction applies the hardware settings one by one, and a receiver of *)
(* settingsFailed() may call the transport again from inside it: a stack   *)
(* holds one frame for each transaction that is under way.  Consumers of   *)
(* the observations (the session) do not call back.                        *)
(*                                                                         *)
(* Data: a configuration has an endpoint, two hardware settings and one    *)
(* setting that takes effect at once (rxQueue, which stands for flushRate  *)
(* and startBits too); a baud rate of 0 is an unusable one.  Left out: the *)
(* legacy mirror fields, which storeRequestedValues() keeps equal to       *)
(* mRequested, messages, the returned results, and the receive buffer.     *)
(***************************************************************************)
EXTENDS Integers, Sequences, SequencesExt

CONSTANTS
  Endpoints,     \* device paths
  Bauds,         \* usable baud rates
  Framings,
  RxQueues,      \* requested queue sizes, sensible or not
  Defaults,      \* the configuration the constructor stores
  MaxAttempts,   \* bound: opens tried
  MaxCalls,      \* bound: calls the program makes
  MaxDepth       \* bound: transactions nested in one another

ASSUME EndpointsAssumption == Endpoints # {}
ASSUME BaudsAssumption     == Bauds # {} /\ Bauds \subseteq Nat \ {0}
ASSUME FramingsAssumption  == Framings # {}
ASSUME RxQueuesAssumption  == RxQueues # {} /\ RxQueues \subseteq Int
ASSUME DefaultsAssumption  ==
  Defaults \in [endpoint : Endpoints, baud : Bauds, framing : Framings, rxQueue : Nat \ {0}]
ASSUME BoundsAssumption    == {MaxAttempts, MaxCalls, MaxDepth} \subseteq Nat

VARIABLES
  mRequested,               \* the stored configuration
  mEffective,               \* the one in force, as read back
  mNextActivationId,        \* attempts so far
  mCurrentActivationId,     \* the live activation, 0 for none
  mFailedAttemptReported,   \* attempt whose error may still arrive late
  mConfigurationTransactionInProgress,
  mTransactionPortErrorRaised,
  port,         \* the device: open or not, and its settings
  lateErrors,   \* errors of failed opens that the port has yet to report
  stack,        \* transactions under way, the innermost last
  emitted,      \* the observations of the latest step
  reported,     \* history: settings last announced for the live activation
  asked,        \* history: the configuration last asked for
  reentered,    \* history: some call came from inside a transaction
  calls         \* how many calls the program has made

activationVars  == <<mNextActivationId, mCurrentActivationId, mFailedAttemptReported>>
transactionVars == <<mConfigurationTransactionInProgress, mTransactionPortErrorRaised>>
historyVars     == <<asked, reentered, calls>>
vars == <<mRequested, mEffective, activationVars, transactionVars, port, lateErrors,
          stack, emitted, reported, historyVars>>

Unusable == 0

Configuration ==
  [endpoint : Endpoints, baud : Bauds \cup {Unusable}, framing : Framings, rxQueue : Int]

\* What a configuration is once it has been normalised.
SoundConfiguration ==
  [endpoint : Endpoints, baud : Bauds, framing : Framings, rxQueue : Nat \ {0}]

Settings == [endpoint : Endpoints, baud : Bauds, framing : Framings]

\* The observations themselves; the abstract transport defines their shape.
Observation(signal, id, kind) == [signal |-> signal, act |-> id, kind |-> kind]

Init ==
  /\ mRequested = Defaults
  /\ mEffective = Defaults
  /\ mNextActivationId = 0
  /\ mCurrentActivationId = 0
  /\ mFailedAttemptReported = 0
  /\ mConfigurationTransactionInProgress = FALSE
  /\ mTransactionPortErrorRaised = FALSE
  /\ port = [open |-> FALSE, baud |-> Defaults.baud, framing |-> Defaults.framing]
  /\ lateErrors = 0
  /\ stack = <<>>
  /\ emitted = <<>>
  /\ reported = {}
  /\ asked = Defaults
  /\ reentered = FALSE
  /\ calls = 0

-----------------------------------------------------------------------------
(* When the program can call the transport.                                *)

Top == Last(stack)

\* settingsFailed() is being emitted: for a port error while the settings are
\* applied, or at the end of a transaction that did not go well.
IsNotifying ==
  /\ stack # <<>>
  /\ \/ Top.pc = "erring"
     \/ Top.pc = "observe" /\ Top.status # "Full"

CanCall ==
  /\ stack = <<>> \/ (IsNotifying /\ Len(stack) < MaxDepth)
  /\ calls < MaxCalls

Called(configuration) ==
  /\ calls' = calls + 1
  /\ asked' = configuration
  /\ reentered' = (reentered \/ stack # <<>>)

-----------------------------------------------------------------------------
(* applyConfigurationInternal(), as far as the hardware settings.          *)

HardwareEquals(c, d) ==
  c.endpoint = d.endpoint /\ c.baud = d.baud /\ c.framing = d.framing

BaudIsUsable(c) == c.baud # Unusable

\* Mutant: the size is taken as it comes.
AsGiven(size) == size

Clamped(size) == IF size < 1 THEN 1 ELSE size

\* Buffering is clamped and an unusable baud rate replaced by the one in force.
Normalised(c) ==
  [c EXCEPT !.rxQueue = Clamped(@),
            !.baud    = IF BaudIsUsable(c) THEN @ ELSE mEffective.baud]

\* Mutant: a new activation trusts the last known settings.
IfRequested(c, forced) == ~HardwareEquals(Normalised(c), mEffective)

NeedsHardware(c, forced) == forced \/ ~HardwareEquals(Normalised(c), mEffective)

Frame(c, forced) ==
  [requested |-> Normalised(c), previous |-> mEffective, forced |-> forced,
   rejected  |-> ~BaudIsUsable(c),
   applies   |-> NeedsHardware(c, forced),
   fields    |-> IF NeedsHardware(c, forced) THEN <<"baud", "framing">> ELSE <<>>,
   effective |-> [mEffective EXCEPT !.endpoint = c.endpoint],
   refused   |-> FALSE,
   window    |-> mConfigurationTransactionInProgress,
   pc |-> "apply", status |-> "Full", changed |-> FALSE]

\* The request is stored before anything is applied.
Begin(c, forced) ==
  /\ mRequested' = Normalised(c)
  /\ stack' = Append(stack, Frame(c, forced))
  /\ mConfigurationTransactionInProgress' =
       (mConfigurationTransactionInProgress \/ NeedsHardware(c, forced))
  /\ UNCHANGED <<mEffective, mTransactionPortErrorRaised>>

-----------------------------------------------------------------------------
(* open() and close().                                                     *)

\* close(): the one `closed` of the live activation.
Ending ==
  IF mCurrentActivationId = 0 THEN <<>>
  ELSE <<Observation("closed", mCurrentActivationId, "")>>

\* Mutant: an attempt that fails gives its id back.
OnlyIfOpened(succeeds) == IF succeeds THEN mNextActivationId + 1 ELSE mNextActivationId

AttemptId(succeeds) == mNextActivationId + 1

\* The device comes up with settings of its own; applying c is the one
\* open-and-configure transaction of the activation.
OpenSucceeds(c) ==
  /\ mNextActivationId' = AttemptId(TRUE)
  /\ mCurrentActivationId' = mNextActivationId'
  /\ mFailedAttemptReported' = 0
  /\ \E baud \in Bauds, framing \in Framings :
       port' = [open |-> TRUE, baud |-> baud, framing |-> framing]
  /\ emitted' = Ending \o <<Observation("opened", mNextActivationId', "")>>
  /\ reported' = {}
  /\ Begin(c, TRUE)
  /\ UNCHANGED lateErrors

\* The port raises the error of the failed attempt during the call or later.
OpenFails(c) ==
  /\ mNextActivationId' = AttemptId(FALSE)
  /\ mCurrentActivationId' = 0
  /\ port' = [port EXCEPT !.open = FALSE]
  /\ emitted' = Ending \o <<Observation("transportError", mNextActivationId', "open")>>
  /\ reported' = {}
  /\ mRequested' = c
  /\ \/ mFailedAttemptReported' = 0 /\ UNCHANGED lateErrors
     \/ mFailedAttemptReported' = mNextActivationId' /\ lateErrors' = lateErrors + 1
  /\ UNCHANGED <<mEffective, transactionVars, stack>>

OpenWith(c) ==
  /\ mNextActivationId < MaxAttempts
  /\ OpenSucceeds(c) \/ OpenFails(c)

Open ==
  /\ CanCall
  /\ Called(asked)
  /\ OpenWith(mRequested)

Close ==
  /\ CanCall
  /\ Called(asked)
  /\ port' = [port EXCEPT !.open = FALSE]
  /\ mCurrentActivationId' = 0
  /\ emitted' = Ending
  /\ reported' = {}
  /\ UNCHANGED <<mRequested, mEffective, mNextActivationId, mFailedAttemptReported,
                 transactionVars, lateErrors, stack>>

-----------------------------------------------------------------------------
(* Configuration calls.                                                    *)

\* A closed port stores the request; what is not hardware is in force at once.
StoreOnly(c) ==
  /\ ~port.open
  /\ mRequested' = Normalised(c)
  /\ mEffective' = [mEffective EXCEPT !.rxQueue = Normalised(c).rxQueue]
  /\ emitted' = <<>>
  /\ UNCHANGED <<activationVars, transactionVars, port, lateErrors, stack, reported>>

\* Another endpoint is another activation.
ChangeEndpoint(c) ==
  /\ port.open
  /\ c.endpoint # mEffective.endpoint
  /\ OpenWith(c)

IsNoOp(c) ==
  /\ BaudIsUsable(c)
  /\ HardwareEquals(Normalised(c), mEffective)
  /\ Normalised(c).rxQueue = mEffective.rxQueue

NoOp(c) ==
  /\ port.open
  /\ c.endpoint = mEffective.endpoint
  /\ IsNoOp(c)
  /\ emitted' = <<>>
  /\ UNCHANGED <<mRequested, mEffective, activationVars, transactionVars, port,
                 lateErrors, stack, reported>>

BeginConfiguration(c) ==
  /\ port.open
  /\ c.endpoint = mEffective.endpoint
  /\ ~IsNoOp(c)
  /\ Begin(c, FALSE)
  /\ emitted' = <<>>
  /\ UNCHANGED <<activationVars, port, lateErrors, reported>>

\* applyConfiguration(), and the legacy setters, which change one field of the
\* stored configuration and call it.
ApplyConfiguration(c) ==
  /\ CanCall
  /\ Called(c)
  /\ StoreOnly(c) \/ ChangeEndpoint(c) \/ NoOp(c) \/ BeginConfiguration(c)

\* setBaudRate(qint32) alone has stored its value before the call.
SetBaudRate(baud) ==
  LET c == [mRequested EXCEPT !.baud = baud]
  IN  /\ CanCall
      /\ Called(c)
      /\ \/ StoreOnly(c) \/ ChangeEndpoint(c) \/ BeginConfiguration(c)
         \/ /\ port.open
            /\ c.endpoint = mEffective.endpoint
            /\ IsNoOp(c)
            /\ mRequested' = c
            /\ emitted' = <<>>
            /\ UNCHANGED <<mEffective, activationVars, transactionVars, port, lateErrors,
                           stack, reported>>

\* setDeviceName(): a new name reopens a live port, otherwise it is stored.
SetDeviceName(endpoint) ==
  LET c == [mRequested EXCEPT !.endpoint = endpoint]
  IN  /\ CanCall
      /\ Called([asked EXCEPT !.endpoint = endpoint])
      /\ IF port.open /\ endpoint # mRequested.endpoint
         THEN OpenWith(c)
         ELSE /\ mRequested' = c
              /\ emitted' = <<>>
              /\ UNCHANGED <<mEffective, activationVars, transactionVars, port,
                             lateErrors, stack, reported>>

-----------------------------------------------------------------------------
(* A transaction, step by step.                                            *)

Replace(frame) == stack' = Append(Front(stack), frame)

\* One hardware setting: taken, rounded, or refused; the port may raise an
\* error while it does that.  A closed port takes everything quietly.
ApplyField ==
  /\ stack # <<>>
  /\ Top.pc = "apply"
  /\ Top.fields # <<>>
  /\ LET field == Head(Top.fields)
     IN  \E taken, raises \in BOOLEAN,
            value \in IF field = "baud" THEN Bauds ELSE {Top.requested.framing} :
           /\ port.open \/ (taken /\ ~raises /\ value = Top.requested[field])
           /\ port' = IF taken THEN [port EXCEPT ![field] = value] ELSE port
           /\ Replace([Top EXCEPT
                !.refused   = @ \/ ~taken,
                !.pc        = IF raises THEN "erring" ELSE "apply",
                !.fields    = IF raises THEN @ ELSE Tail(@),
                !.effective = IF raises THEN @ ELSE [@ EXCEPT ![field] = port'[field]]])
  /\ emitted' = <<>>
  /\ UNCHANGED <<mRequested, mEffective, activationVars, transactionVars, lateErrors,
                 reported, historyVars>>

\* The end of slotPortError(), when the receivers of settingsFailed() have
\* returned: an error inside a transaction is noted for its result.  Then the
\* setting is read back.
ErrorReturns ==
  /\ stack # <<>>
  /\ Top.pc = "erring"
  /\ LET field == Head(Top.fields)
     IN  Replace([Top EXCEPT !.pc = "apply", !.fields = Tail(@),
                             !.effective = [@ EXCEPT ![field] = port[field]]])
  /\ IF mConfigurationTransactionInProgress
     THEN mTransactionPortErrorRaised' = TRUE /\ emitted' = <<>>
     ELSE /\ emitted' = IF mCurrentActivationId = 0 THEN <<>>
                        ELSE <<Observation("transportError", mCurrentActivationId, "runtime")>>
          /\ UNCHANGED mTransactionPortErrorRaised
  /\ UNCHANGED <<mRequested, mEffective, activationVars, port, lateErrors, reported,
                 mConfigurationTransactionInProgress, historyVars>>

\* Mutant: the end of any transaction closes the window for all of them.
Cleared(frame) == FALSE

WindowAfter(frame) == frame.window

NewEffective ==
  [(IF Top.applies THEN Top.effective ELSE mEffective)
     EXCEPT !.rxQueue = Top.requested.rxQueue, !.endpoint = mRequested.endpoint]

\* Mutant: only what was asked for can have changed.
AsRequested(frame) == ~HardwareEquals(frame.requested, frame.previous)

HardwareChanged(frame) == frame.forced \/ ~HardwareEquals(NewEffective, frame.previous)

Status(changed) ==
  LET raised == Top.applies /\ mTransactionPortErrorRaised
      took   == ~HardwareEquals(Top.effective, Top.previous)
      applied == IF ~Top.refused THEN "Full" ELSE IF took THEN "Partial" ELSE "Failed"
  IN  IF raised THEN "Failed"
      ELSE IF Top.rejected /\ applied = "Full"
      THEN IF changed THEN "Partial" ELSE "Failed"
      ELSE applied

\* The result is complete; whatever is not a full success is notified.
Conclude ==
  /\ stack # <<>>
  /\ Top.pc = "apply"
  /\ Top.fields = <<>>
  /\ LET changed == \/ HardwareChanged(Top)
                    \/ Top.requested.rxQueue # Top.previous.rxQueue
     IN  Replace([Top EXCEPT !.pc = "observe", !.changed = changed,
                             !.status = Status(changed)])
  /\ mEffective' = NewEffective
  /\ mConfigurationTransactionInProgress' =
       IF Top.applies THEN WindowAfter(Top) ELSE mConfigurationTransactionInProgress
  /\ mTransactionPortErrorRaised' = (~Top.applies /\ mTransactionPortErrorRaised)
  /\ emitted' = <<>>
  /\ UNCHANGED <<mRequested, activationVars, port, lateErrors, reported, historyVars>>

InForce == [endpoint |-> mRequested.endpoint, baud |-> port.baud, framing |-> port.framing]

\* emitConfigurationObservations(), and the return of the call.
Observe ==
  /\ stack # <<>>
  /\ Top.pc = "observe"
  /\ stack' = Front(stack)
  /\ IF mCurrentActivationId = 0
     THEN emitted' = <<>> /\ UNCHANGED reported
     ELSE /\ emitted' =
               (IF Top.changed
                THEN <<Observation("configurationChanged", mCurrentActivationId, "")>>
                ELSE <<>>)
               \o (IF Top.status # "Full"
                   THEN <<Observation("transportError", mCurrentActivationId, "apply")>>
                   ELSE <<>>)
          /\ reported' = IF Top.changed THEN {InForce} ELSE reported
  /\ UNCHANGED <<mRequested, mEffective, activationVars, transactionVars, port,
                 lateErrors, historyVars>>

-----------------------------------------------------------------------------
(* Port errors and writes.                                                 *)

\* slotPortError() from the event loop: a failed open that reports late, or
\* an error of the open device.
PortError ==
  /\ stack = <<>>
  /\ port.open \/ lateErrors > 0
  /\ lateErrors' \in {n \in {lateErrors - 1, lateErrors} :
                        n >= 0 /\ (n = lateErrors => port.open)}
  /\ IF mFailedAttemptReported # 0 /\ ~port.open
     THEN mFailedAttemptReported' = 0 /\ emitted' = <<>>
     ELSE /\ emitted' = IF mCurrentActivationId = 0 THEN <<>>
                        ELSE <<Observation("transportError", mCurrentActivationId, "runtime")>>
          /\ UNCHANGED mFailedAttemptReported
  /\ UNCHANGED <<mRequested, mEffective, mNextActivationId, mCurrentActivationId,
                 transactionVars, port, stack, reported, historyVars>>

\* writeRaw(): what was accepted, then what was not; `raises` is a port error
\* raised by the write itself.
WriteRaw ==
  /\ CanCall
  /\ port.open
  /\ Called(asked)
  /\ \E accepted \in {"none", "part", "all"}, raises \in BOOLEAN :
       LET inside == mConfigurationTransactionInProgress
       IN  /\ mTransactionPortErrorRaised' =
                (mTransactionPortErrorRaised \/ (raises /\ inside))
           /\ emitted' =
                (IF raises /\ ~inside
                 THEN <<Observation("transportError", mCurrentActivationId, "runtime")>>
                 ELSE <<>>)
                \o (IF accepted # "none"
                    THEN <<Observation("bytesWritten", mCurrentActivationId, "")>>
                    ELSE <<>>)
                \o (IF accepted # "all"
                    THEN <<Observation("transportError", mCurrentActivationId, "write")>>
                    ELSE <<>>)
  /\ UNCHANGED <<mRequested, mEffective, activationVars, port, lateErrors, stack, reported,
                 mConfigurationTransactionInProgress>>

-----------------------------------------------------------------------------
Setters ==
  \/ \E baud \in Bauds \cup {Unusable} : SetBaudRate(baud)
  \/ \E framing \in Framings : ApplyConfiguration([mRequested EXCEPT !.framing = framing])
  \/ \E size \in RxQueues : ApplyConfiguration([mRequested EXCEPT !.rxQueue = size])
  \/ \E endpoint \in Endpoints : SetDeviceName(endpoint)

Configure ==
  \E endpoint \in Endpoints, baud \in Bauds \cup {Unusable},
     framing \in Framings, size \in RxQueues :
    ApplyConfiguration([endpoint |-> endpoint, baud |-> baud, framing |-> framing,
                        rxQueue |-> size])

Next ==
  \/ Open \/ Close \/ Setters \/ Configure
  \/ ApplyField \/ ErrorReturns \/ Conclude \/ Observe
  \/ PortError \/ WriteRaw

Spec == Init /\ [][Next]_vars
-----------------------------------------------------------------------------
(* Properties.                                                             *)

TransactionFrame ==
  [requested : SoundConfiguration, previous : SoundConfiguration, forced : BOOLEAN,
   rejected : BOOLEAN, applies : BOOLEAN, fields : Seq({"baud", "framing"}),
   effective : SoundConfiguration, refused : BOOLEAN, window : BOOLEAN,
   pc : {"apply", "erring", "observe"}, status : {"Full", "Partial", "Failed"},
   changed : BOOLEAN]

TypeOK ==
  /\ mRequested \in Configuration
  /\ mEffective \in SoundConfiguration
  /\ mNextActivationId \in Nat
  /\ mCurrentActivationId \in 0 .. mNextActivationId
  /\ mFailedAttemptReported \in 0 .. mNextActivationId
  /\ mConfigurationTransactionInProgress \in BOOLEAN
  /\ mTransactionPortErrorRaised \in BOOLEAN
  /\ port \in [open : BOOLEAN, baud : Bauds, framing : Framings]
  /\ lateErrors \in Nat
  /\ stack \in Seq(TransactionFrame)
  /\ reported \in SUBSET Settings
  /\ asked \in Configuration
  /\ reentered \in BOOLEAN
  /\ calls \in Nat

\* The conformance rules of itransport.h:40-57, whatever the port does and
\* however the calls nest.
Promised == INSTANCE Transport WITH
  live <- mCurrentActivationId, attempts <- mNextActivationId

ImplementsTransport == Promised!Spec

Idle == stack = <<>> /\ port.open

\* A session record tells the truth about the line: what was last announced for
\* the live activation, and what effectiveConfiguration() returns, are the
\* settings the device has, after any mixture of refused, rounded, rejected and
\* failed requests.  (Calls from inside a transaction are another matter.)
ReportedIsInForce ==
  (Idle /\ ~reentered) =>
    /\ reported = {InForce}
    /\ HardwareEquals(mEffective, InForce)

\* komportserial.cpp:729-739: the window is restored, not cleared, so no port error
\* of a transaction that is being applied becomes an observation of its own.
TransactionErrorsStayInside ==
  [][(stack # <<>> /\ Top.pc = "erring" /\ stack' # stack /\ Len(stack') = Len(stack))
       => emitted' = <<>>]_vars

\* komportserial.h (effectiveConfiguration): after a transaction this holds the
\* values the port actually accepted.
EffectiveIsInForce == Idle => HardwareEquals(mEffective, InForce)

\* komportserial.h (applyConfiguration): the complete requested configuration is
\* stored; the next open applies what was asked for last.
RequestIsStored ==
  (stack = <<>> /\ ~reentered /\ BaudIsUsable(asked)) =>
    mRequested.baud = asked.baud /\ mRequested.framing = asked.framing
=============================================================================
