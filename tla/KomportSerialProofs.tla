------------------------ MODULE KomportSerialProofs ------------------------
(***************************************************************************)
(* Theorems about KomportSerial for every device, every set of settings    *)
(* and every bound on attempts, calls and the depth of nesting.            *)
(***************************************************************************)
EXTENDS KomportSerial, SequenceTheorems, TLAPS

USE EndpointsAssumption, BaudsAssumption, FramingsAssumption, RxQueuesAssumption,
    DefaultsAssumption, BoundsAssumption

\* A transaction that waits in slotPortError() has a setting under way.
ErringHasField ==
  \A i \in DOMAIN stack : stack[i].pc = "erring" => stack[i].fields # <<>>

\* The device is open only while an activation is live.
OpenIsLive == port.open => mCurrentActivationId # 0

IInv == TypeOK /\ ErringHasField /\ OpenIsLive

-----------------------------------------------------------------------------
(* The stack of transactions.                                              *)

LEMMA FrontAndLast ==
  ASSUME NEW S, NEW s \in Seq(S), s # <<>>
  PROVE  /\ Last(s) \in S
         /\ Last(s) = s[Len(s)]
         /\ Len(s) \in DOMAIN s
         /\ Front(s) \in Seq(S)
         /\ Len(s) \in Nat \ {0} /\ Len(Front(s)) = Len(s) - 1
         /\ \A i \in DOMAIN Front(s) : Front(s)[i] = s[i] /\ i \in DOMAIN s
         /\ \A i \in 1 .. Len(s) - 1 : Front(s)[i] = s[i]
  <1>1. Len(s) \in Nat \ {0}
    OBVIOUS
  <1>2. Last(s) = s[Len(s)] /\ s[Len(s)] \in S /\ Len(s) \in DOMAIN s
    BY <1>1 DEF Last
  <1> DEFINE n == Len(s) - 1
  <1>3. /\ n \in 0 .. Len(s)
        /\ Front(s) = SubSeq(s, 1, n)
    BY <1>1 DEF Front
  <1>4. /\ Front(s) \in Seq(S)
        /\ Len(Front(s)) = n
        /\ \A i \in 1 .. n : Front(s)[i] = s[i]
    <2> HIDE DEF n
    <2>1. /\ SubSeq(s, 1, n) \in Seq(S)
          /\ Len(SubSeq(s, 1, n)) = IF 1 <= n THEN n - 1 + 1 ELSE 0
          /\ \A i \in 1 .. n - 1 + 1 : SubSeq(s, 1, n)[i] = s[1 + i - 1]
      <3>1. 1 \in 1 .. Len(s) + 1 /\ n \in 0 .. Len(s)
        BY <1>1, <1>3
      <3>2. QED BY <3>1, SubSeqProperties
    <2>2. QED BY <1>1, <1>3, <2>1
  <1>5. \A i \in DOMAIN Front(s) : Front(s)[i] = s[i] /\ i \in DOMAIN s
    BY <1>1, <1>4
  <1>6. QED BY <1>1, <1>2, <1>4, <1>5

LEMMA TopOfStack ==
  ASSUME TypeOK, stack # <<>>
  PROVE  /\ Top \in TransactionFrame
         /\ Top = stack[Len(stack)]
         /\ Len(stack) \in DOMAIN stack
         /\ Front(stack) \in Seq(TransactionFrame)
         /\ Len(stack) \in Nat \ {0} /\ Len(Front(stack)) = Len(stack) - 1
         /\ \A i \in 1 .. Len(stack) - 1 : Front(stack)[i] = stack[i]
         /\ \A i \in DOMAIN Front(stack) : Front(stack)[i] = stack[i] /\ i \in DOMAIN stack
  <1>1. stack \in Seq(TransactionFrame)
    BY DEF TypeOK
  <1>2. QED BY ONLY <1>1, stack # <<>>, FrontAndLast DEF Top

LEMMA PopStack ==
  ASSUME IInv, stack # <<>>, stack' = Front(stack)
  PROVE  stack' \in Seq(TransactionFrame) /\ ErringHasField'
  <1> DEFINE front == Front(stack)
  <1>1. /\ front \in Seq(TransactionFrame)
        /\ \A i \in DOMAIN front : front[i] = stack[i] /\ i \in DOMAIN stack
    BY TopOfStack DEF IInv
  <1>2. stack' = front
    OBVIOUS
  <1>3. ErringHasField
    BY DEF IInv
  <1> HIDE DEF front
  <1>4. stack' \in Seq(TransactionFrame)
    BY <1>1, <1>2
  <1>5. \A i \in DOMAIN stack' : stack'[i].pc = "erring" => stack'[i].fields # <<>>
    BY <1>1, <1>2, <1>3 DEF ErringHasField
  <1>6. QED BY <1>4, <1>5 DEF ErringHasField

LEMMA ReplaceTop ==
  ASSUME IInv, stack # <<>>, NEW frame \in TransactionFrame, Replace(frame),
         frame.pc = "erring" => frame.fields # <<>>
  PROVE  stack' \in Seq(TransactionFrame) /\ ErringHasField'
  <1> DEFINE front == Front(stack)
  <1>1. /\ front \in Seq(TransactionFrame)
        /\ \A i \in DOMAIN front : front[i] = stack[i] /\ i \in DOMAIN stack
    BY TopOfStack DEF IInv
  <1>2. stack' = Append(front, frame)
    BY DEF Replace
  <1>3. /\ stack' \in Seq(TransactionFrame)
        /\ \A i \in DOMAIN stack' :
             stack'[i] = frame \/ (i \in DOMAIN front /\ stack'[i] = front[i])
    <2> HIDE DEF front
    <2>1. QED BY <1>1, <1>2
  <1>4. QED BY <1>1, <1>3 DEF ErringHasField, IInv

LEMMA PushFrame ==
  ASSUME IInv, NEW frame \in TransactionFrame, stack' = Append(stack, frame),
         frame.pc # "erring"
  PROVE  stack' \in Seq(TransactionFrame) /\ ErringHasField'
  <1>1. /\ stack' \in Seq(TransactionFrame)
        /\ \A i \in DOMAIN stack' :
             stack'[i] = frame \/ (i \in DOMAIN stack /\ stack'[i] = stack[i])
    BY DEF IInv, TypeOK
  <1>2. QED BY <1>1 DEF ErringHasField, IInv

-----------------------------------------------------------------------------
(* Beginning a transaction.                                                *)

LEMMA NormalisedType ==
  ASSUME TypeOK, NEW c \in Configuration
  PROVE  Normalised(c) \in SoundConfiguration
  <1>1. Clamped(c.rxQueue) \in Nat \ {0}
    BY DEF Clamped, Configuration
  <1>2. (IF BaudIsUsable(c) THEN c.baud ELSE mEffective.baud) \in Bauds
    BY DEF TypeOK, BaudIsUsable, Configuration, SoundConfiguration, Unusable
  <1>3. QED BY <1>1, <1>2 DEF Normalised, Configuration, SoundConfiguration

LEMMA SoundIsConfiguration == SoundConfiguration \subseteq Configuration
  BY DEF SoundConfiguration, Configuration

LEMMA FreshFrame ==
  ASSUME NEW r \in SoundConfiguration, NEW p \in SoundConfiguration,
         NEW e \in SoundConfiguration, NEW forced \in BOOLEAN, NEW rejected \in BOOLEAN,
         NEW applies \in BOOLEAN, NEW window \in BOOLEAN,
         NEW fields \in Seq({"baud", "framing"})
  PROVE  [requested |-> r, previous |-> p, forced |-> forced, rejected |-> rejected,
          applies |-> applies, fields |-> fields, effective |-> e, refused |-> FALSE,
          window |-> window, pc |-> "apply", status |-> "Full", changed |-> FALSE]
           \in TransactionFrame
  BY DEF TransactionFrame

LEMMA FrameType ==
  ASSUME TypeOK, NEW c \in Configuration, NEW forced \in BOOLEAN
  PROVE  Frame(c, forced) \in TransactionFrame /\ Frame(c, forced).pc = "apply"
  <1>1. Normalised(c) \in SoundConfiguration
    BY NormalisedType
  <1>2. [mEffective EXCEPT !.endpoint = c.endpoint] \in SoundConfiguration
    BY DEF TypeOK, SoundConfiguration, Configuration
  <1>3. NeedsHardware(c, forced) \in BOOLEAN
    BY DEF NeedsHardware, HardwareEquals
  <1>4. (IF NeedsHardware(c, forced) THEN <<"baud", "framing">> ELSE <<>>)
           \in Seq({"baud", "framing"})
    <2>1. <<"baud", "framing">> \in Seq({"baud", "framing"})
      OBVIOUS
    <2>2. <<>> \in Seq({"baud", "framing"})
      OBVIOUS
    <2>3. QED BY <2>1, <2>2
  <1>5. (~BaudIsUsable(c)) \in BOOLEAN
    BY Zenon DEF BaudIsUsable
  <1>6. mEffective \in SoundConfiguration /\ mConfigurationTransactionInProgress \in BOOLEAN
    BY DEF TypeOK
  <1> DEFINE r == Normalised(c)
             e == [mEffective EXCEPT !.endpoint = c.endpoint]
             rejected == ~BaudIsUsable(c)
             applies == NeedsHardware(c, forced)
             fields == IF NeedsHardware(c, forced) THEN <<"baud", "framing">> ELSE <<>>
             fresh == [requested |-> r, previous |-> mEffective, forced |-> forced,
                       rejected |-> rejected, applies |-> applies, fields |-> fields,
                       effective |-> e, refused |-> FALSE,
                       window |-> mConfigurationTransactionInProgress,
                       pc |-> "apply", status |-> "Full", changed |-> FALSE]
  <1>7. Frame(c, forced) = fresh
    BY Zenon DEF Frame
  <1>8. fresh \in TransactionFrame /\ fresh.pc = "apply"
    <2>1. /\ r \in SoundConfiguration /\ e \in SoundConfiguration
          /\ rejected \in BOOLEAN /\ applies \in BOOLEAN
          /\ fields \in Seq({"baud", "framing"})
      BY <1>1, <1>2, <1>3, <1>4, <1>5, Zenon
    <2> HIDE DEF r, e, rejected, applies, fields
    <2>2. fresh \in TransactionFrame
      BY <2>1, <1>6, FreshFrame
    <2>3. fresh.pc = "apply"
      OBVIOUS
    <2>4. QED BY <2>2, <2>3
  <1> HIDE DEF fresh
  <1>9. QED BY <1>7, <1>8

LEMMA BeginType ==
  ASSUME IInv, NEW c \in Configuration, NEW forced \in BOOLEAN, Begin(c, forced)
  PROVE  /\ stack' \in Seq(TransactionFrame) /\ ErringHasField'
         /\ mRequested' \in Configuration
         /\ mEffective' \in SoundConfiguration
         /\ mConfigurationTransactionInProgress' \in BOOLEAN
         /\ mTransactionPortErrorRaised' \in BOOLEAN
  <1>1. stack' \in Seq(TransactionFrame) /\ ErringHasField'
    BY FrameType, PushFrame DEF Begin, IInv
  <1>2. mRequested' \in Configuration
    BY NormalisedType, SoundIsConfiguration DEF Begin, IInv
  <1>3. NeedsHardware(c, forced) \in BOOLEAN
    BY DEF NeedsHardware, HardwareEquals
  <1>4. QED BY <1>1, <1>2, <1>3 DEF Begin, IInv, TypeOK

-----------------------------------------------------------------------------
(* Every step preserves the invariant.  The history of the program's calls *)
(* comes first, then one lemma per handler.                                *)

HistoryOK == asked \in Configuration /\ reentered \in BOOLEAN /\ calls \in Nat

LEMMA CalledType ==
  ASSUME TypeOK, NEW c \in Configuration, Called(c)
  PROVE  HistoryOK'
  <1>1. reentered \in BOOLEAN /\ calls \in Nat
    BY DEF TypeOK
  <1>2. calls' \in Nat
    BY <1>1 DEF Called
  <1>3. reentered' \in BOOLEAN
    BY Zenon DEF Called
  <1>4. QED BY <1>2, <1>3 DEF Called, HistoryOK

LEMMA SameHistory ==
  ASSUME TypeOK, UNCHANGED historyVars
  PROVE  HistoryOK'
  BY DEF TypeOK, HistoryOK, historyVars

LEMMA OpenWithStep ==
  ASSUME IInv, NEW c \in Configuration, OpenWith(c), HistoryOK'
  PROVE  IInv'
  <1>1. CASE OpenSucceeds(c)
    <2>1. Begin(c, TRUE)
      BY <1>1, Zenon DEF OpenSucceeds
    <2>2. /\ stack' \in Seq(TransactionFrame) /\ ErringHasField'
          /\ mRequested' \in Configuration
          /\ mEffective' \in SoundConfiguration
          /\ mConfigurationTransactionInProgress' \in BOOLEAN
          /\ mTransactionPortErrorRaised' \in BOOLEAN
      BY <2>1, BeginType
    <2>3. /\ mNextActivationId' \in Nat \ {0}
          /\ mCurrentActivationId' = mNextActivationId'
          /\ mFailedAttemptReported' = 0
      <3>1. /\ mNextActivationId \in Nat
            /\ mNextActivationId' = mNextActivationId + 1
            /\ mCurrentActivationId' = mNextActivationId'
            /\ mFailedAttemptReported' = 0
        BY <1>1, Zenon DEF OpenSucceeds, AttemptId, IInv, TypeOK
      <3>2. QED BY <3>1
    <2>4. /\ port' \in [open : BOOLEAN, baud : Bauds, framing : Framings]
          /\ reported' \in SUBSET Settings /\ lateErrors' \in Nat
      <3>1. /\ \E baud \in Bauds, framing \in Framings :
                 port' = [open |-> TRUE, baud |-> baud, framing |-> framing]
            /\ reported' = {} /\ lateErrors' = lateErrors
        BY <1>1, Zenon DEF OpenSucceeds
      <3>2. QED BY <3>1 DEF IInv, TypeOK
    <2>5. QED BY <2>2, <2>3, <2>4 DEF IInv, TypeOK, OpenIsLive, HistoryOK
  <1>2. CASE OpenFails(c)
    <2>1. /\ mNextActivationId' \in Nat
          /\ mCurrentActivationId' \in 0 .. mNextActivationId'
          /\ mFailedAttemptReported' \in 0 .. mNextActivationId'
          /\ lateErrors' \in Nat
      <3>1. /\ mNextActivationId \in Nat /\ lateErrors \in Nat
            /\ mNextActivationId' = mNextActivationId + 1
            /\ mCurrentActivationId' = 0
        BY <1>2, Zenon DEF OpenFails, AttemptId, IInv, TypeOK
      <3>2. \/ mFailedAttemptReported' = 0 /\ lateErrors' = lateErrors
            \/ /\ mFailedAttemptReported' = mNextActivationId'
               /\ lateErrors' = lateErrors + 1
        BY <1>2, Zenon DEF OpenFails
      <3>3. QED BY <3>1, <3>2
    <2>2. /\ port' \in [open : BOOLEAN, baud : Bauds, framing : Framings]
          /\ ~port'.open
          /\ reported' \in SUBSET Settings
          /\ mRequested' \in Configuration
      <3>1. port' = [port EXCEPT !.open = FALSE] /\ reported' = {} /\ mRequested' = c
        BY <1>2, Zenon DEF OpenFails
      <3>2. port \in [open : BOOLEAN, baud : Bauds, framing : Framings]
        BY Zenon DEF IInv, TypeOK
      <3>3. QED BY <3>1, <3>2
    <2>3. UNCHANGED <<mEffective, transactionVars, stack>>
      BY <1>2, Zenon DEF OpenFails
    <2>4. QED BY <2>1, <2>2, <2>3
            DEF IInv, TypeOK, OpenIsLive, HistoryOK, transactionVars, ErringHasField
  <1>3. QED BY <1>1, <1>2 DEF OpenWith

LEMMA CloseStep ==
  ASSUME IInv, Close
  PROVE  IInv'
  <1>1. HistoryOK'
    BY CalledType DEF Close, IInv, TypeOK
  <1>2. /\ port' \in [open : BOOLEAN, baud : Bauds, framing : Framings]
        /\ ~port'.open
        /\ reported' \in SUBSET Settings
        /\ mCurrentActivationId' = 0
    <2>1. /\ port' = [port EXCEPT !.open = FALSE]
          /\ reported' = {} /\ mCurrentActivationId' = 0
      BY Zenon DEF Close
    <2>2. port \in [open : BOOLEAN, baud : Bauds, framing : Framings]
      BY Zenon DEF IInv, TypeOK
    <2>3. QED BY <2>1, <2>2
  <1>3. UNCHANGED <<mRequested, mEffective, mNextActivationId, mFailedAttemptReported,
                    transactionVars, lateErrors, stack>>
    BY Zenon DEF Close
  <1>4. QED BY <1>1, <1>2, <1>3
          DEF IInv, TypeOK, OpenIsLive, HistoryOK, transactionVars, ErringHasField

LEMMA StoreOnlyStep ==
  ASSUME IInv, NEW c \in Configuration, StoreOnly(c), HistoryOK'
  PROVE  IInv'
  <1>1. Normalised(c) \in SoundConfiguration
    BY NormalisedType DEF IInv
  <1>2. mRequested' \in Configuration
    BY <1>1, SoundIsConfiguration DEF StoreOnly
  <1>3. mEffective' \in SoundConfiguration
    BY <1>1 DEF StoreOnly, IInv, TypeOK, SoundConfiguration
  <1>4. UNCHANGED <<activationVars, transactionVars, port, lateErrors, stack, reported>>
    BY DEF StoreOnly
  <1>5. QED BY <1>2, <1>3, <1>4
          DEF IInv, TypeOK, OpenIsLive, HistoryOK, activationVars, transactionVars,
              ErringHasField

LEMMA StoredStep ==
  ASSUME IInv, mRequested' \in Configuration, HistoryOK',
         UNCHANGED <<mEffective, activationVars, transactionVars, port, lateErrors, stack,
                     reported>>
  PROVE  IInv'
  BY DEF IInv, TypeOK, OpenIsLive, HistoryOK, activationVars, transactionVars,
         ErringHasField

LEMMA BeginConfigurationStep ==
  ASSUME IInv, NEW c \in Configuration, BeginConfiguration(c), HistoryOK'
  PROVE  IInv'
  <1>1. Begin(c, FALSE)
    BY DEF BeginConfiguration
  <1>2. /\ stack' \in Seq(TransactionFrame) /\ ErringHasField'
        /\ mRequested' \in Configuration
        /\ mEffective' \in SoundConfiguration
        /\ mConfigurationTransactionInProgress' \in BOOLEAN
        /\ mTransactionPortErrorRaised' \in BOOLEAN
    BY <1>1, BeginType
  <1>3. UNCHANGED <<activationVars, port, lateErrors, reported>>
    BY DEF BeginConfiguration
  <1>4. QED BY <1>2, <1>3 DEF IInv, TypeOK, OpenIsLive, HistoryOK, activationVars

LEMMA ApplyConfigurationStep ==
  ASSUME IInv, NEW c \in Configuration, ApplyConfiguration(c)
  PROVE  IInv'
  <1>1. HistoryOK'
    BY CalledType DEF ApplyConfiguration, IInv
  <1>2. CASE StoreOnly(c)
    BY <1>1, <1>2, StoreOnlyStep
  <1>3. CASE ChangeEndpoint(c)
    BY <1>1, <1>3, OpenWithStep DEF ChangeEndpoint
  <1>4. CASE NoOp(c)
    BY <1>1, <1>4, StoredStep DEF NoOp, IInv, TypeOK
  <1>5. CASE BeginConfiguration(c)
    BY <1>1, <1>5, BeginConfigurationStep
  <1>6. QED BY <1>2, <1>3, <1>4, <1>5 DEF ApplyConfiguration

LEMMA SetBaudRateStep ==
  ASSUME IInv, NEW baud \in Bauds \cup {Unusable}, SetBaudRate(baud)
  PROVE  IInv'
  <1> DEFINE c == [mRequested EXCEPT !.baud = baud]
  <1>1. c \in Configuration
    BY DEF IInv, TypeOK, Configuration
  <1>2. Called(c) /\ (\/ StoreOnly(c) \/ ChangeEndpoint(c) \/ BeginConfiguration(c)
                      \/ mRequested' = c /\ UNCHANGED <<mEffective, activationVars,
                           transactionVars, port, lateErrors, stack, reported>>)
    BY Zenon DEF SetBaudRate
  <1> HIDE DEF c
  <1>3. HistoryOK'
    BY <1>1, <1>2, CalledType DEF IInv
  <1>4. CASE StoreOnly(c)
    BY <1>1, <1>3, <1>4, StoreOnlyStep
  <1>5. CASE ChangeEndpoint(c)
    BY <1>1, <1>3, <1>5, OpenWithStep DEF ChangeEndpoint
  <1>6. CASE BeginConfiguration(c)
    BY <1>1, <1>3, <1>6, BeginConfigurationStep
  <1>7. CASE mRequested' = c /\ UNCHANGED <<mEffective, activationVars, transactionVars,
                                            port, lateErrors, stack, reported>>
    BY <1>1, <1>3, <1>7, StoredStep
  <1>8. QED BY <1>2, <1>4, <1>5, <1>6, <1>7

LEMMA SetDeviceNameStep ==
  ASSUME IInv, NEW endpoint \in Endpoints, SetDeviceName(endpoint)
  PROVE  IInv'
  <1> DEFINE c == [mRequested EXCEPT !.endpoint = endpoint]
             a == [asked EXCEPT !.endpoint = endpoint]
  <1>1. c \in Configuration /\ a \in Configuration
    BY DEF IInv, TypeOK, Configuration
  <1>2. Called(a) /\ (\/ OpenWith(c)
                      \/ mRequested' = c /\ UNCHANGED <<mEffective, activationVars,
                           transactionVars, port, lateErrors, stack, reported>>)
    BY Zenon DEF SetDeviceName
  <1> HIDE DEF c, a
  <1>3. HistoryOK'
    BY <1>1, <1>2, CalledType DEF IInv
  <1>4. QED BY <1>1, <1>2, <1>3, OpenWithStep, StoredStep

LEMMA ConfiguringStep ==
  ASSUME IInv, Setters \/ Configure
  PROVE  IInv'
  <1>1. ASSUME NEW baud \in Bauds \cup {Unusable}, SetBaudRate(baud) PROVE IInv'
    BY <1>1, SetBaudRateStep
  <1>2. ASSUME NEW framing \in Framings,
               ApplyConfiguration([mRequested EXCEPT !.framing = framing])
        PROVE  IInv'
    <2>1. [mRequested EXCEPT !.framing = framing] \in Configuration
      BY DEF IInv, TypeOK, Configuration
    <2>2. QED BY <1>2, <2>1, ApplyConfigurationStep
  <1>3. ASSUME NEW size \in RxQueues,
               ApplyConfiguration([mRequested EXCEPT !.rxQueue = size])
        PROVE  IInv'
    <2>1. [mRequested EXCEPT !.rxQueue = size] \in Configuration
      BY DEF IInv, TypeOK, Configuration
    <2>2. QED BY <1>3, <2>1, ApplyConfigurationStep
  <1>4. ASSUME NEW endpoint \in Endpoints, SetDeviceName(endpoint) PROVE IInv'
    BY <1>4, SetDeviceNameStep
  <1>5. ASSUME NEW endpoint \in Endpoints, NEW baud \in Bauds \cup {Unusable},
               NEW framing \in Framings, NEW size \in RxQueues,
               ApplyConfiguration([endpoint |-> endpoint, baud |-> baud,
                                   framing |-> framing, rxQueue |-> size])
        PROVE  IInv'
    <2>1. [endpoint |-> endpoint, baud |-> baud, framing |-> framing, rxQueue |-> size]
             \in Configuration
      BY DEF Configuration
    <2>2. QED BY <1>5, <2>1, ApplyConfigurationStep
  <1>6. QED BY <1>1, <1>2, <1>3, <1>4, <1>5, Zenon DEF Setters, Configure

LEMMA ApplyFieldStep ==
  ASSUME IInv, ApplyField
  PROVE  IInv'
  <1>1. /\ stack # <<>> /\ Top.fields # <<>>
        /\ UNCHANGED <<mRequested, mEffective, activationVars, transactionVars, lateErrors,
                       reported, historyVars>>
    BY Zenon DEF ApplyField
  <1>2. Top \in TransactionFrame
    BY <1>1, TopOfStack DEF IInv
  <1> DEFINE field == Head(Top.fields)
             After(taken, raises) ==
               [Top EXCEPT
                  !.refused   = @ \/ ~taken,
                  !.pc        = IF raises THEN "erring" ELSE "apply",
                  !.fields    = IF raises THEN @ ELSE Tail(@),
                  !.effective = IF raises THEN @ ELSE [@ EXCEPT ![field] = port'[field]]]
  <1>3. field \in {"baud", "framing"} /\ Tail(Top.fields) \in Seq({"baud", "framing"})
    BY <1>1, <1>2 DEF TransactionFrame
  <1>4. PICK taken \in BOOLEAN, raises \in BOOLEAN,
             value \in IF field = "baud" THEN Bauds ELSE {Top.requested.framing} :
          /\ port' = IF taken THEN [port EXCEPT ![field] = value] ELSE port
          /\ Replace(After(taken, raises))
    BY Zenon DEF ApplyField
  <1>5. /\ port' \in [open : BOOLEAN, baud : Bauds, framing : Framings]
        /\ port'.open = port.open
    <2>1. port \in [open : BOOLEAN, baud : Bauds, framing : Framings]
      BY Zenon DEF IInv, TypeOK
    <2>2. Top.requested.framing \in Framings
      BY <1>2 DEF TransactionFrame, SoundConfiguration
    <2> HIDE DEF field
    <2>3. CASE field = "baud"
      BY <1>4, <2>1, <2>3
    <2>4. CASE field = "framing"
      BY <1>4, <2>1, <2>2, <2>4
    <2>5. QED BY <1>3, <2>3, <2>4
  <1>6. [Top.effective EXCEPT ![field] = port'[field]] \in SoundConfiguration
    <2> HIDE DEF field
    <2>1. Top.effective \in SoundConfiguration
      BY <1>2 DEF TransactionFrame
    <2>2. CASE field = "baud"
      BY <1>5, <2>1, <2>2 DEF SoundConfiguration
    <2>3. CASE field = "framing"
      BY <1>5, <2>1, <2>3 DEF SoundConfiguration
    <2>4. QED BY <1>3, <2>2, <2>3
  <1>7. /\ After(taken, raises) \in TransactionFrame
        /\ After(taken, raises).pc = "erring" => After(taken, raises).fields # <<>>
    <2> HIDE DEF field
    <2>1. CASE raises
      BY <1>1, <1>2, <2>1 DEF TransactionFrame
    <2>2. CASE ~raises
      BY <1>2, <1>3, <1>6, <2>2 DEF TransactionFrame
    <2>3. QED BY <2>1, <2>2
  <1> HIDE DEF After, field
  <1>8. stack' \in Seq(TransactionFrame) /\ ErringHasField'
    BY <1>1, <1>4, <1>7, ReplaceTop
  <1>9. QED BY <1>1, <1>5, <1>8
          DEF IInv, TypeOK, OpenIsLive, activationVars, transactionVars, historyVars

LEMMA ErrorReturnsStep ==
  ASSUME IInv, ErrorReturns
  PROVE  IInv'
  <1>1. /\ stack # <<>> /\ Top.pc = "erring"
        /\ UNCHANGED <<mRequested, mEffective, activationVars, port, lateErrors, reported,
                       mConfigurationTransactionInProgress, historyVars>>
        /\ \/ mTransactionPortErrorRaised' = TRUE
           \/ UNCHANGED mTransactionPortErrorRaised
    BY Zenon DEF ErrorReturns
  <1>2. Top \in TransactionFrame /\ Top.fields # <<>>
    BY <1>1, TopOfStack DEF IInv, ErringHasField
  <1> DEFINE field == Head(Top.fields)
             after == [Top EXCEPT !.pc = "apply", !.fields = Tail(@),
                                  !.effective = [@ EXCEPT ![field] = port[field]]]
  <1>3. field \in {"baud", "framing"} /\ Tail(Top.fields) \in Seq({"baud", "framing"})
    BY <1>2 DEF TransactionFrame
  <1>4. Replace(after)
    BY Zenon DEF ErrorReturns
  <1>5. [Top.effective EXCEPT ![field] = port[field]] \in SoundConfiguration
    <2> HIDE DEF field
    <2>1. Top.effective \in SoundConfiguration
      BY <1>2 DEF TransactionFrame
    <2>2. port \in [open : BOOLEAN, baud : Bauds, framing : Framings]
      BY Zenon DEF IInv, TypeOK
    <2>3. CASE field = "baud"
      BY <2>1, <2>2, <2>3 DEF SoundConfiguration
    <2>4. CASE field = "framing"
      BY <2>1, <2>2, <2>4 DEF SoundConfiguration
    <2>5. QED BY <1>3, <2>3, <2>4
  <1>6. after \in TransactionFrame /\ after.pc # "erring"
    <2> HIDE DEF field
    <2>1. QED BY <1>2, <1>3, <1>5 DEF TransactionFrame
  <1> HIDE DEF after, field
  <1>7. stack' \in Seq(TransactionFrame) /\ ErringHasField'
    BY <1>1, <1>4, <1>6, ReplaceTop
  <1>8. QED BY <1>1, <1>7 DEF IInv, TypeOK, OpenIsLive, activationVars, historyVars

LEMMA NewEffectiveType ==
  ASSUME TypeOK, stack # <<>>
  PROVE  NewEffective \in SoundConfiguration
  <1>1. Top \in TransactionFrame
    BY TopOfStack
  <1>2. /\ Top.effective \in SoundConfiguration
        /\ Top.requested \in SoundConfiguration
        /\ mEffective \in SoundConfiguration
    BY <1>1 DEF TransactionFrame, TypeOK
  <1>3. Top.requested.rxQueue \in Nat \ {0} /\ mRequested.endpoint \in Endpoints
    BY <1>2 DEF SoundConfiguration, Configuration, TypeOK
  <1> DEFINE e == IF Top.applies THEN Top.effective ELSE mEffective
  <1>4. e \in SoundConfiguration
    BY <1>2
  <1>5. NewEffective = [e EXCEPT !.rxQueue = Top.requested.rxQueue,
                                 !.endpoint = mRequested.endpoint]
    BY Zenon DEF NewEffective
  <1> HIDE DEF e
  <1>6. QED BY <1>3, <1>4, <1>5 DEF SoundConfiguration

LEMMA ConcludeStep ==
  ASSUME IInv, Conclude
  PROVE  IInv'
  <1> DEFINE changed == \/ HardwareChanged(Top)
                        \/ Top.requested.rxQueue # Top.previous.rxQueue
             status  == Status(changed)
             after   == [Top EXCEPT !.pc = "observe", !.changed = changed,
                                    !.status = status]
  <1>1. /\ stack # <<>>
        /\ Replace(after)
        /\ mEffective' = NewEffective
        /\ UNCHANGED <<mRequested, activationVars, port, lateErrors, reported, historyVars>>
    BY Zenon DEF Conclude
  <1>2. /\ mConfigurationTransactionInProgress' \in BOOLEAN
        /\ mTransactionPortErrorRaised' \in BOOLEAN
    <2>1. Top.window \in BOOLEAN /\ mConfigurationTransactionInProgress \in BOOLEAN
      BY <1>1, TopOfStack DEF IInv, TypeOK, TransactionFrame
    <2>2. mConfigurationTransactionInProgress' =
            IF Top.applies THEN Top.window ELSE mConfigurationTransactionInProgress
      BY Zenon DEF Conclude, WindowAfter
    <2>3. mTransactionPortErrorRaised' = (~Top.applies /\ mTransactionPortErrorRaised)
      BY Zenon DEF Conclude
    <2>4. mTransactionPortErrorRaised' \in BOOLEAN
      BY <2>3, Zenon
    <2>5. QED BY <2>1, <2>2, <2>4
  <1>3. changed \in BOOLEAN
    BY Zenon DEF HardwareChanged
  <1>4. status \in {"Full", "Partial", "Failed"}
    BY DEF Status
  <1>5. after \in TransactionFrame /\ after.pc # "erring"
    <2> HIDE DEF changed, status
    <2>1. Top \in TransactionFrame
      BY <1>1, TopOfStack DEF IInv
    <2>2. QED BY <2>1, <1>3, <1>4 DEF TransactionFrame
  <1> HIDE DEF after
  <1>6. stack' \in Seq(TransactionFrame) /\ ErringHasField'
    BY <1>1, <1>5, ReplaceTop
  <1>7. mEffective' \in SoundConfiguration
    BY <1>1, NewEffectiveType DEF IInv
  <1>8. QED BY <1>1, <1>2, <1>6, <1>7
          DEF IInv, TypeOK, OpenIsLive, activationVars, historyVars

LEMMA ObserveStep ==
  ASSUME IInv, Observe
  PROVE  IInv'
  <1>1. /\ stack # <<>> /\ stack' = Front(stack)
        /\ reported' = reported \/ reported' = {InForce}
        /\ UNCHANGED <<mRequested, mEffective, activationVars, transactionVars, port,
                       lateErrors, historyVars>>
    BY Zenon DEF Observe
  <1>2. stack' \in Seq(TransactionFrame) /\ ErringHasField'
    BY <1>1, PopStack
  <1>3. InForce \in Settings
    BY DEF InForce, Settings, IInv, TypeOK, Configuration
  <1>4. reported' \in SUBSET Settings
    BY <1>1, <1>3 DEF IInv, TypeOK
  <1>5. QED BY <1>1, <1>2, <1>4
          DEF IInv, TypeOK, OpenIsLive, activationVars, transactionVars, historyVars

LEMMA PortErrorStep ==
  ASSUME IInv, PortError
  PROVE  IInv'
  <1>1. /\ mFailedAttemptReported' = 0 \/ UNCHANGED mFailedAttemptReported
        /\ UNCHANGED <<mRequested, mEffective, mNextActivationId, mCurrentActivationId,
                       transactionVars, port, stack, reported, historyVars>>
    BY Zenon DEF PortError
  <1>2. lateErrors' \in Nat
    <2>1. lateErrors' \in {n \in {lateErrors - 1, lateErrors} :
                            n >= 0 /\ (n = lateErrors => port.open)}
      BY Zenon DEF PortError
    <2>2. QED BY <2>1 DEF IInv, TypeOK
  <1>3. mFailedAttemptReported' \in 0 .. mNextActivationId'
    BY <1>1 DEF IInv, TypeOK
  <1>4. QED BY <1>1, <1>2, <1>3
          DEF IInv, TypeOK, OpenIsLive, ErringHasField, transactionVars, historyVars

LEMMA WriteRawStep ==
  ASSUME IInv, WriteRaw
  PROVE  IInv'
  <1>1. HistoryOK'
    <2>1. TypeOK /\ asked \in Configuration /\ Called(asked)
      BY Zenon DEF WriteRaw, IInv, TypeOK
    <2>2. QED BY <2>1, CalledType
  <1>2. /\ UNCHANGED <<mRequested, mEffective, activationVars, port, lateErrors, stack,
                       reported, mConfigurationTransactionInProgress>>
        /\ \E raises \in BOOLEAN :
             mTransactionPortErrorRaised' =
               (mTransactionPortErrorRaised
                  \/ (raises /\ mConfigurationTransactionInProgress))
    BY Zenon DEF WriteRaw
  <1>3. mTransactionPortErrorRaised' \in BOOLEAN
    BY <1>2, Zenon
  <1>4. QED BY <1>1, <1>2, <1>3
          DEF IInv, TypeOK, OpenIsLive, ErringHasField, HistoryOK, activationVars

-----------------------------------------------------------------------------
(* The theorems.                                                           *)

LEMMA InitIInv == Init => IInv
  <1> SUFFICES ASSUME Init PROVE IInv
    OBVIOUS
  <1>1. Defaults \in SoundConfiguration /\ Defaults \in Configuration
    BY DEF SoundConfiguration, Configuration
  <1>2. port \in [open : BOOLEAN, baud : Bauds, framing : Framings] /\ ~port.open
    BY DEF Init
  <1>3. stack \in Seq(TransactionFrame) /\ ErringHasField
    BY DEF Init, ErringHasField
  <1>4. mRequested \in Configuration /\ mEffective \in SoundConfiguration
        /\ asked \in Configuration
    BY <1>1, Zenon DEF Init
  <1>5. /\ mNextActivationId = 0 /\ mCurrentActivationId = 0 /\ mFailedAttemptReported = 0
        /\ mConfigurationTransactionInProgress = FALSE
        /\ mTransactionPortErrorRaised = FALSE
        /\ lateErrors = 0 /\ reported = {} /\ reentered = FALSE /\ calls = 0
    BY Zenon DEF Init
  <1>6. TypeOK
    <2>1. /\ mNextActivationId \in Nat /\ lateErrors \in Nat /\ calls \in Nat
          /\ mCurrentActivationId \in 0 .. mNextActivationId
          /\ mFailedAttemptReported \in 0 .. mNextActivationId
      BY <1>5
    <2>2. /\ mConfigurationTransactionInProgress \in BOOLEAN
          /\ mTransactionPortErrorRaised \in BOOLEAN
          /\ reentered \in BOOLEAN /\ reported \in SUBSET Settings
      BY <1>5, Zenon
    <2>3. QED BY <1>2, <1>3, <1>4, <2>1, <2>2, Zenon DEF TypeOK
  <1>7. QED BY <1>2, <1>3, <1>6 DEF IInv, OpenIsLive

LEMMA NextIInv == IInv /\ [Next]_vars => IInv'
  <1> SUFFICES ASSUME IInv, [Next]_vars PROVE IInv'
    OBVIOUS
  <1>1. CASE Open
    <2>1. HistoryOK'
      BY <1>1, CalledType DEF Open, IInv, TypeOK
    <2>2. QED BY <1>1, <2>1, OpenWithStep DEF Open, IInv, TypeOK
  <1>2. CASE UNCHANGED vars
    BY <1>2 DEF IInv, TypeOK, ErringHasField, OpenIsLive, vars, activationVars,
                transactionVars, historyVars
  <1>3. QED
    BY <1>1, <1>2, CloseStep, ConfiguringStep, ApplyFieldStep, ErrorReturnsStep,
       ConcludeStep, ObserveStep, PortErrorStep, WriteRawStep, Zenon DEF Next

LEMMA Inductive == Spec => []IInv
  BY InitIInv, NextIInv, PTL DEF Spec

\* Whatever the port does and however calls nest in transactions, the settings in
\* force that the transport remembers are usable ones, every transaction's frame is
\* well formed, and only an attempt that was made can be live.
THEOREM TypeCorrect == Spec => []TypeOK
  <1>1. IInv => TypeOK
    BY DEF IInv
  <1>2. QED BY <1>1, Inductive, PTL

-----------------------------------------------------------------------------
(* The transport keeps its promises: every step maps to one of the         *)
(* abstract transport's, or leaves what it shows unchanged.                *)

LEMMA OpenWithIsPromised ==
  ASSUME NEW c, OpenWith(c)
  PROVE  Promised!Open \/ Promised!FailToOpen
  <1>1. CASE OpenSucceeds(c)
    <2>1. /\ mNextActivationId' = mNextActivationId + 1
          /\ mCurrentActivationId' = mNextActivationId'
          /\ emitted' = Ending \o <<Observation("opened", mNextActivationId', "")>>
      BY <1>1, Zenon DEF OpenSucceeds, AttemptId
    <2>2. Promised!Open
      BY <2>1, Zenon DEF Promised!Open, Promised!Ending, Promised!Opened, Promised!Closed,
                         Promised!Observation, Ending, Observation
    <2>3. QED BY <2>2
  <1>2. CASE OpenFails(c)
    <2>1. /\ mNextActivationId' = mNextActivationId + 1
          /\ mCurrentActivationId' = 0
          /\ emitted' =
               Ending \o <<Observation("transportError", mNextActivationId', "open")>>
      BY <1>2, Zenon DEF OpenFails, AttemptId
    <2>2. Promised!FailToOpen
      BY <2>1, Zenon DEF Promised!FailToOpen, Promised!Ending, Promised!OpenFailed,
                         Promised!Closed, Promised!Observation, Ending, Observation
    <2>3. QED BY <2>2
  <1>3. QED BY <1>1, <1>2 DEF OpenWith

LEMMA CloseIsPromised ==
  ASSUME Close
  PROVE  Promised!Close
  BY Zenon DEF Close, Promised!Close, Promised!Ending, Promised!Closed,
               Promised!Observation, Ending, Observation

\* A step that neither opens nor closes says nothing, or speaks of the live
\* activation.
LEMMA ReportIsPromised ==
  ASSUME UNCHANGED <<mNextActivationId, mCurrentActivationId>>,
         emitted' \in Seq(Promised!Reports(mCurrentActivationId)),
         mCurrentActivationId = 0 => emitted' = <<>>
  PROVE  Promised!Report
  BY Zenon DEF Promised!Report

LEMMA SilenceIsPromised ==
  ASSUME UNCHANGED <<mNextActivationId, mCurrentActivationId>>, emitted' = <<>>
  PROVE  Promised!Report
  <1>1. <<>> \in Seq(Promised!Reports(mCurrentActivationId))
    OBVIOUS
  <1>2. QED BY <1>1, ReportIsPromised

\* The observations a report is made of.
LEMMA ReportKinds ==
  ASSUME NEW id
  PROVE  /\ \A kind \in {"apply", "write", "runtime"} :
              Observation("transportError", id, kind) \in Promised!Reports(id)
         /\ Observation("bytesWritten", id, "") \in Promised!Reports(id)
         /\ Observation("configurationChanged", id, "") \in Promised!Reports(id)
  BY DEF Promised!Reports, Promised!Observation, Observation

\* A sequence put together from optional observations.
LEMMA OptionalPieces ==
  ASSUME NEW S, NEW a \in S, NEW b \in S, NEW c \in S,
         NEW p \in BOOLEAN, NEW q \in BOOLEAN, NEW r \in BOOLEAN
  PROVE  /\ (IF p THEN <<a>> ELSE <<>>) \o (IF q THEN <<b>> ELSE <<>>) \in Seq(S)
         /\ (IF p THEN <<a>> ELSE <<>>) \o (IF q THEN <<b>> ELSE <<>>)
               \o (IF r THEN <<c>> ELSE <<>>) \in Seq(S)
  <1>1. (IF p THEN <<a>> ELSE <<>>) \in Seq(S)
    OBVIOUS
  <1>2. (IF q THEN <<b>> ELSE <<>>) \in Seq(S)
    OBVIOUS
  <1>3. (IF r THEN <<c>> ELSE <<>>) \in Seq(S)
    OBVIOUS
  <1> DEFINE x == IF p THEN <<a>> ELSE <<>>
             y == IF q THEN <<b>> ELSE <<>>
             z == IF r THEN <<c>> ELSE <<>>
  <1>4. x \in Seq(S) /\ y \in Seq(S) /\ z \in Seq(S)
    BY <1>1, <1>2, <1>3
  <1> HIDE DEF x, y, z
  <1>5. x \o y \in Seq(S) /\ x \o y \o z \in Seq(S)
    BY <1>4
  <1>6. QED BY <1>5 DEF x, y, z

LEMMA ConfiguringIsPromised ==
  ASSUME Setters \/ Configure
  PROVE  Promised!Open \/ Promised!FailToOpen \/ Promised!Report
  <1>1. ASSUME NEW c, StoreOnly(c) \/ NoOp(c) \/ BeginConfiguration(c)
        PROVE  Promised!Report
    BY <1>1, SilenceIsPromised, Zenon DEF StoreOnly, NoOp, BeginConfiguration, activationVars
  <1>2. ASSUME NEW c, ChangeEndpoint(c) PROVE Promised!Open \/ Promised!FailToOpen
    BY <1>2, OpenWithIsPromised DEF ChangeEndpoint
  <1>3. ASSUME NEW c, ApplyConfiguration(c)
        PROVE  Promised!Open \/ Promised!FailToOpen \/ Promised!Report
    BY <1>1, <1>2, <1>3 DEF ApplyConfiguration
  <1>4. ASSUME NEW baud, SetBaudRate(baud)
        PROVE  Promised!Open \/ Promised!FailToOpen \/ Promised!Report
    <2> DEFINE c == [mRequested EXCEPT !.baud = baud]
    <2>1. \/ StoreOnly(c) \/ ChangeEndpoint(c) \/ BeginConfiguration(c)
          \/ emitted' = <<>> /\ UNCHANGED activationVars
      BY <1>4, Zenon DEF SetBaudRate
    <2> HIDE DEF c
    <2>2. CASE emitted' = <<>> /\ UNCHANGED activationVars
      BY <2>2, SilenceIsPromised, Zenon DEF activationVars
    <2>3. QED BY <1>1, <1>2, <2>1, <2>2
  <1>5. ASSUME NEW endpoint, SetDeviceName(endpoint)
        PROVE  Promised!Open \/ Promised!FailToOpen \/ Promised!Report
    <2> DEFINE c == [mRequested EXCEPT !.endpoint = endpoint]
    <2>1. OpenWith(c) \/ (emitted' = <<>> /\ UNCHANGED activationVars)
      BY <1>5, Zenon DEF SetDeviceName
    <2> HIDE DEF c
    <2>2. CASE emitted' = <<>> /\ UNCHANGED activationVars
      BY <2>2, SilenceIsPromised, Zenon DEF activationVars
    <2>3. QED BY <2>1, <2>2, OpenWithIsPromised
  <1>6. QED BY <1>3, <1>4, <1>5, Zenon DEF Setters, Configure

LEMMA TransactionIsPromised ==
  ASSUME ApplyField \/ ErrorReturns \/ Conclude \/ Observe \/ PortError
  PROVE  Promised!Report
  <1> DEFINE id == mCurrentActivationId
             Error(kind) == Observation("transportError", id, kind)
             Change == Observation("configurationChanged", id, "")
  <1>1. UNCHANGED <<mNextActivationId, mCurrentActivationId>>
    BY Zenon DEF ApplyField, ErrorReturns, Conclude, Observe, PortError, activationVars
  <1>2. \/ emitted' = <<>>
        \/ id # 0 /\ emitted' = <<Error("runtime")>>
        \/ id # 0 /\ \E changed, failed \in BOOLEAN :
              emitted' = (IF changed THEN <<Change>> ELSE <<>>)
                           \o (IF failed THEN <<Error("apply")>> ELSE <<>>)
    <2>1. CASE ApplyField \/ Conclude
      BY <2>1, Zenon DEF ApplyField, Conclude
    <2>2. CASE ErrorReturns
      BY <2>2, Zenon DEF ErrorReturns
    <2>3. CASE PortError
      BY <2>3, Zenon DEF PortError
    <2>4. CASE Observe
      <3>1. CASE id = 0
        BY <2>4, <3>1, Zenon DEF Observe
      <3>2. CASE id # 0
        <4>1. emitted' = (IF Top.changed THEN <<Change>> ELSE <<>>)
                           \o (IF Top.status # "Full" THEN <<Error("apply")>> ELSE <<>>)
          BY <2>4, <3>2, Zenon DEF Observe
        <4>2. CASE Top.changed
          BY <3>2, <4>1, <4>2
        <4>3. CASE ~Top.changed
          BY <3>2, <4>1, <4>3
        <4>4. QED BY <4>2, <4>3
      <3>3. QED BY <3>1, <3>2
    <2>5. QED BY <2>1, <2>2, <2>3, <2>4
  <1>3. /\ Change \in Promised!Reports(id)
        /\ Error("apply") \in Promised!Reports(id)
        /\ Error("runtime") \in Promised!Reports(id)
    BY ReportKinds
  <1>4. id = 0 => emitted' = <<>>
    BY <1>2, Zenon
  <1>5. emitted' \in Seq(Promised!Reports(id))
    <2> HIDE DEF Error, Change
    <2>1. \A changed, failed \in BOOLEAN :
            (IF changed THEN <<Change>> ELSE <<>>)
              \o (IF failed THEN <<Error("apply")>> ELSE <<>>) \in Seq(Promised!Reports(id))
      BY <1>3, OptionalPieces
    <2>2. CASE emitted' = <<>>
      BY <2>2
    <2>3. CASE emitted' = <<Error("runtime")>>
      <3>1. \A x \in Promised!Reports(id) : <<x>> \in Seq(Promised!Reports(id))
        OBVIOUS
      <3>2. QED BY <1>3, <2>3, <3>1, Zenon
    <2>4. QED BY <1>2, <2>1, <2>2, <2>3, Zenon
  <1>6. QED BY <1>1, <1>4, <1>5, ReportIsPromised

LEMMA WriteRawIsPromised ==
  ASSUME OpenIsLive, WriteRaw
  PROVE  Promised!Report
  <1> DEFINE id == mCurrentActivationId
             Error(kind) == Observation("transportError", id, kind)
             Written == Observation("bytesWritten", id, "")
             Emission(p, q, r) == (IF p THEN <<Error("runtime")>> ELSE <<>>)
                                    \o (IF q THEN <<Written>> ELSE <<>>)
                                    \o (IF r THEN <<Error("write")>> ELSE <<>>)
  <1>1. UNCHANGED <<mNextActivationId, mCurrentActivationId>> /\ id # 0
    BY Zenon DEF WriteRaw, OpenIsLive, activationVars
  <1>2. PICK accepted \in {"none", "part", "all"}, raises \in BOOLEAN :
          emitted' = Emission(raises /\ ~mConfigurationTransactionInProgress,
                              accepted # "none", accepted # "all")
    BY Zenon DEF WriteRaw
  <1>3. /\ Written \in Promised!Reports(id)
        /\ Error("write") \in Promised!Reports(id)
        /\ Error("runtime") \in Promised!Reports(id)
    BY ReportKinds
  <1>4. \A p, q, r \in BOOLEAN : Emission(p, q, r) \in Seq(Promised!Reports(id))
    <2> HIDE DEF Error, Written
    <2>1. QED BY <1>3, OptionalPieces
  <1>5. emitted' \in Seq(Promised!Reports(id))
    <2> HIDE DEF Emission
    <2>1. /\ (raises /\ ~mConfigurationTransactionInProgress) \in BOOLEAN
          /\ (accepted # "none") \in BOOLEAN /\ (accepted # "all") \in BOOLEAN
      BY Zenon
    <2>2. QED BY <1>2, <1>4, <2>1, Zenon
  <1>6. QED BY <1>1, <1>5, ReportIsPromised

\* The conformance rules of itransport.h:40-57 hold of the serial transport for any
\* device and any nesting of calls: one `opened` per attempt that succeeds, one error
\* for each that fails, `closed` before anything of the next attempt, and every other
\* observation inside the activation it names.
THEOREM SerialImplementsTransport == Spec => ImplementsTransport
  <1>1. Init => Promised!Init
    BY DEF Init, Promised!Init
  <1>2. OpenIsLive /\ [Next]_vars => [Promised!Next]_(Promised!vars)
    <2> SUFFICES ASSUME OpenIsLive, [Next]_vars
                 PROVE  Promised!Next \/ UNCHANGED Promised!vars
      OBVIOUS
    <2>1. CASE Open
      BY <2>1, OpenWithIsPromised DEF Open, Promised!Next
    <2>2. CASE Close
      BY <2>2, CloseIsPromised DEF Promised!Next
    <2>3. CASE Setters \/ Configure
      BY <2>3, ConfiguringIsPromised DEF Promised!Next
    <2>4. CASE ApplyField \/ ErrorReturns \/ Conclude \/ Observe \/ PortError
      BY <2>4, TransactionIsPromised DEF Promised!Next
    <2>5. CASE WriteRaw
      BY <2>5, WriteRawIsPromised DEF Promised!Next
    <2>6. CASE UNCHANGED vars
      BY <2>6 DEF vars, activationVars, Promised!vars
    <2>7. QED BY <2>1, <2>2, <2>3, <2>4, <2>5, <2>6, Zenon DEF Next
  <1>3. IInv => OpenIsLive
    BY DEF IInv
  <1>4. QED BY <1>1, <1>2, <1>3, Inductive, PTL DEF Spec, ImplementsTransport, Promised!Spec

-----------------------------------------------------------------------------
(* The transaction window: it is open exactly while some transaction on    *)
(* the stack applies settings, because each one restores what it found.    *)

UnderWay(frame) == frame.applies /\ frame.pc # "observe"

WindowIsOpen ==
  mConfigurationTransactionInProgress <=> \E i \in 1 .. Len(stack) : UnderWay(stack[i])

WindowsAreRestored ==
  \A i \in 1 .. Len(stack) :
    UnderWay(stack[i]) => (stack[i].window <=> \E j \in 1 .. i - 1 : UnderWay(stack[j]))

FieldsAreApplied ==
  \A i \in 1 .. Len(stack) : stack[i].fields # <<>> => UnderWay(stack[i])

WindowInv == WindowIsOpen /\ WindowsAreRestored /\ FieldsAreApplied

\* The stack's shape after each way of changing it.
LEMMA ReplacedStack ==
  ASSUME TypeOK, stack # <<>>, NEW frame, Replace(frame)
  PROVE  /\ Len(stack) \in Nat \ {0}
         /\ Len(stack') = Len(stack)
         /\ stack'[Len(stack)] = frame
         /\ \A i \in 1 .. Len(stack) - 1 : stack'[i] = stack[i]
         /\ Top = stack[Len(stack)]
  <1> DEFINE S == TransactionFrame \cup {frame}
             front == Front(stack)
             n == Len(stack)
  <1>1. /\ front \in Seq(TransactionFrame)
        /\ n \in Nat \ {0} /\ Len(front) = n - 1
        /\ \A i \in 1 .. n - 1 : front[i] = stack[i]
        /\ Top = stack[n]
    BY TopOfStack
  <1>2. stack' = Append(front, frame)
    BY DEF Replace
  <1> HIDE DEF front, n
  <1>3. front \in Seq(S) /\ frame \in S
    BY <1>1
  <1> HIDE DEF S
  <1>4. /\ Len(stack') = n /\ stack'[n] = frame
        /\ \A i \in 1 .. n - 1 : stack'[i] = front[i]
    BY <1>1, <1>2, <1>3
  <1>5. QED BY <1>1, <1>4 DEF n

LEMMA PoppedStack ==
  ASSUME TypeOK, stack # <<>>, stack' = Front(stack)
  PROVE  /\ Len(stack) \in Nat \ {0}
         /\ Len(stack') = Len(stack) - 1
         /\ \A i \in 1 .. Len(stack) - 1 : stack'[i] = stack[i]
         /\ Top = stack[Len(stack)]
  <1> DEFINE front == Front(stack)
  <1>1. /\ Len(stack) \in Nat \ {0} /\ Len(front) = Len(stack) - 1
        /\ \A i \in 1 .. Len(stack) - 1 : front[i] = stack[i]
        /\ Top = stack[Len(stack)]
    BY TopOfStack
  <1>2. stack' = front
    OBVIOUS
  <1> HIDE DEF front
  <1>3. QED BY <1>1, <1>2

LEMMA WindowSame ==
  ASSUME WindowInv, UNCHANGED <<stack, mConfigurationTransactionInProgress>>
  PROVE  WindowInv'
  BY DEF WindowInv, WindowIsOpen, WindowsAreRestored, FieldsAreApplied

\* A transaction begins.
LEMMA WindowPush ==
  ASSUME TypeOK, WindowInv, NEW frame, stack' = Append(stack, frame),
         frame.pc = "apply", frame.fields # <<>> => frame.applies,
         frame.window <=> mConfigurationTransactionInProgress,
         mConfigurationTransactionInProgress' <=>
           (mConfigurationTransactionInProgress \/ frame.applies)
  PROVE  WindowInv'
  <1>1. /\ Len(stack) \in Nat /\ Len(stack') = Len(stack) + 1
        /\ stack'[Len(stack) + 1] = frame
        /\ \A i \in 1 .. Len(stack) : stack'[i] = stack[i]
    <2>1. stack \in Seq(TransactionFrame \cup {frame})
      BY DEF TypeOK
    <2>2. QED BY <2>1
  <1>2. UnderWay(frame) <=> frame.applies
    BY DEF UnderWay
  <1>3. WindowIsOpen'
    BY <1>1, <1>2 DEF WindowInv, WindowIsOpen
  <1>4. WindowsAreRestored'
    BY <1>1, <1>2 DEF WindowInv, WindowIsOpen, WindowsAreRestored
  <1>5. FieldsAreApplied'
    BY <1>1, <1>2 DEF WindowInv, FieldsAreApplied
  <1>6. QED BY <1>3, <1>4, <1>5 DEF WindowInv

\* A transaction goes on.
LEMMA WindowReplace ==
  ASSUME TypeOK, WindowInv, stack # <<>>, NEW frame, Replace(frame),
         UnderWay(Top), UnderWay(frame), frame.window = Top.window,
         UNCHANGED mConfigurationTransactionInProgress
  PROVE  WindowInv'
  <1> DEFINE n == Len(stack)
  <1>1. /\ n \in Nat \ {0} /\ Len(stack') = n /\ stack'[n] = frame
        /\ \A i \in 1 .. n - 1 : stack'[i] = stack[i]
        /\ Top = stack[n]
    BY ReplacedStack
  <1>2. \A i \in 1 .. n : /\ UnderWay(stack'[i]) <=> UnderWay(stack[i])
                          /\ stack'[i].window = stack[i].window
                          /\ stack'[i].fields = stack[i].fields \/ UnderWay(stack'[i])
    BY <1>1 DEF UnderWay
  <1> HIDE DEF n
  <1>3. Len(stack) = n /\ Len(stack') = n
    BY <1>1 DEF n
  <1>4. WindowIsOpen'
    BY <1>1, <1>2, <1>3 DEF WindowInv, WindowIsOpen
  <1>5. WindowsAreRestored'
    BY <1>1, <1>2, <1>3 DEF WindowInv, WindowsAreRestored
  <1>6. FieldsAreApplied'
    BY <1>1, <1>2, <1>3 DEF WindowInv, FieldsAreApplied
  <1>7. QED BY <1>4, <1>5, <1>6 DEF WindowInv

\* A transaction has applied its settings and restores the window.
LEMMA WindowConclude ==
  ASSUME TypeOK, WindowInv, stack # <<>>, NEW frame, Replace(frame),
         Top.pc # "observe", ~UnderWay(frame), frame.fields = <<>>,
         mConfigurationTransactionInProgress' =
           IF Top.applies THEN Top.window ELSE mConfigurationTransactionInProgress
  PROVE  WindowInv'
  <1> DEFINE n == Len(stack)
  <1>1. /\ n \in Nat \ {0} /\ Len(stack') = n /\ stack'[n] = frame
        /\ \A i \in 1 .. n - 1 : stack'[i] = stack[i]
        /\ Top = stack[n]
    BY ReplacedStack
  <1>2. UnderWay(Top) <=> Top.applies
    BY DEF UnderWay
  <1> HIDE DEF n
  <1>3. Len(stack) = n /\ Len(stack') = n
    BY <1>1 DEF n
  <1>4. mConfigurationTransactionInProgress' <=> \E j \in 1 .. n - 1 : UnderWay(stack[j])
    <2>1. CASE Top.applies
      BY <1>1, <1>2, <1>3, <2>1 DEF WindowInv, WindowsAreRestored
    <2>2. CASE ~Top.applies
      BY <1>1, <1>2, <1>3, <2>2 DEF WindowInv, WindowIsOpen
    <2>3. QED BY <2>1, <2>2
  <1>5. WindowIsOpen'
    BY <1>1, <1>3, <1>4 DEF WindowIsOpen
  <1>6. WindowsAreRestored'
    BY <1>1, <1>3 DEF WindowInv, WindowsAreRestored
  <1>7. FieldsAreApplied'
    BY <1>1, <1>3 DEF WindowInv, FieldsAreApplied
  <1>8. QED BY <1>5, <1>6, <1>7 DEF WindowInv

\* A transaction returns.
LEMMA WindowPop ==
  ASSUME TypeOK, WindowInv, stack # <<>>, stack' = Front(stack), ~UnderWay(Top),
         UNCHANGED mConfigurationTransactionInProgress
  PROVE  WindowInv'
  <1>1. /\ Len(stack) \in Nat \ {0} /\ Len(stack') = Len(stack) - 1
        /\ \A i \in 1 .. Len(stack) - 1 : stack'[i] = stack[i]
        /\ Top = stack[Len(stack)]
    BY PoppedStack
  <1>2. WindowIsOpen'
    BY <1>1 DEF WindowInv, WindowIsOpen
  <1>3. WindowsAreRestored'
    <2>1. \A i \in 1 .. Len(stack') : /\ i \in 1 .. Len(stack)
                                      /\ stack'[i] = stack[i]
                                      /\ \A j \in 1 .. i - 1 : stack'[j] = stack[j]
      BY <1>1
    <2>2. WindowsAreRestored
      BY DEF WindowInv
    <2>3. ASSUME NEW i \in 1 .. Len(stack'), UnderWay(stack'[i])
          PROVE  stack'[i].window <=> \E j \in 1 .. i - 1 : UnderWay(stack'[j])
      <3>1. stack[i].window <=> \E j \in 1 .. i - 1 : UnderWay(stack[j])
        BY <2>1, <2>2, <2>3 DEF WindowsAreRestored
      <3>2. \A j \in 1 .. i - 1 : stack'[j] = stack[j]
        BY <2>1
      <3>3. stack'[i] = stack[i]
        BY <2>1
      <3>4. QED BY <3>1, <3>2, <3>3
    <2>4. QED BY <2>3, Zenon DEF WindowsAreRestored
  <1>4. FieldsAreApplied'
    BY <1>1 DEF WindowInv, FieldsAreApplied
  <1>5. QED BY <1>2, <1>3, <1>4 DEF WindowInv

LEMMA BeginWindow ==
  ASSUME TypeOK, WindowInv, NEW c, NEW forced, Begin(c, forced)
  PROVE  WindowInv'
  <1> DEFINE frame == Frame(c, forced)
  <1>1. /\ frame.pc = "apply"
        /\ frame.applies = NeedsHardware(c, forced)
        /\ frame.window = mConfigurationTransactionInProgress
        /\ frame.fields = IF NeedsHardware(c, forced) THEN <<"baud", "framing">> ELSE <<>>
    BY DEF Frame
  <1>2. /\ stack' = Append(stack, frame)
        /\ mConfigurationTransactionInProgress' =
             (mConfigurationTransactionInProgress \/ NeedsHardware(c, forced))
    BY Zenon DEF Begin
  <1> HIDE DEF frame
  <1>3. frame.fields # <<>> => frame.applies
    BY <1>1, Zenon
  <1>4. mConfigurationTransactionInProgress' <=>
          (mConfigurationTransactionInProgress \/ frame.applies)
    BY <1>1, <1>2, Zenon
  <1>5. frame.window <=> mConfigurationTransactionInProgress
    BY <1>1, Zenon
  <1>6. QED BY <1>1, <1>2, <1>3, <1>4, <1>5, WindowPush

LEMMA OpenWithWindow ==
  ASSUME TypeOK, WindowInv, NEW c, OpenWith(c)
  PROVE  WindowInv'
  <1>1. CASE OpenSucceeds(c)
    <2>1. Begin(c, TRUE)
      BY <1>1, Zenon DEF OpenSucceeds
    <2>2. QED BY <2>1, BeginWindow
  <1>2. CASE OpenFails(c)
    <2>1. UNCHANGED <<stack, mConfigurationTransactionInProgress>>
      BY <1>2, Zenon DEF OpenFails, transactionVars
    <2>2. QED BY <2>1, WindowSame
  <1>3. QED BY <1>1, <1>2 DEF OpenWith

LEMMA ConfiguringWindow ==
  ASSUME TypeOK, WindowInv, Setters \/ Configure
  PROVE  WindowInv'
  <1> DEFINE Kept == UNCHANGED <<stack, mConfigurationTransactionInProgress>>
  <1>1. CASE Kept
    BY <1>1, WindowSame
  <1>2. ASSUME NEW c, BeginConfiguration(c) \/ ChangeEndpoint(c) PROVE WindowInv'
    <2>1. (\E forced : Begin(c, forced)) \/ OpenWith(c)
      BY <1>2, Zenon DEF BeginConfiguration, ChangeEndpoint
    <2>2. QED BY <2>1, BeginWindow, OpenWithWindow
  <1>3. ASSUME NEW c, StoreOnly(c) \/ NoOp(c) PROVE Kept
    BY <1>3, Zenon DEF StoreOnly, NoOp, transactionVars
  <1>4. ASSUME NEW c, ApplyConfiguration(c) PROVE WindowInv'
    <2> HIDE DEF Kept
    <2>1. QED BY <1>1, <1>2, <1>3, <1>4 DEF ApplyConfiguration
  <1>5. ASSUME NEW baud, SetBaudRate(baud) PROVE WindowInv'
    <2>1. \E c : StoreOnly(c) \/ ChangeEndpoint(c) \/ BeginConfiguration(c) \/ Kept
      BY <1>5, Zenon DEF SetBaudRate, transactionVars
    <2> HIDE DEF Kept
    <2>2. QED BY <1>1, <1>2, <1>3, <2>1
  <1>6. ASSUME NEW endpoint, SetDeviceName(endpoint) PROVE WindowInv'
    <2>1. (\E c : OpenWith(c)) \/ Kept
      BY <1>6, Zenon DEF SetDeviceName, transactionVars
    <2> HIDE DEF Kept
    <2>2. QED BY <1>1, <2>1, OpenWithWindow
  <1>7. QED BY <1>4, <1>5, <1>6, Zenon DEF Setters, Configure

LEMMA ApplyFieldWindow ==
  ASSUME TypeOK, WindowInv, ApplyField
  PROVE  WindowInv'
  <1> DEFINE field == Head(Top.fields)
             After(taken, raises) ==
               [Top EXCEPT
                  !.refused   = @ \/ ~taken,
                  !.pc        = IF raises THEN "erring" ELSE "apply",
                  !.fields    = IF raises THEN @ ELSE Tail(@),
                  !.effective = IF raises THEN @ ELSE [@ EXCEPT ![field] = port'[field]]]
  <1>1. /\ stack # <<>> /\ Top.fields # <<>>
        /\ UNCHANGED mConfigurationTransactionInProgress
        /\ \E taken, raises \in BOOLEAN : Replace(After(taken, raises))
    BY Zenon DEF ApplyField, transactionVars
  <1>2. Top \in TransactionFrame /\ UnderWay(Top)
    BY <1>1, TopOfStack DEF WindowInv, FieldsAreApplied
  <1>3. PICK taken \in BOOLEAN, raises \in BOOLEAN : Replace(After(taken, raises))
    BY <1>1
  <1> HIDE DEF field
  <1>4. UnderWay(After(taken, raises)) /\ After(taken, raises).window = Top.window
    BY <1>2 DEF UnderWay, TransactionFrame
  <1> HIDE DEF After
  <1>5. QED BY <1>1, <1>2, <1>3, <1>4, WindowReplace

LEMMA ErrorReturnsWindow ==
  ASSUME IInv, WindowInv, ErrorReturns
  PROVE  WindowInv' /\ mConfigurationTransactionInProgress
  <1> DEFINE field == Head(Top.fields)
             after == [Top EXCEPT !.pc = "apply", !.fields = Tail(@),
                                  !.effective = [@ EXCEPT ![field] = port[field]]]
  <1>1. /\ stack # <<>> /\ Top.pc = "erring"
        /\ UNCHANGED mConfigurationTransactionInProgress
        /\ Replace(after)
    BY Zenon DEF ErrorReturns
  <1>2. TypeOK
    BY DEF IInv
  <1>3. /\ Top \in TransactionFrame /\ Top = stack[Len(stack)]
        /\ Len(stack) \in Nat \ {0} /\ Len(stack) \in DOMAIN stack
    BY <1>1, <1>2, TopOfStack
  <1>4. Top.fields # <<>>
    BY <1>1, <1>3 DEF IInv, ErringHasField
  <1>5. UnderWay(Top)
    BY <1>3, <1>4 DEF WindowInv, FieldsAreApplied
  <1>6. mConfigurationTransactionInProgress
    BY <1>3, <1>5 DEF WindowInv, WindowIsOpen
  <1> HIDE DEF field
  <1>7. UnderWay(after) /\ after.window = Top.window
    BY <1>3, <1>5 DEF UnderWay, TransactionFrame
  <1> HIDE DEF after
  <1>8. WindowInv'
    BY <1>1, <1>2, <1>5, <1>7, WindowReplace
  <1>9. QED BY <1>6, <1>8

LEMMA ConcludeWindow ==
  ASSUME TypeOK, WindowInv, Conclude
  PROVE  WindowInv'
  <1> DEFINE changed == \/ HardwareChanged(Top)
                        \/ Top.requested.rxQueue # Top.previous.rxQueue
             status  == Status(changed)
             after   == [Top EXCEPT !.pc = "observe", !.changed = changed,
                                    !.status = status]
  <1>1. /\ stack # <<>> /\ Top.pc = "apply" /\ Top.fields = <<>>
        /\ Replace(after)
        /\ mConfigurationTransactionInProgress' =
             IF Top.applies THEN Top.window ELSE mConfigurationTransactionInProgress
    BY Zenon DEF Conclude, WindowAfter
  <1>2. Top \in TransactionFrame
    BY <1>1, TopOfStack
  <1> HIDE DEF changed, status
  <1>3. ~UnderWay(after) /\ after.fields = <<>>
    BY <1>1, <1>2 DEF UnderWay, TransactionFrame
  <1> HIDE DEF after
  <1>4. Top.pc # "observe"
    BY <1>1
  <1>5. QED BY <1>1, <1>3, <1>4, WindowConclude

LEMMA ObserveWindow ==
  ASSUME TypeOK, WindowInv, Observe
  PROVE  WindowInv'
  <1>1. /\ stack # <<>> /\ stack' = Front(stack) /\ Top.pc = "observe"
        /\ UNCHANGED mConfigurationTransactionInProgress
    BY Zenon DEF Observe, transactionVars
  <1>2. ~UnderWay(Top)
    BY <1>1 DEF UnderWay
  <1>3. QED BY <1>1, <1>2, WindowPop

LEMMA NextWindow == IInv /\ WindowInv /\ [Next]_vars => WindowInv'
  <1> SUFFICES ASSUME IInv, WindowInv, [Next]_vars PROVE WindowInv'
    OBVIOUS
  <1>1. TypeOK
    BY DEF IInv
  <1>2. CASE Open
    BY <1>1, <1>2, OpenWithWindow DEF Open
  <1>3. CASE Close \/ PortError \/ WriteRaw \/ UNCHANGED vars
    <2>1. UNCHANGED <<stack, mConfigurationTransactionInProgress>>
      BY <1>3, Zenon DEF Close, PortError, WriteRaw, vars, transactionVars
    <2>2. QED BY <2>1, WindowSame
  <1>4. QED
    BY <1>1, <1>2, <1>3, ConfiguringWindow, ApplyFieldWindow, ErrorReturnsWindow,
       ConcludeWindow, ObserveWindow, Zenon DEF Next

\* No port error of a transaction that is being applied becomes an observation of its
\* own, whatever transactions its receivers ran in between: restoring the window
\* (komportserial.cpp:735-739) keeps it open exactly while one is being applied.
THEOREM ErrorsStayInside == Spec => TransactionErrorsStayInside
  <1>1. Init => WindowInv
    BY DEF Init, WindowInv, WindowIsOpen, WindowsAreRestored, FieldsAreApplied
  <1> DEFINE Silent ==
        (stack # <<>> /\ Top.pc = "erring" /\ stack' # stack /\ Len(stack') = Len(stack))
          => emitted' = <<>>
  <1>2. IInv /\ WindowInv /\ [Next]_vars => [Silent]_vars
    <2> SUFFICES ASSUME IInv, WindowInv, Next, stack # <<>>, Top.pc = "erring",
                        stack' # stack, Len(stack') = Len(stack)
                 PROVE  emitted' = <<>>
      OBVIOUS
    <2>1. CASE ErrorReturns
      BY <2>1, ErrorReturnsWindow, Zenon DEF ErrorReturns
    <2>2. ASSUME NEW c, NEW forced, Begin(c, forced) PROVE FALSE
      <3>1. stack' = Append(stack, Frame(c, forced))
        BY <2>2, Zenon DEF Begin
      <3>2. Len(stack) \in Nat /\ Len(stack') = Len(stack) + 1
        <4> DEFINE frame == Frame(c, forced)
        <4> HIDE DEF frame
        <4>1. stack' = Append(stack, frame)
          BY <3>1 DEF frame
        <4>2. stack \in Seq(TransactionFrame \cup {frame})
          BY DEF IInv, TypeOK
        <4>3. QED BY <4>1, <4>2
      <3>3. QED BY <3>2
    <2>3. ASSUME NEW c, OpenWith(c) PROVE FALSE
      <3>1. Begin(c, TRUE) \/ stack' = stack
        BY <2>3, Zenon DEF OpenWith, OpenSucceeds, OpenFails
      <3>2. QED BY <2>2, <3>1
    <2>4. ASSUME NEW c, StoreOnly(c) \/ NoOp(c) \/ BeginConfiguration(c)
                          \/ ChangeEndpoint(c)
          PROVE  emitted' = <<>>
      BY <2>3, <2>4, Zenon DEF StoreOnly, NoOp, BeginConfiguration, ChangeEndpoint
    <2>5. CASE Setters \/ Configure
      <3>1. ASSUME NEW c, ApplyConfiguration(c) PROVE emitted' = <<>>
        BY <2>4, <3>1 DEF ApplyConfiguration
      <3>2. ASSUME NEW baud, SetBaudRate(baud) PROVE emitted' = <<>>
        BY <2>4, <3>2, Zenon DEF SetBaudRate
      <3>3. ASSUME NEW endpoint, SetDeviceName(endpoint) PROVE emitted' = <<>>
        BY <2>3, <3>3, Zenon DEF SetDeviceName
      <3>4. QED BY <2>5, <3>1, <3>2, <3>3, Zenon DEF Setters, Configure
    <2>6. CASE Open
      BY <2>3, <2>6 DEF Open
    <2>7. CASE ApplyField \/ Conclude \/ Observe
      BY <2>7, Zenon DEF ApplyField, Conclude, Observe
    <2>8. CASE Close \/ PortError \/ WriteRaw
      BY <2>8, Zenon DEF Close, PortError, WriteRaw
    <2>9. QED BY <2>1, <2>5, <2>6, <2>7, <2>8, Zenon DEF Next
  <1>3. QED BY <1>1, <1>2, NextWindow, Inductive, PTL DEF Spec, TransactionErrorsStayInside

-----------------------------------------------------------------------------
(* What is announced is in force.  As long as no call comes from inside a  *)
(* transaction there is at most one, on an open device; it knows which     *)
(* settings it has read back, and what was announced before it began.      *)

IsInForce(c) == HardwareEquals(c, InForce)

HardwareOf(c) == [endpoint |-> c.endpoint, baud |-> c.baud, framing |-> c.framing]

BothFields == <<"baud", "framing">>
OneField   == <<"framing">>

ReadBack(f) ==
  /\ f.fields \in {BothFields, OneField, <<>>}
  /\ f.effective.endpoint = mRequested.endpoint
  /\ f.fields # BothFields /\ f.applies => f.effective.baud = port.baud
  /\ f.fields = <<>> /\ f.applies => f.effective.framing = port.framing

\* A transaction that applies nothing began while all was in force.
NothingToApply(f) ==
  ~f.applies => f.fields = <<>> /\ ~f.forced /\ IsInForce(mEffective)

\* Only the transaction of an opening has no announcement before it.
AnnouncedBefore(f) == ~f.forced => reported = {HardwareOf(f.previous)}

Concluded(f) ==
  f.pc = "observe" => IsInForce(mEffective) /\ (f.changed \/ reported = {InForce})

FrameTruth(f) == ReadBack(f) /\ NothingToApply(f) /\ AnnouncedBefore(f) /\ Concluded(f)

IdleTruth == Idle => reported = {InForce} /\ IsInForce(mEffective)

BusyTruth == stack # <<>> => Len(stack) = 1 /\ port.open /\ FrameTruth(stack[1])

ForceInv == ~reentered => IdleTruth /\ BusyTruth

\* A transaction begins on an idle transport: with an opening, or while all is in force.
LEMMA BeginForce ==
  ASSUME TypeOK, NEW c \in Configuration, NEW forced \in BOOLEAN, Begin(c, forced),
         stack = <<>>, port'.open,
         ~forced => /\ IsInForce(mEffective) /\ reported = {InForce}
                    /\ c.endpoint = mEffective.endpoint
                    /\ UNCHANGED <<port, reported>>
  PROVE  ForceInv'
  <1>0. PICK frame : frame = Frame(c, forced)
    OBVIOUS
  <1>1. /\ frame.pc = "apply" /\ frame.forced = forced /\ frame.previous = mEffective
        /\ frame.applies = NeedsHardware(c, forced)
        /\ frame.fields = IF NeedsHardware(c, forced) THEN BothFields ELSE <<>>
        /\ frame.effective = [mEffective EXCEPT !.endpoint = c.endpoint]
    BY <1>0 DEF Frame, BothFields
  <1>2. /\ stack' = Append(stack, frame)
        /\ mRequested' = Normalised(c) /\ mEffective' = mEffective
    BY <1>0, Zenon DEF Begin
  <1>3. /\ mEffective \in SoundConfiguration
        /\ Normalised(c) \in SoundConfiguration
        /\ Normalised(c).endpoint = c.endpoint
    <2>1. Normalised(c) \in SoundConfiguration /\ mEffective \in SoundConfiguration
      BY NormalisedType DEF TypeOK
    <2>2. Normalised(c).endpoint = c.endpoint
      BY DEF Normalised, Configuration
    <2>3. QED BY <2>1, <2>2
  <1>4. frame.effective.endpoint = c.endpoint
    BY <1>1, <1>3 DEF SoundConfiguration
  <1>5. Len(stack') = 1 /\ stack'[1] = frame /\ stack' # <<>>
    BY <1>2
  <1>6. ReadBack(frame)'
    BY <1>1, <1>2, <1>3, <1>4 DEF ReadBack, BothFields, OneField
  <1>7. ASSUME ~NeedsHardware(c, forced)
        PROVE  ~forced /\ IsInForce(mEffective)'
    <2>1. ~forced
      BY <1>7 DEF NeedsHardware
    <2>2. InForce'.endpoint = c.endpoint /\ InForce'.baud = port.baud
          /\ InForce'.framing = port.framing
      BY <1>2, <1>3, <2>1 DEF InForce
    <2>3. QED BY <1>2, <2>1, <2>2 DEF IsInForce, HardwareEquals, InForce
  <1>8. NothingToApply(frame)'
    BY <1>1, <1>7 DEF NothingToApply
  <1>9. AnnouncedBefore(frame)'
    <2> SUFFICES ASSUME ~forced PROVE reported = {HardwareOf(mEffective)}
      BY <1>1 DEF AnnouncedBefore
    <2>1. QED BY DEF IsInForce, HardwareEquals, HardwareOf, InForce
  <1>10. Concluded(frame)'
    BY <1>1 DEF Concluded
  <1>11. BusyTruth' /\ IdleTruth'
    BY <1>5, <1>6, <1>8, <1>9, <1>10 DEF BusyTruth, IdleTruth, Idle, FrameTruth
  <1>12. QED BY <1>11 DEF ForceInv

\* What a call does to ForceInv while a transaction is under way: nothing is claimed.
LEMMA ReentryForce ==
  ASSUME NEW c, Called(c), reentered \/ stack # <<>>
  PROVE  ForceInv'
  BY DEF ForceInv, Called

LEMMA CallFromOutside ==
  ASSUME NEW c, Called(c), ForceInv, ~(reentered \/ stack # <<>>)
  PROVE  stack = <<>> /\ IdleTruth
  BY DEF ForceInv

LEMMA ClosedForce ==
  ASSUME stack = <<>>, UNCHANGED stack, ~port'.open
  PROVE  ForceInv'
  BY DEF ForceInv, IdleTruth, BusyTruth, Idle

LEMMA SameForce ==
  ASSUME TypeOK, stack = <<>>, IdleTruth,
         UNCHANGED <<mEffective, port, reported, stack>>,
         port.open => mRequested'.endpoint = mRequested.endpoint
  PROVE  ForceInv'
  <1>1. CASE port.open
    <2>1. InForce' = InForce
      BY <1>1 DEF InForce
    <2>2. IdleTruth'
      BY <1>1, <2>1 DEF IdleTruth, Idle, IsInForce, HardwareEquals
    <2>3. QED BY <2>2 DEF ForceInv, BusyTruth
  <1>2. CASE ~port.open
    BY <1>2, ClosedForce
  <1>3. QED BY <1>1, <1>2

LEMMA OpenWithForce ==
  ASSUME TypeOK, stack = <<>>, NEW c \in Configuration, OpenWith(c)
  PROVE  ForceInv'
  <1>1. CASE OpenSucceeds(c)
    <2>1. Begin(c, TRUE)
      BY <1>1, Zenon DEF OpenSucceeds
    <2>2. port'.open
      <3>1. \E baud \in Bauds, framing \in Framings :
              port' = [open |-> TRUE, baud |-> baud, framing |-> framing]
        BY <1>1, Zenon DEF OpenSucceeds
      <3>2. QED BY <3>1
    <2>3. QED BY <2>1, <2>2, BeginForce
  <1>2. CASE OpenFails(c)
    <2>1. UNCHANGED stack /\ port' = [port EXCEPT !.open = FALSE]
      BY <1>2, Zenon DEF OpenFails
    <2>2. ~port'.open
      BY <2>1 DEF TypeOK
    <2>3. QED BY <2>1, <2>2, ClosedForce
  <1>3. QED BY <1>1, <1>2 DEF OpenWith

LEMMA ConfigureForce ==
  ASSUME TypeOK, stack = <<>>, IdleTruth, NEW c \in Configuration,
         StoreOnly(c) \/ ChangeEndpoint(c) \/ NoOp(c) \/ BeginConfiguration(c)
  PROVE  ForceInv'
  <1>1. CASE StoreOnly(c)
    BY <1>1, ClosedForce DEF StoreOnly
  <1>2. CASE ChangeEndpoint(c)
    BY <1>2, OpenWithForce DEF ChangeEndpoint
  <1>3. CASE NoOp(c)
    BY <1>3, SameForce DEF NoOp
  <1>4. CASE BeginConfiguration(c)
    <2>1. /\ port.open /\ c.endpoint = mEffective.endpoint /\ Begin(c, FALSE)
          /\ UNCHANGED <<port, reported>>
      BY <1>4, Zenon DEF BeginConfiguration
    <2>2. IsInForce(mEffective) /\ reported = {InForce}
      BY <2>1 DEF IdleTruth, Idle
    <2>3. QED BY <2>1, <2>2, BeginForce
  <1>5. QED BY <1>1, <1>2, <1>3, <1>4

LEMMA ApplyConfigurationForce ==
  ASSUME IInv, ForceInv, NEW c \in Configuration, ApplyConfiguration(c)
  PROVE  ForceInv'
  <1>1. CASE reentered \/ stack # <<>>
    BY <1>1, ReentryForce DEF ApplyConfiguration
  <1>2. CASE ~(reentered \/ stack # <<>>)
    BY <1>2, CallFromOutside, ConfigureForce DEF ApplyConfiguration, IInv
  <1>3. QED BY <1>1, <1>2

LEMMA SetBaudRateForce ==
  ASSUME IInv, ForceInv, NEW baud \in Bauds \cup {Unusable}, SetBaudRate(baud)
  PROVE  ForceInv'
  <1> DEFINE c == [mRequested EXCEPT !.baud = baud]
  <1>1. c \in Configuration /\ c.endpoint = mRequested.endpoint /\ TypeOK
    BY DEF IInv, TypeOK, Configuration
  <1>2. Called(c) /\ (\/ StoreOnly(c) \/ ChangeEndpoint(c) \/ BeginConfiguration(c)
                      \/ mRequested' = c /\ UNCHANGED <<mEffective, port, stack, reported>>)
    BY Zenon DEF SetBaudRate
  <1> HIDE DEF c
  <1>3. CASE reentered \/ stack # <<>>
    BY <1>2, <1>3, ReentryForce
  <1>4. CASE ~(reentered \/ stack # <<>>)
    <2>1. stack = <<>> /\ IdleTruth
      BY <1>2, <1>4, CallFromOutside
    <2>2. QED BY <1>1, <1>2, <2>1, ConfigureForce, SameForce
  <1>5. QED BY <1>3, <1>4

LEMMA SetDeviceNameForce ==
  ASSUME IInv, ForceInv, NEW endpoint \in Endpoints, SetDeviceName(endpoint)
  PROVE  ForceInv'
  <1> DEFINE c == [mRequested EXCEPT !.endpoint = endpoint]
             a == [asked EXCEPT !.endpoint = endpoint]
  <1>1. c \in Configuration /\ c.endpoint = endpoint /\ TypeOK
    BY DEF IInv, TypeOK, Configuration
  <1>2. Called(a) /\ (\/ OpenWith(c)
                      \/ /\ ~(port.open /\ endpoint # mRequested.endpoint)
                         /\ mRequested' = c
                         /\ UNCHANGED <<mEffective, port, stack, reported>>)
    BY Zenon DEF SetDeviceName
  <1> HIDE DEF c, a
  <1>3. CASE reentered \/ stack # <<>>
    BY <1>2, <1>3, ReentryForce
  <1>4. CASE ~(reentered \/ stack # <<>>)
    <2>1. stack = <<>> /\ IdleTruth
      BY <1>2, <1>4, CallFromOutside
    <2>2. QED BY <1>1, <1>2, <2>1, OpenWithForce, SameForce
  <1>5. QED BY <1>3, <1>4

LEMMA ConfiguringForce ==
  ASSUME IInv, ForceInv, Setters \/ Configure
  PROVE  ForceInv'
  <1>1. ASSUME NEW framing \in Framings,
               ApplyConfiguration([mRequested EXCEPT !.framing = framing])
        PROVE  ForceInv'
    <2>1. [mRequested EXCEPT !.framing = framing] \in Configuration
      BY DEF IInv, TypeOK, Configuration
    <2>2. QED BY <1>1, <2>1, ApplyConfigurationForce
  <1>2. ASSUME NEW size \in RxQueues,
               ApplyConfiguration([mRequested EXCEPT !.rxQueue = size])
        PROVE  ForceInv'
    <2>1. [mRequested EXCEPT !.rxQueue = size] \in Configuration
      BY DEF IInv, TypeOK, Configuration
    <2>2. QED BY <1>2, <2>1, ApplyConfigurationForce
  <1>3. ASSUME NEW endpoint \in Endpoints, NEW baud \in Bauds \cup {Unusable},
               NEW framing \in Framings, NEW size \in RxQueues,
               ApplyConfiguration([endpoint |-> endpoint, baud |-> baud,
                                   framing |-> framing, rxQueue |-> size])
        PROVE  ForceInv'
    <2>1. [endpoint |-> endpoint, baud |-> baud, framing |-> framing, rxQueue |-> size]
             \in Configuration
      BY DEF Configuration
    <2>2. QED BY <1>3, <2>1, ApplyConfigurationForce
  <1>4. QED BY <1>1, <1>2, <1>3, SetBaudRateForce, SetDeviceNameForce, Zenon
            DEF Setters, Configure

LEMMA OpenForce ==
  ASSUME IInv, ForceInv, Open
  PROVE  ForceInv'
  <1>1. mRequested \in Configuration /\ TypeOK
    BY DEF IInv, TypeOK
  <1>2. CASE reentered \/ stack # <<>>
    BY <1>2, ReentryForce DEF Open
  <1>3. CASE ~(reentered \/ stack # <<>>)
    BY <1>1, <1>3, OpenWithForce DEF Open
  <1>4. QED BY <1>2, <1>3

LEMMA CloseForce ==
  ASSUME IInv, ForceInv, Close
  PROVE  ForceInv'
  <1>1. Called(asked) /\ UNCHANGED stack /\ port' = [port EXCEPT !.open = FALSE]
    BY Zenon DEF Close
  <1>2. ~port'.open
    BY <1>1 DEF IInv, TypeOK
  <1>3. QED BY <1>1, <1>2, ReentryForce, ClosedForce

LEMMA WriteRawForce ==
  ASSUME IInv, ForceInv, WriteRaw
  PROVE  ForceInv'
  <1>1. Called(asked) /\ UNCHANGED <<mRequested, mEffective, port, reported, stack>>
    BY Zenon DEF WriteRaw
  <1>2. CASE reentered \/ stack # <<>>
    BY <1>1, <1>2, ReentryForce
  <1>3. CASE ~(reentered \/ stack # <<>>)
    BY <1>1, <1>3, CallFromOutside, SameForce DEF IInv
  <1>4. QED BY <1>2, <1>3

\* The one transaction there is goes on.
LEMMA OnlyTransaction ==
  ASSUME TypeOK, ForceInv, ~reentered, stack # <<>>
  PROVE  /\ Top \in TransactionFrame /\ Len(stack) = 1 /\ port.open /\ FrameTruth(Top)
         /\ Top.fields # <<>> => Top.applies
  <1>1. Len(stack) = 1 /\ port.open /\ FrameTruth(stack[1])
    BY DEF ForceInv, BusyTruth
  <1>2. Top = stack[Len(stack)] /\ Top \in TransactionFrame
    BY TopOfStack
  <1>3. FrameTruth(Top)
    BY <1>1, <1>2
  <1>4. QED BY <1>1, <1>2, <1>3 DEF FrameTruth, NothingToApply

LEMMA ReplaceForce ==
  ASSUME TypeOK, ForceInv, ~reentered, stack # <<>>, NEW frame, Replace(frame),
         port'.open, FrameTruth(frame)'
  PROVE  ForceInv'
  <1>1. Len(stack) = 1
    BY OnlyTransaction
  <1>2. Len(stack') = 1 /\ stack'[1] = frame
    BY <1>1, ReplacedStack
  <1>3. stack' # <<>>
    <2>1. Len(<<>>) = 0 /\ 0 # 1
      OBVIOUS
    <2>2. QED BY <1>2, <2>1, Zenon
  <1>4. BusyTruth' /\ IdleTruth'
    BY <1>2, <1>3 DEF BusyTruth, IdleTruth, Idle
  <1>5. QED BY <1>4 DEF ForceInv

\* What reading one setting back adds.
LEMMA NextField ==
  ASSUME NEW f \in TransactionFrame, FrameTruth(f), f.fields # <<>>, f.applies,
         NEW g \in TransactionFrame,
         UNCHANGED <<mRequested, reported>>,
         g.applies = f.applies, g.forced = f.forced, g.previous = f.previous,
         g.pc # "observe",
         \/ g.fields = f.fields /\ g.effective = f.effective
         \/ /\ g.fields = Tail(f.fields)
            /\ g.effective = [f.effective EXCEPT ![Head(f.fields)] = port'[Head(f.fields)]],
         f.fields = OneField => port'.baud = port.baud
  PROVE  FrameTruth(g)'
  <1>1. /\ f.fields \in {BothFields, OneField}
        /\ f.effective.endpoint = mRequested.endpoint
        /\ f.fields = OneField => f.effective.baud = port.baud
        /\ f.effective \in SoundConfiguration
    BY DEF FrameTruth, ReadBack, TransactionFrame, BothFields, OneField
  <1>2. ReadBack(g)'
    <2>1. CASE g.fields = f.fields /\ g.effective = f.effective
      BY <1>1, <2>1 DEF ReadBack, BothFields, OneField
    <2>2. CASE /\ g.fields = Tail(f.fields)
               /\ g.effective = [f.effective EXCEPT ![Head(f.fields)] = port'[Head(f.fields)]]
      <3>1. CASE f.fields = BothFields
        <4>1. Head(f.fields) = "baud" /\ g.fields = OneField
          BY <2>2, <3>1 DEF BothFields, OneField
        <4>2. g.effective.baud = port'.baud /\ g.effective.endpoint = f.effective.endpoint
          BY <1>1, <2>2, <4>1 DEF SoundConfiguration
        <4>3. QED BY <1>1, <4>1, <4>2 DEF ReadBack, BothFields, OneField
      <3>2. CASE f.fields = OneField
        <4>1. Head(f.fields) = "framing" /\ g.fields = <<>>
          BY <2>2, <3>2 DEF OneField
        <4>2. /\ g.effective.framing = port'.framing
              /\ g.effective.endpoint = f.effective.endpoint
              /\ g.effective.baud = f.effective.baud
          BY <1>1, <2>2, <4>1 DEF SoundConfiguration
        <4>3. QED BY <1>1, <3>2, <4>1, <4>2 DEF ReadBack, BothFields, OneField
      <3>3. QED BY <1>1, <3>1, <3>2
    <2>3. QED BY <2>1, <2>2
  <1>3. NothingToApply(g)' /\ AnnouncedBefore(g)' /\ Concluded(g)'
    BY DEF FrameTruth, NothingToApply, AnnouncedBefore, Concluded
  <1>4. QED BY <1>2, <1>3 DEF FrameTruth

LEMMA ApplyFieldForce ==
  ASSUME IInv, ForceInv, ~reentered, ApplyField
  PROVE  ForceInv'
  <1> DEFINE field == Head(Top.fields)
             After(taken, raises) ==
               [Top EXCEPT
                  !.refused   = @ \/ ~taken,
                  !.pc        = IF raises THEN "erring" ELSE "apply",
                  !.fields    = IF raises THEN @ ELSE Tail(@),
                  !.effective = IF raises THEN @ ELSE [@ EXCEPT ![field] = port'[field]]]
  <1>1. /\ stack # <<>> /\ Top.fields # <<>>
        /\ UNCHANGED <<mRequested, reported>>
    BY Zenon DEF ApplyField
  <1>2. /\ TypeOK /\ Top \in TransactionFrame /\ port.open /\ FrameTruth(Top)
        /\ Top.applies
    BY <1>1, OnlyTransaction DEF IInv
  <1>3. PICK taken \in BOOLEAN, raises \in BOOLEAN,
             value \in IF field = "baud" THEN Bauds ELSE {Top.requested.framing} :
          /\ port' = IF taken THEN [port EXCEPT ![field] = value] ELSE port
          /\ Replace(After(taken, raises))
    BY Zenon DEF ApplyField
  <1>4. field \in {"baud", "framing"} /\ Tail(Top.fields) \in Seq({"baud", "framing"})
    BY <1>1, <1>2 DEF TransactionFrame
  <1>5. Top.fields = OneField => field = "framing"
    BY DEF OneField
  <1>6. /\ port'.open /\ port' \in [open : BOOLEAN, baud : Bauds, framing : Framings]
        /\ Top.fields = OneField => port'.baud = port.baud
    <2> HIDE DEF field
    <2>1. port \in [open : BOOLEAN, baud : Bauds, framing : Framings]
      BY <1>2 DEF TypeOK
    <2>2. Top.requested.framing \in Framings
      BY <1>2 DEF TransactionFrame, SoundConfiguration
    <2>3. CASE field = "baud"
      BY <1>2, <1>3, <1>5, <2>1, <2>3
    <2>4. CASE field = "framing"
      BY <1>2, <1>3, <2>1, <2>2, <2>4
    <2>5. QED BY <1>4, <2>3, <2>4
  <1>7. [Top.effective EXCEPT ![field] = port'[field]] \in SoundConfiguration
    <2> HIDE DEF field
    <2>1. Top.effective \in SoundConfiguration
      BY <1>2 DEF TransactionFrame
    <2>2. CASE field = "baud"
      BY <1>6, <2>1, <2>2 DEF SoundConfiguration
    <2>3. CASE field = "framing"
      BY <1>6, <2>1, <2>3 DEF SoundConfiguration
    <2>4. QED BY <1>4, <2>2, <2>3
  <1>8. PICK g : g = After(taken, raises)
    OBVIOUS
  <1>9. /\ g \in TransactionFrame /\ g.applies = Top.applies /\ g.forced = Top.forced
        /\ g.previous = Top.previous /\ g.pc # "observe"
        /\ \/ g.fields = Top.fields /\ g.effective = Top.effective
           \/ /\ g.fields = Tail(Top.fields)
              /\ g.effective = [Top.effective EXCEPT ![field] = port'[field]]
    <2> HIDE DEF field
    <2>1. CASE raises
      BY <1>2, <1>8, <2>1 DEF TransactionFrame
    <2>2. CASE ~raises
      BY <1>2, <1>4, <1>7, <1>8, <2>2 DEF TransactionFrame
    <2>3. QED BY <2>1, <2>2
  <1> HIDE DEF After
  <1>10. FrameTruth(g)'
    BY <1>1, <1>2, <1>6, <1>9, NextField
  <1> HIDE DEF field
  <1>11. Replace(g)
    BY <1>3, <1>8
  <1>12. QED BY <1>1, <1>2, <1>6, <1>10, <1>11, ReplaceForce

LEMMA ErrorReturnsForce ==
  ASSUME IInv, ForceInv, ~reentered, ErrorReturns
  PROVE  ForceInv'
  <1> DEFINE field == Head(Top.fields)
             after == [Top EXCEPT !.pc = "apply", !.fields = Tail(@),
                                  !.effective = [@ EXCEPT ![field] = port[field]]]
  <1>1. /\ stack # <<>> /\ Top.pc = "erring" /\ Replace(after)
        /\ UNCHANGED <<mRequested, port, reported>>
    BY Zenon DEF ErrorReturns
  <1>2. Top.fields # <<>>
    BY <1>1, TopOfStack DEF IInv, ErringHasField
  <1>3. /\ TypeOK /\ Top \in TransactionFrame /\ port.open /\ FrameTruth(Top)
        /\ Top.applies
    BY <1>1, <1>2, OnlyTransaction DEF IInv
  <1>4. field \in {"baud", "framing"} /\ Tail(Top.fields) \in Seq({"baud", "framing"})
    BY <1>2, <1>3 DEF TransactionFrame
  <1>5. [Top.effective EXCEPT ![field] = port[field]] \in SoundConfiguration
    <2> HIDE DEF field
    <2>1. Top.effective \in SoundConfiguration
          /\ port \in [open : BOOLEAN, baud : Bauds, framing : Framings]
      BY <1>3 DEF TransactionFrame, TypeOK
    <2>2. CASE field = "baud"
      BY <2>1, <2>2 DEF SoundConfiguration
    <2>3. CASE field = "framing"
      BY <2>1, <2>3 DEF SoundConfiguration
    <2>4. QED BY <1>4, <2>2, <2>3
  <1>6. PICK g : g = after
    OBVIOUS
  <1>7. /\ g \in TransactionFrame /\ g.applies = Top.applies /\ g.forced = Top.forced
        /\ g.previous = Top.previous /\ g.pc # "observe"
        /\ g.fields = Tail(Top.fields)
        /\ g.effective = [Top.effective EXCEPT ![field] = port'[field]]
    <2> HIDE DEF field
    <2>1. QED BY <1>1, <1>3, <1>4, <1>5, <1>6 DEF TransactionFrame
  <1> HIDE DEF after
  <1>8. FrameTruth(g)'
    BY <1>1, <1>2, <1>3, <1>7, NextField
  <1>9. Replace(g) /\ port'.open
    BY <1>1, <1>3, <1>6
  <1>10. QED BY <1>1, <1>3, <1>8, <1>9, ReplaceForce

LEMMA ConcludeForce ==
  ASSUME IInv, ForceInv, ~reentered, Conclude
  PROVE  ForceInv'
  <1> DEFINE changed == \/ HardwareChanged(Top)
                        \/ Top.requested.rxQueue # Top.previous.rxQueue
             status  == Status(changed)
             after   == [Top EXCEPT !.pc = "observe", !.changed = changed,
                                    !.status = status]
  <1>1. /\ stack # <<>> /\ Top.fields = <<>> /\ Replace(after)
        /\ mEffective' = NewEffective
        /\ UNCHANGED <<mRequested, port, reported>>
    BY Zenon DEF Conclude
  <1>2. TypeOK /\ Top \in TransactionFrame /\ port.open /\ FrameTruth(Top)
    BY <1>1, OnlyTransaction DEF IInv
  <1>3. IsInForce(NewEffective) /\ (~Top.applies => ~Top.forced)
    <2> DEFINE e == IF Top.applies THEN Top.effective ELSE mEffective
    <2>1. e \in SoundConfiguration
      BY <1>2 DEF TransactionFrame, TypeOK
    <2>2. e.baud = port.baud /\ e.framing = port.framing
      BY <1>1, <1>2
         DEF FrameTruth, ReadBack, NothingToApply, BothFields, IsInForce, HardwareEquals,
             InForce
    <2>3. NewEffective = [e EXCEPT !.rxQueue = Top.requested.rxQueue,
                                   !.endpoint = mRequested.endpoint]
      BY Zenon DEF NewEffective
    <2>4. ~Top.applies => ~Top.forced
      BY <1>2 DEF FrameTruth, NothingToApply
    <2> HIDE DEF e
    <2>5. /\ NewEffective.endpoint = mRequested.endpoint
          /\ NewEffective.baud = e.baud /\ NewEffective.framing = e.framing
      BY <2>1, <2>3 DEF SoundConfiguration
    <2>6. QED BY <2>2, <2>4, <2>5 DEF IsInForce, HardwareEquals, InForce
  <1>4. InForce' = InForce
    BY <1>1 DEF InForce
  <1>5. IsInForce(mEffective)'
    BY <1>1, <1>3, <1>4 DEF IsInForce, HardwareEquals
  <1>6. changed \/ reported = {InForce}
    <2> SUFFICES ASSUME ~changed PROVE reported = {InForce}
      OBVIOUS
    <2>1. ~Top.forced /\ HardwareEquals(NewEffective, Top.previous)
      BY DEF HardwareChanged
    <2>2. reported = {HardwareOf(Top.previous)}
      BY <1>2, <2>1 DEF FrameTruth, AnnouncedBefore
    <2>3. HardwareOf(Top.previous) = InForce
      BY <1>3, <2>1 DEF IsInForce, HardwareEquals, HardwareOf, InForce
    <2>4. QED BY <2>2, <2>3
  <1>7. changed \in BOOLEAN
    BY Zenon DEF HardwareChanged
  <1>8. PICK g : g = after
    OBVIOUS
  <1>9. PICK c \in BOOLEAN : c = changed
    BY <1>7
  <1>10. /\ g.fields = <<>> /\ g.applies = Top.applies /\ g.forced = Top.forced
        /\ g.previous = Top.previous /\ g.effective = Top.effective
        /\ g.changed = c
    <2> HIDE DEF changed, status
    <2>1. QED BY <1>1, <1>2, <1>8, <1>9 DEF TransactionFrame
  <1> HIDE DEF after, changed
  <1>11. FrameTruth(g)'
    <2>1. ReadBack(g)'
      BY <1>1, <1>2, <1>10 DEF FrameTruth, ReadBack, BothFields, OneField
    <2>2. NothingToApply(g)'
      BY <1>3, <1>5, <1>10 DEF NothingToApply
    <2>3. AnnouncedBefore(g)'
      BY <1>1, <1>2, <1>10 DEF FrameTruth, AnnouncedBefore
    <2>4. Concluded(g)'
      BY <1>1, <1>4, <1>5, <1>6, <1>10, <1>9 DEF Concluded
    <2>5. QED BY <2>1, <2>2, <2>3, <2>4 DEF FrameTruth
  <1>12. Replace(g) /\ port'.open
    BY <1>1, <1>2, <1>8
  <1>13. QED BY <1>1, <1>2, <1>11, <1>12, ReplaceForce

LEMMA ObserveForce ==
  ASSUME IInv, ForceInv, ~reentered, Observe
  PROVE  ForceInv'
  <1>1. /\ stack # <<>> /\ Top.pc = "observe" /\ stack' = Front(stack)
        /\ UNCHANGED <<mRequested, mEffective, port>>
        /\ mCurrentActivationId # 0 =>
             reported' = IF Top.changed THEN {InForce} ELSE reported
    BY Zenon DEF Observe
  <1>2. TypeOK /\ Len(stack) = 1 /\ port.open /\ FrameTruth(Top)
    BY <1>1, OnlyTransaction DEF IInv
  <1>3. mCurrentActivationId # 0
    BY <1>2 DEF IInv, OpenIsLive
  <1>4. InForce' = InForce
    BY <1>1 DEF InForce
  <1>5. reported' = {InForce} /\ IsInForce(mEffective)
    BY <1>1, <1>2, <1>3 DEF FrameTruth, Concluded
  <1>6. stack' = <<>>
    <2>1. Len(stack') = 0 /\ stack' \in Seq(TransactionFrame)
      BY <1>1, <1>2, PoppedStack, TopOfStack
    <2>2. QED BY <2>1
  <1>7. IdleTruth' /\ BusyTruth'
    BY <1>1, <1>4, <1>5, <1>6 DEF IdleTruth, BusyTruth, IsInForce, HardwareEquals
  <1>8. QED BY <1>7 DEF ForceInv

LEMMA PortErrorForce ==
  ASSUME IInv, ForceInv, ~reentered, PortError
  PROVE  ForceInv'
  <1>1. stack = <<>> /\ UNCHANGED <<mRequested, mEffective, port, reported, stack>>
    BY Zenon DEF PortError
  <1>2. IdleTruth
    BY DEF ForceInv
  <1>3. QED BY <1>1, <1>2, SameForce DEF IInv

LEMMA NextForce == IInv /\ ForceInv /\ [Next]_vars => ForceInv'
  <1> SUFFICES ASSUME IInv, ForceInv, [Next]_vars PROVE ForceInv'
    OBVIOUS
  <1>1. CASE ApplyField \/ ErrorReturns \/ Conclude \/ Observe \/ PortError
    <2>1. UNCHANGED reentered
      BY <1>1, Zenon
         DEF ApplyField, ErrorReturns, Conclude, Observe, PortError, historyVars
    <2>2. CASE reentered
      BY <2>1, <2>2 DEF ForceInv
    <2>3. CASE ~reentered
      BY <1>1, <2>3, ApplyFieldForce, ErrorReturnsForce, ConcludeForce, ObserveForce,
         PortErrorForce, Zenon
    <2>4. QED BY <2>2, <2>3
  <1>2. CASE UNCHANGED vars
    <2>1. UNCHANGED <<mRequested, mEffective, port, reported, stack, reentered>>
      BY <1>2 DEF vars, historyVars
    <2>2. QED BY <2>1 DEF ForceInv, IdleTruth, BusyTruth, Idle, IsInForce, InForce,
                          FrameTruth, ReadBack, NothingToApply, AnnouncedBefore, Concluded,
                          HardwareEquals
  <1>3. QED BY <1>1, <1>2, OpenForce, CloseForce, ConfiguringForce, WriteRawForce, Zenon
            DEF Next

\* What was last announced, and what effectiveConfiguration() returns, is what the device
\* has, whatever it refused, rounded or failed and however often it was reopened
\* (komportserial.cpp:303-317, 772: every setting is read back after the attempt, and an
\* opening always announces them).
THEOREM ReportsAreInForce == Spec => []ReportedIsInForce
  <1>1. Init => ForceInv
    BY DEF Init, ForceInv, IdleTruth, BusyTruth, Idle
  <1>2. Spec => []ForceInv
    BY <1>1, NextForce, Inductive, PTL DEF Spec
  <1>3. ForceInv => ReportedIsInForce
    BY DEF ForceInv, IdleTruth, IsInForce, ReportedIsInForce
  <1>4. QED BY <1>2, <1>3, PTL
=============================================================================
