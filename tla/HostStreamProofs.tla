-------------------------- MODULE HostStreamProofs --------------------------
(***************************************************************************)
(* Theorems about HostStream for every alphabet, every set of queue and    *)
(* file sizes, every limit of a log line or a sequence, and every bound.   *)
(***************************************************************************)
EXTENDS HostStream, ControlSequencesProofs

USE CodesAssumption, LengthAssumption, QueueAssumption, UploadAssumption, LineAssumption,
    WorkAssumption

-----------------------------------------------------------------------------
(* Type correctness.                                                       *)

LEMMA EmulationType ==
  ASSUME EmulationTypeOK, NEW code \in Codes, slotReceivedChar(code)
  PROVE  EmulationTypeOK' /\ heard' = Append(heard, code)
  <1>1. /\ heard' = Append(heard, code) /\ heard \in Seq(Codes) /\ heard' \in Seq(Codes)
        /\ Len(heard') = Len(heard) + 1 /\ DOMAIN heard' = 1 .. Len(heard) + 1
        /\ DOMAIN heard = 1 .. Len(heard)
    BY DEF slotReceivedChar, EmulationTypeOK
  <1>2. drawn' \subseteq DOMAIN heard'
    BY <1>1 DEF slotReceivedChar, EmulationTypeOK
  <1>3. /\ mSawESC' \in BOOLEAN /\ mInCtlSequence' \in BOOLEAN
        /\ mPendingCharsetChar' \in BOOLEAN
    BY DEF slotReceivedChar, InSequence, Restart, SwallowDesignator, OpenCtlSequence,
       shortEscape, sequence, sequenceVars, EmulationTypeOK
  <1>4. mCtlSequence' \in Seq(Codes) /\ Len(mCtlSequence') <= MaxCtlSequenceLength
    <2>1. /\ mCtlSequence \in Seq(Codes) /\ Len(mCtlSequence) \in Nat
          /\ Len(mCtlSequence) <= MaxCtlSequenceLength
      BY DEF EmulationTypeOK
    <2>2. CASE mCtlSequence' = <<>>
      BY <2>2
    <2>3. CASE mCtlSequence' = mCtlSequence
      BY <2>1, <2>3
    <2>4. CASE mCtlSequence' = Append(mCtlSequence, code)
               /\ ~(Len(mCtlSequence) >= MaxCtlSequenceLength)
      BY <2>1, <2>4
    <2>5. QED
      BY <2>2, <2>3, <2>4
         DEF slotReceivedChar, InSequence, Restart, SwallowDesignator, OpenCtlSequence,
             shortEscape, sequence, sequenceVars
  <1>5. QED BY <1>1, <1>2, <1>3, <1>4 DEF EmulationTypeOK

LEMMA KeepNewestType ==
  ASSUME NEW S, NEW bytes \in Seq(S), mRxQueueMax \in Nat \ {0}
  PROVE  /\ KeepNewest(bytes) \in Seq(S)
         /\ Len(KeepNewest(bytes)) = IF Len(bytes) > mRxQueueMax THEN mRxQueueMax ELSE Len(bytes)
         /\ \A i \in 1 .. Len(KeepNewest(bytes)) :
              KeepNewest(bytes)[i] = bytes[i + Len(bytes) - Len(KeepNewest(bytes))]
  <1>1. Len(bytes) \in Nat
    OBVIOUS
  <1>2. CASE ~(Len(bytes) > mRxQueueMax)
    BY <1>1, <1>2 DEF KeepNewest
  <1>3. CASE Len(bytes) > mRxQueueMax
    <2> DEFINE first == Len(bytes) - mRxQueueMax + 1
    <2>1. /\ first \in Int /\ Len(bytes) \in Int /\ first <= Len(bytes)
          /\ \A i \in first .. Len(bytes) : bytes[i] \in S
      BY <1>1, <1>3
    <2>2. KeepNewest(bytes) = SubSeq(bytes, first, Len(bytes))
      BY <1>3 DEF KeepNewest
    <2> HIDE DEF first
    <2>3. /\ KeepNewest(bytes) \in Seq(S)
          /\ Len(KeepNewest(bytes)) = Len(bytes) - first + 1
          /\ \A i \in 1 .. Len(bytes) - first + 1 : KeepNewest(bytes)[i] = bytes[first + i - 1]
      BY <2>1, <2>2, SubSeqProperties
    <2>4. first = Len(bytes) - mRxQueueMax + 1
      BY DEF first
    <2>5. Len(KeepNewest(bytes)) = mRxQueueMax
      BY <1>1, <2>3, <2>4
    <2>6. ASSUME NEW i \in 1 .. Len(KeepNewest(bytes))
          PROVE  KeepNewest(bytes)[i] = bytes[i + Len(bytes) - Len(KeepNewest(bytes))]
      <3>1. /\ i \in 1 .. Len(bytes) - first + 1
            /\ first + i - 1 = i + Len(bytes) - Len(KeepNewest(bytes))
        BY <1>1, <2>4, <2>5
      <3>2. QED BY <2>3, <3>1
    <2>7. QED BY <1>3, <2>3, <2>5, <2>6
  <1>4. QED BY <1>2, <1>3

\* The bytes of one chunk are numbered on from the last that arrived.
Chunk(n) == [i \in 1 .. n |-> arrived + i]

LEMMA ChunkType ==
  ASSUME NEW n \in Nat, arrived \in Nat
  PROVE  /\ Chunk(n) \in Seq(arrived + 1 .. arrived + n) /\ Len(Chunk(n)) = n
         /\ \A i \in 1 .. n : Chunk(n)[i] = arrived + i
  <1>1. Chunk(n) \in [1 .. n -> arrived + 1 .. arrived + n]
    BY DEF Chunk
  <1>2. QED BY <1>1 DEF Chunk

-----------------------------------------------------------------------------
(* Order.  OnTheWay is three sequences, each increasing, each below the    *)
(* next.                                                                   *)

Increasing(s) == \A i, j \in 1 .. Len(s) : i < j => s[i] < s[j]
Below(s, t)   == \A i \in 1 .. Len(s), j \in 1 .. Len(t) : s[i] < t[j]

LEMMA IncreasingConcat ==
  ASSUME NEW s \in Seq(Nat), NEW t \in Seq(Nat)
  PROVE  Increasing(s \o t) <=> Increasing(s) /\ Increasing(t) /\ Below(s, t)
  <1> DEFINE u == s \o t
             m == Len(s)
             n == Len(t)
  <1>1. /\ m \in Nat /\ n \in Nat /\ u \in Seq(Nat) /\ Len(u) = m + n
        /\ \A i \in 1 .. m + n : u[i] = IF i <= m THEN s[i] ELSE t[i - m]
    BY ConcatProperties
  <1>2. /\ \A i \in 1 .. m : i \in 1 .. m + n /\ u[i] = s[i]
        /\ \A i \in 1 .. n : i + m \in 1 .. m + n /\ u[i + m] = t[i]
    <2> HIDE DEF u, m, n
    <2>1. ASSUME NEW i \in 1 .. m PROVE i \in 1 .. m + n /\ u[i] = s[i]
      BY <1>1
    <2>2. ASSUME NEW i \in 1 .. n PROVE i + m \in 1 .. m + n /\ u[i + m] = t[i]
      <3>1. i + m \in 1 .. m + n /\ ~(i + m <= m) /\ (i + m) - m = i
        BY <1>1
      <3>2. QED BY <1>1, <3>1
    <2>3. QED BY <2>1, <2>2
  <1> HIDE DEF u, m, n
  <1>3. ASSUME Increasing(u) PROVE Increasing(s) /\ Increasing(t) /\ Below(s, t)
    <2>1. \A i, j \in 1 .. m + n : i < j => u[i] < u[j]
      BY <1>1, <1>3 DEF Increasing
    <2>2. \A i, j \in 1 .. m : i < j => s[i] < s[j]
      BY <1>2, <2>1
    <2>3. ASSUME NEW i \in 1 .. n, NEW j \in 1 .. n, i < j PROVE t[i] < t[j]
      <3>1. i + m < j + m
        BY <1>1, <2>3
      <3>2. QED BY <1>2, <2>1, <3>1
    <2>4. ASSUME NEW i \in 1 .. m, NEW j \in 1 .. n PROVE s[i] < t[j]
      <3>1. i < j + m
        BY <1>1
      <3>2. QED BY <1>2, <2>1, <3>1
    <2>5. QED BY <2>2, <2>3, <2>4 DEF Increasing, Below, m, n
  <1>4. ASSUME Increasing(s), Increasing(t), Below(s, t) PROVE Increasing(u)
    <2>1. /\ \A i, j \in 1 .. m : i < j => s[i] < s[j]
          /\ \A i, j \in 1 .. n : i < j => t[i] < t[j]
          /\ \A i \in 1 .. m, j \in 1 .. n : s[i] < t[j]
      BY <1>4 DEF Increasing, Below, m, n
    <2>2. SUFFICES ASSUME NEW i \in 1 .. m + n, NEW j \in 1 .. m + n, i < j PROVE u[i] < u[j]
      BY <1>1 DEF Increasing
    <2>3. CASE j <= m
      <3>1. i \in 1 .. m /\ j \in 1 .. m
        BY <1>1, <2>2, <2>3
      <3>2. QED BY <1>2, <2>1, <2>2, <3>1
    <2>4. CASE ~(j <= m) /\ i <= m
      <3>1. i \in 1 .. m /\ j - m \in 1 .. n /\ (j - m) + m = j
        BY <1>1, <2>2, <2>4
      <3>2. QED BY <1>2, <2>1, <3>1
    <2>5. CASE ~(i <= m)
      <3>1. /\ i - m \in 1 .. n /\ (i - m) + m = i
            /\ j - m \in 1 .. n /\ (j - m) + m = j /\ i - m < j - m
        BY <1>1, <2>2, <2>5
      <3>2. QED BY <1>2, <2>1, <3>1
    <2>6. QED BY <2>3, <2>4, <2>5
  <1>5. QED BY <1>3, <1>4 DEF u

LEMMA KeepNewestOrder ==
  ASSUME NEW s \in Seq(Nat), NEW bytes \in Seq(Nat), mRxQueueMax \in Nat \ {0},
         Increasing(bytes), Below(s, bytes)
  PROVE  Increasing(KeepNewest(bytes)) /\ Below(s, KeepNewest(bytes))
  <1> DEFINE kept == KeepNewest(bytes)
             k == Len(bytes) - Len(kept)
  <1>1. /\ kept \in Seq(Nat) /\ Len(bytes) \in Nat
        /\ Len(kept) = IF Len(bytes) > mRxQueueMax THEN mRxQueueMax ELSE Len(bytes)
        /\ \A i \in 1 .. Len(kept) : kept[i] = bytes[i + Len(bytes) - Len(kept)]
    BY KeepNewestType
  <1> HIDE DEF kept
  <1>2. k \in Nat /\ Len(kept) \in Nat
    BY <1>1
  <1>3. ASSUME NEW i \in 1 .. Len(kept)
        PROVE  i + k \in 1 .. Len(bytes) /\ kept[i] = bytes[i + k]
    <2>1. i + k = i + Len(bytes) - Len(kept) /\ i + k \in 1 .. Len(bytes)
      BY <1>1, <1>2
    <2>2. QED BY <1>1, <2>1
  <1> HIDE DEF k
  <1>4. ASSUME NEW i \in 1 .. Len(kept), NEW j \in 1 .. Len(kept), i < j
        PROVE  kept[i] < kept[j]
    <2>1. i + k < j + k
      BY <1>2, <1>4
    <2>2. QED BY <1>3, <2>1 DEF Increasing
  <1>5. Below(s, kept)
    BY <1>3 DEF Below
  <1>6. QED BY <1>4, <1>5 DEF Increasing, kept

-----------------------------------------------------------------------------
(* The receive path: what has arrived is rendered, about to be, or waits,  *)
(* in this order.                                                          *)

ReceiveOK ==
  /\ isOpen \in BOOLEAN
  /\ mRxQueueMax \in QueueSizes
  /\ arrived \in 0 .. MaxWork
  /\ files \in 0 .. MaxWork
  /\ rendered \in Seq(1 .. arrived) /\ Len(rendered) = Len(heard)
  /\ data \in Seq(1 .. arrived)
  /\ mRxBuffer \in Seq(1 .. arrived)
  /\ Increasing(rendered) /\ Increasing(data) /\ Increasing(mRxBuffer)
  /\ Below(rendered, data) /\ Below(rendered, mRxBuffer) /\ Below(data, mRxBuffer)

LEMMA SeqOfNat == \A n : \A s \in Seq(1 .. n) : n \in Nat => s \in Seq(Nat)
  <1>1. \A n \in Nat : 1 .. n \subseteq Nat
    OBVIOUS
  <1>2. QED BY <1>1, SeqMonotonic

\* What a chunk leaves in the buffer.
LEMMA ChunkBuffered ==
  ASSUME ReceiveOK, NEW n \in 1 .. MaxWork, Work(n, 0)
  PROVE  LET bytes == mRxBuffer \o Chunk(n)
         IN  /\ arrived + n \in 0 .. MaxWork
             /\ bytes \in Seq(1 .. arrived + n)
             /\ Increasing(bytes) /\ Below(rendered, bytes)
  <1>1. arrived \in Nat /\ files \in Nat /\ n \in Nat /\ arrived + n \in 0 .. MaxWork
    BY DEF ReceiveOK, Work
  <1>2. /\ Chunk(n) \in Seq(arrived + 1 .. arrived + n) /\ Len(Chunk(n)) = n
        /\ \A i \in 1 .. n : Chunk(n)[i] = arrived + i
    BY <1>1, ChunkType
  <1>3. /\ Chunk(n) \in Seq(1 .. arrived + n)
        /\ mRxBuffer \in Seq(1 .. arrived + n)
        /\ rendered \in Seq(1 .. arrived + n)
    <2>1. arrived + 1 .. arrived + n \subseteq 1 .. arrived + n
      BY <1>1
    <2>2. 1 .. arrived \subseteq 1 .. arrived + n
      BY <1>1
    <2>3. QED BY <1>2, <2>1, <2>2, SeqMonotonic DEF ReceiveOK
  <1>4. Chunk(n) \in Seq(Nat) /\ mRxBuffer \in Seq(Nat) /\ rendered \in Seq(Nat)
    BY <1>1, <1>3, SeqOfNat
  <1>5. Increasing(Chunk(n))
    BY <1>1, <1>2 DEF Increasing
  <1>6. \A s \in Seq(1 .. arrived) : Below(s, Chunk(n))
    <2>1. \A s \in Seq(1 .. arrived) : \A i \in 1 .. Len(s) : s[i] \in 1 .. arrived
      BY LenProperties
    <2>2. ASSUME NEW s \in Seq(1 .. arrived), NEW i \in 1 .. Len(s), NEW j \in 1 .. n
          PROVE  s[i] < Chunk(n)[j]
      BY <1>1, <1>2, <2>1
    <2>3. QED BY <1>2, <2>2 DEF Below
  <1>7. Increasing(mRxBuffer \o Chunk(n))
    BY <1>4, <1>5, <1>6, IncreasingConcat DEF ReceiveOK
  <1>8. Below(rendered, mRxBuffer \o Chunk(n))
    <2>1. Below(rendered, mRxBuffer) /\ Below(rendered, Chunk(n))
      BY <1>6 DEF ReceiveOK
    <2>2. /\ Len(mRxBuffer \o Chunk(n)) = Len(mRxBuffer) + Len(Chunk(n))
          /\ Len(mRxBuffer) \in Nat /\ Len(Chunk(n)) \in Nat
          /\ \A j \in 1 .. Len(mRxBuffer) + Len(Chunk(n)) : (mRxBuffer \o Chunk(n))[j] =
               IF j <= Len(mRxBuffer) THEN mRxBuffer[j] ELSE Chunk(n)[j - Len(mRxBuffer)]
      BY <1>4, ConcatProperties
    <2>3. ASSUME NEW i \in 1 .. Len(rendered), NEW j \in 1 .. Len(mRxBuffer) + Len(Chunk(n))
          PROVE  rendered[i] < (mRxBuffer \o Chunk(n))[j]
      <3>1. CASE j <= Len(mRxBuffer)
        BY <2>1, <2>2, <3>1 DEF Below
      <3>2. CASE ~(j <= Len(mRxBuffer))
        <4>1. j - Len(mRxBuffer) \in 1 .. Len(Chunk(n))
          BY <2>2, <3>2
        <4>2. QED BY <2>1, <2>2, <3>2, <4>1 DEF Below
      <3>3. QED BY <3>1, <3>2
    <2>4. QED BY <2>2, <2>3 DEF Below
  <1>9. mRxBuffer \o Chunk(n) \in Seq(1 .. arrived + n)
    BY <1>3, ConcatProperties
  <1>10. QED BY <1>1, <1>7, <1>8, <1>9

LEMMA slotDataAvailableReceive ==
  ASSUME ReceiveOK, data = <<>>, NEW n \in 1 .. MaxWork, slotDataAvailable(n)
  PROVE  ReceiveOK'
  <1> DEFINE bytes == mRxBuffer \o Chunk(n)
  <1>1. /\ arrived' = arrived + n /\ mRxBuffer' = KeepNewest(bytes)
        /\ UNCHANGED <<heard, isOpen, mRxQueueMax, data, rendered, files>>
    BY DEF slotDataAvailable, Chunk, emulationVars
  <1>2. /\ arrived' \in 0 .. MaxWork /\ arrived \in Nat /\ n \in Nat
        /\ bytes \in Seq(1 .. arrived') /\ Increasing(bytes) /\ Below(rendered, bytes)
    BY <1>1, ChunkBuffered DEF slotDataAvailable, ReceiveOK
  <1>3. /\ rendered \in Seq(1 .. arrived') /\ data \in Seq(1 .. arrived')
    <2>1. 1 .. arrived \subseteq 1 .. arrived'
      BY <1>1, <1>2
    <2>2. QED BY <2>1, SeqMonotonic DEF ReceiveOK
  <1> HIDE DEF bytes
  <1>4. mRxQueueMax \in Nat \ {0}
    BY DEF ReceiveOK
  <1>5. mRxBuffer' \in Seq(1 .. arrived')
    BY <1>1, <1>2, <1>4, KeepNewestType
  <1>6. Increasing(mRxBuffer') /\ Below(rendered, mRxBuffer')
    <2>1. rendered \in Seq(Nat) /\ bytes \in Seq(Nat)
      BY <1>2, <1>3, SeqOfNat
    <2>2. QED BY <1>1, <1>2, <1>4, <2>1, KeepNewestOrder
  <1>7. Below(data, mRxBuffer')
    BY DEF Below
  <1>8. QED BY <1>1, <1>2, <1>3, <1>5, <1>6, <1>7 DEF ReceiveOK, Increasing, Below

LEMMA slotFlushRxBufferReceive ==
  ASSUME ReceiveOK, data = <<>>, slotFlushRxBuffer
  PROVE  ReceiveOK'
  <1>1. /\ data' = mRxBuffer /\ mRxBuffer' = <<>>
        /\ UNCHANGED <<heard, isOpen, mRxQueueMax, arrived, rendered, files>>
    BY DEF slotFlushRxBuffer, Cleared, emulationVars
  <1>2. /\ Increasing(<<>>) /\ \A s : Below(s, <<>>)
        /\ <<>> \in Seq(1 .. arrived)
    BY DEF Increasing, Below
  <1>3. QED BY <1>1, <1>2 DEF ReceiveOK, Increasing, Below

LEMMA receivedCharReceive ==
  ASSUME ReceiveOK, EmulationTypeOK, NEW code \in Codes, receivedChar(code)
  PROVE  ReceiveOK'
  <1>1. /\ data # <<>> /\ data' = Tail(data) /\ rendered' = Append(rendered, Head(data))
        /\ UNCHANGED <<mRxBuffer, isOpen, mRxQueueMax, arrived, files>>
        /\ heard' = Append(heard, code) /\ heard \in Seq(Codes)
    BY EmulationType DEF receivedChar, rxVars, EmulationTypeOK
  <1>2. Len(rendered') = Len(heard')
    BY <1>1 DEF ReceiveOK
  <1>3. /\ Head(data) \in 1 .. arrived /\ Head(data) = data[1]
        /\ data' \in Seq(1 .. arrived) /\ Len(data) \in Nat /\ Len(data') = Len(data) - 1
        /\ \A i \in 1 .. Len(data') : data'[i] = data[i + 1] /\ i + 1 \in 1 .. Len(data)
        /\ 1 \in 1 .. Len(data)
    BY <1>1, HeadTailProperties DEF ReceiveOK
  <1>4. /\ rendered' \in Seq(1 .. arrived) /\ Len(rendered) \in Nat
        /\ Len(rendered') = Len(rendered) + 1
        /\ \A i \in 1 .. Len(rendered) : rendered'[i] = rendered[i]
        /\ rendered'[Len(rendered) + 1] = data[1]
    BY <1>1, <1>3, AppendProperties DEF ReceiveOK
  <1>5. Increasing(rendered')
    <2> SUFFICES ASSUME NEW i \in 1 .. Len(rendered'), NEW j \in 1 .. Len(rendered'), i < j
                 PROVE  rendered'[i] < rendered'[j]
      BY DEF Increasing
    <2>1. i \in 1 .. Len(rendered) /\ (j \in 1 .. Len(rendered) \/ j = Len(rendered) + 1)
      BY <1>4
    <2>2. QED BY <1>3, <1>4, <2>1 DEF ReceiveOK, Increasing, Below
  <1>6. Increasing(data')
    <2> SUFFICES ASSUME NEW i \in 1 .. Len(data'), NEW j \in 1 .. Len(data'), i < j
                 PROVE  data'[i] < data'[j]
      BY DEF Increasing
    <2>1. i + 1 < j + 1
      BY <1>3
    <2>2. QED BY <1>3, <2>1 DEF ReceiveOK, Increasing
  <1>7. Below(rendered', data')
    <2> SUFFICES ASSUME NEW i \in 1 .. Len(rendered'), NEW j \in 1 .. Len(data')
                 PROVE  rendered'[i] < data'[j]
      BY DEF Below
    <2>1. CASE i \in 1 .. Len(rendered)
      BY <1>3, <1>4, <2>1 DEF ReceiveOK, Below
    <2>2. CASE i = Len(rendered) + 1
      <3>1. 1 < j + 1
        BY <1>3
      <3>2. QED BY <1>3, <1>4, <2>2, <3>1 DEF ReceiveOK, Increasing
    <2>3. QED BY <1>4, <2>1, <2>2
  <1>8. Below(rendered', mRxBuffer)
    <2> SUFFICES ASSUME NEW i \in 1 .. Len(rendered'), NEW j \in 1 .. Len(mRxBuffer)
                 PROVE  rendered'[i] < mRxBuffer[j]
      BY DEF Below
    <2>1. i \in 1 .. Len(rendered) \/ i = Len(rendered) + 1
      BY <1>4
    <2>2. QED BY <1>3, <1>4, <2>1 DEF ReceiveOK, Below
  <1>9. Below(data', mRxBuffer)
    BY <1>3 DEF ReceiveOK, Below
  <1>10. QED
    BY <1>1, <1>2, <1>3, <1>4, <1>5, <1>6, <1>7, <1>8, <1>9 DEF ReceiveOK, Increasing, Below

-----------------------------------------------------------------------------
(* The log, and the transfers.                                             *)

Written == Codes \cup {Replaced}

LogOK ==
  /\ mLogOpen \in BOOLEAN
  /\ mStreamOk \in BOOLEAN
  /\ mLog \in Seq(Seq(Written))
  /\ mLineBuffer \in Seq(Codes) /\ Len(mLineBuffer) < MaxLineBufferLength

LEMMA DecodedType ==
  ASSUME NEW line \in Seq(Codes)
  PROVE  /\ Decoded(line) \in Seq(Written) /\ Len(Decoded(line)) = Len(line)
         /\ \A i \in 1 .. Len(line) :
              Decoded(line)[i] = line[i]
                \/ (Decoded(line)[i] = Replaced /\ line[i] \in {"lead", "tail"})
  BY DEF Decoded, Written

\* A beginning of a sequence.
LEMMA Beginning ==
  ASSUME NEW S, NEW s \in Seq(S), NEW n \in 0 .. Len(s)
  PROVE  /\ SubSeq(s, 1, n) \in Seq(S) /\ Len(SubSeq(s, 1, n)) = n
         /\ \A i \in 1 .. n : SubSeq(s, 1, n)[i] = s[i]
  OBVIOUS

LEMMA flushLineType ==
  ASSUME LogOK, NEW line \in Seq(Codes), flushLine(line), mLogOpen' \in BOOLEAN
  PROVE  LogOK'
  <1>1. mLineBuffer' \in Seq(Codes) /\ Len(mLineBuffer') < MaxLineBufferLength
    <2>1. mLineBuffer' = <<>>
      BY DEF flushLine
    <2>2. MaxLineBufferLength \in Nat \ {0}
      BY LineAssumption
    <2> QED BY <2>1, <2>2
  <1>2. mStreamOk' \in BOOLEAN
    BY DEF flushLine, LogOK
  <1>3. mLog' \in Seq(Seq(Written))
    <2>1. CASE mLog' = mLog
      BY <2>1 DEF LogOK
    <2>2. CASE mLog' = Append(mLog, Decoded(line))
      BY <2>2, DecodedType DEF LogOK
    <2>3. ASSUME NEW n \in 0 .. Len(line), mLog' = Append(mLog, SubSeq(Decoded(line), 1, n))
          PROVE  mLog' \in Seq(Seq(Written))
      <3>1. SubSeq(Decoded(line), 1, n) \in Seq(Written)
        BY DecodedType, Beginning
      <3> QED BY <2>3, <3>1 DEF LogOK
    <2> QED BY <2>1, <2>2, <2>3 DEF flushLine
  <1> QED BY <1>1, <1>2, <1>3 DEF LogOK

LEMMA logCharType == ASSUME LogOK, NEW code \in Codes, logChar(code) PROVE LogOK'
  <1>1. mLogOpen' = mLogOpen /\ mLogOpen \in BOOLEAN
    BY DEF logChar, LogOK
  <1>2. CASE UNCHANGED <<mStreamOk, mLog, mLineBuffer>>
    BY <1>1, <1>2 DEF LogOK
  <1>3. CASE flushLine(mLineBuffer)
    BY <1>1, <1>3, flushLineType DEF LogOK
  <1>4. CASE TakeIntoLine(code)
    <2>1. PICK line : line = Append(mLineBuffer, code)
      OBVIOUS
    <2>2. line \in Seq(Codes) /\ Len(line) \in Nat /\ MaxLineBufferLength \in Nat \ {0}
      BY <2>1, LineAssumption DEF LogOK
    <2>3. CASE flushLine(line)
      BY <1>1, <2>2, <2>3, flushLineType
    <2>4. CASE /\ mLineBuffer' = line /\ UNCHANGED <<mStreamOk, mLog>>
               /\ ~(Len(line) >= MaxLineBufferLength)
      <3>1. mLineBuffer' \in Seq(Codes) /\ Len(mLineBuffer') < MaxLineBufferLength
        BY <2>2, <2>4
      <3> QED BY <1>1, <2>4, <3>1 DEF LogOK
    <2> QED BY <1>4, <2>1, <2>3, <2>4 DEF TakeIntoLine
  <1>5. QED BY <1>2, <1>3, <1>4 DEF logChar

Outcomes == {"running", "finished", "gave up"}

Downloads ==
  [kind : {"download"}, first : Nat, isOpen : BOOLEAN, file : Seq(Codes),
   flushed : BOOLEAN, writeError : BOOLEAN, wasCanceled : BOOLEAN, returned : Outcomes]

Uploads ==
  [kind : {"upload"}, size : Nat, read : Nat, wire : Seq(Nat),
   wasCanceled : BOOLEAN, returned : Outcomes]

\* An upload that goes on has sent what it has read, and one that finished all of it.
UploadOK(t) ==
  /\ t.read <= t.size
  /\ \A i \in 1 .. Len(t.wire) : t.wire[i] = i
  /\ t.returned = "running" => Len(t.wire) = t.read
  /\ t.returned = "finished" => Len(t.wire) = t.size

\* What a download has taken is what was rendered since it began.
TakenFrom(t, bytes) ==
  /\ t.first + Len(t.file) <= Len(bytes) + 1
  /\ \A i \in 1 .. Len(t.file) : t.file[i] = bytes[t.first + i - 1]

\* Rendered since the download began, with no Ctrl-D before end.
OneFile(t, bytes, end) ==
  /\ t.first + Len(t.file) <= end
  /\ \A i \in t.first .. end - 1 : bytes[i] # "EOT"

\* A Ctrl-D at end closed the file, which has everything before it unless the flush failed.
ClosedAt(t, bytes, end) ==
  /\ bytes[end] = "EOT" /\ OneFile(t, bytes, end)
  /\ t.flushed => t.first + Len(t.file) = end

\* Unless a write failed it has everything up to now or to the Ctrl-D that closed it.
DownloadOK(t, bytes) ==
  /\ 1 <= t.first
  /\ t.isOpen => t.returned = "running"
  /\ t.returned = "finished" => ~t.isOpen /\ ~t.writeError
  /\ (t.isOpen /\ ~t.writeError) =>
       /\ TakenFrom(t, bytes) /\ t.first + Len(t.file) = Len(bytes) + 1
       /\ OneFile(t, bytes, Len(bytes) + 1)
  /\ (~t.isOpen /\ ~t.writeError /\ t.returned # "gave up") =>
       TakenFrom(t, bytes) /\ \E end \in 1 .. Len(bytes) : ClosedAt(t, bytes, end)

TransferOK ==
  \/ transfer = NoTransfer
  \/ transfer \in Uploads /\ UploadOK(transfer)
  \/ transfer \in Downloads /\ DownloadOK(transfer, heard)

\* A byte that was sent, and one that could not be.
LEMMA UploadSends ==
  ASSUME NEW t \in Uploads, UploadOK(t), t.returned = "running", t.read < t.size
  PROVE  LET next == [t EXCEPT !.read = @ + 1, !.wire = Append(@, t.read + 1)]
         IN  next \in Uploads /\ UploadOK(next)
  <1> DEFINE reads == t.read + 1
             wire == Append(t.wire, reads)
             next == [t EXCEPT !.read = reads, !.wire = wire]
  <1>1. /\ t.size \in Nat /\ t.read \in Nat /\ t.wire \in Seq(Nat)
        /\ Len(t.wire) = t.read /\ \A i \in 1 .. Len(t.wire) : t.wire[i] = i
    BY DEF Uploads, UploadOK
  <1>2. /\ reads \in Nat /\ wire \in Seq(Nat) /\ Len(wire) = reads /\ reads <= t.size
        /\ \A i \in 1 .. Len(wire) : wire[i] = i
    BY <1>1
  <1> HIDE DEF reads, wire
  <1>3. /\ next \in Uploads /\ next.size = t.size /\ next.read = reads
        /\ next.wire = wire /\ next.returned = "running"
    BY <1>2 DEF Uploads
  <1> HIDE DEF next
  <1>4. UploadOK(next)
    BY <1>1, <1>2, <1>3 DEF UploadOK
  <1>5. QED BY <1>3, <1>4 DEF next, reads, wire

LEMMA UploadGivesUp ==
  ASSUME NEW t \in Uploads, UploadOK(t), t.read < t.size
  PROVE  LET next == [t EXCEPT !.read = @ + 1, !.returned = "gave up"]
         IN  next \in Uploads /\ UploadOK(next)
  <1> DEFINE reads == t.read + 1
             next == [t EXCEPT !.read = reads, !.returned = "gave up"]
  <1>1. /\ t.size \in Nat /\ t.read \in Nat /\ t.wire \in Seq(Nat) /\ Len(t.wire) \in Nat
        /\ \A i \in 1 .. Len(t.wire) : t.wire[i] = i
    BY DEF Uploads, UploadOK
  <1>2. reads \in Nat /\ reads <= t.size
    BY <1>1
  <1> HIDE DEF reads
  <1>3. /\ next \in Uploads /\ next.size = t.size /\ next.read = reads
        /\ next.wire = t.wire /\ next.returned = "gave up"
    BY <1>2 DEF Uploads, Outcomes
  <1> HIDE DEF next
  <1>4. UploadOK(next)
    BY <1>1, <1>2, <1>3 DEF UploadOK
  <1>5. QED BY <1>3, <1>4 DEF next, reads

LEMMA UploadEnds ==
  ASSUME NEW t \in Uploads, UploadOK(t), NEW reads \in Nat, reads <= t.size
  PROVE  LET left == [t EXCEPT !.read = reads]
             next == [left EXCEPT !.returned = Outcome(UploadFinished(left))]
         IN  next \in Uploads /\ UploadOK(next)
  <1> DEFINE left == [t EXCEPT !.read = reads]
             next == [left EXCEPT !.returned = Outcome(UploadFinished(left))]
  <1>1. left \in Uploads /\ left.size = t.size /\ left.wire = t.wire /\ left.read = reads
    BY DEF Uploads
  <1> HIDE DEF left
  <1>2. Outcome(UploadFinished(left)) = IF Len(t.wire) = t.size THEN "finished" ELSE "gave up"
    BY <1>1 DEF Outcome, UploadFinished
  <1>3. /\ next \in Uploads /\ next.size = t.size /\ next.wire = t.wire /\ next.read = reads
        /\ next.returned = IF Len(t.wire) = t.size THEN "finished" ELSE "gave up"
    BY <1>1, <1>2 DEF Uploads, Outcomes
  <1> HIDE DEF next
  <1>4. UploadOK(next)
    BY <1>3 DEF UploadOK
  <1>5. QED BY <1>3, <1>4 DEF next, left

LEMMA ClosedType ==
  ASSUME NEW t \in Downloads, NEW next \in Closed(t)
  PROVE  /\ next \in Downloads /\ next.first = t.first /\ ~next.isOpen
         /\ next.writeError = t.writeError /\ next.returned = t.returned
         /\ \/ next.file = t.file /\ next.flushed = t.flushed
            \/ /\ ~next.flushed
               /\ \E n \in 0 .. Len(t.file) - 1 : next.file = SubSeq(t.file, 1, n)
  <1>1. CASE next = [t EXCEPT !.isOpen = FALSE]
    BY <1>1 DEF Downloads
  <1>2. ASSUME NEW n \in 0 .. Len(t.file) - 1,
               next = [t EXCEPT !.isOpen = FALSE, !.flushed = FALSE,
                                !.file = SubSeq(@, 1, n)]
        PROVE  /\ next \in Downloads /\ next.first = t.first /\ ~next.isOpen
               /\ next.writeError = t.writeError /\ next.returned = t.returned
               /\ ~next.flushed /\ next.file = SubSeq(t.file, 1, n)
    <2>1. PICK file : file = SubSeq(t.file, 1, n)
      OBVIOUS
    <2>2. t.file \in Seq(Codes) /\ n \in 0 .. Len(t.file)
      BY DEF Downloads
    <2>3. file \in Seq(Codes)
      BY <2>1, <2>2, Beginning
    <2>4. next = [t EXCEPT !.isOpen = FALSE, !.flushed = FALSE, !.file = file]
      BY <1>2, <2>1
    <2>5. /\ next \in Downloads /\ next.first = t.first /\ ~next.isOpen /\ next.file = file
          /\ next.writeError = t.writeError /\ next.returned = t.returned /\ ~next.flushed
      BY <2>3, <2>4 DEF Downloads
    <2> QED BY <2>1, <2>5
  <1> QED BY <1>1, <1>2 DEF Closed

LEMMA GivenUp ==
  ASSUME NEW t \in Downloads, NEW bytes, 1 <= t.first, ~t.isOpen
  PROVE  LET next == [t EXCEPT !.returned = "gave up"]
         IN  next \in Downloads /\ DownloadOK(next, bytes)
  <1> DEFINE next == [t EXCEPT !.returned = "gave up"]
  <1>1. next \in Downloads /\ next.first = t.first /\ ~next.isOpen /\ next.returned = "gave up"
    BY DEF Downloads, Outcomes
  <1> HIDE DEF next
  <1>2. 1 <= next.first /\ next.returned # "finished"
    BY <1>1
  <1>3. DownloadOK(next, bytes)
    BY <1>1, <1>2, Zenon DEF DownloadOK
  <1> QED BY <1>1, <1>3 DEF next

LEMMA DownloadSucceeds ==
  ASSUME NEW t \in Downloads, NEW bytes, DownloadOK(t, bytes), t.returned = "running",
         ~t.isOpen, ~t.writeError
  PROVE  LET next == [t EXCEPT !.returned = "finished"]
         IN  next \in Downloads /\ DownloadOK(next, bytes)
  <1> DEFINE next == [t EXCEPT !.returned = "finished"]
  <1>1. /\ next \in Downloads /\ next.first = t.first /\ next.file = t.file
        /\ next.flushed = t.flushed /\ ~next.writeError /\ ~next.isOpen
        /\ next.returned = "finished"
    BY DEF Downloads, Outcomes
  <1> HIDE DEF next
  <1>2. 1 <= t.first /\ TakenFrom(t, bytes)
    BY Zenon DEF DownloadOK
  <1>3. PICK end \in 1 .. Len(bytes) : ClosedAt(t, bytes, end)
    BY Zenon DEF DownloadOK
  <1>4. 1 <= next.first /\ TakenFrom(next, bytes) /\ ClosedAt(next, bytes, end)
    BY <1>1, <1>2, <1>3, Zenon DEF TakenFrom, ClosedAt, OneFile
  <1>5. DownloadOK(next, bytes)
    BY <1>1, <1>4, Zenon DEF DownloadOK
  <1> QED BY <1>1, <1>5 DEF next

LEMMA LoopsTransfer ==
  ASSUME TransferOK, Loops
  PROVE  TransferOK'
  <1>1. CASE download
    <2>1. /\ transfer \in Downloads /\ DownloadOK(transfer, heard)
          /\ transfer.returned = "running"
      BY <1>1 DEF download, Running, TransferOK, NoTransfer, Uploads
    <2>2. heard' = heard
      BY <1>1 DEF download, LoopStep, emulationVars
    <2>3. PICK closed \in IF transfer.isOpen THEN Closed(transfer) ELSE {transfer} :
            transfer' = [closed EXCEPT !.returned = Outcome(DownloadFinished(transfer))]
      BY <1>1 DEF download, LoopStep
    <2>4. closed \in Downloads /\ closed.first = transfer.first /\ ~closed.isOpen
      BY <2>1, <2>3, ClosedType
    <2>5. CASE DownloadFinished(transfer)
      <3>1. /\ closed = transfer /\ ~transfer.isOpen /\ ~transfer.writeError
            /\ transfer' = [transfer EXCEPT !.returned = "finished"]
        BY <2>3, <2>5 DEF DownloadFinished, Outcome
      <3> QED BY <2>1, <2>2, <3>1, DownloadSucceeds DEF TransferOK
    <2>6. CASE ~DownloadFinished(transfer)
      <3>1. transfer' = [closed EXCEPT !.returned = "gave up"]
        BY <2>3, <2>6 DEF Outcome
      <3>2. 1 <= closed.first
        BY <2>1, <2>4 DEF DownloadOK
      <3> QED BY <2>4, <3>1, <3>2, GivenUp DEF TransferOK
    <2> QED BY <2>5, <2>6
  <1>2. CASE uploadByte
    <2>1. /\ transfer \in Uploads /\ UploadOK(transfer) /\ transfer.returned = "running"
          /\ transfer.read < transfer.size
      BY <1>2 DEF uploadByte, Running, TransferOK, NoTransfer, Downloads
    <2>2. \/ transfer' = [transfer EXCEPT !.read = @ + 1,
                                          !.wire = Append(@, transfer.read + 1)]
          \/ transfer' = [transfer EXCEPT !.read = @ + 1, !.returned = "gave up"]
      BY <1>2 DEF uploadByte, LoopStep, Outcome
    <2>3. QED BY <2>1, <2>2, UploadSends, UploadGivesUp DEF TransferOK
  <1>3. CASE upload
    <2> DEFINE reads == IF transfer.read < transfer.size THEN transfer.read + 1
                        ELSE transfer.read
               left == [transfer EXCEPT !.read = reads]
    <2>1. transfer \in Uploads /\ UploadOK(transfer)
      BY <1>3 DEF upload, Running, TransferOK, NoTransfer, Downloads
    <2>2. reads \in Nat /\ reads <= transfer.size
      BY <2>1 DEF Uploads, UploadOK
    <2>3. transfer' = [left EXCEPT !.returned = Outcome(UploadFinished(left))]
      BY <1>3 DEF upload, LoopStep
    <2> HIDE DEF reads
    <2>4. transfer' \in Uploads /\ UploadOK(transfer')
      BY <2>1, <2>2, <2>3, UploadEnds
    <2>5. QED BY <2>4 DEF TransferOK
  <1>4. QED BY <1>1, <1>2, <1>3 DEF Loops

\* Longer histories keep what was taken from them.
LEMMA TakenFromLonger ==
  ASSUME NEW t \in Downloads, NEW bytes \in Seq(Codes), NEW code \in Codes, 1 <= t.first,
         TakenFrom(t, bytes)
  PROVE  TakenFrom(t, Append(bytes, code))
  <1>1. /\ Len(bytes) \in Nat /\ Len(Append(bytes, code)) = Len(bytes) + 1
        /\ \A i \in 1 .. Len(bytes) : Append(bytes, code)[i] = bytes[i]
        /\ t.first \in Nat /\ Len(t.file) \in Nat
    BY AppendProperties DEF Downloads
  <1>2. ASSUME NEW i \in 1 .. Len(t.file)
        PROVE  t.first + i - 1 \in 1 .. Len(bytes)
    BY <1>1 DEF TakenFrom
  <1>3. t.first + Len(t.file) <= Len(Append(bytes, code)) + 1
    BY <1>1 DEF TakenFrom
  <1>4. QED BY <1>1, <1>2, <1>3 DEF TakenFrom

\* A download that is over, and one whose file is closed, hear nothing.
LEMMA DownloadIgnores ==
  ASSUME NEW t \in Downloads, NEW bytes \in Seq(Codes), NEW code \in Codes,
         DownloadOK(t, bytes), ~t.isOpen
  PROVE  DownloadOK(t, Append(bytes, code))
  <1>1. 1 <= t.first /\ (t.returned = "finished" => ~t.isOpen /\ ~t.writeError)
    BY DEF DownloadOK
  <1>2. ASSUME ~t.writeError, t.returned # "gave up"
        PROVE  /\ TakenFrom(t, Append(bytes, code))
               /\ \E end \in 1 .. Len(Append(bytes, code)) : ClosedAt(t, Append(bytes, code), end)
    <2>1. TakenFrom(t, bytes) /\ \E end \in 1 .. Len(bytes) : ClosedAt(t, bytes, end)
      BY <1>2, Zenon DEF DownloadOK
    <2>2. PICK end \in 1 .. Len(bytes) : ClosedAt(t, bytes, end)
      BY <2>1
    <2>3. PICK longer : longer = Append(bytes, code)
      OBVIOUS
    <2>4. /\ Len(bytes) \in Nat /\ Len(longer) = Len(bytes) + 1
          /\ \A i \in 1 .. Len(bytes) : longer[i] = bytes[i]
          /\ t.first \in Nat /\ Len(t.file) \in Nat
      BY <2>3, AppendProperties DEF Downloads
    <2>5. TakenFrom(t, longer)
      BY <1>1, <2>1, <2>3, TakenFromLonger
    <2>6. end \in 1 .. Len(longer) /\ longer[end] = "EOT"
      BY <2>2, <2>4 DEF ClosedAt
    <2>7. OneFile(t, longer, end)
      <3>1. \A i \in t.first .. end - 1 : i \in 1 .. Len(bytes)
        BY <1>1, <2>4
      <3> QED BY <2>2, <2>4, <3>1 DEF ClosedAt, OneFile
    <2>8. ClosedAt(t, longer, end)
      BY <2>2, <2>6, <2>7 DEF ClosedAt
    <2> QED BY <2>3, <2>5, <2>6, <2>8
  <1>3. QED BY <1>1, <1>2, Zenon DEF DownloadOK

\* Ctrl-D.
LEMMA DownloadCloses ==
  ASSUME NEW t \in Downloads, NEW bytes \in Seq(Codes), DownloadOK(t, bytes),
         t.isOpen, t.returned = "running", NEW next \in Closed(t), "EOT" \in Codes
  PROVE  next \in Downloads /\ DownloadOK(next, Append(bytes, "EOT"))
  <1>1. PICK later, end : later = Append(bytes, "EOT") /\ end = Len(bytes) + 1
    OBVIOUS
  <1>2. /\ Len(bytes) \in Nat /\ Len(later) = end /\ later[end] = "EOT" /\ end \in 1 .. end
        /\ \A i \in 1 .. Len(bytes) : later[i] = bytes[i]
        /\ t.first \in Nat /\ t.file \in Seq(Codes) /\ Len(t.file) \in Nat /\ 1 <= t.first
    BY <1>1, AppendProperties DEF Downloads, DownloadOK
  <1>3. /\ next \in Downloads /\ next.first = t.first /\ ~next.isOpen
        /\ next.writeError = t.writeError /\ next.returned = "running"
        /\ \/ next.file = t.file
           \/ /\ ~next.flushed
              /\ \E n \in 0 .. Len(t.file) - 1 : next.file = SubSeq(t.file, 1, n)
    BY ClosedType
  <1>4. 1 <= next.first /\ next.returned # "finished"
    BY <1>2, <1>3
  <1>5. ASSUME ~next.writeError
        PROVE  TakenFrom(next, later) /\ ClosedAt(next, later, end)
    <2>1. /\ TakenFrom(t, bytes) /\ t.first + Len(t.file) = end /\ OneFile(t, bytes, end)
      BY <1>1, <1>3, <1>5, Zenon DEF DownloadOK
    <2>2. TakenFrom(t, later)
      BY <1>1, <1>2, <2>1, TakenFromLonger
    <2>3. /\ Len(next.file) \in Nat /\ Len(next.file) <= Len(t.file)
          /\ \A i \in 1 .. Len(next.file) : next.file[i] = t.file[i]
      <3>1. CASE next.file = t.file
        BY <1>2, <3>1
      <3>2. ASSUME NEW n \in 0 .. Len(t.file) - 1, next.file = SubSeq(t.file, 1, n)
            PROVE  /\ Len(next.file) \in Nat /\ Len(next.file) <= Len(t.file)
                   /\ \A i \in 1 .. Len(next.file) : next.file[i] = t.file[i]
        <4>1. n \in 0 .. Len(t.file) /\ n <= Len(t.file) /\ n \in Nat
          BY <1>2
        <4>2. Len(next.file) = n /\ \A i \in 1 .. n : next.file[i] = t.file[i]
          BY <1>2, <3>2, <4>1, Beginning
        <4> QED BY <4>1, <4>2
      <3> QED BY <1>3, <3>1, <3>2
    <2>4. TakenFrom(next, later)
      <3>1. next.first + Len(next.file) <= Len(later) + 1
        BY <1>2, <1>3, <2>2, <2>3 DEF TakenFrom
      <3>2. \A i \in 1 .. Len(next.file) : i \in 1 .. Len(t.file)
        BY <1>2, <2>3
      <3>3. \A i \in 1 .. Len(next.file) : next.file[i] = later[next.first + i - 1]
        BY <1>3, <2>2, <2>3, <3>2 DEF TakenFrom
      <3> QED BY <3>1, <3>3 DEF TakenFrom
    <2>5. OneFile(next, later, end)
      <3>1. next.first + Len(next.file) <= end
        BY <1>2, <1>3, <2>1, <2>3
      <3>2. \A i \in t.first .. end - 1 : i \in 1 .. Len(bytes)
        BY <1>1, <1>2
      <3>3. \A i \in next.first .. end - 1 : later[i] # "EOT"
        BY <1>2, <1>3, <2>1, <3>2 DEF OneFile
      <3> QED BY <3>1, <3>3 DEF OneFile
    <2>6. next.flushed => next.first + Len(next.file) = end
      BY <1>3, <2>1
    <2> QED BY <1>2, <2>4, <2>5, <2>6 DEF ClosedAt
  <1>6. DownloadOK(next, later)
    <2>1. end \in 1 .. Len(later)
      BY <1>2
    <2> QED BY <1>3, <1>4, <1>5, <2>1, Zenon DEF DownloadOK
  <1> QED BY <1>1, <1>3, <1>6

LEMMA DownloadHears ==
  ASSUME NEW t \in Downloads, NEW bytes \in Seq(Codes), NEW code \in Codes \ {"EOT"},
         DownloadOK(t, bytes), t.isOpen, t.returned = "running",
         NEW next,
         \/ next = [t EXCEPT !.file = Append(@, code)]
         \/ next = [t EXCEPT !.writeError = TRUE]
  PROVE  next \in Downloads /\ DownloadOK(next, Append(bytes, code))
  <1> DEFINE later == Append(bytes, code)
  <1>1. /\ Len(bytes) \in Nat /\ Len(later) = Len(bytes) + 1 /\ later[Len(bytes) + 1] = code
        /\ \A i \in 1 .. Len(bytes) : later[i] = bytes[i]
        /\ t.first \in Nat /\ t.file \in Seq(Codes) /\ Len(t.file) \in Nat /\ 1 <= t.first
    BY AppendProperties DEF Downloads, DownloadOK
  <1>2. ASSUME ~t.writeError
        PROVE  /\ TakenFrom(t, bytes) /\ TakenFrom(t, later)
               /\ t.first + Len(t.file) = Len(bytes) + 1
               /\ OneFile(t, bytes, Len(bytes) + 1)
    <2>1. /\ TakenFrom(t, bytes) /\ t.first + Len(t.file) = Len(bytes) + 1
          /\ OneFile(t, bytes, Len(bytes) + 1)
      BY <1>2, Zenon DEF DownloadOK
    <2>2. QED BY <1>1, <2>1, TakenFromLonger
  <1> HIDE DEF later
  <1>4. CASE next = [t EXCEPT !.file = Append(@, code)]
    <2> DEFINE file == Append(t.file, code)
    <2>1. /\ file \in Seq(Codes) /\ Len(file) = Len(t.file) + 1
          /\ \A i \in 1 .. Len(t.file) : file[i] = t.file[i]
          /\ file[Len(t.file) + 1] = code
      BY <1>1, AppendProperties
    <2>2. next = [t EXCEPT !.file = file]
      BY <1>4
    <2> HIDE DEF file
    <2>3. /\ next \in Downloads /\ next.first = t.first /\ next.file = file
          /\ next.writeError = t.writeError /\ next.isOpen /\ next.returned = "running"
      BY <2>1, <2>2 DEF Downloads
    <2>4. ASSUME ~next.writeError
          PROVE  /\ TakenFrom(next, later) /\ next.first + Len(next.file) = Len(later) + 1
                 /\ OneFile(next, later, Len(later) + 1)
      <3>1. /\ TakenFrom(t, later) /\ t.first + Len(t.file) = Len(bytes) + 1
            /\ OneFile(t, bytes, Len(bytes) + 1)
        BY <1>2, <2>3, <2>4
      <3>2. ASSUME NEW i \in 1 .. Len(file)
            PROVE  file[i] = later[t.first + i - 1]
        <4>1. CASE i \in 1 .. Len(t.file)
          BY <2>1, <3>1, <4>1 DEF TakenFrom
        <4>2. CASE i = Len(t.file) + 1
          <5>1. t.first + i - 1 = Len(bytes) + 1
            BY <1>1, <3>1, <4>2
          <5>2. QED BY <1>1, <1>4, <2>1, <4>2, <5>1
        <4>3. QED BY <1>1, <2>1, <4>1, <4>2
      <3>3. t.first + Len(file) = Len(later) + 1
        BY <1>1, <2>1, <3>1
      <3>4. t.first + Len(file) <= Len(later) + 1
        BY <1>1, <3>3
      <3>5. ASSUME NEW i \in t.first .. Len(later)
            PROVE  later[i] # "EOT"
        <4>1. CASE i = Len(bytes) + 1
          BY <1>1, <4>1
        <4>2. CASE i # Len(bytes) + 1
          <5>1. i \in 1 .. Len(bytes) /\ i \in t.first .. Len(bytes) + 1 - 1
            BY <1>1, <4>2
          <5> QED BY <1>1, <3>1, <5>1 DEF OneFile
        <4> QED BY <4>1, <4>2
      <3>6. OneFile(next, later, Len(later) + 1)
        <4>1. Len(later) + 1 - 1 = Len(later)
          BY <1>1
        <4> QED BY <2>3, <3>4, <3>5, <4>1 DEF OneFile
      <3>7. QED BY <2>3, <3>2, <3>3, <3>4, <3>6 DEF TakenFrom
    <2>5. 1 <= next.first /\ next.returned # "finished"
      BY <1>1, <2>3
    <2>6. DownloadOK(next, later)
      BY <2>3, <2>4, <2>5, Zenon DEF DownloadOK
    <2>7. QED BY <2>3, <2>6 DEF later
  <1>5. CASE next = [t EXCEPT !.writeError = TRUE]
    <2>1. /\ next \in Downloads /\ next.first = t.first
          /\ next.writeError /\ next.isOpen /\ next.returned = "running"
      BY <1>5 DEF Downloads
    <2>2. 1 <= next.first /\ next.returned # "finished"
      BY <1>1, <2>1
    <2>3. DownloadOK(next, later)
      BY <2>1, <2>2, Zenon DEF DownloadOK
    <2>4. QED BY <2>1, <2>3 DEF later
  <1>6. QED BY <1>4, <1>5

LEMMA receivedCharTransfer ==
  ASSUME TransferOK, heard \in Seq(Codes), NEW code \in Codes, heard' = Append(heard, code),
         downloadChar(code)
  PROVE  TransferOK'
  <1>1. CASE transfer \in Downloads /\ DownloadOK(transfer, heard) /\ transfer.isOpen
    <2>1. transfer.returned = "running" /\ Running("download")
      BY <1>1 DEF DownloadOK, Running, Downloads
    <2>2. transfer' \in Taken(code)
      BY <1>1, <2>1 DEF downloadChar
    <2>3. CASE code = "EOT"
      BY <1>1, <2>1, <2>2, <2>3, DownloadCloses DEF Taken, TransferOK
    <2>4. CASE code # "EOT"
      <3>1. \/ transfer' = [transfer EXCEPT !.file = Append(@, code)]
            \/ transfer' = [transfer EXCEPT !.writeError = TRUE]
        BY <2>2, <2>4 DEF Taken
      <3> QED BY <1>1, <2>1, <2>4, <3>1, DownloadHears DEF TransferOK
    <2> QED BY <2>3, <2>4
  <1>2. CASE transfer \in Downloads /\ DownloadOK(transfer, heard) /\ ~transfer.isOpen
    <2>1. transfer' = transfer
      BY <1>2 DEF downloadChar
    <2>2. QED BY <1>2, <2>1, DownloadIgnores DEF TransferOK
  <1>3. CASE transfer = NoTransfer \/ (transfer \in Uploads /\ UploadOK(transfer))
    <2>1. transfer' = transfer
      BY <1>3 DEF downloadChar, Running, NoTransfer, Uploads
    <2>2. QED BY <1>3, <2>1 DEF TransferOK
  <1>4. QED BY <1>1, <1>2, <1>3 DEF TransferOK

LEMMA BeginTransfer ==
  ASSUME TransferOK, heard \in Seq(Codes), slotFileSaveAs \/ slotFileOpen
  PROVE  TransferOK'
  <1>1. heard' = heard /\ Len(heard) \in Nat
    BY DEF slotFileSaveAs, slotFileOpen, Begin, emulationVars
  <1>2. CASE slotFileSaveAs
    <2> DEFINE t == Download(Len(heard) + 1)
    <2>1. transfer' = t
      BY <1>2 DEF slotFileSaveAs, Begin
    <2>2. /\ t \in Downloads /\ t.first = Len(heard) + 1 /\ t.file = <<>> /\ t.isOpen
          /\ ~t.writeError /\ t.returned = "running"
      BY <1>1 DEF Download, Downloads, Outcomes
    <2> HIDE DEF t
    <2>3. /\ TakenFrom(t, heard) /\ t.first + Len(t.file) = Len(heard) + 1 /\ 1 <= t.first
          /\ OneFile(t, heard, Len(heard) + 1) /\ t.returned # "finished"
      BY <1>1, <2>2 DEF TakenFrom, OneFile
    <2>4. DownloadOK(t, heard)
      BY <2>2, <2>3, Zenon DEF DownloadOK
    <2>5. QED BY <1>1, <2>1, <2>2, <2>4 DEF TransferOK
  <1>3. CASE slotFileOpen
    <2>1. PICK size \in UploadSizes : transfer' = Upload(size)
      BY <1>3 DEF slotFileOpen, Begin
    <2>2. /\ transfer' \in Uploads /\ transfer'.size = size /\ transfer'.read = 0
          /\ transfer'.wire = <<>> /\ transfer'.returned = "running" /\ size \in Nat
      BY <2>1 DEF Upload, Uploads, Outcomes
    <2>3. UploadOK(transfer')
      BY <2>2 DEF UploadOK
    <2>4. QED BY <2>2, <2>3 DEF TransferOK
  <1>4. QED BY <1>2, <1>3

\* DownloadOK says nothing of wasCanceled.
LEMMA SameDownload ==
  ASSUME NEW t, NEW u, NEW bytes, DownloadOK(t, bytes),
         u.first = t.first, u.file = t.file, u.isOpen = t.isOpen, u.returned = t.returned,
         u.writeError = t.writeError, u.flushed = t.flushed
  PROVE  DownloadOK(u, bytes)
  <1>1. /\ TakenFrom(t, bytes) => TakenFrom(u, bytes)
        /\ \A end : OneFile(t, bytes, end) => OneFile(u, bytes, end)
    BY DEF TakenFrom, OneFile
  <1>2. \A end : ClosedAt(t, bytes, end) => ClosedAt(u, bytes, end)
    BY <1>1 DEF ClosedAt
  <1>3. /\ 1 <= u.first
        /\ u.isOpen => u.returned = "running"
        /\ u.returned = "finished" => ~u.isOpen /\ ~u.writeError
    BY DEF DownloadOK
  <1>4. (u.isOpen /\ ~u.writeError) =>
          /\ TakenFrom(u, bytes) /\ u.first + Len(u.file) = Len(bytes) + 1
          /\ OneFile(u, bytes, Len(bytes) + 1)
    BY <1>1 DEF DownloadOK
  <1>5. (~u.isOpen /\ ~u.writeError /\ u.returned # "gave up") =>
          TakenFrom(u, bytes) /\ \E end \in 1 .. Len(bytes) : ClosedAt(u, bytes, end)
    BY <1>1, <1>2 DEF DownloadOK
  <1> QED BY <1>3, <1>4, <1>5, Zenon DEF DownloadOK

LEMMA cancelTransfer == ASSUME TransferOK, cancel PROVE TransferOK'
  <1>1. heard' = heard /\ transfer' = [transfer EXCEPT !.wasCanceled = TRUE]
    BY DEF cancel, emulationVars
  <1>2. transfer # NoTransfer
    BY DEF cancel, Modal, Running, NoTransfer
  <1>3. CASE transfer \in Uploads /\ UploadOK(transfer)
    <2>1. /\ transfer' \in Uploads /\ transfer'.size = transfer.size
          /\ transfer'.read = transfer.read /\ transfer'.wire = transfer.wire
          /\ transfer'.returned = transfer.returned
      BY <1>1, <1>3 DEF Uploads
    <2>2. UploadOK(transfer')
      BY <1>3, <2>1 DEF UploadOK
    <2>3. QED BY <2>1, <2>2 DEF TransferOK
  <1>4. CASE transfer \in Downloads /\ DownloadOK(transfer, heard)
    <2>1. /\ transfer' \in Downloads /\ transfer'.first = transfer.first
          /\ transfer'.file = transfer.file /\ transfer'.isOpen = transfer.isOpen
          /\ transfer'.writeError = transfer.writeError
          /\ transfer'.flushed = transfer.flushed
          /\ transfer'.returned = transfer.returned
      BY <1>1, <1>4 DEF Downloads
    <2>3. DownloadOK(transfer', heard)
      BY <1>4, <2>1, SameDownload
    <2>4. QED BY <1>1, <2>1, <2>3 DEF TransferOK
  <1>5. QED BY <1>2, <1>3, <1>4 DEF TransferOK

-----------------------------------------------------------------------------
(* Invariance.                                                             *)

EmulationOK == EmulationTypeOK /\ ParserOK /\ DrawnOK

Inv == EmulationOK /\ ReceiveOK /\ LogOK /\ TransferOK

LEMMA InitInv == Init => Inv
  <1> SUFFICES ASSUME Init PROVE Inv
    OBVIOUS
  <1>1. EmulationOK
    <2>1. /\ mCtlSequence \in Seq(Codes) /\ Len(mCtlSequence) = 0
          /\ heard \in Seq(Codes) /\ drawn \subseteq DOMAIN heard
      BY DEF Init, EmulationInit
    <2>2. mSawESC \in BOOLEAN /\ mInCtlSequence \in BOOLEAN /\ mPendingCharsetChar \in BOOLEAN
      BY DEF Init, EmulationInit
    <2>3. QED BY <2>1, <2>2, ParserInit DEF Init, EmulationTypeOK, EmulationOK
  <1>2. ReceiveOK
    BY DEF Init, EmulationInit, ReceiveOK, Increasing, Below
  <1>3. LogOK
    <2>1. mLog = <<>> /\ mLineBuffer = <<>> /\ mLogOpen \in BOOLEAN /\ mStreamOk \in BOOLEAN
      BY DEF Init
    <2>2. mLog \in Seq(Seq(Written)) /\ mLineBuffer \in Seq(Codes) /\ Len(mLineBuffer) = 0
      BY <2>1
    <2>3. QED BY <2>1, <2>2 DEF LogOK
  <1>4. TransferOK
    BY DEF Init, TransferOK
  <1>5. QED BY <1>1, <1>2, <1>3, <1>4 DEF Inv

LEMMA RenderInv == ASSUME Inv, Render PROVE Inv'
  <1>1. PICK code \in Codes : receivedChar(code)
    BY DEF Render
  <1>2. EmulationOK' /\ heard' = Append(heard, code)
    BY <1>1, EmulationType, ParserStep, DrawnStep DEF receivedChar, Inv, EmulationOK
  <1>3. ReceiveOK'
    BY <1>1, receivedCharReceive DEF Inv, EmulationOK
  <1>4. LogOK'
    BY <1>1, logCharType DEF receivedChar, Inv
  <1>5. TransferOK'
    BY <1>1, <1>2, receivedCharTransfer DEF receivedChar, Inv, EmulationOK, EmulationTypeOK
  <1>6. QED BY <1>2, <1>3, <1>4, <1>5 DEF Inv

\* Nothing but rendering changes the emulation.
LEMMA EmulationStays ==
  ASSUME EmulationOK, UNCHANGED emulationVars
  PROVE  EmulationOK'
  BY DEF EmulationOK, EmulationTypeOK, ParserOK, DrawnOK, Idle, AfterEscape, InControlSequence,
     AtDesignator, Over, emulationVars, sequenceVars

LEMMA PortInv == ASSUME Inv, data = <<>>, slotFlushRxBuffer \/ Port PROVE Inv'
  <1>1. UNCHANGED <<emulationVars, transfer, logVars>>
    BY DEF slotFlushRxBuffer, Port, slotDataAvailable, close, open, setRxQueue
  <1>2. EmulationOK'
    BY <1>1, EmulationStays DEF Inv
  <1>3. LogOK' /\ TransferOK'
    BY <1>1 DEF Inv, LogOK, TransferOK, logVars, emulationVars
  <1>4. ReceiveOK'
    <2>1. CASE slotFlushRxBuffer
      BY <2>1, slotFlushRxBufferReceive DEF Inv
    <2>2. ASSUME NEW n \in 1 .. MaxWork, slotDataAvailable(n) PROVE ReceiveOK'
      BY <2>2, slotDataAvailableReceive DEF Inv
    <2>3. CASE close \/ open
      BY <2>3 DEF close, open, emulationVars, Inv, ReceiveOK, Increasing, Below
    <2>4. ASSUME NEW size \in QueueSizes, setRxQueue(size) PROVE ReceiveOK'
      BY <2>4 DEF setRxQueue, emulationVars, Inv, ReceiveOK, Increasing, Below
    <2>5. QED BY <2>1, <2>2, <2>3, <2>4 DEF Port
  <1>5. QED BY <1>2, <1>3, <1>4 DEF Inv

LEMMA WindowInv == ASSUME Inv, Window \/ Loops PROVE Inv'
  <1>1. /\ UNCHANGED <<emulationVars, rxVars, data, rendered>>
        /\ files' = files \/ (files' = files + 1 /\ Work(0, 1))
    BY DEF Window, Loops, slotFileSaveAs, slotFileOpen, Begin, startLogging, stopLogging,
       cancel, download, uploadByte, upload, LoopStep
  <1>2. EmulationOK'
    BY <1>1, EmulationStays DEF Inv
  <1>3. ReceiveOK'
    <2>1. files' \in 0 .. MaxWork
      BY <1>1 DEF Inv, ReceiveOK, Work
    <2>2. QED BY <1>1, <2>1 DEF Inv, ReceiveOK, Increasing, Below, rxVars, emulationVars
  <1>4. LogOK'
    <2>1. CASE startLogging
      BY <2>1 DEF startLogging, LogOK
    <2>2. CASE stopLogging
      <3>1. flushLine(mLineBuffer) /\ mLogOpen' \in BOOLEAN
        BY <2>2 DEF stopLogging
      <3> QED BY <3>1, flushLineType DEF Inv, LogOK
    <2>3. CASE UNCHANGED logVars
      BY <2>3 DEF logVars, LogOK, Inv
    <2>4. QED
      BY <2>1, <2>2, <2>3
         DEF Window, Loops, slotFileSaveAs, slotFileOpen, Begin, cancel, download, uploadByte,
             upload, LoopStep
  <1>5. TransferOK'
    <2>1. CASE slotFileSaveAs \/ slotFileOpen
      BY <2>1, BeginTransfer DEF Inv, EmulationOK, EmulationTypeOK
    <2>2. CASE cancel
      BY <2>2, cancelTransfer DEF Inv
    <2>3. CASE Loops
      BY <2>3, LoopsTransfer DEF Inv
    <2>4. CASE startLogging \/ stopLogging
      BY <2>4 DEF startLogging, stopLogging, emulationVars, Inv, TransferOK
    <2>5. QED BY <2>1, <2>2, <2>3, <2>4 DEF Window
  <1>6. QED BY <1>2, <1>3, <1>4, <1>5 DEF Inv

LEMMA NextInv == Inv /\ [Next]_vars => Inv'
  <1> SUFFICES ASSUME Inv, [Next]_vars PROVE Inv'
    OBVIOUS
  <1>1. CASE Render
    BY <1>1, RenderInv
  <1>2. CASE data = <<>> /\ (slotFlushRxBuffer \/ Port)
    BY <1>2, PortInv
  <1>3. CASE Window \/ Loops
    BY <1>3, WindowInv
  <1>4. CASE UNCHANGED vars
    <2>1. EmulationOK'
      BY <1>4, EmulationStays DEF vars, Inv
    <2>2. QED
      BY <1>4, <2>1 DEF vars, rxVars, logVars, emulationVars, Inv, ReceiveOK, Increasing, Below,
         LogOK, TransferOK
  <1>5. QED BY <1>1, <1>2, <1>3, <1>4 DEF Next

-----------------------------------------------------------------------------
(* The theorems.                                                           *)

\* The inductive invariant: what has been received is three increasing sequences, each
\* below the next; what a transfer has moved is what it has read or heard; the parser's
\* flags are what the bytes since the last ESC make them.
THEOREM Invariance == Spec => []Inv
  BY InitInv, NextInv, PTL DEF Spec

\* Every part of the receive path, the log and the emulation stays well typed; no line
\* buffer reaches the limit.
THEOREM TypeCorrect == Spec => []TypeOK
  <1>1. ASSUME Inv PROVE TypeOK
    <2>1. 1 .. arrived \subseteq 1 .. MaxWork
      BY <1>1 DEF Inv, ReceiveOK
    <2>2. /\ rendered \in Seq(1 .. MaxWork) /\ data \in Seq(1 .. MaxWork)
          /\ mRxBuffer \in Seq(1 .. MaxWork)
      BY <1>1, <2>1, SeqMonotonic DEF Inv, ReceiveOK
    <2>3. QED BY <1>1, <2>2 DEF Inv, EmulationOK, ReceiveOK, LogOK, Written, TypeOK
  <1>2. QED BY <1>1, Invariance, PTL

\* komportemulation.cpp:1433-1442 and 1467-1473: for every stream and every limit of a
\* sequence, what is drawn is exactly what is no part of a sequence.
THEOREM TextIsWhatIsDrawn == Spec => []TextIsDrawn
  <1>1. Inv => TextIsDrawn
    BY ParserDraws DEF Inv, EmulationOK
  <1>2. QED BY <1>1, Invariance, PTL

LEMMA OnTheWayOrder ==
  ASSUME Inv
  PROVE  /\ OnTheWay \in Seq(1 .. arrived) /\ Increasing(OnTheWay)
         /\ Range(OnTheWay) = Range(rendered) \cup Range(data) \cup Range(mRxBuffer)
  <1> DEFINE first == rendered \o data
  <1>1. /\ arrived \in Nat
        /\ rendered \in Seq(1 .. arrived) /\ data \in Seq(1 .. arrived)
        /\ mRxBuffer \in Seq(1 .. arrived)
    BY DEF Inv, ReceiveOK
  <1>2. first \in Seq(1 .. arrived) /\ Range(first) = Range(rendered) \cup Range(data)
    BY <1>1, ConcatProperties, RangeConcatenation
  <1>3. /\ rendered \in Seq(Nat) /\ data \in Seq(Nat) /\ mRxBuffer \in Seq(Nat)
        /\ first \in Seq(Nat)
    BY <1>1, <1>2, SeqOfNat
  <1>4. Increasing(first)
    BY <1>3, IncreasingConcat DEF Inv, ReceiveOK
  <1>5. Below(first, mRxBuffer)
    <2>1. /\ Len(first) = Len(rendered) + Len(data) /\ Len(rendered) \in Nat /\ Len(data) \in Nat
          /\ \A i \in 1 .. Len(rendered) + Len(data) : first[i] =
               IF i <= Len(rendered) THEN rendered[i] ELSE data[i - Len(rendered)]
      BY <1>1, ConcatProperties
    <2> HIDE DEF first
    <2>2. ASSUME NEW i \in 1 .. Len(first), NEW j \in 1 .. Len(mRxBuffer)
          PROVE  first[i] < mRxBuffer[j]
      <3>1. CASE i <= Len(rendered)
        <4>1. i \in 1 .. Len(rendered) /\ first[i] = rendered[i]
          BY <2>1, <2>2, <3>1
        <4>2. QED BY <4>1 DEF Inv, ReceiveOK, Below
      <3>2. CASE ~(i <= Len(rendered))
        <4>1. i - Len(rendered) \in 1 .. Len(data) /\ first[i] = data[i - Len(rendered)]
          BY <2>1, <2>2, <3>2
        <4>2. QED BY <4>1 DEF Inv, ReceiveOK, Below
      <3>3. QED BY <3>1, <3>2
    <2>3. QED BY <2>2 DEF Below
  <1> HIDE DEF first
  <1>6. first \o mRxBuffer \in Seq(1 .. arrived) /\ Increasing(first \o mRxBuffer)
    BY <1>1, <1>2, <1>3, <1>4, <1>5, ConcatProperties, IncreasingConcat DEF Inv, ReceiveOK
  <1>7. Range(first \o mRxBuffer) = Range(first) \cup Range(mRxBuffer)
    BY <1>1, <1>2, RangeConcatenation
  <1>8. QED BY <1>2, <1>6, <1>7 DEF OnTheWay, first

\* komportserial.cpp:497-576: for every limit of the buffer and any flushes, closes and
\* reopens, no byte is rendered twice and none overtakes another.
THEOREM ReceivedInOrder == Spec => []RenderedInOrder
  <1>1. ASSUME Inv PROVE RenderedInOrder
    <2>1. OnTheWay \in Seq(1 .. arrived) /\ Increasing(OnTheWay)
      BY <1>1, OnTheWayOrder
    <2>2. Range(OnTheWay) \subseteq 1 .. arrived
      BY <2>1, RangeOfSeq
    <2>3. QED BY <2>1, <2>2 DEF RenderedInOrder, Increasing
  <1>2. QED BY <1>1, Invariance, PTL

\* komporttransfer.cpp:67-75: for every size of the file, an upload that reports success
\* has sent all of it, once and in order.
THEOREM UploadsAreExact == Spec => []UploadIsExact
  <1>1. ASSUME Inv, transfer.kind = "upload", transfer.returned = "finished"
        PROVE  transfer.wire = [i \in 1 .. transfer.size |-> i]
    <2>1. transfer \in Uploads /\ UploadOK(transfer)
      BY <1>1 DEF Inv, TransferOK, NoTransfer, Downloads
    <2>2. /\ transfer.wire \in Seq(Nat) /\ Len(transfer.wire) = transfer.size
          /\ \A i \in 1 .. Len(transfer.wire) : transfer.wire[i] = i
      BY <1>1, <2>1 DEF Uploads, UploadOK
    <2>3. QED BY <2>2
  <1>2. Inv => UploadIsExact
    BY <1>1 DEF UploadIsExact, Finished
  <1>3. QED BY <1>2, Invariance, PTL

\* komporttransfer.cpp:116-147: whatever is cancelled, fails or arrives before the loop
\* looks, a download that reports success was ended by the first Ctrl-D and holds a
\* beginning of what was rendered up to it: all of it, unless the flush in close() failed.
THEOREM DownloadsAreExact == Spec => []DownloadIsExact
  <1>1. ASSUME Inv, Finished("download")
        PROVE  \E end \in transfer.first .. Len(heard) :
                 /\ EndsAt(end)
                 /\ IsPrefix(transfer.file, SentUntil(end))
                 /\ transfer.flushed => transfer.file = SentUntil(end)
    <2>1. /\ transfer \in Downloads /\ DownloadOK(transfer, heard)
          /\ heard \in Seq(Codes) /\ transfer.returned = "finished"
      BY <1>1 DEF Finished, Inv, TransferOK, NoTransfer, Uploads, EmulationOK, EmulationTypeOK
    <2>2. /\ 1 <= transfer.first /\ TakenFrom(transfer, heard)
          /\ \E end \in 1 .. Len(heard) : ClosedAt(transfer, heard, end)
      BY <2>1, Zenon DEF DownloadOK
    <2>3. PICK end \in 1 .. Len(heard) : ClosedAt(transfer, heard, end)
      BY <2>2
    <2>4. PICK bytes, file, first, sent :
            /\ bytes = heard /\ file = transfer.file /\ first = transfer.first
            /\ sent = SubSeq(heard, first, end - 1)
      OBVIOUS
    <2>5. /\ bytes \in Seq(Codes) /\ file \in Seq(Codes) /\ Len(bytes) \in Nat
          /\ Len(file) \in Nat /\ first \in Nat /\ 1 <= first
          /\ end \in Nat /\ end <= Len(bytes) /\ first + Len(file) <= end
      BY <2>1, <2>2, <2>3, <2>4 DEF Downloads, ClosedAt, OneFile
    <2>6. /\ \A i \in 1 .. Len(file) : file[i] = bytes[first + i - 1]
          /\ bytes[end] = "EOT" /\ \A i \in first .. end - 1 : bytes[i] # "EOT"
          /\ transfer.flushed => first + Len(file) = end
      BY <2>2, <2>3, <2>4 DEF TakenFrom, ClosedAt, OneFile
    <2>7. \A i \in first .. end - 1 : bytes[i] \in Codes
      <3>1. \A i \in first .. end - 1 : i \in 1 .. Len(bytes)
        BY <2>5
      <3> QED BY <2>5, <3>1
    <2>8. /\ first \in Int /\ end - 1 \in Int /\ end - 1 - first + 1 = end - first
          /\ end - first \in Nat /\ Len(file) <= end - first
      BY <2>5
    <2>9. /\ sent \in Seq(Codes) /\ Len(sent) = end - first
          /\ \A i \in 1 .. end - first : sent[i] = bytes[first + i - 1]
      <3>1. /\ SubSeq(bytes, first, end - 1) \in Seq(Codes)
            /\ Len(SubSeq(bytes, first, end - 1)) =
                 IF first <= end - 1 THEN end - 1 - first + 1 ELSE 0
            /\ \A i \in 1 .. end - 1 - first + 1 :
                 SubSeq(bytes, first, end - 1)[i] = bytes[first + i - 1]
        BY <2>7, <2>8, SubSeqProperties
      <3> QED BY <2>4, <2>5, <2>8, <3>1
    <2>10. \A i \in 1 .. Len(file) : file[i] = sent[i]
      <3>1. \A i \in 1 .. Len(file) : i \in 1 .. end - first
        BY <2>5, <2>8
      <3> QED BY <2>6, <2>9, <3>1
    <2>11. IsPrefix(file, sent)
      <3>1. /\ SubSeq(file, 1, Len(file)) \in Seq(Codes) /\ SubSeq(sent, 1, Len(file)) \in Seq(Codes)
            /\ Len(SubSeq(file, 1, Len(file))) = Len(file)
            /\ Len(SubSeq(sent, 1, Len(file))) = Len(file)
            /\ \A i \in 1 .. Len(file) :
                 SubSeq(file, 1, Len(file))[i] = file[i] /\ SubSeq(sent, 1, Len(file))[i] = sent[i]
        <4>1. Len(file) \in 0 .. Len(file) /\ Len(file) \in 0 .. Len(sent)
          BY <2>5, <2>8, <2>9
        <4> QED BY <2>5, <2>9, <4>1, Beginning
      <3>2. SubSeq(file, 1, Len(file)) = SubSeq(sent, 1, Len(file))
        BY <2>10, <3>1, SeqEqual
      <3> QED BY <2>8, <2>9, <3>2 DEF IsPrefix
    <2>12. transfer.flushed => file = sent
      <3>1. SUFFICES ASSUME transfer.flushed PROVE file = sent
        OBVIOUS
      <3>2. Len(file) = Len(sent)
        BY <2>5, <2>6, <2>9, <3>1
      <3> QED BY <2>5, <2>9, <2>10, <3>2, SeqEqual
    <2>13. end \in transfer.first .. Len(heard)
      BY <2>4, <2>5
    <2>14. EndsAt(end)
      BY <2>4, <2>6 DEF EndsAt
    <2> QED BY <2>4, <2>11, <2>12, <2>13, <2>14 DEF SentUntil
  <1>2. Inv => DownloadIsExact
    BY <1>1 DEF DownloadIsExact
  <1>3. QED BY <1>2, Invariance, PTL

\* A byte the buffer had, or was given, and has no more is older than all it keeps.
LEMMA DroppedIsOldest ==
  ASSUME NEW bytes \in Seq(Nat), Increasing(bytes), mRxQueueMax \in Nat \ {0},
         NEW n \in Range(bytes), n \notin Range(KeepNewest(bytes))
  PROVE  /\ Len(KeepNewest(bytes)) = mRxQueueMax
         /\ \A kept \in Range(KeepNewest(bytes)) : n < kept
  <1> DEFINE rest == KeepNewest(bytes)
             k == Len(bytes) - Len(rest)
  <1>1. /\ rest \in Seq(Nat) /\ Len(bytes) \in Nat /\ Len(rest) \in Nat
        /\ Len(rest) = IF Len(bytes) > mRxQueueMax THEN mRxQueueMax ELSE Len(bytes)
        /\ \A i \in 1 .. Len(rest) : rest[i] = bytes[i + Len(bytes) - Len(rest)]
    BY KeepNewestType
  <1>2. /\ Range(rest) = {rest[i] : i \in 1 .. Len(rest)}
        /\ Range(bytes) = {bytes[i] : i \in 1 .. Len(bytes)}
    BY <1>1, RangeEquality
  <1> HIDE DEF rest
  <1>3. k \in Nat /\ \A i \in 1 .. Len(rest) : rest[i] = bytes[i + k] /\ i + k \in 1 .. Len(bytes)
    <2>1. k \in Nat
      BY <1>1
    <2>2. ASSUME NEW i \in 1 .. Len(rest) PROVE rest[i] = bytes[i + k] /\ i + k \in 1 .. Len(bytes)
      <3>1. i + k = i + Len(bytes) - Len(rest) /\ i + k \in 1 .. Len(bytes)
        BY <1>1
      <3>2. QED BY <1>1, <3>1
    <2>3. QED BY <2>1, <2>2
  <1>4. PICK place \in 1 .. Len(bytes) : n = bytes[place]
    BY <1>2
  <1>5. place <= k
    <2>1. ASSUME ~(place <= k) PROVE FALSE
      <3>1. place - k \in 1 .. Len(rest) /\ (place - k) + k = place
        BY <1>1, <1>3, <2>1
      <3>2. rest[place - k] = bytes[place]
        BY <1>3, <3>1
      <3>3. QED BY <1>2, <1>4, <3>1, <3>2 DEF rest
    <2>2. QED BY <2>1
  <1>6. Len(rest) = mRxQueueMax
    BY <1>1, <1>5
  <1>7. ASSUME NEW i \in 1 .. Len(rest) PROVE n < rest[i]
    <2>1. place < i + k
      BY <1>3, <1>5
    <2>2. QED BY <1>3, <1>4, <2>1 DEF Increasing
  <1>8. QED BY <1>2, <1>6, <1>7 DEF rest

LEMMA RangeOfThree ==
  ASSUME NEW S, NEW s \in Seq(S), NEW t \in Seq(S), NEW u \in Seq(S)
  PROVE  Range(s \o t \o u) = Range(s) \cup Range(t) \cup Range(u)
  <1> DEFINE st == s \o t
  <1>1. st \in Seq(S) /\ Range(st) = Range(s) \cup Range(t)
    BY ConcatProperties, RangeConcatenation
  <1> HIDE DEF st
  <1>2. Range(st \o u) = Range(st) \cup Range(u)
    BY <1>1, RangeConcatenation
  <1>3. QED BY <1>1, <1>2 DEF st

LEMMA ChunkLoses ==
  ASSUME Inv, data = <<>>, NEW c \in 1 .. MaxWork, slotDataAvailable(c),
         NEW n \in 1 .. MaxWork, Lost(n)', ~Lost(n)
  PROVE  /\ Len(mRxBuffer') = mRxQueueMax
         /\ \A kept \in Range(mRxBuffer') : n < kept
  <1> DEFINE bytes == mRxBuffer \o Chunk(c)
  <1>1. /\ arrived' = arrived + c /\ mRxBuffer' = KeepNewest(bytes)
        /\ UNCHANGED <<data, rendered>> /\ arrived \in Nat /\ c \in Nat
    BY DEF slotDataAvailable, Chunk, Inv, ReceiveOK
  <1>2. bytes \in Seq(1 .. arrived + c) /\ Increasing(bytes) /\ arrived + c \in 0 .. MaxWork
    BY ChunkBuffered DEF slotDataAvailable, Inv
  <1>3. Range(bytes) = Range(mRxBuffer) \cup Range(Chunk(c))
    <2>1. Chunk(c) \in Seq(arrived + 1 .. arrived + c)
      BY <1>1, ChunkType
    <2>2. arrived + 1 .. arrived + c \subseteq Nat
      BY <1>1
    <2>3. mRxBuffer \in Seq(Nat) /\ Chunk(c) \in Seq(Nat)
      BY <1>1, <2>1, <2>2, SeqMonotonic, SeqOfNat DEF Inv, ReceiveOK
    <2>4. QED BY <2>3, RangeConcatenation
  <1>4. /\ n \notin Range(OnTheWay)' /\ n <= arrived + c
        /\ n > arrived \/ n \in Range(OnTheWay)
    BY <1>1 DEF Lost
  <1>5. Range(OnTheWay)' = Range(rendered') \cup Range(data') \cup Range(mRxBuffer')
    <2>1. Inv'
      <3>1. Port
        BY DEF Port
      <3>2. QED BY <3>1, PortInv
    <2>2. OnTheWay' = rendered' \o data' \o mRxBuffer'
      BY DEF OnTheWay
    <2>3. /\ rendered' \in Seq(1 .. arrived') /\ data' \in Seq(1 .. arrived')
          /\ mRxBuffer' \in Seq(1 .. arrived')
      BY <2>1 DEF Inv, ReceiveOK
    <2>4. Range(rendered' \o data' \o mRxBuffer') =
            Range(rendered') \cup Range(data') \cup Range(mRxBuffer')
      BY <2>3, RangeOfThree
    <2>5. QED BY <2>2, <2>4
  <1>6. Range(OnTheWay) = Range(rendered) \cup Range(data) \cup Range(mRxBuffer)
    BY OnTheWayOrder
  <1>7. n \in Range(bytes)
    <2>1. CASE n > arrived
      <3>1. /\ n - arrived \in 1 .. c /\ Chunk(c)[n - arrived] = n
            /\ DOMAIN Chunk(c) = 1 .. c
        <4>1. n - arrived \in 1 .. c /\ arrived + (n - arrived) = n
          BY <1>1, <1>4, <2>1
        <4>2. QED BY <4>1 DEF Chunk
      <3>2. n \in Range(Chunk(c))
        BY <3>1 DEF Range
      <3>3. QED BY <1>3, <3>2
    <2>2. CASE n \in Range(OnTheWay)
      BY <1>1, <1>3, <1>4, <1>5, <1>6, <2>2
    <2>3. QED BY <1>4, <2>1, <2>2
  <1>8. n \notin Range(mRxBuffer')
    BY <1>4, <1>5
  <1>9. bytes \in Seq(Nat) /\ mRxQueueMax \in Nat \ {0}
    BY <1>1, <1>2, SeqOfNat DEF Inv, ReceiveOK
  <1> HIDE DEF bytes
  <1>10. QED BY <1>1, <1>2, <1>7, <1>8, <1>9, DroppedIsOldest

\* Every other step leaves the bytes on the way as they are.
LEMMA OthersKeep ==
  ASSUME Inv, [Next]_vars,
         ~(data = <<>> /\ \E c \in 1 .. MaxWork : slotDataAvailable(c))
  PROVE  arrived' = arrived /\ OnTheWay' = OnTheWay
  <1>1. CASE UNCHANGED <<rendered, data, mRxBuffer, arrived>>
    BY <1>1 DEF OnTheWay
  <1>2. CASE data = <<>> /\ slotFlushRxBuffer
    <2>1. /\ data' = mRxBuffer /\ mRxBuffer' = <<>>
          /\ UNCHANGED <<rendered, arrived>>
      BY <1>2 DEF slotFlushRxBuffer, Cleared
    <2>2. rendered \in Seq(1 .. arrived) /\ mRxBuffer \in Seq(1 .. arrived)
      BY DEF Inv, ReceiveOK
    <2>3. rendered \o mRxBuffer \in Seq(1 .. arrived)
      BY <2>2, ConcatProperties
    <2>4. rendered \o <<>> = rendered /\ (rendered \o mRxBuffer) \o <<>> = rendered \o mRxBuffer
      BY <2>2, <2>3, ConcatEmptySeq
    <2>5. OnTheWay = (rendered \o <<>>) \o mRxBuffer
      BY <1>2 DEF OnTheWay
    <2>6. OnTheWay' = (rendered \o mRxBuffer) \o <<>>
      BY <2>1 DEF OnTheWay
    <2>7. QED BY <2>1, <2>4, <2>5, <2>6
  <1>3. CASE Render
    <2>1. /\ data # <<>> /\ data' = Tail(data) /\ rendered' = Append(rendered, Head(data))
          /\ UNCHANGED <<mRxBuffer, arrived>>
      BY <1>3 DEF Render, receivedChar, rxVars
    <2>2. rendered \in Seq(1 .. arrived) /\ data \in Seq(1 .. arrived)
      BY DEF Inv, ReceiveOK
    <2>3. /\ Head(data) \in 1 .. arrived /\ Tail(data) \in Seq(1 .. arrived)
          /\ Len(Tail(data)) = Len(data) - 1 /\ Head(data) = data[1]
          /\ \A i \in 1 .. Len(Tail(data)) : Tail(data)[i] = data[i + 1]
          /\ Len(data) \in Nat /\ Len(data) >= 1 /\ Len(rendered) \in Nat
      <3>1. /\ Head(data) \in 1 .. arrived /\ Tail(data) \in Seq(1 .. arrived)
            /\ Len(Tail(data)) = Len(data) - 1
            /\ \A i \in 1 .. Len(Tail(data)) : Tail(data)[i] = data[i + 1]
        BY <2>1, <2>2, HeadTailProperties
      <3>2. Head(data) = data[1] /\ Len(data) \in Nat /\ Len(rendered) \in Nat
        BY <2>2
      <3>3. Len(data) >= 1
        BY <2>1, <2>2, EmptySeq
      <3>4. QED BY <3>1, <3>2, <3>3
    <2> DEFINE s == Append(rendered, Head(data))
    <2>4. /\ s \in Seq(1 .. arrived) /\ Len(s) = Len(rendered) + 1
          /\ \A i \in 1 .. Len(rendered) : s[i] = rendered[i]
          /\ s[Len(rendered) + 1] = data[1]
      BY <2>2, <2>3, AppendProperties
    <2>5. /\ rendered \o data \in Seq(1 .. arrived)
          /\ Len(rendered \o data) = Len(rendered) + Len(data)
          /\ \A i \in 1 .. Len(rendered) + Len(data) : (rendered \o data)[i] =
               IF i <= Len(rendered) THEN rendered[i] ELSE data[i - Len(rendered)]
      BY <2>2, ConcatProperties
    <2>6. /\ s \o Tail(data) \in Seq(1 .. arrived)
          /\ Len(s \o Tail(data)) = Len(s) + Len(Tail(data))
          /\ \A i \in 1 .. Len(s) + Len(Tail(data)) : (s \o Tail(data))[i] =
               IF i <= Len(s) THEN s[i] ELSE Tail(data)[i - Len(s)]
      BY <2>3, <2>4, ConcatProperties
    <2> HIDE DEF s
    <2>7. Len(s \o Tail(data)) = Len(rendered \o data)
      BY <2>3, <2>4, <2>5, <2>6
    <2>8. ASSUME NEW i \in 1 .. Len(s \o Tail(data))
          PROVE  (s \o Tail(data))[i] = (rendered \o data)[i]
      <3>1. CASE i <= Len(rendered)
        <4>1. i \in 1 .. Len(rendered) /\ i <= Len(s) /\ i \in 1 .. Len(rendered) + Len(data)
          BY <2>3, <2>4, <2>6, <3>1
        <4>2. i \in 1 .. Len(s) + Len(Tail(data))
          BY <2>6
        <4>3. QED BY <2>4, <2>5, <2>6, <4>1, <4>2
      <3>2. CASE i = Len(rendered) + 1
        <4>1. /\ i <= Len(s) /\ ~(i <= Len(rendered)) /\ i - Len(rendered) = 1
              /\ i \in 1 .. Len(rendered) + Len(data) /\ i \in 1 .. Len(s) + Len(Tail(data))
          BY <2>3, <2>4, <2>6, <3>2
        <4>2. (s \o Tail(data))[i] = data[1]
          BY <2>4, <2>6, <3>2, <4>1
        <4>3. (rendered \o data)[i] = data[1]
          BY <2>5, <4>1
        <4>4. QED BY <4>2, <4>3
      <3>3. CASE i > Len(rendered) + 1
        <4>1. /\ ~(i <= Len(s)) /\ ~(i <= Len(rendered)) /\ i - Len(s) + 1 = i - Len(rendered)
              /\ i - Len(s) \in 1 .. Len(Tail(data))
              /\ i \in 1 .. Len(rendered) + Len(data) /\ i \in 1 .. Len(s) + Len(Tail(data))
          BY <2>3, <2>4, <2>6, <3>3
        <4>2. (s \o Tail(data))[i] = data[i - Len(s) + 1]
          BY <2>3, <2>6, <4>1
        <4>3. (rendered \o data)[i] = data[i - Len(rendered)]
          BY <2>5, <4>1
        <4>4. QED BY <4>1, <4>2, <4>3
      <3>4. i <= Len(rendered) \/ i = Len(rendered) + 1 \/ i > Len(rendered) + 1
        <4>1. i \in Int /\ Len(rendered) \in Int
          BY <2>3
        <4>2. QED BY <4>1
      <3>5. QED BY <3>1, <3>2, <3>3, <3>4
    <2>9. s \o Tail(data) = rendered \o data
      BY <2>5, <2>6, <2>7, <2>8, SeqEqual
    <2>10. QED BY <2>1, <2>9 DEF OnTheWay, s
  <1>4. QED
    BY <1>1, <1>2, <1>3
       DEF Next, Port, close, open, setRxQueue, Window, Loops, slotFileSaveAs, slotFileOpen,
           Begin, startLogging, stopLogging, cancel, download, uploadByte, upload, LoopStep,
           rxVars, vars

\* komportserial.cpp:507-511: a byte is lost only to an overflow, and then it is older
\* than every byte kept, for every limit and every change of it.
THEOREM LossIsOverflow == Spec => OnlyOverflowLoses
  <1>1. ASSUME Inv, [Next]_vars, NEW n \in 1 .. MaxWork, Lost(n)', ~Lost(n)
        PROVE  /\ Len(mRxBuffer') = mRxQueueMax
               /\ \A kept \in Range(mRxBuffer') : n < kept
    <2>1. CASE data = <<>> /\ \E c \in 1 .. MaxWork : slotDataAvailable(c)
      <3>1. PICK c \in 1 .. MaxWork : slotDataAvailable(c)
        BY <2>1
      <3>2. QED BY <1>1, <2>1, <3>1, ChunkLoses
    <2>2. CASE ~(data = <<>> /\ \E c \in 1 .. MaxWork : slotDataAvailable(c))
      <3>1. arrived' = arrived /\ OnTheWay' = OnTheWay
        BY <1>1, <2>2, OthersKeep
      <3>2. QED BY <1>1, <3>1 DEF Lost
    <2>3. QED BY <2>1, <2>2
  <1>2. Inv /\ [Next]_vars =>
          [\A n \in 1 .. MaxWork :
             (Lost(n)' /\ ~Lost(n)) =>
               /\ Len(mRxBuffer') = mRxQueueMax
               /\ \A kept \in Range(mRxBuffer') : n < kept]_vars
    BY <1>1
  <1>3. QED BY <1>2, Invariance, PTL DEF Spec, OnlyOverflowLoses

-----------------------------------------------------------------------------
(* Flattened sequences.                                                    *)

\* Induction over the numbers of a set.
LEMMA SetInduction ==
  ASSUME NEW S, 0 \in S, \A n \in Nat : n \in S => n + 1 \in S
  PROVE  \A n \in Nat : n \in S
  <1> DEFINE Before == OpToRel(<, Nat)
  <1>1. SUFFICES ASSUME Nat \ S # {} PROVE FALSE
    OBVIOUS
  <1>2. PICK least \in Nat \ S : \A n \in Nat \ S : ~(<<n, least>> \in Before)
    BY <1>1, NatLessThanWellFounded, WFMin
  <1>3. least - 1 \in Nat /\ least - 1 < least
    OBVIOUS
  <1>4. <<least - 1, least>> \in Before
    BY <1>3 DEF OpToRel
  <1>5. least - 1 \in S
    BY <1>2, <1>3, <1>4
  <1> QED BY <1>3, <1>5

\* g is the run of concatenations that FlattenSeq takes the last of.
Partial(s, g) ==
  g = [i \in 1 .. Len(s) |-> IF i = 1 THEN s[i] ELSE g[i-1] \o s[i]]

\* Two such runs agree as far as their sequences do.
LEMMA PartialAgree ==
  ASSUME NEW s, NEW t, NEW g, NEW h, Partial(s, g), Partial(t, h),
         NEW n \in Nat, n \in 0 .. Len(s), n \in 0 .. Len(t), Len(s) \in Nat, Len(t) \in Nat,
         \A i \in 1 .. n : s[i] = t[i]
  PROVE  \A i \in 1 .. n : g[i] = h[i]
  <1> DEFINE Same == {i \in Nat : i \in 1 .. n => g[i] = h[i]}
  <1>1. 0 \in Same
    OBVIOUS
  <1>2. ASSUME NEW i \in Nat, i \in Same PROVE i + 1 \in Same
    <2>1. SUFFICES ASSUME i + 1 \in 1 .. n PROVE g[i + 1] = h[i + 1]
      OBVIOUS
    <2>2. /\ i + 1 \in 1 .. Len(s)
          /\ i + 1 \in 1 .. Len(t)
          /\ (i + 1) - 1 = i
      BY <2>1
    <2>3. /\ g[i + 1] = IF i + 1 = 1 THEN s[i + 1] ELSE g[i] \o s[i + 1]
          /\ h[i + 1] = IF i + 1 = 1 THEN t[i + 1] ELSE h[i] \o t[i + 1]
      BY <2>2 DEF Partial
    <2>4. i + 1 = 1 \/ g[i] = h[i]
      BY <1>2, <2>1
    <2> QED BY <2>1, <2>3, <2>4
  <1> HIDE DEF Same
  <1>3. \A i \in Nat : i \in Same
    BY <1>1, <1>2, SetInduction
  <1> QED BY <1>3 DEF Same

LEMMA PartialGrows ==
  ASSUME NEW S, NEW s \in Seq(Seq(S)), NEW x \in Seq(S),
         NEW g, Partial(s, g), \A i \in 1 .. Len(s) : g[i] \in Seq(S)
  PROVE  \E h : /\ Partial(Append(s, x), h)
                /\ \A i \in 1 .. Len(s) : h[i] = g[i]
                /\ \A i \in 1 .. Len(s) + 1 : h[i] \in Seq(S)
  <1> DEFINE n == Len(s)
             h == [i \in 1 .. n + 1 |->
                     IF i <= n THEN g[i] ELSE IF n = 0 THEN x ELSE g[n] \o x]
             t == Append(s, x)
  <1>1. n \in Nat /\ Len(t) = n + 1 /\ t[n + 1] = x /\ \A i \in 1 .. n : t[i] = s[i]
    OBVIOUS
  <1>2. \A i \in 1 .. n : h[i] = g[i]
    BY <1>1
  <1>3. \A i \in 1 .. n + 1 : h[i] \in Seq(S)
    BY <1>1
  <1>4. ASSUME NEW i \in 1 .. n + 1
        PROVE  h[i] = IF i = 1 THEN t[i] ELSE h[i-1] \o t[i]
    <2>1. CASE i <= n
      <3>1. i \in 1 .. n /\ (i = 1 \/ i - 1 \in 1 .. n)
        BY <1>1, <2>1
      <3>2. g[i] = IF i = 1 THEN s[i] ELSE g[i-1] \o s[i]
        BY <3>1 DEF Partial
      <3> HIDE DEF h, t, n
      <3> QED BY <1>1, <1>2, <3>1, <3>2
    <2>2. CASE i = n + 1
      <3>1. h[i] = IF n = 0 THEN x ELSE g[n] \o x
        BY <1>1, <2>2
      <3>2. n # 0 => i - 1 \in 1 .. n /\ i - 1 = n
        BY <1>1, <2>2
      <3> HIDE DEF h, t, n
      <3> QED BY <1>1, <1>2, <2>2, <3>1, <3>2
    <2> QED BY <1>1, <2>1, <2>2
  <1>5. Partial(t, h)
    <2>1. h = [i \in 1 .. n + 1 |-> h[i]]
      OBVIOUS
    <2>2. h = [i \in 1 .. Len(t) |-> IF i = 1 THEN t[i] ELSE h[i-1] \o t[i]]
      <3> HIDE DEF h, t, n
      <3> QED BY <1>1, <1>4, <2>1
    <2> HIDE DEF h, t, n
    <2> QED BY <2>2 DEF Partial
  <1> QED BY <1>1, <1>2, <1>3, <1>5

\* Every sequence of sequences has such a run.
LEMMA PartialExists ==
  ASSUME NEW S
  PROVE  \A s \in Seq(Seq(S)) :
           \E g : Partial(s, g) /\ \A i \in 1 .. Len(s) : g[i] \in Seq(S)
  <1> DEFINE Has(s) == \E g : Partial(s, g) /\ \A i \in 1 .. Len(s) : g[i] \in Seq(S)
             Fine == {n \in Nat : \A s \in Seq(Seq(S)) : Len(s) = n => Has(s)}
  <1>1. 0 \in Fine
    <2>1. ASSUME NEW s \in Seq(Seq(S)), Len(s) = 0 PROVE Has(s)
      <3>1. 1 .. Len(s) = {}
        BY <2>1
      <3>2. Partial(s, [i \in {} |-> i])
        BY <3>1 DEF Partial
      <3> QED BY <3>1, <3>2
    <2> QED BY <2>1
  <1>2. ASSUME NEW n \in Nat, n \in Fine PROVE n + 1 \in Fine
    <2>1. ASSUME NEW s \in Seq(Seq(S)), Len(s) = n + 1 PROVE Has(s)
      <3> DEFINE front == SubSeq(s, 1, n)
      <3>1. /\ front \in Seq(Seq(S)) /\ Len(front) = n
            /\ s[n + 1] \in Seq(S) /\ s = Append(front, s[n + 1])
        BY <2>1
      <3>2. PICK g : Partial(front, g) /\ \A i \in 1 .. n : g[i] \in Seq(S)
        BY <1>2, <3>1
      <3> HIDE DEF front
      <3>3. PICK h : /\ Partial(Append(front, s[n + 1]), h)
                     /\ \A i \in 1 .. n + 1 : h[i] \in Seq(S)
        BY <3>1, <3>2, PartialGrows
      <3> QED BY <2>1, <3>1, <3>3
    <2> QED BY <2>1
  <1> HIDE DEF Fine
  <1>3. \A n \in Nat : n \in Fine
    BY <1>1, <1>2, SetInduction
  <1>4. ASSUME NEW s \in Seq(Seq(S)) PROVE Has(s)
    <2>1. Len(s) \in Fine
      BY <1>3
    <2> QED BY <2>1 DEF Fine
  <1> QED BY <1>4

LEMMA FlattenIs ==
  ASSUME NEW s, Len(s) \in Nat, Len(s) # 0, NEW g, Partial(s, g)
  PROVE  FlattenSeq(s) = g[Len(s)]
  <1> DEFINE flatten[i \in 1 .. Len(s)] == IF i = 1 THEN s[i] ELSE flatten[i-1] \o s[i]
  <1>1. FlattenSeq(s) = flatten[Len(s)]
    BY Zenon DEF FlattenSeq
  <1>2. g = [i \in 1 .. Len(s) |-> IF i = 1 THEN s[i] ELSE g[i-1] \o s[i]]
    BY DEF Partial
  <1>3. flatten = [i \in 1 .. Len(s) |-> IF i = 1 THEN s[i] ELSE flatten[i-1] \o s[i]]
    BY <1>2, Zenon DEF flatten
  <1> HIDE DEF flatten
  <1>4. Partial(s, flatten)
    BY <1>3 DEF Partial
  <1>5. \A i \in 1 .. Len(s) : flatten[i] = g[i]
    BY <1>4, PartialAgree
  <1> QED BY <1>1, <1>5

LEMMA FlattenEmpty == FlattenSeq(<<>>) = <<>>
  BY DEF FlattenSeq

\* A sequence added to a sequence of sequences is added to what they flatten to.
LEMMA FlattenAppend ==
  ASSUME NEW S, NEW s \in Seq(Seq(S)), NEW x \in Seq(S)
  PROVE  /\ FlattenSeq(s) \in Seq(S)
         /\ FlattenSeq(Append(s, x)) = FlattenSeq(s) \o x
  <1>1. PICK t : t = Append(s, x)
    OBVIOUS
  <1>2. PICK g : Partial(s, g) /\ \A i \in 1 .. Len(s) : g[i] \in Seq(S)
    BY PartialExists
  <1>3. PICK h : Partial(t, h) /\ \A i \in 1 .. Len(s) : h[i] = g[i]
    BY <1>1, <1>2, PartialGrows
  <1>4. /\ Len(s) \in Nat /\ Len(t) = Len(s) + 1 /\ Len(t) \in Nat /\ Len(t) # 0
        /\ Len(t) \in 1 .. Len(t) /\ Len(t) - 1 = Len(s) /\ t[Len(t)] = x
    BY <1>1
  <1>5. FlattenSeq(t) = h[Len(t)]
    BY <1>3, <1>4, FlattenIs, Zenon
  <1>6. h[Len(t)] = IF Len(t) = 1 THEN x ELSE h[Len(s)] \o x
    BY <1>3, <1>4, Zenon DEF Partial
  <1>7. CASE Len(s) = 0
    <2>1. s = <<>>
      BY <1>7
    <2>2. FlattenSeq(s) = <<>>
      BY <2>1, FlattenEmpty, Zenon
    <2>3. <<>> \in Seq(S) /\ <<>> \o x = x
      OBVIOUS
    <2> QED BY <1>1, <1>4, <1>5, <1>6, <1>7, <2>2, <2>3
  <1>8. CASE Len(s) # 0
    <2>1. FlattenSeq(s) = g[Len(s)]
      BY <1>2, <1>4, <1>8, FlattenIs, Zenon
    <2>2. Len(s) \in 1 .. Len(s) /\ Len(t) # 1
      BY <1>4, <1>8
    <2> QED BY <1>1, <1>2, <1>3, <1>5, <1>6, <2>1, <2>2
  <1> QED BY <1>7, <1>8

-----------------------------------------------------------------------------
(* The text of the log.                                                    *)

LEMMA PieceType == ASSUME NEW code \in Codes PROVE Piece(code) \in Seq(Codes)
  BY DEF Piece

LEMMA TextEmpty == TextOf(<<>>) = <<>>
  <1>1. [i \in 1 .. Len(<<>>) |-> Piece(<<>>[i])] = <<>>
    OBVIOUS
  <1> QED BY <1>1, FlattenEmpty DEF TextOf

LEMMA TextType == ASSUME NEW codes \in Seq(Codes) PROVE TextOf(codes) \in Seq(Codes)
  <1>1. PICK pieces : pieces = [i \in 1 .. Len(codes) |-> Piece(codes[i])]
    OBVIOUS
  <1>2. \A i \in 1 .. Len(codes) : Piece(codes[i]) \in Seq(Codes)
    <2>1. \A i \in 1 .. Len(codes) : codes[i] \in Codes
      OBVIOUS
    <2> QED BY <2>1, PieceType, Zenon
  <1>3. pieces \in Seq(Seq(Codes)) /\ <<>> \in Seq(Codes)
    BY <1>1, <1>2
  <1>4. FlattenSeq(pieces) \in Seq(Codes)
    BY <1>3, FlattenAppend
  <1> QED BY <1>1, <1>4 DEF TextOf

LEMMA TextAppend ==
  ASSUME NEW codes \in Seq(Codes), NEW code \in Codes
  PROVE  /\ TextOf(codes) \in Seq(Codes)
         /\ TextOf(Append(codes, code)) = TextOf(codes) \o Piece(code)
  <1>1. PICK longer, pieces, all, x :
          /\ longer = Append(codes, code)
          /\ pieces = [i \in 1 .. Len(codes) |-> Piece(codes[i])]
          /\ all = [i \in 1 .. Len(longer) |-> Piece(longer[i])]
          /\ x = Piece(code)
    OBVIOUS
  <1>2. /\ Len(codes) \in Nat /\ longer \in Seq(Codes) /\ Len(longer) = Len(codes) + 1
        /\ longer[Len(codes) + 1] = code /\ \A i \in 1 .. Len(codes) : longer[i] = codes[i]
        /\ \A i \in 1 .. Len(codes) : codes[i] \in Codes
    BY <1>1
  <1>3. x \in Seq(Codes) /\ \A i \in 1 .. Len(codes) : Piece(codes[i]) \in Seq(Codes)
    BY <1>1, <1>2, PieceType
  <1>4. pieces \in Seq(Seq(Codes)) /\ Len(pieces) = Len(codes)
    BY <1>1, <1>2, <1>3
  <1>5. all = Append(pieces, x)
    <2>1. /\ Append(pieces, x) \in Seq(Seq(Codes)) /\ Len(Append(pieces, x)) = Len(codes) + 1
          /\ Append(pieces, x)[Len(codes) + 1] = x
          /\ \A i \in 1 .. Len(codes) : Append(pieces, x)[i] = pieces[i]
      BY <1>3, <1>4
    <2>2. \A i \in 1 .. Len(codes) + 1 : Append(pieces, x)[i] = all[i]
      BY <1>1, <1>2, <2>1
    <2>3. all \in Seq(Seq(Codes)) /\ Len(all) = Len(codes) + 1
      <3>1. \A i \in 1 .. Len(longer) : longer[i] \in Codes
        BY <1>2
      <3>2. \A i \in 1 .. Len(longer) : Piece(longer[i]) \in Seq(Codes)
        BY <3>1, PieceType, Zenon
      <3> QED BY <1>1, <1>2, <3>2
    <2> QED BY <2>1, <2>2, <2>3, SeqEqual
  <1>6. /\ FlattenSeq(pieces) \in Seq(Codes)
        /\ FlattenSeq(Append(pieces, x)) = FlattenSeq(pieces) \o x
    BY <1>3, <1>4, FlattenAppend
  <1>7. TextOf(codes) = FlattenSeq(pieces) /\ TextOf(longer) = FlattenSeq(all)
    BY <1>1, Zenon DEF TextOf
  <1> QED BY <1>1, <1>5, <1>6, <1>7

\* What the log has reads as the text of its share, and a closed log's share is over.
LogInv ==
  /\ logged \in [first : Nat \ {0}, last : Nat]
  /\ mLogOpen => logged.first <= Len(heard) + 1
  /\ ~mLogOpen => logged.last <= Len(heard)
  /\ LogHasTheText

LEMMA ShareType ==
  ASSUME heard \in Seq(Codes), LogInv PROVE Share \in Seq(Codes)
  BY DEF Share, LogInv

\* The file and the line that fills against the text, which ends in the line while
\* the stream is good.
LogIs(file, line, text, ok) ==
  /\ ReadsAs(file, text)
  /\ ok => text = SubSeq(text, 1, Len(file)) \o line

Halves(file, line, text, done) ==
  done \in Seq(Codes) /\ Len(done) = Len(file) /\ text = done \o line

LEMMA HalvesExist ==
  ASSUME NEW file \in Seq(Written), NEW line \in Seq(Codes), NEW text \in Seq(Codes),
         LogIs(file, line, text, TRUE)
  PROVE  \E done : Halves(file, line, text, done) /\ ReadsAs(file, done)
  <1>1. PICK done : done = SubSeq(text, 1, Len(file))
    OBVIOUS
  <1>2. /\ Len(file) \in 0 .. Len(text) /\ text = done \o line
        /\ \A i \in 1 .. Len(file) :
             file[i] = text[i] \/ (file[i] = Replaced /\ text[i] \in {"lead", "tail"})
    BY <1>1 DEF LogIs, ReadsAs
  <1>3. /\ done \in Seq(Codes) /\ Len(done) = Len(file)
        /\ \A i \in 1 .. Len(file) : done[i] = text[i]
    BY <1>1, <1>2, Beginning
  <1>4. ReadsAs(file, done)
    BY <1>2, <1>3 DEF ReadsAs
  <1> QED BY <1>2, <1>3, <1>4 DEF Halves

LEMMA JoinHalves ==
  ASSUME NEW file \in Seq(Written), NEW line \in Seq(Codes), NEW done \in Seq(Codes),
         ReadsAs(file, done), Len(file) = Len(done)
  PROVE  LogIs(file, line, done \o line, TRUE)
  <1>1. PICK text, n : text = done \o line /\ n = Len(done)
    OBVIOUS
  <1>2. /\ text \in Seq(Codes) /\ n \in 0 .. Len(text) /\ Len(file) = n
        /\ \A i \in 1 .. n : text[i] = done[i]
    BY <1>1
  <1>3. /\ SubSeq(text, 1, n) \in Seq(Codes) /\ Len(SubSeq(text, 1, n)) = n
        /\ \A i \in 1 .. n : SubSeq(text, 1, n)[i] = text[i]
    BY <1>2, Beginning
  <1>4. SubSeq(text, 1, n) = done
    BY <1>1, <1>2, <1>3, SeqEqual
  <1>5. ReadsAs(file, text)
    BY <1>2 DEF ReadsAs
  <1> QED BY <1>1, <1>2, <1>4, <1>5 DEF LogIs

\* What is heard is added to the text and to the line, if there is one.
LEMMA TextGrows ==
  ASSUME NEW file \in Seq(Written), NEW line \in Seq(Codes), NEW text \in Seq(Codes),
         NEW x \in Seq(Codes), NEW ok \in BOOLEAN, LogIs(file, line, text, ok)
  PROVE  LogIs(file, line \o x, text \o x, ok)
  <1>1. CASE ok
    <2>1. PICK done : Halves(file, line, text, done) /\ ReadsAs(file, done)
      BY <1>1, HalvesExist
    <2>2. /\ done \in Seq(Codes) /\ line \o x \in Seq(Codes)
          /\ text \o x = done \o (line \o x)
      BY <2>1, ConcatAssociative DEF Halves
    <2>3. LogIs(file, line \o x, done \o (line \o x), TRUE)
      BY <2>1, <2>2, JoinHalves DEF Halves
    <2> QED BY <1>1, <2>2, <2>3
  <1>2. CASE ~ok
    <2>1. PICK longer : longer = text \o x
      OBVIOUS
    <2>2. /\ Len(longer) = Len(text) + Len(x) /\ Len(text) \in Nat /\ Len(x) \in Nat
          /\ \A i \in 1 .. Len(text) : longer[i] = text[i]
      BY <2>1
    <2>3. Len(file) \in Nat /\ Len(file) <= Len(text)
      BY <1>2 DEF LogIs, ReadsAs
    <2>4. \A i \in 1 .. Len(file) : i \in 1 .. Len(text)
      BY <2>2, <2>3
    <2>5. Len(file) <= Len(longer)
      BY <2>2, <2>3
    <2>6. ReadsAs(file, longer)
      BY <2>2, <2>4, <2>5 DEF LogIs, ReadsAs
    <2> QED BY <1>2, <2>1, <2>6 DEF LogIs
  <1> QED BY <1>1, <1>2

\* A part of the line's conversion reads as the line.
LEMMA PartReads ==
  ASSUME NEW line \in Seq(Codes), NEW n \in 0 .. Len(line)
  PROVE  /\ SubSeq(Decoded(line), 1, n) \in Seq(Written)
         /\ Len(SubSeq(Decoded(line), 1, n)) = n
         /\ ReadsAs(SubSeq(Decoded(line), 1, n), line)
         /\ ReadsAs(Decoded(line), line)
  <1>1. PICK whole, part : whole = Decoded(line) /\ part = SubSeq(Decoded(line), 1, n)
    OBVIOUS
  <1>2. /\ whole \in Seq(Written) /\ Len(whole) = Len(line)
        /\ \A i \in 1 .. Len(line) :
             whole[i] = line[i] \/ (whole[i] = Replaced /\ line[i] \in {"lead", "tail"})
    BY <1>1, DecodedType
  <1>3. /\ part \in Seq(Written) /\ Len(part) = n
        /\ \A i \in 1 .. n : part[i] = whole[i]
    BY <1>1, <1>2, Beginning
  <1>4. n <= Len(line) /\ \A i \in 1 .. n : i \in 1 .. Len(line)
    OBVIOUS
  <1>5. ReadsAs(whole, line)
    BY <1>2 DEF ReadsAs
  <1>6. ReadsAs(part, line)
    BY <1>2, <1>3, <1>4 DEF ReadsAs
  <1> QED BY <1>1, <1>3, <1>5, <1>6

LEMMA ReadsTogether ==
  ASSUME NEW file \in Seq(Written), NEW done \in Seq(Codes), Len(done) = Len(file),
         ReadsAs(file, done),
         NEW part \in Seq(Written), NEW line \in Seq(Codes), ReadsAs(part, line)
  PROVE  ReadsAs(file \o part, done \o line)
  <1>1. PICK all, text, n : all = file \o part /\ text = done \o line /\ n = Len(done)
    OBVIOUS
  <1>2. /\ n \in Nat /\ Len(all) = n + Len(part) /\ Len(text) = n + Len(line)
        /\ Len(part) \in Nat /\ Len(line) \in Nat /\ Len(file) = n
    <2>1. Len(file \o part) = Len(file) + Len(part)
      BY ConcatProperties
    <2>2. Len(done \o line) = Len(done) + Len(line)
      BY ConcatProperties
    <2>3. Len(done) \in Nat /\ Len(part) \in Nat /\ Len(line) \in Nat
      OBVIOUS
    <2> QED BY <1>1, <2>1, <2>2, <2>3
  <1>3. Len(part) <= Len(line)
    BY DEF ReadsAs
  <1>4. \A i \in 1 .. n :
          file[i] = done[i] \/ (file[i] = Replaced /\ done[i] \in {"lead", "tail"})
    BY <1>2 DEF ReadsAs
  <1>5. \A i \in 1 .. Len(part) :
          part[i] = line[i] \/ (part[i] = Replaced /\ line[i] \in {"lead", "tail"})
    BY DEF ReadsAs
  <1>6. /\ n \in Nat /\ Len(all) = n + Len(part) /\ Len(text) = n + Len(line)
        /\ Len(part) \in Nat /\ Len(line) \in Nat /\ Len(part) <= Len(line)
        /\ \A i \in 1 .. n :
             file[i] = done[i] \/ (file[i] = Replaced /\ done[i] \in {"lead", "tail"})
        /\ \A i \in 1 .. Len(part) :
             part[i] = line[i] \/ (part[i] = Replaced /\ line[i] \in {"lead", "tail"})
    BY <1>2, <1>3, <1>4, <1>5
  <1>7. /\ \A i \in 1 .. n : all[i] = file[i] /\ text[i] = done[i]
        /\ \A i \in 1 .. Len(part) : all[n + i] = part[i]
        /\ \A i \in 1 .. Len(line) : text[n + i] = line[i]
    <2>1. /\ \A i \in 1 .. n + Len(part) : all[i] = IF i <= n THEN file[i] ELSE part[i - n]
          /\ \A i \in 1 .. n + Len(line) : text[i] = IF i <= n THEN done[i] ELSE line[i - n]
      BY <1>1, ConcatProperties
    <2>2. /\ \A i \in 1 .. n : i \in 1 .. n + Len(part) /\ i \in 1 .. n + Len(line) /\ i <= n
          /\ \A i \in 1 .. Len(part) :
               n + i \in 1 .. n + Len(part) /\ ~(n + i <= n) /\ (n + i) - n = i
          /\ \A i \in 1 .. Len(line) :
               n + i \in 1 .. n + Len(line) /\ ~(n + i <= n) /\ (n + i) - n = i
      BY <1>6
    <2>3. \A i \in 1 .. n : all[i] = file[i] /\ text[i] = done[i]
      BY <2>1, <2>2
    <2>4. \A i \in 1 .. Len(part) : all[n + i] = part[i]
      BY <2>1, <2>2
    <2>5. \A i \in 1 .. Len(line) : text[n + i] = line[i]
      BY <2>1, <2>2
    <2> QED BY <2>3, <2>4, <2>5
  <1>8. ASSUME NEW i \in 1 .. Len(all)
        PROVE  all[i] = text[i] \/ (all[i] = Replaced /\ text[i] \in {"lead", "tail"})
    <2>1. CASE i \in 1 .. n
      BY <1>6, <1>7, <2>1
    <2>2. CASE i \notin 1 .. n
      <3>1. PICK k \in 1 .. Len(part) : i = n + k
        <4>1. i - n \in 1 .. Len(part) /\ i = n + (i - n)
          BY <1>6, <2>2
        <4> QED BY <4>1
      <3>2. k \in 1 .. Len(line)
        BY <1>6
      <3>3. all[i] = part[k] /\ text[i] = line[k]
        BY <1>7, <3>1, <3>2
      <3> QED BY <1>6, <3>3
    <2> QED BY <2>1, <2>2
  <1>9. Len(all) <= Len(text) /\ DOMAIN all = 1 .. Len(all)
    <2>1. Len(all) <= Len(text)
      BY <1>6
    <2>2. all \in Seq(Written)
      BY <1>1
    <2> QED BY <2>1, <2>2
  <1> QED BY <1>1, <1>8, <1>9 DEF ReadsAs

\* Flushing the line that holds the rest of the text.
LEMMA FlushReads ==
  ASSUME LogOK, NEW line \in Seq(Codes), NEW text \in Seq(Codes), flushLine(line),
         LogIs(FlattenSeq(mLog), line, text, mStreamOk)
  PROVE  LogIs(FlattenSeq(mLog)', <<>>, text, mStreamOk')
  <1>1. PICK file, log : file = FlattenSeq(mLog) /\ log = mLog
    OBVIOUS
  <1>2. log \in Seq(Seq(Written)) /\ file \in Seq(Written) /\ mStreamOk \in BOOLEAN
    BY <1>1, FlattenAppend DEF LogOK
  <1>3. FlattenSeq(mLog)' = FlattenSeq(mLog')
    BY Zenon
  <1>4. CASE (line = <<>> \/ ~mStreamOk) /\ UNCHANGED <<mStreamOk, mLog>>
    <2>1. LogIs(file, <<>>, text, mStreamOk)
      BY <1>1, <1>4 DEF LogIs
    <2> QED BY <1>1, <1>3, <1>4, <2>1
  <1>5. CASE mStreamOk /\ mLog' = Append(mLog, Decoded(line)) /\ UNCHANGED mStreamOk
    <2>1. PICK done : Halves(file, line, text, done) /\ ReadsAs(file, done)
      BY <1>1, <1>2, <1>5, HalvesExist
    <2>2. PICK part : part = Decoded(line)
      OBVIOUS
    <2>3. part \in Seq(Written) /\ Len(part) = Len(line) /\ ReadsAs(part, line)
      <3>1. Len(line) \in 0 .. Len(line)
        OBVIOUS
      <3> QED BY <2>2, <3>1, DecodedType, PartReads
    <2>4. FlattenSeq(mLog') = file \o part
      BY <1>1, <1>2, <1>5, <2>2, <2>3, FlattenAppend
    <2>5. /\ file \o part \in Seq(Written) /\ Len(file \o part) = Len(text)
          /\ text \o <<>> = text
      <3>1. /\ file \o part \in Seq(Written) /\ Len(file \o part) = Len(file) + Len(part)
        BY <1>2, <2>3, ConcatProperties
      <3>2. done \in Seq(Codes) /\ text = done \o line /\ Len(done) = Len(file)
        BY <2>1 DEF Halves
      <3>3. Len(text) = Len(done) + Len(line)
        BY <3>2, ConcatProperties
      <3>4. Len(file \o part) = Len(text)
        BY <2>3, <3>1, <3>2, <3>3
      <3> QED BY <3>1, <3>4, ConcatEmptySeq
    <2>6. ReadsAs(file \o part, text)
      BY <1>2, <2>1, <2>3, ReadsTogether DEF Halves
    <2>7. LogIs(file \o part, <<>>, text \o <<>>, TRUE)
      <3>1. <<>> \in Seq(Codes)
        OBVIOUS
      <3> QED BY <2>5, <2>6, <3>1, JoinHalves
    <2> QED BY <1>3, <1>5, <2>4, <2>5, <2>7
  <1>6. ASSUME mStreamOk, NEW n \in 0 .. Len(line), mStreamOk' = FALSE,
               mLog' = Append(mLog, SubSeq(Decoded(line), 1, n))
        PROVE  LogIs(FlattenSeq(mLog)', <<>>, text, mStreamOk')
    <2>1. PICK done : Halves(file, line, text, done) /\ ReadsAs(file, done)
      BY <1>1, <1>2, <1>6, HalvesExist
    <2>2. PICK part : part = SubSeq(Decoded(line), 1, n)
      OBVIOUS
    <2>3. part \in Seq(Written) /\ ReadsAs(part, line)
      BY <2>2, PartReads
    <2>4. FlattenSeq(mLog') = file \o part
      BY <1>1, <1>2, <1>6, <2>2, <2>3, FlattenAppend
    <2>5. ReadsAs(file \o part, text)
      BY <1>2, <2>1, <2>3, ReadsTogether DEF Halves
    <2> QED BY <1>3, <1>6, <2>4, <2>5 DEF LogIs
  <1> QED BY <1>4, <1>5, <1>6 DEF flushLine

LEMMA FlushedLengths ==
  ASSUME LogOK, NEW line \in Seq(Codes), flushLine(line), Len(line) <= MaxLineBufferLength,
         \A i \in DOMAIN mLog : Len(mLog[i]) <= MaxLineBufferLength
  PROVE  \A i \in DOMAIN mLog' : Len(mLog'[i]) <= MaxLineBufferLength
  <1>1. CASE mLog' = mLog
    BY <1>1
  <1>2. ASSUME NEW part \in Seq(Written), Len(part) <= MaxLineBufferLength,
               mLog' = Append(mLog, part)
        PROVE  \A i \in DOMAIN mLog' : Len(mLog'[i]) <= MaxLineBufferLength
    BY <1>2 DEF LogOK
  <1>3. CASE mLog' = Append(mLog, Decoded(line))
    BY <1>2, <1>3, DecodedType
  <1>4. ASSUME NEW n \in 0 .. Len(line), mLog' = Append(mLog, SubSeq(Decoded(line), 1, n))
        PROVE  \A i \in DOMAIN mLog' : Len(mLog'[i]) <= MaxLineBufferLength
    <2>1. PICK part : part = SubSeq(Decoded(line), 1, n)
      OBVIOUS
    <2>2. part \in Seq(Written) /\ Len(part) = n
      BY <2>1, PartReads
    <2>3. n <= MaxLineBufferLength
      OBVIOUS
    <2> QED BY <1>2, <1>4, <2>1, <2>2, <2>3
  <1> QED BY <1>1, <1>3, <1>4 DEF flushLine

LEMMA SubSeqAppend ==
  ASSUME NEW S, NEW s \in Seq(S), NEW x \in S, NEW m \in Nat \ {0}, m <= Len(s) + 1
  PROVE  SubSeq(Append(s, x), m, Len(s) + 1) = Append(SubSeq(s, m, Len(s)), x)
  <1>1. PICK longer, n : longer = Append(s, x) /\ n = Len(s)
    OBVIOUS
  <1>2. /\ n \in Nat /\ longer \in Seq(S) /\ Len(longer) = n + 1 /\ longer[n + 1] = x
        /\ m <= n + 1
        /\ \A i \in 1 .. n : longer[i] = s[i]
        /\ \A i \in 1 .. n : s[i] \in S
        /\ \A i \in 1 .. n + 1 : longer[i] \in S
    BY <1>1
  <1>3. PICK front, all : front = SubSeq(s, m, n) /\ all = SubSeq(longer, m, n + 1)
    OBVIOUS
  <1>4. /\ front \in Seq(S) /\ Len(front) = n + 1 - m
        /\ \A i \in 1 .. n + 1 - m : front[i] = s[m + i - 1]
    BY <1>1, <1>2, <1>3
  <1>5. /\ all \in Seq(S) /\ Len(all) = n + 2 - m
        /\ \A i \in 1 .. n + 2 - m : all[i] = longer[m + i - 1]
    BY <1>2, <1>3
  <1>6. /\ Append(front, x) \in Seq(S) /\ Len(Append(front, x)) = n + 2 - m
        /\ Append(front, x)[n + 2 - m] = x
        /\ \A i \in 1 .. n + 1 - m : Append(front, x)[i] = front[i]
    <2>1. PICK k : k = n + 1 - m
      OBVIOUS
    <2>2. k \in Nat /\ Len(front) = k /\ n + 2 - m = k + 1
      BY <1>2, <1>4, <2>1
    <2>3. /\ Append(front, x) \in Seq(S) /\ Len(Append(front, x)) = k + 1
          /\ Append(front, x)[k + 1] = x
          /\ \A i \in 1 .. k : Append(front, x)[i] = front[i]
      BY <1>4, <2>2
    <2> QED BY <2>1, <2>2, <2>3
  <1>7. ASSUME NEW i \in 1 .. n + 2 - m PROVE all[i] = Append(front, x)[i]
    <2>1. CASE i = n + 2 - m
      BY <1>2, <1>5, <1>6, <2>1
    <2>2. CASE i # n + 2 - m
      <3>1. i \in 1 .. n + 1 - m /\ m + i - 1 \in 1 .. n
        BY <1>2, <2>2
      <3> QED BY <1>2, <1>4, <1>5, <1>6, <3>1
    <2> QED BY <2>1, <2>2
  <1>8. all = Append(front, x)
    BY <1>5, <1>6, <1>7, SeqEqual
  <1> QED BY <1>1, <1>3, <1>8

LEMMA SubSeqBefore ==
  ASSUME NEW S, NEW s \in Seq(S), NEW x \in S, NEW m \in Nat \ {0}, NEW n \in Nat,
         n <= Len(s)
  PROVE  SubSeq(Append(s, x), m, n) = SubSeq(s, m, n)
  <1>1. PICK longer : longer = Append(s, x)
    OBVIOUS
  <1>2. /\ longer \in Seq(S) /\ Len(longer) = Len(s) + 1 /\ Len(s) \in Nat
        /\ \A i \in 1 .. Len(s) : longer[i] = s[i] /\ s[i] \in S
    BY <1>1
  <1>3. \A i \in m .. n : s[i] \in S /\ longer[i] \in S /\ longer[i] = s[i]
    BY <1>2
  <1>4. /\ SubSeq(s, m, n) \in Seq(S)
        /\ Len(SubSeq(s, m, n)) = IF m <= n THEN n - m + 1 ELSE 0
        /\ \A i \in 1 .. n - m + 1 : SubSeq(s, m, n)[i] = s[m + i - 1]
    BY <1>3, SubSeqProperties
  <1>5. /\ SubSeq(longer, m, n) \in Seq(S)
        /\ Len(SubSeq(longer, m, n)) = IF m <= n THEN n - m + 1 ELSE 0
        /\ \A i \in 1 .. n - m + 1 : SubSeq(longer, m, n)[i] = longer[m + i - 1]
    BY <1>2, <1>3, SubSeqProperties
  <1>6. ASSUME NEW i \in 1 .. Len(SubSeq(s, m, n))
        PROVE  SubSeq(s, m, n)[i] = SubSeq(longer, m, n)[i]
    <2>1. i \in 1 .. n - m + 1 /\ m + i - 1 \in m .. n
      BY <1>4
    <2> QED BY <1>3, <1>4, <1>5, <2>1
  <1>7. SubSeq(s, m, n) = SubSeq(longer, m, n)
    BY <1>4, <1>5, <1>6, SeqEqual
  <1> QED BY <1>1, <1>7

\* A byte that is rendered: an open log's share has it now, a closed one's has not.
LEMMA HeardShare ==
  ASSUME heard \in Seq(Codes), LogInv, NEW code \in Codes, heard' = Append(heard, code),
         UNCHANGED <<logged, mLogOpen>>
  PROVE  /\ mLogOpen => Share' = Append(Share, code)
         /\ ~mLogOpen => Share' = Share
  <1>1. PICK first, last, bytes, longer :
          /\ first \in Nat \ {0} /\ last \in Nat
          /\ first = logged.first /\ last = logged.last /\ bytes = heard /\ longer = heard'
          /\ mLogOpen => first <= Len(bytes) + 1
          /\ ~mLogOpen => last <= Len(bytes)
    BY DEF LogInv
  <1>2. /\ bytes \in Seq(Codes) /\ longer = Append(bytes, code)
        /\ longer \in Seq(Codes)
        /\ Len(longer) = Len(bytes) + 1 /\ Len(bytes) \in Nat
        /\ longer[Len(bytes) + 1] = code /\ \A i \in 1 .. Len(bytes) : longer[i] = bytes[i]
    BY <1>1
  <1>3. CASE mLogOpen
    <2>1. Share = SubSeq(bytes, first, Len(bytes)) /\ Share' = SubSeq(longer, first, Len(longer))
      BY <1>1, <1>3 DEF Share
    <2>2. first <= Len(bytes) + 1
      BY <1>1, <1>3
    <2>3. SubSeq(longer, first, Len(longer)) = Append(SubSeq(bytes, first, Len(bytes)), code)
      <3>1. SubSeq(Append(bytes, code), first, Len(bytes) + 1)
              = Append(SubSeq(bytes, first, Len(bytes)), code)
        <4>1. bytes \in Seq(Codes) /\ code \in Codes /\ first \in Nat \ {0}
          BY <1>1, <1>2
        <4> QED BY <2>2, <4>1, SubSeqAppend
      <3> QED BY <1>2, <3>1
    <2> QED BY <1>3, <2>1, <2>3
  <1>4. CASE ~mLogOpen
    <2>1. Share = SubSeq(bytes, first, last) /\ Share' = SubSeq(longer, first, last)
      BY <1>1, <1>4 DEF Share
    <2>2. last <= Len(bytes)
      BY <1>1, <1>4
    <2>3. SubSeq(longer, first, last) = SubSeq(bytes, first, last)
      <3>1. SubSeq(Append(bytes, code), first, last) = SubSeq(bytes, first, last)
        <4>1. bytes \in Seq(Codes) /\ code \in Codes /\ first \in Nat \ {0} /\ last \in Nat
          BY <1>1, <1>2
        <4> QED BY <2>2, <4>1, SubSeqBefore
      <3> QED BY <1>2, <3>1
    <2> QED BY <1>4, <2>1, <2>3
  <1> QED BY <1>3, <1>4

LEMMA HeardText ==
  ASSUME heard \in Seq(Codes), LogInv, NEW code \in Codes, heard' = Append(heard, code),
         UNCHANGED <<logged, mLogOpen>>
  PROVE  /\ mLogOpen => TextOf(Share)' = TextOf(Share) \o Piece(code)
         /\ ~mLogOpen => TextOf(Share)' = TextOf(Share)
  <1>1. PICK share, longer : share = Share /\ longer = Share'
    OBVIOUS
  <1>2. share \in Seq(Codes)
    BY <1>1, ShareType
  <1>3. /\ mLogOpen => longer = Append(share, code)
        /\ ~mLogOpen => longer = share
    BY <1>1, HeardShare
  <1>4. TextOf(Share) = TextOf(share) /\ TextOf(Share)' = TextOf(longer)
    BY <1>1, Zenon DEF TextOf
  <1>5. TextOf(Append(share, code)) = TextOf(share) \o Piece(code)
    BY <1>2, TextAppend
  <1> QED BY <1>3, <1>4, <1>5

LEMMA receivedCharLog ==
  ASSUME heard \in Seq(Codes), LogOK, LogInv, NEW code \in Codes,
         heard' = Append(heard, code), logChar(code), UNCHANGED logged
  PROVE  LogInv'
  <1>1. mLogOpen' = mLogOpen /\ Len(heard') = Len(heard) + 1 /\ Len(heard) \in Nat
    BY DEF logChar
  <1>2. PICK text, longer, file, line, piece :
          /\ text = TextOf(Share) /\ longer = TextOf(Share)'
          /\ file = FlattenSeq(mLog) /\ line = mLineBuffer /\ piece = Piece(code)
    OBVIOUS
  <1>3. /\ mLogOpen => longer = text \o piece
        /\ ~mLogOpen => longer = text
    BY <1>1, <1>2, HeardText
  <1>4. /\ line \in Seq(Codes) /\ Len(line) < MaxLineBufferLength /\ Len(line) \in Nat
        /\ MaxLineBufferLength \in Nat /\ piece \in Seq(Codes) /\ mStreamOk \in BOOLEAN
        /\ \A i \in DOMAIN mLog : Len(mLog[i]) <= MaxLineBufferLength
        /\ LogIs(file, line, text, mStreamOk)
    BY <1>2, PieceType, LineAssumption DEF LogOK, LogInv, LogHasTheText, LogIs
  <1>5. file \in Seq(Written) /\ text \in Seq(Codes)
    <2>1. file \in Seq(Written)
      BY <1>2, FlattenAppend DEF LogOK
    <2> QED BY <1>2, <2>1, ShareType, TextType
  <1>6. FlattenSeq(mLog)' = FlattenSeq(mLog')
    BY Zenon
  <1>7. SUFFICES /\ LogIs(FlattenSeq(mLog)', mLineBuffer', longer, mStreamOk')
                 /\ \A i \in DOMAIN mLog' : Len(mLog'[i]) <= MaxLineBufferLength
    BY <1>1, <1>2 DEF LogInv, LogHasTheText, LogIs
  <1>8. CASE ~mLogOpen
    <2>1. UNCHANGED <<mStreamOk, mLog, mLineBuffer>>
      BY <1>8 DEF logChar
    <2> QED BY <1>2, <1>3, <1>4, <1>6, <1>8, <2>1
  <1>9. CASE mLogOpen
    <2>1. LogIs(file, line \o piece, longer, mStreamOk)
      BY <1>3, <1>4, <1>5, <1>9, TextGrows
    <2>2. longer \in Seq(Codes) /\ line \o piece \in Seq(Codes)
      <3>1. text \o piece \in Seq(Codes) /\ line \o piece \in Seq(Codes)
        BY <1>4, <1>5, ConcatProperties
      <3> QED BY <1>3, <1>9, <3>1
    <2>3. CASE code \in {"LF", "CR"}
      <3>1. line \o piece = line
        BY <1>2, <1>4, <2>3 DEF Piece
      <3>2. CASE UNCHANGED <<mStreamOk, mLog, mLineBuffer>>
        BY <1>2, <1>4, <1>6, <2>1, <3>1, <3>2
      <3>3. CASE flushLine(line)
        <4>1. mLineBuffer' = <<>> /\ Len(line) <= MaxLineBufferLength
          BY <1>4, <3>3 DEF flushLine
        <4>2. LogIs(FlattenSeq(mLog)', <<>>, longer, mStreamOk')
          BY <1>2, <1>4, <2>1, <2>2, <3>1, <3>3, FlushReads
        <4>3. \A i \in DOMAIN mLog' : Len(mLog'[i]) <= MaxLineBufferLength
          BY <1>4, <3>3, <4>1, FlushedLengths
        <4> QED BY <4>1, <4>2, <4>3
      <3> QED BY <1>2, <1>9, <2>3, <3>2, <3>3 DEF logChar
    <2>4. CASE code \notin {"LF", "CR"}
      <3>1. PICK filled : filled = Append(line, code)
        OBVIOUS
      <3>2. filled = line \o piece /\ Len(filled) = Len(line) + 1 /\ filled \in Seq(Codes)
        <4>1. piece = <<code>>
          BY <1>2, <2>4 DEF Piece
        <4> QED BY <1>4, <3>1, <4>1
      <3>3. \/ flushLine(filled)
            \/ mLineBuffer' = filled /\ UNCHANGED <<mStreamOk, mLog>>
        BY <1>2, <1>9, <2>4, <3>1 DEF logChar, TakeIntoLine
      <3>4. CASE mLineBuffer' = filled /\ UNCHANGED <<mStreamOk, mLog>>
        BY <1>2, <1>4, <1>6, <2>1, <3>2, <3>4
      <3>5. CASE flushLine(filled)
        <4>1. mLineBuffer' = <<>> /\ Len(filled) <= MaxLineBufferLength
          BY <1>4, <3>2, <3>5 DEF flushLine
        <4>2. LogIs(FlattenSeq(mLog)', <<>>, longer, mStreamOk')
          BY <1>2, <2>1, <2>2, <3>2, <3>5, FlushReads
        <4>3. \A i \in DOMAIN mLog' : Len(mLog'[i]) <= MaxLineBufferLength
          BY <1>4, <3>2, <3>5, <4>1, FlushedLengths
        <4> QED BY <4>1, <4>2, <4>3
      <3> QED BY <3>3, <3>4, <3>5
    <2> QED BY <2>3, <2>4
  <1> QED BY <1>8, <1>9

\* Beginning and ending a log.
LEMMA EmptyLog ==
  ASSUME mLog = <<>>, mLineBuffer = <<>>, Share = <<>> PROVE LogHasTheText
  <1>1. TextOf(Share) = <<>> /\ FlattenSeq(mLog) = <<>>
    BY TextEmpty, FlattenEmpty
  <1>2. ReadsAs(<<>>, <<>>) /\ <<>> = SubSeq(<<>>, 1, Len(<<>>)) \o <<>>
    BY DEF ReadsAs
  <1>3. \A i \in DOMAIN mLog : Len(mLog[i]) <= MaxLineBufferLength
    OBVIOUS
  <1> QED BY <1>1, <1>2, <1>3 DEF LogHasTheText

LEMMA startLoggingLog ==
  ASSUME heard \in Seq(Codes), startLogging PROVE LogInv'
  <1>1. /\ logged' = [first |-> Len(heard) + 1, last |-> Len(heard)]
        /\ mLogOpen' /\ mLog' = <<>> /\ mLineBuffer' = <<>> /\ heard' = heard
    BY DEF startLogging, emulationVars
  <1>2. Share' = <<>>
    BY <1>1 DEF Share
  <1>3. LogHasTheText'
    <2>1. TextOf(Share)' = <<>> /\ FlattenSeq(mLog)' = <<>>
      BY <1>1, <1>2, TextEmpty, FlattenEmpty DEF TextOf
    <2>2. ReadsAs(<<>>, <<>>) /\ <<>> = SubSeq(<<>>, 1, Len(<<>>)) \o <<>>
      BY DEF ReadsAs
    <2> QED BY <1>1, <2>1, <2>2 DEF LogHasTheText
  <1>4. QED BY <1>1, <1>3 DEF LogInv

LEMMA stopLoggingLog ==
  ASSUME heard \in Seq(Codes), LogOK, LogInv, stopLogging PROVE LogInv'
  <1>1. /\ logged' = [logged EXCEPT !.last = Len(heard)] /\ heard' = heard
        /\ mLogOpen /\ ~mLogOpen' /\ flushLine(mLineBuffer) /\ mLineBuffer' = <<>>
    BY DEF stopLogging, emulationVars, flushLine
  <1>2. logged'.first = logged.first /\ logged'.last = Len(heard)
        /\ logged' \in [first : Nat \ {0}, last : Nat]
    BY <1>1 DEF LogInv
  <1>3. Share' = Share
    BY <1>1, <1>2 DEF Share
  <1>4. PICK text : text = TextOf(Share) /\ text = TextOf(Share)'
    BY <1>3 DEF TextOf
  <1>5. text \in Seq(Codes)
    BY <1>4, ShareType, TextType
  <1>6. /\ mLineBuffer \in Seq(Codes) /\ Len(mLineBuffer) <= MaxLineBufferLength
        /\ \A i \in DOMAIN mLog : Len(mLog[i]) <= MaxLineBufferLength
    <2>1. PICK line : line = mLineBuffer
      OBVIOUS
    <2>2. line \in Seq(Codes) /\ Len(line) < MaxLineBufferLength
      BY <2>1 DEF LogOK
    <2>3. Len(line) <= MaxLineBufferLength
      BY <2>2, LineAssumption
    <2> QED BY <2>1, <2>2, <2>3 DEF LogInv, LogHasTheText
  <1>7. LogIs(FlattenSeq(mLog), mLineBuffer, text, mStreamOk)
    BY <1>4 DEF LogInv, LogHasTheText, LogIs
  <1>8. LogIs(FlattenSeq(mLog)', <<>>, text, mStreamOk')
    BY <1>1, <1>5, <1>6, <1>7, FlushReads
  <1>9. \A i \in DOMAIN mLog' : Len(mLog'[i]) <= MaxLineBufferLength
    BY <1>1, <1>6, FlushedLengths
  <1>10. LogHasTheText'
    BY <1>1, <1>4, <1>8, <1>9 DEF LogHasTheText, LogIs
  <1> QED BY <1>1, <1>2, <1>10 DEF LogInv

LEMMA InitLog == Init => LogInv
  <1> SUFFICES ASSUME Init PROVE LogInv
    OBVIOUS
  <1>1. /\ heard = <<>> /\ mLogOpen = FALSE /\ mLog = <<>> /\ mLineBuffer = <<>>
        /\ logged = [first |-> 1, last |-> 0]
    BY DEF Init, EmulationInit
  <1>2. Share = <<>>
    BY <1>1 DEF Share
  <1>4. LogHasTheText
    BY <1>1, <1>2, EmptyLog
  <1> QED BY <1>1, <1>4 DEF LogInv

LEMMA NextLog == Inv /\ LogInv /\ [Next]_vars => LogInv'
  <1> SUFFICES ASSUME Inv, LogInv, [Next]_vars PROVE LogInv'
    OBVIOUS
  <1>1. heard \in Seq(Codes) /\ LogOK
    BY DEF Inv, EmulationOK, EmulationTypeOK
  <1>2. CASE Render
    <2>1. PICK code \in Codes : receivedChar(code)
      BY <1>2 DEF Render
    <2>2. heard' = Append(heard, code)
      BY <2>1, EmulationType DEF receivedChar, Inv, EmulationOK
    <2>3. logChar(code) /\ logged' = logged
      BY <2>1 DEF receivedChar
    <2> QED BY <1>1, <2>2, <2>3, receivedCharLog
  <1>3. CASE startLogging
    BY <1>1, <1>3, startLoggingLog
  <1>4. CASE stopLogging
    BY <1>1, <1>4, stopLoggingLog
  <1>5. CASE UNCHANGED <<heard, logVars, logged>>
    <2>1. Share' = Share
      BY <1>5 DEF Share, logVars
    <2>2. TextOf(Share)' = TextOf(Share)
      BY <2>1 DEF TextOf
    <2> QED BY <1>5, <2>2 DEF LogInv, LogHasTheText, logVars
  <1> QED
    BY <1>2, <1>3, <1>4, <1>5
       DEF Next, slotFlushRxBuffer, Port, slotDataAvailable, close, open, setRxQueue, Window,
           Loops, slotFileSaveAs, slotFileOpen, Begin, cancel, download, uploadByte, upload,
           LoopStep, emulationVars, vars

\* komportsessionlogger.cpp:56-91: for every stream, every alphabet and every limit of a
\* line, the file of a log is the beginning of the text of its share, in order, with
\* nothing but bytes of multibyte characters replaced; while no write has failed the rest
\* of the text is the line that fills; and no line is too long.
THEOREM LogIsTheText == Spec => []LogHasTheText
  <1>1. Spec => []LogInv
    BY Invariance, InitLog, NextLog, PTL DEF Spec
  <1>2. LogInv => LogHasTheText
    BY DEF LogInv
  <1> QED BY <1>1, <1>2, PTL
=============================================================================
