----------------------- MODULE ControlSequencesProofs -----------------------
(***************************************************************************)
(* Lemmas about ControlSequences: the parser's few flags and its byte      *)
(* count tell at every moment what TextIsDrawn reads off the whole stream. *)
(* HostStreamProofs has the theorem.                                       *)
(***************************************************************************)
EXTENDS ControlSequences, SequenceTheorems, WellFoundedInduction, TLAPS

USE CodesAssumption, LengthAssumption

-----------------------------------------------------------------------------
(* The least and the greatest of a set of numbers.                         *)

LEMMA LessThanRelation == OpToRel(<, Nat) = {pair \in Nat \X Nat : pair[1] < pair[2]}
  BY DEF OpToRel

LEMMA MinIsLeast ==
  ASSUME NEW S \in SUBSET Nat, S # {}
  PROVE  Min(S) \in S /\ \A y \in S : Min(S) <= y
  <1> DEFINE R == OpToRel(<, Nat)
  <1>1. IsWellFoundedOn(R, Nat)
    BY NatLessThanWellFounded
  <1>2. R = {pair \in Nat \X Nat : pair[1] < pair[2]}
    BY LessThanRelation
  <1> HIDE DEF R
  <1>3. PICK x \in S : \A y \in S : <<y, x>> \notin R
    BY <1>1, WFMin
  <1>4. \A y \in S : x <= y
    <2> TAKE y \in S
    <2>1. ~(y < x)
      BY <1>2, <1>3
    <2>2. QED BY <2>1
  <1>5. QED BY <1>4 DEF Min

LEMMA MaxIsGreatest ==
  ASSUME NEW n \in Nat, NEW S \in SUBSET (1 .. n), S # {}
  PROVE  Max(S) \in S /\ \A y \in S : y <= Max(S)
  <1> DEFINE T == {n - x : x \in S}
  <1>1. T \in SUBSET Nat /\ T # {}
    <2>1. \A x \in S : n - x \in Nat
      OBVIOUS
    <2>2. QED BY <2>1
  <1>2. PICK t \in T : \A y \in T : t <= y
    BY <1>1, MinIsLeast
  <1>3. PICK x \in S : t = n - x
    BY <1>2
  <1>4. \A y \in S : y <= x
    <2> TAKE y \in S
    <2>1. t <= n - y
      BY <1>2
    <2>2. QED BY <1>3, <2>1
  <1>5. QED BY <1>4 DEF Max

-----------------------------------------------------------------------------
(* Where sequences end, as a property of the bytes before a position.      *)

\* f is the last ESC before i.
LastEscape(bytes, f, i) ==
  /\ f \in 1 .. i - 1 /\ bytes[f] = "ESC"
  /\ \A g \in f + 1 .. i - 1 : bytes[g] # "ESC"

NoEscape(bytes, i) == \A f \in 1 .. i - 1 : bytes[f] # "ESC"

Completes(bytes, f, e) == IsFinal(bytes[e]) \/ e = f + 2 + MaxCtlSequenceLength

\* The sequence begun at f is over before i.
Ended(bytes, f, i) ==
  \/ bytes[f + 1] = "[" /\ \E e \in f + 2 .. i - 1 : Completes(bytes, f, e)
  \/ bytes[f + 1] = "(" /\ i > f + 2
  \/ bytes[f + 1] \notin {"[", "("} /\ i > f + 1

TextAt(bytes, i) ==
  /\ bytes[i] # "ESC" /\ ~IsExecuted(bytes[i])
  /\ \A f \in 1 .. i - 1 : LastEscape(bytes, f, i) => Ended(bytes, f, i)

LEMMA EndedIsPast ==
  ASSUME heard \in Seq(Codes), NEW i \in 1 .. Len(heard), NEW f \in 1 .. i - 1
  PROVE  i > SequenceEnd(f) <=> Ended(heard, f, i)
  <1> DEFINE last == f + 2 + MaxCtlSequenceLength
             ends == {e \in f + 2 .. Len(heard) : IsFinal(heard[e]) \/ e = last}
  <1>1. /\ Len(heard) \in Nat /\ i \in Nat /\ f \in Nat /\ f < i /\ i <= Len(heard)
        /\ ~(f + 1 > Len(heard))
    OBVIOUS
  <1>2. CASE heard[f + 1] = "["
    <2>1. SequenceEnd(f) = IF ends = {} THEN Len(heard) ELSE Min(ends)
      BY <1>1, <1>2 DEF SequenceEnd
    <2>2. Ended(heard, f, i) <=> \E e \in f + 2 .. i - 1 : e \in ends
      <3>1. \A e \in f + 2 .. i - 1 : e \in f + 2 .. Len(heard)
        BY <1>1
      <3>2. Ended(heard, f, i) <=> \E e \in f + 2 .. i - 1 : Completes(heard, f, e)
        BY <1>2 DEF Ended
      <3>3. QED BY <3>1, <3>2 DEF Completes
    <2>3. CASE ends = {}
      BY <1>1, <2>1, <2>2, <2>3
    <2>4. CASE ends # {}
      <3>1. Min(ends) \in ends /\ \A y \in ends : Min(ends) <= y
        <4>1. ends \in SUBSET Nat
          BY <1>1
        <4>2. QED BY <2>4, <4>1, MinIsLeast
      <3>2. Min(ends) \in f + 2 .. Len(heard)
        BY <3>1
      <3> DEFINE first == Min(ends)
      <3>3. first \in ends /\ (\A y \in ends : first <= y) /\ first \in f + 2 .. Len(heard)
        BY <3>1, <3>2
      <3>4. SequenceEnd(f) = first
        BY <2>1, <2>4
      <3> HIDE DEF first, ends
      <3>5. i > first <=> \E e \in f + 2 .. i - 1 : e \in ends
        BY <1>1, <3>3
      <3>6. QED BY <2>2, <3>4, <3>5
    <2>5. QED BY <2>3, <2>4
  <1>3. CASE heard[f + 1] = "("
    <2>1. SequenceEnd(f) = f + 2
      BY <1>1, <1>3 DEF SequenceEnd
    <2>2. QED BY <1>3, <2>1 DEF Ended
  <1>4. CASE heard[f + 1] \notin {"[", "("}
    <2>1. SequenceEnd(f) = f + 1
      BY <1>1, <1>4 DEF SequenceEnd
    <2>2. QED BY <1>4, <2>1 DEF Ended
  <1>5. QED BY <1>2, <1>3, <1>4

LEMMA TextIsTextAt ==
  ASSUME heard \in Seq(Codes), NEW i \in 1 .. Len(heard)
  PROVE  IsText(i) <=> TextAt(heard, i)
  <1>1. CASE Begun(i) = {}
    <2>1. \A f \in 1 .. i - 1 : ~LastEscape(heard, f, i)
      BY <1>1 DEF Begun, LastEscape
    <2>2. QED BY <1>1, <2>1 DEF IsText, TextAt
  <1>2. CASE Begun(i) # {}
    <2> DEFINE latest == Max(Begun(i))
    <2>1. latest \in Begun(i) /\ \A g \in Begun(i) : g <= latest
      <3>1. Len(heard) \in Nat /\ Begun(i) \in SUBSET (1 .. Len(heard))
        BY DEF Begun
      <3>2. QED BY <1>2, <3>1, MaxIsGreatest
    <2> HIDE DEF latest
    <2>2. latest \in 1 .. i - 1 /\ heard[latest] = "ESC"
      BY <2>1 DEF Begun
    <2>3. \A f \in 1 .. i - 1 : LastEscape(heard, f, i) <=> f = latest
      <3> SUFFICES ASSUME NEW f \in 1 .. i - 1
                   PROVE  LastEscape(heard, f, i) <=> f = latest
        OBVIOUS
      <3>1. ASSUME LastEscape(heard, f, i) PROVE f = latest
        <4>1. f \in Begun(i)
          BY <3>1 DEF LastEscape, Begun
        <4>2. f <= latest
          BY <2>1, <4>1
        <4>3. ~(latest \in f + 1 .. i - 1)
          BY <2>2, <3>1 DEF LastEscape
        <4>4. QED BY <2>2, <4>2, <4>3
      <3>2. LastEscape(heard, latest, i)
        <4>1. ASSUME NEW g \in latest + 1 .. i - 1 PROVE heard[g] # "ESC"
          <5>1. g \in 1 .. i - 1 /\ ~(g <= latest)
            BY <2>2
          <5>2. g \notin Begun(i)
            BY <2>1, <5>1
          <5>3. QED BY <5>1, <5>2 DEF Begun
        <4>2. QED BY <2>2, <4>1 DEF LastEscape
      <3>3. QED BY <3>1, <3>2
    <2>4. i > SequenceEnd(latest) <=> Ended(heard, latest, i)
      BY <2>2, EndedIsPast
    <2>5. IsText(i) <=> /\ heard[i] # "ESC" /\ ~IsExecuted(heard[i])
                        /\ i > SequenceEnd(latest)
      BY <1>2 DEF IsText, latest
    <2>6. TextAt(heard, i) <=> /\ heard[i] # "ESC" /\ ~IsExecuted(heard[i])
                               /\ Ended(heard, latest, i)
      BY <2>2, <2>3 DEF TextAt
    <2>7. QED BY <2>4, <2>5, <2>6
  <1>3. QED BY <1>1, <1>2

-----------------------------------------------------------------------------
(* What the parser remembers, read off the bytes.                          *)

Idle == ~mSawESC /\ ~mInCtlSequence /\ ~mPendingCharsetChar

\* The state of the sequence begun at f, the last ESC.
AfterEscape(f) == mSawESC /\ ~mInCtlSequence /\ ~mPendingCharsetChar /\ Len(heard) = f

InControlSequence(f) ==
  /\ mSawESC /\ mInCtlSequence /\ ~mPendingCharsetChar
  /\ heard[f + 1] = "[" /\ Len(mCtlSequence) = Len(heard) - (f + 1)
  /\ \A e \in f + 2 .. Len(heard) : ~Completes(heard, f, e)

AtDesignator(f) ==
  ~mSawESC /\ ~mInCtlSequence /\ mPendingCharsetChar /\ heard[f + 1] = "(" /\ Len(heard) = f + 1

Over(f) == Idle /\ Ended(heard, f, Len(heard) + 1)

ParserOK ==
  \/ Idle /\ NoEscape(heard, Len(heard) + 1)
  \/ \E f \in 1 .. Len(heard) :
       /\ LastEscape(heard, f, Len(heard) + 1)
       /\ AfterEscape(f) \/ InControlSequence(f) \/ AtDesignator(f) \/ Over(f)

DrawnOK == drawn = {i \in 1 .. Len(heard) : TextAt(heard, i)}

-----------------------------------------------------------------------------
(* One more byte.                                                          *)

LEMMA AppendedBytes ==
  ASSUME NEW bytes \in Seq(Codes), NEW code \in Codes
  PROVE  LET longer == Append(bytes, code)
         IN  /\ longer \in Seq(Codes) /\ Len(bytes) \in Nat /\ Len(longer) = Len(bytes) + 1
             /\ \A i \in 1 .. Len(bytes) : longer[i] = bytes[i]
             /\ longer[Len(bytes) + 1] = code
  BY AppendProperties

\* What was text stays text.
LEMMA TextStays ==
  ASSUME NEW bytes \in Seq(Codes), NEW code \in Codes, NEW i \in 1 .. Len(bytes)
  PROVE  TextAt(Append(bytes, code), i) <=> TextAt(bytes, i)
  <1> DEFINE longer == Append(bytes, code)
  <1>1. /\ Len(bytes) \in Nat /\ longer[i] = bytes[i]
        /\ \A g \in 1 .. Len(bytes) : longer[g] = bytes[g]
    BY AppendedBytes
  <1> HIDE DEF longer
  <1>2. ASSUME NEW f \in 1 .. i - 1
        PROVE  /\ LastEscape(longer, f, i) <=> LastEscape(bytes, f, i)
               /\ Ended(longer, f, i) <=> Ended(bytes, f, i)
    <2>1. \A g \in f .. i : g \in 1 .. Len(bytes)
      BY <1>1
    <2>2. LastEscape(longer, f, i) <=> LastEscape(bytes, f, i)
      BY <1>1, <2>1 DEF LastEscape
    <2>3. f + 1 \in 1 .. Len(bytes) /\ longer[f + 1] = bytes[f + 1]
      BY <1>1
    <2>4. \A e \in f + 2 .. i - 1 : Completes(longer, f, e) <=> Completes(bytes, f, e)
      BY <1>1, <2>1 DEF Completes
    <2>5. QED BY <2>2, <2>3, <2>4 DEF Ended
  <1>3. QED BY <1>1, <1>2 DEF TextAt, longer

\* The byte is text exactly when nothing is open.
LEMMA NewText ==
  ASSUME EmulationTypeOK, ParserOK, NEW code \in Codes
  PROVE  TextAt(Append(heard, code), Len(heard) + 1) <=>
           /\ code # "ESC" /\ ~IsExecuted(code)
           /\ ~mPendingCharsetChar /\ ~mSawESC
  <1> DEFINE n == Len(heard) + 1
             longer == Append(heard, code)
  <1>1. /\ Len(heard) \in Nat /\ longer[n] = code
        /\ \A i \in 1 .. Len(heard) : longer[i] = heard[i]
    BY AppendedBytes DEF EmulationTypeOK
  <1> HIDE DEF longer
  <1>2. \A f \in 1 .. n - 1 : LastEscape(longer, f, n) <=> LastEscape(heard, f, n)
    <2>1. \A g \in 1 .. n - 1 : longer[g] = heard[g]
      BY <1>1
    <2>2. QED BY <1>1, <2>1 DEF LastEscape
  <1>3. CASE Idle /\ NoEscape(heard, n)
    <2>1. \A f \in 1 .. n - 1 : ~LastEscape(longer, f, n)
      BY <1>2, <1>3 DEF NoEscape, LastEscape
    <2>2. QED BY <1>1, <1>3, <2>1 DEF TextAt, Idle, longer
  <1>4. ASSUME NEW f \in 1 .. Len(heard), LastEscape(heard, f, n),
               AfterEscape(f) \/ InControlSequence(f) \/ AtDesignator(f) \/ Over(f)
        PROVE  TextAt(longer, n) <=>
                 /\ code # "ESC" /\ ~IsExecuted(code)
                 /\ ~mPendingCharsetChar /\ ~mSawESC
    <2>1. ASSUME NEW g \in 1 .. n - 1 PROVE LastEscape(longer, g, n) <=> g = f
      <3>1. ASSUME LastEscape(heard, g, n) PROVE g = f
        <4>1. ~(g \in f + 1 .. n - 1) /\ ~(f \in g + 1 .. n - 1)
          BY <1>4, <3>1 DEF LastEscape
        <4>2. QED BY <1>1, <4>1
      <3>2. QED BY <1>2, <1>4, <3>1
    <2>2. TextAt(longer, n) <=>
            code # "ESC" /\ ~IsExecuted(code) /\ Ended(longer, f, n)
      <3>1. f \in 1 .. n - 1
        BY <1>1
      <3>2. QED BY <1>1, <2>1, <3>1 DEF TextAt
    <2>3. CASE AfterEscape(f)
      <3>1. ~Ended(longer, f, n)
        <4>1. n = f + 1
          BY <2>3 DEF AfterEscape
        <4>2. QED BY <4>1 DEF Ended
      <3>2. QED BY <2>2, <2>3, <3>1 DEF AfterEscape
    <2>4. CASE ~AfterEscape(f)
      <3>1. Len(heard) >= f + 1
        <4>1. Len(heard) # f
          <5>1. ASSUME Len(heard) = f PROVE FALSE
            <6>1. CASE InControlSequence(f)
              <7>1. Len(mCtlSequence) = Len(heard) - (f + 1) /\ Len(mCtlSequence) \in Nat
                BY <6>1 DEF InControlSequence, EmulationTypeOK
              <7>2. QED BY <5>1, <7>1
            <6>2. CASE AtDesignator(f)
              BY <1>1, <5>1, <6>2 DEF AtDesignator
            <6>3. CASE Over(f)
              <7>1. Ended(heard, f, f + 1)
                BY <5>1, <6>3 DEF Over
              <7>2. QED BY <7>1 DEF Ended
            <6>4. QED BY <1>4, <2>4, <6>1, <6>2, <6>3
          <5>2. QED BY <5>1
        <4>2. QED BY <1>1, <4>1
      <3>2. Ended(longer, f, n) <=> Ended(heard, f, n)
        <4>1. f + 1 \in 1 .. Len(heard) /\ longer[f + 1] = heard[f + 1]
          BY <1>1, <3>1
        <4>2. \A e \in f + 2 .. n - 1 : Completes(longer, f, e) <=> Completes(heard, f, e)
          <5>1. \A e \in f + 2 .. n - 1 : longer[e] = heard[e]
            BY <1>1
          <5>2. QED BY <5>1 DEF Completes
        <4>3. QED BY <4>1, <4>2 DEF Ended
      <3>3. CASE InControlSequence(f)
        <4>1. ~Ended(heard, f, n)
          <5>1. /\ heard[f + 1] = "[" /\ \A e \in f + 2 .. Len(heard) : ~Completes(heard, f, e)
            BY <3>3 DEF InControlSequence
          <5>2. n - 1 = Len(heard)
            BY <1>1
          <5>3. QED BY <5>1, <5>2 DEF Ended
        <4>2. QED BY <2>2, <3>2, <3>3, <4>1 DEF InControlSequence
      <3>4. CASE AtDesignator(f)
        <4>1. ~Ended(heard, f, n)
          <5>1. heard[f + 1] = "(" /\ ~(n > f + 2)
            BY <1>1, <3>4 DEF AtDesignator
          <5>2. QED BY <5>1 DEF Ended
        <4>2. QED BY <2>2, <3>2, <3>4, <4>1 DEF AtDesignator
      <3>5. CASE Over(f)
        BY <2>2, <3>2, <3>5 DEF Over, Idle
      <3>6. QED BY <1>4, <2>4, <3>3, <3>4, <3>5
    <2>5. QED BY <2>3, <2>4
  <1>5. QED BY <1>3, <1>4 DEF ParserOK, longer

LEMMA DrawnStep ==
  ASSUME EmulationTypeOK, ParserOK, DrawnOK, NEW code \in Codes, slotReceivedChar(code)
  PROVE  DrawnOK'
  <1> DEFINE n == Len(heard) + 1
  <1>1. /\ heard' = Append(heard, code) /\ Len(heard) \in Nat /\ Len(heard') = n
        /\ heard \in Seq(Codes)
    BY AppendedBytes DEF slotReceivedChar, EmulationTypeOK
  <1>2. drawn' = IF code # "ESC" /\ ~IsExecuted(code) /\ ~mPendingCharsetChar /\ ~mSawESC
                 THEN drawn \cup {n} ELSE drawn
    BY <1>1 DEF slotReceivedChar, InSequence
  <1>3. \A i \in 1 .. Len(heard) : TextAt(heard', i) <=> i \in drawn
    BY <1>1, TextStays DEF DrawnOK
  <1>4. TextAt(heard', n) <=> n \in drawn'
    <2>1. n \notin drawn
      BY <1>1 DEF DrawnOK
    <2>2. QED BY <1>1, <1>2, <2>1, NewText
  <1>5. \A i \in 1 .. Len(heard) : i \in drawn' <=> i \in drawn
    BY <1>1, <1>2
  <1>6. drawn \subseteq 1 .. Len(heard) /\ drawn' \subseteq 1 .. n
    BY <1>1, <1>2 DEF DrawnOK
  <1>7. 1 .. n = (1 .. Len(heard)) \cup {n}
    BY <1>1
  <1> HIDE DEF n
  <1>8. \A i \in 1 .. n : i \in drawn' <=> TextAt(heard', i)
    BY <1>3, <1>4, <1>5, <1>7
  <1>9. QED BY <1>1, <1>6, <1>8 DEF DrawnOK

\* The bytes after the last ESC keep their meaning as more arrive.
LEMMA EscapeStays ==
  ASSUME heard \in Seq(Codes), NEW code \in Codes, heard' = Append(heard, code),
         code # "ESC", NEW f \in 1 .. Len(heard), LastEscape(heard, f, Len(heard) + 1)
  PROVE  f \in 1 .. Len(heard') /\ LastEscape(heard', f, Len(heard') + 1)
  <1>1. /\ Len(heard) \in Nat /\ Len(heard') = Len(heard) + 1
        /\ heard'[Len(heard) + 1] = code /\ \A i \in 1 .. Len(heard) : heard'[i] = heard[i]
    BY AppendedBytes
  <1>2. \A g \in f + 1 .. Len(heard') : g \in f + 1 .. Len(heard) \/ g = Len(heard) + 1
    BY <1>1
  <1>3. \A g \in f + 1 .. Len(heard) : g \in 1 .. Len(heard)
    BY <1>1
  <1>4. \A g \in f + 1 .. Len(heard') : heard'[g] # "ESC"
    BY <1>1, <1>2, <1>3 DEF LastEscape
  <1>5. QED BY <1>1, <1>4 DEF LastEscape

LEMMA EndedStays ==
  ASSUME heard \in Seq(Codes), NEW code \in Codes, heard' = Append(heard, code),
         NEW f \in 1 .. Len(heard), Ended(heard, f, Len(heard) + 1)
  PROVE  Ended(heard', f, Len(heard') + 1)
  <1>1. /\ Len(heard) \in Nat /\ Len(heard') = Len(heard) + 1
        /\ \A i \in 1 .. Len(heard) : heard'[i] = heard[i]
    BY AppendedBytes
  <1>2. f + 1 \in 1 .. Len(heard)
    <2>1. Len(heard) # f
      <3>1. ASSUME Len(heard) = f PROVE FALSE
        <4>1. Ended(heard, f, f + 1)
          BY <3>1
        <4>2. QED BY <4>1 DEF Ended
      <3>2. QED BY <3>1
    <2>2. QED BY <1>1, <2>1
  <1>3. heard'[f + 1] = heard[f + 1]
    BY <1>1, <1>2
  <1>4. CASE heard[f + 1] = "["
    <2>1. PICK e \in f + 2 .. (Len(heard) + 1) - 1 : Completes(heard, f, e)
      BY <1>4 DEF Ended
    <2>2. e \in 1 .. Len(heard) /\ e \in f + 2 .. (Len(heard') + 1) - 1
      BY <1>1
    <2>3. Completes(heard', f, e)
      BY <1>1, <2>1, <2>2 DEF Completes
    <2>4. QED BY <1>3, <1>4, <2>2, <2>3 DEF Ended
  <1>5. CASE heard[f + 1] = "("
    <2>1. Len(heard) + 1 > f + 2
      BY <1>5 DEF Ended
    <2>2. Len(heard') + 1 > f + 2
      BY <1>1, <2>1
    <2>3. QED BY <1>3, <1>5, <2>2 DEF Ended
  <1>6. CASE heard[f + 1] \notin {"[", "("}
    <2>1. Len(heard') + 1 > f + 1
      BY <1>1
    <2>2. QED BY <1>3, <1>6, <2>1 DEF Ended
  <1>7. QED BY <1>4, <1>5, <1>6

LEMMA RestartStep ==
  ASSUME heard \in Seq(Codes), "ESC" \in Codes, heard' = Append(heard, "ESC"), Restart
  PROVE  ParserOK'
  <1> DEFINE n == Len(heard) + 1
  <1>1. Len(heard) \in Nat /\ Len(heard') = n /\ heard'[n] = "ESC"
    BY AppendedBytes
  <1>2. n \in 1 .. Len(heard') /\ LastEscape(heard', n, Len(heard') + 1)
    BY <1>1 DEF LastEscape
  <1>3. mSawESC' /\ ~mInCtlSequence' /\ ~mPendingCharsetChar' /\ Len(heard') = n
    BY <1>1 DEF Restart
  <1>4. QED BY <1>2, <1>3 DEF ParserOK, AfterEscape

LEMMA ParserStep ==
  ASSUME EmulationTypeOK, ParserOK, NEW code \in Codes, slotReceivedChar(code)
  PROVE  ParserOK'
  <1>1. /\ heard' = Append(heard, code) /\ heard \in Seq(Codes) /\ Len(heard) \in Nat
        /\ Len(heard') = Len(heard) + 1 /\ heard'[Len(heard) + 1] = code
        /\ \A i \in 1 .. Len(heard) : heard'[i] = heard[i]
    BY AppendedBytes DEF slotReceivedChar, EmulationTypeOK
  <1>2. CASE code = "ESC"
    <2>1. Restart
      BY <1>2 DEF slotReceivedChar, InSequence
    <2>2. QED BY <1>1, <1>2, <2>1, RestartStep
  <1>3. ASSUME code # "ESC", Idle PROVE Idle'
    BY <1>3 DEF Idle, slotReceivedChar, InSequence, sequenceVars
  <1>4. CASE code # "ESC" /\ Idle /\ NoEscape(heard, Len(heard) + 1)
    <2>1. NoEscape(heard', Len(heard') + 1)
      <3>1. \A g \in 1 .. Len(heard') : g \in 1 .. Len(heard) \/ g = Len(heard) + 1
        BY <1>1
      <3>2. QED BY <1>1, <1>4, <3>1 DEF NoEscape
    <2>2. QED BY <1>3, <1>4, <2>1 DEF ParserOK
  <1>5. ASSUME code # "ESC", NEW f \in 1 .. Len(heard),
               LastEscape(heard, f, Len(heard) + 1),
               AfterEscape(f) \/ InControlSequence(f) \/ AtDesignator(f) \/ Over(f)
        PROVE  ParserOK'
    <2> DEFINE n == Len(heard) + 1
    <2>1. f \in 1 .. Len(heard') /\ LastEscape(heard', f, Len(heard') + 1)
      BY <1>1, <1>5, EscapeStays
    <2>2. SUFFICES AfterEscape(f)' \/ InControlSequence(f)' \/ AtDesignator(f)' \/ Over(f)'
      BY <2>1 DEF ParserOK
    <2>3. CASE AfterEscape(f)
      <3>1. n = f + 1 /\ heard'[f + 1] = code /\ Len(heard') = f + 1
        BY <1>1, <2>3 DEF AfterEscape
      <3>2. CASE code = "["
        <4>1. OpenCtlSequence
          BY <2>3, <3>2 DEF AfterEscape, slotReceivedChar, InSequence
        <4>2. /\ mSawESC' /\ mInCtlSequence' /\ ~mPendingCharsetChar' /\ mCtlSequence' = <<>>
          BY <2>3, <4>1 DEF AfterEscape, OpenCtlSequence
        <4>3. Len(mCtlSequence') = Len(heard') - (f + 1)
          BY <3>1, <4>2
        <4>4. \A e \in f + 2 .. Len(heard') : FALSE
          BY <3>1
        <4>5. QED BY <3>1, <3>2, <4>2, <4>3, <4>4 DEF InControlSequence
      <3>3. CASE code # "["
        <4>1. shortEscape(code)
          BY <1>5, <2>3, <3>3 DEF AfterEscape, slotReceivedChar, InSequence
        <4>2. ~mSawESC' /\ ~mInCtlSequence' /\ (mPendingCharsetChar' <=> code = "(")
          BY <2>3, <4>1 DEF AfterEscape, shortEscape
        <4>3. CASE code = "("
          BY <3>1, <4>2, <4>3 DEF AtDesignator
        <4>4. CASE code # "("
          <5>1. Ended(heard', f, Len(heard') + 1)
            <6>1. heard'[f + 1] \notin {"[", "("} /\ Len(heard') + 1 > f + 1
              BY <3>1, <3>3, <4>4
            <6>2. QED BY <6>1 DEF Ended
          <5>2. QED BY <4>2, <4>4, <5>1 DEF Over, Idle
        <4>5. QED BY <4>3, <4>4
      <3>4. QED BY <3>2, <3>3
    <2>4. CASE InControlSequence(f)
      <3>1. /\ mSawESC /\ mInCtlSequence /\ ~mPendingCharsetChar /\ heard[f + 1] = "["
            /\ Len(mCtlSequence) = Len(heard) - (f + 1)
            /\ \A e \in f + 2 .. Len(heard) : ~Completes(heard, f, e)
        BY <2>4 DEF InControlSequence
      <3>2. /\ mCtlSequence \in Seq(Codes) /\ Len(mCtlSequence) \in Nat
            /\ MaxCtlSequenceLength \in Nat /\ f \in Nat
        BY DEF EmulationTypeOK
      <3>3. /\ f + 1 \in 1 .. Len(heard) /\ heard'[f + 1] = "["
            /\ n \in f + 2 .. Len(heard') /\ n \in f + 2 .. (Len(heard') + 1) - 1
        <4>1. f + 1 <= Len(heard)
          BY <1>1, <3>1, <3>2
        <4>2. f + 1 \in 1 .. Len(heard)
          BY <1>1, <3>2, <4>1
        <4>3. heard'[f + 1] = "["
          BY <1>1, <3>1, <4>2
        <4>4. n \in f + 2 .. Len(heard') /\ n \in f + 2 .. (Len(heard') + 1) - 1
          <5>1. n \in Nat /\ f + 2 <= n /\ Len(heard') = n
            BY <1>1, <3>2, <4>1
          <5> HIDE DEF n
          <5>2. QED BY <3>2, <5>1
        <4>5. QED BY <4>2, <4>3, <4>4
      <3>4. sequence(code)
        BY <1>5, <3>1 DEF slotReceivedChar, InSequence
      <3>5. CASE IsFinal(code) \/ Len(mCtlSequence) >= MaxCtlSequenceLength
        <4>1. Idle'
          BY <3>1, <3>4, <3>5 DEF sequence, Idle
        <4>2. PICK e \in f + 2 .. (Len(heard') + 1) - 1 : Completes(heard', f, e)
          <5>1. CASE IsFinal(code)
            BY <1>1, <3>3, <5>1 DEF Completes
          <5>2. CASE Len(mCtlSequence) >= MaxCtlSequenceLength
            <6> DEFINE last == f + 2 + MaxCtlSequenceLength
            <6>1. last \in f + 2 .. n
              BY <1>1, <3>1, <3>2, <5>2
            <6>2. last \in f + 2 .. (Len(heard') + 1) - 1
              BY <1>1, <6>1
            <6>3. Completes(heard', f, last)
              BY DEF Completes
            <6>4. QED BY <6>2, <6>3
          <5>3. QED BY <3>5, <5>1, <5>2
        <4>3. Ended(heard', f, Len(heard') + 1)
          BY <3>3, <4>2 DEF Ended
        <4>4. QED BY <4>1, <4>3 DEF Over, Idle
      <3>6. CASE ~(IsFinal(code) \/ Len(mCtlSequence) >= MaxCtlSequenceLength)
        <4>1. /\ mSawESC' /\ mInCtlSequence' /\ ~mPendingCharsetChar'
              /\ mCtlSequence' = Append(mCtlSequence, code)
          BY <3>1, <3>4, <3>6 DEF sequence
        <4>2. Len(mCtlSequence') = Len(heard') - (f + 1)
          <5>1. Len(mCtlSequence') = Len(mCtlSequence) + 1
            BY <3>2, <4>1
          <5>2. QED BY <1>1, <3>1, <3>2, <5>1
        <4>3. ~Completes(heard', f, n)
          <5>1. n < f + 2 + MaxCtlSequenceLength
            BY <1>1, <3>1, <3>2, <3>6
          <5>2. QED BY <1>1, <3>2, <3>6, <5>1 DEF Completes
        <4>4. \A e \in f + 2 .. Len(heard') : ~Completes(heard', f, e)
          <5>1. ASSUME NEW e \in f + 2 .. Len(heard) PROVE ~Completes(heard', f, e)
            <6>1. e \in 1 .. Len(heard)
              BY <1>1, <3>2
            <6>2. QED BY <1>1, <3>1, <6>1 DEF Completes
          <5>2. \A e \in f + 2 .. Len(heard') : e \in f + 2 .. Len(heard) \/ e = n
            BY <1>1, <3>2
          <5>3. QED BY <4>3, <5>1, <5>2
        <4>5. QED BY <3>3, <4>1, <4>2, <4>4 DEF InControlSequence
      <3>7. QED BY <3>5, <3>6
    <2>5. CASE AtDesignator(f)
      <3>1. SwallowDesignator
        BY <1>5, <2>5 DEF AtDesignator, slotReceivedChar, InSequence
      <3>2. Idle'
        BY <2>5, <3>1 DEF AtDesignator, SwallowDesignator, Idle
      <3>3. Ended(heard', f, Len(heard') + 1)
        <4>1. heard[f + 1] = "(" /\ Len(heard) = f + 1
          BY <2>5 DEF AtDesignator
        <4>2. heard'[f + 1] = "(" /\ Len(heard') + 1 > f + 2
          BY <1>1, <4>1
        <4>3. QED BY <4>2 DEF Ended
      <3>4. QED BY <3>2, <3>3 DEF Over, Idle
    <2>6. CASE Over(f)
      <3>1. Idle'
        BY <1>3, <1>5, <2>6 DEF Over
      <3>2. Ended(heard', f, Len(heard') + 1)
        BY <1>1, <2>6, EndedStays DEF Over
      <3>3. QED BY <3>1, <3>2 DEF Over, Idle
    <2>7. QED BY <1>5, <2>3, <2>4, <2>5, <2>6
  <1>6. QED BY <1>2, <1>4, <1>5 DEF ParserOK

\* The parser's invariant says what TextIsDrawn says.
LEMMA ParserDraws == ASSUME EmulationTypeOK, DrawnOK PROVE TextIsDrawn
  <1>1. heard \in Seq(Codes) /\ DOMAIN heard = 1 .. Len(heard)
    BY DEF EmulationTypeOK
  <1>2. \A i \in 1 .. Len(heard) : IsText(i) <=> TextAt(heard, i)
    BY <1>1, TextIsTextAt
  <1>3. QED BY <1>1, <1>2 DEF DrawnOK, TextIsDrawn

LEMMA ParserInit == ASSUME EmulationInit PROVE ParserOK /\ DrawnOK
  <1>1. heard = <<>> /\ Len(heard) = 0 /\ drawn = {} /\ Idle
    BY DEF EmulationInit, Idle
  <1>2. QED BY <1>1 DEF ParserOK, DrawnOK, NoEscape
=============================================================================
