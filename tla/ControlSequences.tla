-------------------------- MODULE ControlSequences --------------------------
(***************************************************************************)
(* How the emulation tells text from control sequences, byte by byte       *)
(* (komport/komportemulation.cpp: slotReceivedChar, shortEscape,           *)
(* sequence).  What a completed sequence does to the screen is in          *)
(* Terminal; here only where sequences begin and end, and so which bytes   *)
(* are drawn, matters.                                                     *)
(*                                                                         *)
(* The bytes are represented by one of each kind: "ESC"; "[" and "(",      *)
(* which mean something after it; "a", any other letter; "LF" and "CR",    *)
(* executed whenever no sequence is open; "EOT" (Ctrl-D), which the        *)
(* emulation draws like any byte it has no case for; and "lead" and        *)
(* "tail", the two bytes of a multibyte character, which it draws too.     *)
(***************************************************************************)
EXTENDS Naturals, Sequences, SequencesExt, FiniteSetsExt

CONSTANTS
  Codes,                \* the bytes a host may send
  MaxCtlSequenceLength  \* 256 in the source

ASSUME CodesAssumption ==
  Codes \subseteq {"ESC", "[", "(", "a", "LF", "CR", "EOT", "lead", "tail"}
ASSUME LengthAssumption == MaxCtlSequenceLength \in Nat

VARIABLES
  mSawESC,
  mInCtlSequence,
  mPendingCharsetChar,
  mCtlSequence,         \* parameter bytes collected so far
  heard,                \* history: every byte the emulation has been given
  drawn                 \* history: the positions in heard of the bytes drawn

sequenceVars == <<mSawESC, mInCtlSequence, mPendingCharsetChar, mCtlSequence>>
emulationVars == <<sequenceVars, heard, drawn>>

IsFinal(code)    == code \in {"[", "a"}     \* 0x40 .. 0x7E
IsExecuted(code) == code \in {"LF", "CR"}   \* the switch's own cases

EmulationInit ==
  /\ mSawESC = FALSE
  /\ mInCtlSequence = FALSE
  /\ mPendingCharsetChar = FALSE
  /\ mCtlSequence = <<>>
  /\ heard = <<>>
  /\ drawn = {}

Restart ==
  /\ mPendingCharsetChar' = FALSE
  /\ mSawESC' = TRUE
  /\ mInCtlSequence' = FALSE
  /\ mCtlSequence' = <<>>

SwallowDesignator ==
  /\ mPendingCharsetChar' = FALSE
  /\ UNCHANGED <<mSawESC, mInCtlSequence, mCtlSequence>>

OpenCtlSequence ==
  /\ mInCtlSequence' = TRUE
  /\ mCtlSequence' = <<>>
  /\ UNCHANGED <<mSawESC, mPendingCharsetChar>>

shortEscape(code) ==
  /\ mPendingCharsetChar' = (code = "(")
  /\ mSawESC' = FALSE
  /\ UNCHANGED <<mInCtlSequence, mCtlSequence>>

\* A final byte completes the sequence; one byte too many aborts it.
sequence(code) ==
  /\ IF IsFinal(code) \/ Len(mCtlSequence) >= MaxCtlSequenceLength
     THEN mSawESC' = FALSE /\ mInCtlSequence' = FALSE /\ mCtlSequence' = <<>>
     ELSE mCtlSequence' = Append(mCtlSequence, code) /\ UNCHANGED <<mSawESC, mInCtlSequence>>
  /\ UNCHANGED mPendingCharsetChar

\* Mutant: a pending designator swallows even ESC, as it once did.
DesignatorFirst(code) ==
  \/ mPendingCharsetChar /\ SwallowDesignator
  \/ ~mPendingCharsetChar /\ code = "ESC" /\ Restart
  \/ /\ ~mPendingCharsetChar /\ code # "ESC" /\ mSawESC
     /\ \/ mInCtlSequence /\ sequence(code)
        \/ ~mInCtlSequence /\ code = "[" /\ OpenCtlSequence
        \/ ~mInCtlSequence /\ code # "[" /\ shortEscape(code)

\* The byte belongs to a sequence.
InSequence(code) ==
  \/ code = "ESC" /\ Restart
  \/ code # "ESC" /\ mPendingCharsetChar /\ SwallowDesignator
  \/ /\ code # "ESC" /\ ~mPendingCharsetChar /\ mSawESC
     /\ \/ mInCtlSequence /\ sequence(code)
        \/ ~mInCtlSequence /\ code = "[" /\ OpenCtlSequence
        \/ ~mInCtlSequence /\ code # "[" /\ shortEscape(code)

slotReceivedChar(code) ==
  /\ heard' = Append(heard, code)
  /\ \/ InSequence(code) /\ UNCHANGED drawn
     \/ /\ code # "ESC" /\ ~mPendingCharsetChar /\ ~mSawESC
        /\ UNCHANGED sequenceVars
        /\ drawn' = IF IsExecuted(code) THEN drawn ELSE drawn \cup {Len(heard')}

-----------------------------------------------------------------------------
(* Properties.                                                             *)

EmulationTypeOK ==
  /\ mSawESC \in BOOLEAN
  /\ mInCtlSequence \in BOOLEAN
  /\ mPendingCharsetChar \in BOOLEAN
  /\ mCtlSequence \in Seq(Codes) /\ Len(mCtlSequence) <= MaxCtlSequenceLength
  /\ heard \in Seq(Codes)
  /\ drawn \subseteq DOMAIN heard

\* Where the sequence begun by the ESC at position first ends, read off the bytes:
\* a CSI at its final byte, or at the byte that is one too many; a character set
\* selection at its designator; any other at the byte after ESC.
SequenceEnd(first) ==
  LET last == first + 2 + MaxCtlSequenceLength
      ends == {i \in first + 2 .. Len(heard) : IsFinal(heard[i]) \/ i = last}
  IN  IF first + 1 > Len(heard) THEN Len(heard)
      ELSE IF heard[first + 1] = "[" THEN IF ends = {} THEN Len(heard) ELSE Min(ends)
      ELSE IF heard[first + 1] = "(" THEN first + 2
      ELSE first + 1

Begun(i) == {first \in 1 .. i - 1 : heard[first] = "ESC"}

IsText(i) ==
  /\ heard[i] # "ESC" /\ ~IsExecuted(heard[i])
  /\ Begun(i) = {} \/ i > SequenceEnd(Max(Begun(i)))

\* komportemulation.cpp:1433-1442 and 1467-1473: no byte of a control sequence is
\* ever drawn as text and no text is swallowed, wherever an ESC, a control
\* character or an overlong sequence interrupts another.
TextIsDrawn == drawn = {i \in DOMAIN heard : IsText(i)}
=============================================================================
