----------------------------- MODULE HostStream -----------------------------
(***************************************************************************)
(* The bytes of the host on their way to what reads them: the transport's  *)
(* RX buffer and flush timer (komport/komportserial.cpp), the emulation    *)
(* (ControlSequences), a download or an upload                             *)
(* (komport/komporttransfer.cpp), and the session log                      *)
(* (komport/komportsessionlogger.cpp).                                     *)
(*                                                                         *)
(* Until something reads it a byte is a number, its place in the order of  *)
(* arrival; its code is chosen when it is rendered.  A transfer runs an    *)
(* event loop of its own under a modal dialog: bytes arrive and are        *)
(* rendered inside it, while the window's other commands have to wait.     *)
(***************************************************************************)
EXTENDS ControlSequences

CONSTANTS
  QueueSizes,           \* RX high-water marks a profile may ask for
  UploadSizes,          \* sizes of the files offered for upload
  MaxLineBufferLength,  \* 4096 in the source
  MaxWork               \* bound: bytes that arrive, and transfers and logs begun (Work)

ASSUME QueueAssumption  == QueueSizes # {} /\ QueueSizes \subseteq Nat \ {0}
ASSUME UploadAssumption == UploadSizes \subseteq Nat
ASSUME LineAssumption   == MaxLineBufferLength \in Nat \ {0}
ASSUME WorkAssumption   == MaxWork \in Nat

VARIABLES
  isOpen,          \* the port
  mRxBuffer,       \* bytes that wait for the flush timer
  mRxQueueMax,
  data,            \* the flush timer's snapshot: bytes about to be rendered
  arrived,         \* how many bytes the port has delivered
  rendered,        \* history: the bytes rendered; heard has their codes
  transfer,        \* the transfer that runs, or the last one
  mLogOpen,        \* the log's file is open
  mStreamOk,       \* none of the writes to it has failed
  mLog,            \* its lines
  mLineBuffer,
  logged,          \* history: where the log's share of heard begins and ends
  files            \* how many transfers and logs have been begun

rxVars  == <<isOpen, mRxBuffer, mRxQueueMax, arrived>>
logVars == <<mLogOpen, mStreamOk, mLog, mLineBuffer>>
vars == <<emulationVars, rxVars, data, rendered, transfer, logVars, logged, files>>

NoTransfer == [kind |-> "none"]

Download(first) ==
  [kind |-> "download", first |-> first, isOpen |-> TRUE, file |-> <<>>,
   flushed |-> TRUE, writeError |-> FALSE, wasCanceled |-> FALSE, returned |-> "running"]

Upload(size) ==
  [kind |-> "upload", size |-> size, read |-> 0, wire |-> <<>>,
   wasCanceled |-> FALSE, returned |-> "running"]

Running(kind) == transfer.kind = kind /\ transfer.returned = "running"
Modal == Running("download") \/ Running("upload")

\* A byte is two units of work, a transfer or a log three.
Work(bytes, begun) == 2 * (arrived + bytes) + 3 * (files + begun) <= MaxWork

Init ==
  /\ EmulationInit
  /\ isOpen = TRUE
  /\ mRxBuffer = <<>>
  /\ mRxQueueMax \in QueueSizes
  /\ data = <<>>
  /\ arrived = 0
  /\ rendered = <<>>
  /\ transfer = NoTransfer
  /\ mLogOpen = FALSE
  /\ mStreamOk = TRUE
  /\ mLog = <<>>
  /\ mLineBuffer = <<>>
  /\ logged = [first |-> 1, last |-> 0]
  /\ files = 0

-----------------------------------------------------------------------------
(* The RX buffer.                                                          *)

\* Mutant: the bytes that do not fit are the new ones.
KeepOldest(bytes) == SubSeq(bytes, 1, mRxQueueMax)

KeepNewest(bytes) ==
  IF Len(bytes) > mRxQueueMax
  THEN SubSeq(bytes, Len(bytes) - mRxQueueMax + 1, Len(bytes)) ELSE bytes

\* A readyRead that was queued when the port closed is still served.
slotDataAvailable(n) ==
  /\ Work(n, 0)
  /\ arrived' = arrived + n
  /\ mRxBuffer' = KeepNewest(mRxBuffer \o [i \in 1 .. n |-> arrived + i])
  /\ UNCHANGED <<emulationVars, isOpen, mRxQueueMax, data, rendered, transfer,
                 logVars, logged, files>>

\* Mutant: the timer stops with the port.
FlushesWhileOpen == isOpen /\ mRxBuffer # <<>>

BytesWait == mRxBuffer # <<>>

\* Mutant: the snapshot is taken and the buffer kept.
NotCleared == UNCHANGED mRxBuffer

Cleared == mRxBuffer' = <<>>

slotFlushRxBuffer ==
  /\ BytesWait
  /\ data' = mRxBuffer
  /\ Cleared
  /\ UNCHANGED <<emulationVars, isOpen, mRxQueueMax, arrived, rendered, transfer,
                 logVars, logged, files>>

\* The user closes and reopens the port; quitting from another window closes it
\* even during a transfer.  The buffer is left as it is.
close ==
  /\ isOpen
  /\ isOpen' = FALSE
  /\ UNCHANGED <<emulationVars, mRxBuffer, mRxQueueMax, arrived, data, rendered, transfer,
                 logVars, logged, files>>

open ==
  /\ ~isOpen /\ ~Modal
  /\ isOpen' = TRUE
  /\ UNCHANGED <<emulationVars, mRxBuffer, mRxQueueMax, arrived, data, rendered, transfer,
                 logVars, logged, files>>

setRxQueue(size) ==
  /\ ~Modal /\ size # mRxQueueMax
  /\ mRxQueueMax' = size
  /\ UNCHANGED <<emulationVars, isOpen, mRxBuffer, arrived, data, rendered, transfer,
                 logVars, logged, files>>

-----------------------------------------------------------------------------
(* receivedChar(): the emulation, the log and a download hear each byte.   *)

Replaced == "replaced"   \* U+FFFD

\* QString::fromLocal8Bit() in a UTF-8 locale: the two bytes of a character that are
\* not side by side in the line are replaced, each by itself.
Decoded(line) ==
  [i \in 1 .. Len(line) |->
     IF \/ line[i] = "lead" /\ ~(i < Len(line) /\ line[i + 1] = "tail")
        \/ line[i] = "tail" /\ ~(i > 1 /\ line[i - 1] = "lead")
     THEN Replaced ELSE line[i]]

\* A write that fails may have written a part; the stream writes nothing after it,
\* and nobody asks.
flushLine(line) ==
  /\ mLineBuffer' = <<>>
  /\ \/ (line = <<>> \/ ~mStreamOk) /\ UNCHANGED <<mStreamOk, mLog>>
     \/ /\ line # <<>> /\ mStreamOk
        /\ \/ mLog' = Append(mLog, Decoded(line)) /\ UNCHANGED mStreamOk
           \/ /\ \E n \in 0 .. Len(line) : mLog' = Append(mLog, SubSeq(Decoded(line), 1, n))
              /\ mStreamOk' = FALSE

\* Mutant: the line is flushed instead of taking the byte that fills it.
FullLineDropsByte(code) ==
  IF Len(mLineBuffer) + 1 >= MaxLineBufferLength
  THEN flushLine(mLineBuffer)
  ELSE mLineBuffer' = Append(mLineBuffer, code) /\ UNCHANGED <<mStreamOk, mLog>>

\* Mutant: no line is ever too long.
NeverFull(code) ==
  mLineBuffer' = Append(mLineBuffer, code) /\ UNCHANGED <<mStreamOk, mLog>>

TakeIntoLine(code) ==
  LET line == Append(mLineBuffer, code)
  IN  IF Len(line) >= MaxLineBufferLength
      THEN flushLine(line)
      ELSE mLineBuffer' = line /\ UNCHANGED <<mStreamOk, mLog>>

logChar(code) ==
  /\ UNCHANGED mLogOpen
  /\ \/ (~mLogOpen \/ code = "CR") /\ UNCHANGED <<mStreamOk, mLog, mLineBuffer>>
     \/ mLogOpen /\ code = "LF" /\ flushLine(mLineBuffer)
     \/ mLogOpen /\ code \notin {"LF", "CR"} /\ TakeIntoLine(code)

\* QFile::close(): the file is closed whether or not what QFile still buffers could
\* be flushed, and nobody asks.
Closed(t) ==
  {[t EXCEPT !.isOpen = FALSE]} \cup
  {[t EXCEPT !.isOpen = FALSE, !.flushed = FALSE, !.file = SubSeq(@, 1, n)] :
     n \in 0 .. Len(t.file) - 1}

\* The transfer's slot: Ctrl-D ends the file, and a failed write leaves it open.
Taken(code) ==
  IF code = "EOT"
  THEN Closed(transfer)
  ELSE {[transfer EXCEPT !.file = Append(@, code)], [transfer EXCEPT !.writeError = TRUE]}

downloadChar(code) ==
  IF Running("download") /\ transfer.isOpen
  THEN transfer' \in Taken(code)
  ELSE UNCHANGED transfer

receivedChar(code) ==
  /\ data # <<>>
  /\ data' = Tail(data)
  /\ rendered' = Append(rendered, Head(data))
  /\ slotReceivedChar(code)
  /\ logChar(code)
  /\ downloadChar(code)
  /\ UNCHANGED <<rxVars, logged, files>>

-----------------------------------------------------------------------------
(* Commands of the window.  A transfer or a log whose file does not open   *)
(* changes nothing.                                                        *)

Begin(kind) ==
  /\ ~Modal /\ Work(0, 1)
  /\ files' = files + 1
  /\ transfer' = kind
  /\ UNCHANGED <<emulationVars, rxVars, data, rendered, logVars, logged>>

slotFileSaveAs == Begin(Download(Len(heard) + 1))
slotFileOpen   == \E size \in UploadSizes : Begin(Upload(size))

\* The header is written at once, and may fail like any line.
startLogging ==
  /\ ~Modal /\ ~mLogOpen /\ Work(0, 1)
  /\ files' = files + 1
  /\ mLogOpen' = TRUE
  /\ mStreamOk' \in BOOLEAN
  /\ mLog' = <<>>
  /\ mLineBuffer' = <<>>
  /\ logged' = [first |-> Len(heard) + 1, last |-> Len(heard)]
  /\ UNCHANGED <<emulationVars, rxVars, data, rendered, transfer>>

stopLogging ==
  /\ ~Modal /\ mLogOpen
  /\ mLogOpen' = FALSE
  /\ flushLine(mLineBuffer)
  /\ logged' = [logged EXCEPT !.last = Len(heard)]
  /\ UNCHANGED <<emulationVars, rxVars, data, rendered, transfer, files>>

cancel ==
  /\ Modal
  /\ transfer' = [transfer EXCEPT !.wasCanceled = TRUE]
  /\ UNCHANGED <<emulationVars, rxVars, data, rendered, logVars, logged, files>>

-----------------------------------------------------------------------------
(* The loops of the transfers.                                             *)

LoopStep(next) ==
  /\ transfer' = next
  /\ UNCHANGED <<emulationVars, rxVars, data, rendered, logVars, logged, files>>

Outcome(finished) == IF finished THEN "finished" ELSE "gave up"

\* Mutant: the write error is reported but not returned.
ClosedIsFinished(t) == ~t.isOpen

DownloadFinished(t) == ~t.isOpen /\ ~t.writeError

download ==
  /\ Running("download")
  /\ ~transfer.isOpen \/ transfer.wasCanceled \/ transfer.writeError
  /\ \E closed \in IF transfer.isOpen THEN Closed(transfer) ELSE {transfer} :
       LoopStep([closed EXCEPT !.returned = Outcome(DownloadFinished(transfer))])

\* Mutant: the file is at its end, so all of it was sent.
AtEnd(t) == t.read = t.size

UploadFinished(t) == Len(t.wire) = t.size

\* A byte is read from the file before the dialog is asked about Cancel.
uploadByte ==
  /\ Running("upload") /\ transfer.read < transfer.size /\ ~transfer.wasCanceled
  /\ \/ /\ isOpen
        /\ LoopStep([transfer EXCEPT !.read = @ + 1, !.wire = Append(@, transfer.read + 1)])
     \/ LoopStep([transfer EXCEPT !.read = @ + 1, !.returned = Outcome(FALSE)])

upload ==
  /\ Running("upload") /\ (transfer.read = transfer.size \/ transfer.wasCanceled)
  /\ LET left == [transfer EXCEPT !.read = IF @ < transfer.size THEN @ + 1 ELSE @]
     IN  LoopStep([left EXCEPT !.returned = Outcome(UploadFinished(left))])

-----------------------------------------------------------------------------
Render == \E code \in Codes : receivedChar(code)

Port ==
  \/ \E n \in 1 .. MaxWork : slotDataAvailable(n)
  \/ close \/ open
  \/ \E size \in QueueSizes : setRxQueue(size)

Window == slotFileSaveAs \/ slotFileOpen \/ startLogging \/ stopLogging \/ cancel

Loops == download \/ uploadByte \/ upload

\* A flushed batch is rendered without returning to any event loop.
Next == Render \/ (data = <<>> /\ (slotFlushRxBuffer \/ Port \/ Window \/ Loops))

\* The flush timer is never stopped.
Spec == Init /\ [][Next]_vars /\ WF_vars(Render) /\ WF_vars(data = <<>> /\ slotFlushRxBuffer)

-----------------------------------------------------------------------------
(* Properties.                                                             *)

TypeOK ==
  /\ EmulationTypeOK
  /\ isOpen \in BOOLEAN
  /\ mRxQueueMax \in QueueSizes
  /\ mRxBuffer \in Seq(1 .. MaxWork)
  /\ data \in Seq(1 .. MaxWork)
  /\ arrived \in 0 .. MaxWork
  /\ rendered \in Seq(1 .. MaxWork) /\ Len(rendered) = Len(heard)
  /\ mLogOpen \in BOOLEAN
  /\ mStreamOk \in BOOLEAN
  /\ mLog \in Seq(Seq(Codes \cup {Replaced}))
  /\ mLineBuffer \in Seq(Codes) /\ Len(mLineBuffer) < MaxLineBufferLength
  /\ files \in 0 .. MaxWork

OnTheWay == rendered \o data \o mRxBuffer

\* komportserial.cpp:497-576: however bytes are buffered, flushed, and carried over
\* a close and a reopen, none is rendered twice and none overtakes another.
RenderedInOrder ==
  /\ Range(OnTheWay) \subseteq 1 .. arrived
  /\ \A i, j \in DOMAIN OnTheWay : i < j => OnTheWay[i] < OnTheWay[j]

Lost(n) == n <= arrived /\ n \notin Range(OnTheWay)

\* komportserial.cpp:507-511: a byte is lost only when newer ones fill the buffer.
\* No flush, close, reopen, transfer or lowered limit loses one.
OnlyOverflowLoses ==
  [][\A n \in 1 .. MaxWork :
       (Lost(n)' /\ ~Lost(n)) =>
         /\ Len(mRxBuffer') = mRxQueueMax
         /\ \A kept \in Range(mRxBuffer') : n < kept]_vars

\* komportserial.cpp:228-232: whatever becomes of the port, nothing that has been
\* received waits for ever.
NothingWaitsForEver == []<>(mRxBuffer = <<>> /\ data = <<>>)

Finished(kind) == transfer.kind = kind /\ transfer.returned = "finished"

\* What was rendered from the start of a download to the byte before end, if that is
\* the first Ctrl-D.
EndsAt(end) ==
  heard[end] = "EOT" /\ \A i \in transfer.first .. end - 1 : heard[i] # "EOT"

SentUntil(end) == SubSeq(heard, transfer.first, end - 1)

\* komporttransfer.cpp:116-147: a download that reports success was ended by the first
\* Ctrl-D after its start, and its file is what was rendered in between, whatever
\* was cancelled or failed before the loop looked again; where the flush at the end
\* failed it is a beginning of that, never anything with a hole.
DownloadIsExact ==
  Finished("download") =>
    \E end \in transfer.first .. Len(heard) :
      /\ EndsAt(end)
      /\ IsPrefix(transfer.file, SentUntil(end))
      /\ transfer.flushed => transfer.file = SentUntil(end)

\* komporttransfer.cpp:67-75: an upload that reports success has sent every byte of
\* the file, once and in order.
UploadIsExact ==
  Finished("upload") =>
    transfer.wire = [i \in 1 .. transfer.size |-> i]

\* The log's share of what was heard.
Share == SubSeq(heard, logged.first, IF mLogOpen THEN Len(heard) ELSE logged.last)

\* What a code leaves in the log: the line ends leave nothing.
Piece(code) == IF code \in {"LF", "CR"} THEN <<>> ELSE <<code>>

TextOf(codes) == FlattenSeq([i \in 1 .. Len(codes) |-> Piece(codes[i])])

\* What the file holds of a text: its bytes in order, but for bytes of a multibyte
\* character that were replaced.
ReadsAs(file, text) ==
  /\ Len(file) <= Len(text)
  /\ \A i \in DOMAIN file :
       file[i] = text[i] \/ (file[i] = Replaced /\ text[i] \in {"lead", "tail"})

\* komportsessionlogger.cpp:56-91: the file of a log is the beginning of the text of
\* its share, in order, in lines that are never too long; while no write has failed
\* the rest is the line that fills.  Only a byte of a multibyte character is ever
\* replaced.
LogHasTheText ==
  LET file == FlattenSeq(mLog)
      text == TextOf(Share)
  IN  /\ ReadsAs(file, text)
      /\ mStreamOk => text = SubSeq(text, 1, Len(file)) \o mLineBuffer
      /\ \A i \in DOMAIN mLog : Len(mLog[i]) <= MaxLineBufferLength
=============================================================================
