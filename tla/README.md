# Formal models of Komport

Komport is a serial terminal (Qt 6, C++). Below `komport/` it has two halves: a *session core*
that turns what a serial port does into an ordered, timed, recordable stream of events, and a
*terminal* that draws what arrives. The session core carries the contracts that are hardest to
test (re-entrant delivery, partial failures of files and devices, orders of closing), so it comes
first here; the terminal, the path of the bytes and the windows around them follow.

Line numbers are those of `src/komport/` unless a path says otherwise.

## 1. The system

Everything runs on one thread. Concurrency is *re-entrancy*: a signal runs its receivers before
`emit` returns, receivers may call back, and some loops (modal dialogs, transfers) run the event
loop inside a handler.

```
 device --- KomportSerial (ITransport) --signals--> SessionController --eventObserved--> SessionRecorder --> file
               |  ^                                        ^                                ^
               |  | putChar/writeBytes                     | start/stop, anchor             |
  receivedChar v  |                                        |                                |
          KomportEmulation --> KomportCellArray --> KomportScrollBuffer / KomportView       |
               ^                                                                            |
          keyboard, macros, transfers, profiles: KomportApp ----------- start/stop ---------+
                                  owns everything through KomportDoc
```

| component | state | operations | what is hard | correct when |
|---|---|---|---|---|
| Serial transport (`komportserial.cpp`) | requested and effective configuration, activation ids, guard of a failed attempt, transaction window, receive buffer | open, close, six setters, `applyConfiguration`, write, port errors, flush timer | the device refuses or rounds single settings; errors come inside calls, or long after; receivers of `settingsFailed()` call back in the middle of a transaction | each attempt uses one id; `closed` ends an activation; what is announced is what the device has |
| Transport interface (`itransport.h`) | - | the conformance rules of lines 40-57 | | every implementation keeps them |
| Session controller (`sessioncontroller.cpp`) | FIFO, delivering flag, live activation, id watermark, sequence, time reference | seven slots, the drain loop | consumers cause observations while an event is being delivered; delayed and duplicated observations; a clock that runs back | nothing lost or reordered; only live activations speak; one anchor; ordered times |
| Session recorder (`sessionrecorder.cpp`) | state, counters, pending flush, last report, file | start, stop, event slot, flush timer, destructor | every call to the file may fail in part; a damaged recording is finalised later; a stale timer | the file is a header and a gapless run of records; reports are true; the unflushed tail is bounded |
| Record codec (`sessionrecordcodec.cpp`) | - | encode header, encode record, conformance | limits of 16 and 64 MiB, three size computations that have to agree | an encoding exists exactly within the limits of ADR-006 |
| Document (`komportdoc.cpp`) | the three objects above | construct, `closeSession()`, destroy | the order of closing and of destruction | a recording contains the end of its session |
| Terminal screen (`komportcellarray.cpp`, `komportscrollbuffer.cpp`) | cell grid, cursor, attributes, history depth | draw, scroll, regions, resize | resizes between any two bytes; off-by-one at margins and at the history's limit | cursor and margins stay on the grid; history keeps order |
| Terminal emulation (`komportemulation.cpp`) | parser state, modes, margins, saved cursor | one handler per control sequence | sequences cut, aborted, nested; saved state older than the screen | no byte of a sequence is drawn; modes survive or reset as specified |
| Application (`komport.cpp`) | per window: current profile, strings of the settings, pending error, status bar; shared: stored profiles, loaded character sets | start, profiles, settings dialog, recording, close, quit | several windows share one store and one registry; a port fails while the dialog is open | what a window shows is what it uses; one attempt per user action; what it reported stays visible |
| Transfers and log (`komporttransfer.cpp`, `komportsessionlogger.cpp`) | file, error flag, line buffer | upload, download, log | cancel, Ctrl-D, disconnect and write errors meet inside an event loop | what is sent or kept is in order and without a hole; "finished" does not follow a cancel or a failed write |
| View (`komportview.cpp`) | scroll bar, rows and columns | resize, scroll, auto-scroll, paint | the scroll position is a distance from the live screen while the history grows and shrinks under it | every row it shows is a row of the history or of the screen, in order |
| Character sets (`komportcharset.cpp`) | registry of custom sets, shared by all windows | reload, resolve a key, look up | a reload in one window takes away the table another one uses | no window uses a set that is gone |
| Dialogs, macro bar, script | widgets; a declaration | forms | - | not modelled: no control of their own |

`PROJECT.json` lists the components with their sources and, under `hazards`, the places where the
code can go wrong in a way a test would hardly reach, with the properties that cover them.

## 2. Modules

| module | what it is | source |
|---|---|---|
| `SessionStream` | abstract: what a stream of session events promises a consumer | - |
| `SessionController` | the controller; any transport may call it, conforming or not | `sessioncontroller.cpp` |
| `SessionControllerProofs` | its theorems | |
| `SessionFile` | abstract: a recording as a reader of the file sees it | - |
| `SessionRecorder` | the recorder, over a file, a scheduler and a clock that may do anything their interfaces allow | `sessionrecorder.cpp` |
| `SessionRecorderProofs` | its theorems | |
| `LiveSession` | document, controller (`EXTENDS`), recorder (`INSTANCE`) and a conforming transport | `komportdoc.cpp` |
| `LiveSessionProofs` | its theorems (it extends `SessionControllerProofs` and instantiates `SessionRecorderProofs`) | |
| `Transport` | abstract: the conformance rules of a transport | `itransport.h` |
| `KomportSerial` | the serial transport: activations and configuration transactions | `komportserial.cpp` |
| `KomportSerialProofs` | its theorems | |
| `Terminal` | the screen: grid, control functions, history, view | `komportcellarray.cpp`, `komportemulation.cpp`, `komportscrollbuffer.cpp`, `komportview.cpp` |
| `TerminalProofs` | its theorems | |
| `ControlSequences` | the parser: which bytes belong to sequences and which are text | `komportemulation.cpp` |
| `ControlSequencesProofs` | its lemmas | |
| `HostStream` | receive buffer, parser (`EXTENDS ControlSequences`), transfers and log | `komportserial.cpp`, `komporttransfer.cpp`, `komportsessionlogger.cpp` |
| `HostStreamProofs` | its theorems | |
| `Application` | windows, profiles, the settings dialog, errors, the shared registry | `komport.cpp`, `komportcharset.cpp` |
| `ApplicationProofs` | its theorems | |
| `MC*` | values of the constants for the runs | |

### SessionController

A slot is one action (`OnOpened`, `OnClosed`, `OnTransportError`, `OnData`, `OnNonData`): filter,
update of the live activation and of the watermark, enqueue. The drain loop is cut where the code
lets others run: `Deliver` takes the head of the FIFO, maps its time, counts its sequence and
emits it; until `DeliveryReturns`, further slots may run; `DeliveryReturns` queues the diagnostic
of an anomaly (`sessioncontroller.cpp:271-285`), and `DrainEnds` leaves the loop. `mDelivering` is
the guard that keeps a nested slot from draining. The inputs are *any* ids, times and orders: the
class trusts only ids. Two history variables record what was accepted and what was emitted.

### SessionRecorder

`Start` is three actions, one per way it ends (`StartRefused`, `StartFails`, `StartSucceeds`), each
with the finalisation of a damaged predecessor before it; `OnEventObserved` is three (unencodable,
cut short, written). The sink is a file that accepts -1, a part or all of a unit and may fail to
flush or truncate; the scheduler is a set with at most one due instant; `Tick` is the clock. A unit
is two bytes, so that "a part of it" exists. `unflushedSince` tells how old the oldest byte in the
sink's buffer is.

### LiveSession

An observation of the transport runs the controller's slot, and an emission of the controller runs
the recorder's slot, in the same step, because both are direct connections. `closeSession()` and
the destructor are sequences of steps (`CloseOrder`, `DestroyOrder`) with the deliveries they cause
in between. `closeSession()` has one caller, the window's `closeEvent()` (`komport.cpp:966`), and no
consumer of an event runs an event loop or closes a window; so a close never begins inside a delivery
(`CloseSession` says so), and what a close meets is what it causes itself.

### KomportSerial

One frame of `stack` is one call of `applyConfigurationInternal()` that has passed its early
returns: `Begin` pushes it, `ApplyField` applies one hardware setting (taken, rounded, refused; with
or without a port error), `ErrorReturns` is the end of `slotPortError()`, `Conclude` computes the
result, `Observe` emits the observations and returns. Calls may come while the stack is empty, or
while `settingsFailed()` is being emitted: in `slotPortError()` (`pc = "erring"`) and at the end of
a transaction that was not a full success. `open()` and `close()` are atomic up to their transaction;
`emitted` holds the observations of the latest step, in order.

Assumptions: only receivers of `settingsFailed()` call back, and only from inside transactions (a
call from the notification of a failed open, or of a runtime error, is the same as a call right
before or after it; one from inside a write is not modelled and is listed as a hazard); `rxQueue`
stands for the three settings that are not hardware; the members that mirror `mRequested` are not
modelled; a baud rate is usable or not, and the empty string is not an input. The five framing and
flow settings are one: they are applied by five identical pieces of code.

### Terminal

One action is one control function (`CursorTo`, `InsertLine`, `DeleteChar`, `SetScrollRegion`,
`Reset`, ...), with everything the code does for it, `DrawChar` included: the wrap, the insertion of
a blank, the scroll at the margin. Between any two of them the window is resized
(`ResizeGridRows`), a profile changes the size of the history (`SetScrollBuffer`), and the user
scrolls (`Scroll`) or types (`KeyPress`). `mCells`, `mScrollBuffer` and `mScrollBar` are the grid,
the array of history rows with `mDepth` of them in use, and the scroll bar's range and value;
`VisibleRow` and `HistoryIndex` are the index arithmetic of `getCell()` and `cellAtHistoryRow()`.
`mScrollTop` and `mScrollBottom` are the margins as they were *asked for*; each use clamps them to
the screen of that moment, as the code does. A position outside the grid is a state of the model:
drawing there sets `crashed`, after which nothing happens.

Rows and columns count from 0; a cell is its character; the number of columns is fixed, since only
rows meet margins and history; `Unbounded` stands for `INT_MAX`, the bottom margin nobody asked for.

### ControlSequences and HostStream

`slotReceivedChar` is the parser, with one representative of each kind of byte; `heard` and `drawn`
are its history. What is text is defined a second time without any parser state (`IsText`: the byte
lies behind the end of the sequence that the last ESC before it began), and `TextIsDrawn` says the two
agree.

`HostStream` puts the receive path in front of the parser and the readers behind it. A byte is a number
(its place in the order of arrival) until it is rendered, when its code is chosen. `slotDataAvailable`
appends and trims, `slotFlushRxBuffer` takes the snapshot, `receivedChar` hands one byte of it to
the emulation, the log and a download. A batch is rendered without returning to any event loop, so
nothing else happens while `data` is not empty. `upload` and `download` run an event loop under a
modal dialog: bytes arrive, the port closes and Cancel is pressed inside it (`uploadByte`,
`cancel`, `close`), while other commands of the window wait (`Modal`). Each return of the two
functions is in `transfer.returned`: "finished" is the success message, "gave up" everything else.
A `readyRead` that was queued when the port closed is served after it, so `slotDataAvailable` does not
ask whether the port is open.

Writes fail where the code could know it and where it could not. A download puts byte after byte into a
`QFile`, which buffers them: `Taken` lets any of these fail, and `Closed` lets the flush at the end
lose any number of the last ones, which nobody asks about. A line of the log that fails to be written may be
there in part, and `QTextStream` writes nothing after it (`mStreamOk`). `Decoded` is the conversion
`QString::fromLocal8Bit()` in a UTF-8 locale: `lead` and `tail` are the two bytes of a character, and one
without the other is replaced. The time stamps are left out. Two assumptions: what a failed stream still
held is discarded, and a flush that `QFile` makes in the middle of a transfer fails at the byte that
causes it.

### Application

One action is one slot or constructor with all it calls. `Opened`, `Configured`, `Applied` and
`Connected` map a window to the set of windows an attempt on the port can leave behind; they count the
attempts and record whether an error was reported. `KomportSerial` is what they abstract; where it
reports a failure twice, the second report leaves the window as the first did. The settings dialog is two actions, `ShowPreferences` and `Accepted` or `Rejected`, because a
port may fail while it is open (`PortError`); both are one user action to the history of a window.
`reported` is whether an error was reported since the window's last action began, and `Accepted`, which
resets `mSerialErrorPending` as the code does, marks such an error as dropped. `Order` is the order of
names when their case is ignored: `FirstNames` are those that may come first. `registry` is what is loaded, `files` what is on disk, and
`ChangeFiles` is anyone who edits the directory. Stored profiles may lack a character set (older
versions wrote none) and may have been deleted by another window.

## 3. Runs

`tlc -workers 2 -config X.cfg M`, with `M` the module of the run.

| run | module | checks | result |
|---|---|---|---|
| `SessionController` | `MCSessionController` | types; a live session has its anchor; nothing lost or reordered; the filter is sound; observation times never decrease; the reference never moves; everything is delivered; implements `SessionStream` | holds |
| `SessionTimeOrder` | `MCSessionController` | session time never decreases over *all* events | violated |
| `SessionRecorder` | `MCSessionRecorder` | types; bounded unflushed tail; true reports; reports of damage are final; implements `SessionFile` | holds |
| `LiveSession` | `MCLiveSession` | headers carry the stream's anchor; a recording has every event; closing the session records its end | holds |
| `KomportSerial` | `MCKomportSerial` | types; what was announced is what the device has; port errors stay inside their transaction; implements `Transport` | holds |
| `NestedTransactions` | `MCKomportSerial` | the effective configuration is the device's, with nested transactions | violated |
| `StaleRequest` | `MCKomportSerial` | the request asked for last is the one stored | violated |
| `Terminal` | `MCTerminal` | types; any scroll position shows existing rows of one history; a region without a bottom reaches the last row; only a restored cursor leaves the grid; scrolling and resizing keep the text in order; a region isolates the rows outside it | holds |
| `RestoredCursor` | `MCTerminal` | every character drawn has a cell | violated |
| `HostStream` | `MCHostStream` | types; exactly the text is drawn; bytes are rendered in order; only an overflow loses bytes; an upload that reports success was whole, a download that does was ended by Ctrl-D and has no hole; the log has the text of its share in order; nothing waits for ever | holds |
| `Application` | `MCApplication` | types; the status bar shows the errors reported since the last action began; one attempt per action; no window uses a character set that is gone; what is shown is in force | holds |
| `DialogError` | `MCApplication` | an error reported while the settings dialog is open stays visible | violated |

The five violations state what a comment or a document of the repository says and show that the
code does otherwise; `findings` in `PROJECT.json` quotes both sides. In short:

* the diagnostic of a clock anomaly waits behind observations that were caused while the anomalous
  event was delivered, and carries an older time than they do;
* an outer configuration transaction overwrites the result of one nested in it;
* a no-op request is not stored, so a setting the port refused earlier comes back at the next open;
* a restored cursor is not clamped to a screen that has shrunk since it was saved, and the next
  character is drawn where there is no cell;
* an error that comes while the settings dialog is open is covered by "Ready." when the dialog is accepted.

Other places where the code differs from what a comment says are not runs of their own, because the
property of the part states what the code does instead:

* A line feed drops the oldest row of a history that has one row less than `komportscrollbuffer.cpp:39-47`
  and `tests/tst_selection.cpp:258-260` say it holds: the depth is clamped while the array is one row
  shorter, so it stays two below the height. `TextIsKept` has both depths (`FullDepth`).
* What a download still has in its buffer when the Ctrl-D closes its file may be lost, and the download
  reports success, which `komporttransfer.cpp:116-119` calls a genuine, complete transfer. `DownloadIsExact`
  promises a file without a hole, and a whole one only if the flush succeeded.
* A character of several bytes that the line limit cuts in two is replaced in both lines of the log, which
  "still records everything" (`komportsessionlogger.cpp:27-29`), and a failed write ends the log unnoticed.
  `LogHasTheText` allows a replaced byte for bytes of such characters only, and a shorter file only after
  a write has failed.
* An error of the port inside a configuration transaction is reported twice, when it is raised
  (`komportserial.cpp:529`) and at the end (816, "Exactly one legacy user-facing message per failed
  transaction"). `Configured` has both; the second changes nothing in a window.
* The built-in profiles are stored before the program asks whether any profile exists (`komport.cpp:107`),
  so on the first run under profiles the older settings are not taken over, against 566-571.
  `SeededStore` and `StartStore` have that order.

### Bounds

* `MaxObservations` (4 and 3): opened, a report, closed and a report of the next activation; with
  two ids a stale id meets a live one, with three source times an anomaly lies between others.
* `MaxTime` = 4 with `FlushInterval` = 2: a timer is armed, served or cancelled, and armed again in
  the next recording before time runs out; `MaxEvents` = 3 gives one record in the file, one that
  fails and one after the failure.
* `MaxAttempts`, `MaxCalls`, `MaxDepth` (2, 3, 2): a reopen, a refused request and one that asks for
  the value in force, one transaction inside another. The runs of the single-level findings take
  four calls and depth 1.
* Endpoints, rates, framings: two of each, since all the code does with two values is to compare
  them; queue sizes 0 and 1, the two sides of the clamp.

* Terminal: two columns wrap; screens of two and three rows have regions of every shape (whole, top,
  bottom, one row) and shrink and grow; histories of 0, 1 and 3 rows are none, one that holds no row
  (its depth stays one below its height) and one that fills up; `Params` 0, 2 and 4 are a missing
  parameter, one inside and one beyond every screen; `MaxDrawn` = 2 distinguishes a row of text from
  a blank one before and after a scroll.
* HostStream: one byte of each kind; `MaxCtlSequenceLength` = 1, so that a sequence is overlong after
  two parameters; receive limits 1 and 3; files of 0 and 2 bytes to upload; log lines of 2, cut before,
  inside and after a character. A byte is two units of `MaxWork` and a transfer or a log three: ten
  units are five bytes (an overlong sequence with text behind it), three bytes with a transfer or a log
  (a line that is cut inside a character, a Ctrl-D between two bytes), or two with both of them or with
  two in a row.
* Application: two windows, devices and profiles and one custom character set; five actions between them
  (four in `DialogError`, which needs three) let a window lose its profile, its character set or its port
  to the other one and then act.

All counters that grow are bounded in guards (`MaxObservations`, `MaxEvents`, `MaxTime`,
`MaxAttempts`, `MaxCalls`, `MaxDepth`, `MaxDrawn`, `MaxWork`, `MaxActions`); nothing else is cut. The
theorems hold for every value of these constants.

`CHECK_DEADLOCK FALSE` is set because the bounds, and the destruction of the objects, let the
program stop.

### Fairness and time

In the controller, `WF_vars(Drain)`: the drain loop is sequential code and its consumers return. In
`HostStream`, weak fairness of rendering (a loop over a batch) and of the flush, whose timer is
started by the constructor and never stopped (`komportserial.cpp:228-232`). Nothing is assumed of the
transport, the host, the user or the device; in particular no transfer need end, since one that waits
for a Ctrl-D may wait for ever. `EverythingIsDelivered` also
uses that a behaviour has finitely many observations: a consumer that answers each event with a new
observation keeps the loop running for ever, in the program too.

`Tick` may not pass the due instant of a pending callback: an idle event loop serves a timer that is
due before more time passes. A handler that blocks the loop delays the flush by as long as it blocks.

## 4. Proofs

`tlapm M.tla` on each of the eight proof modules. The theorems hold for every value of the constants
that satisfies the named assumptions of the modules: every set of ids, times, anchors, endpoints and
settings, every screen size and history, every kind and number of bytes, every number of windows and
profiles, and every bound.

**SessionController.** `TypeCorrect`, `LiveIsAnchored`, `ReferenceIsFixed`,
`ObservationTimesAreOrdered`, `FilterSoundness`, `NothingIsLostOrReordered`, `ImplementsTheStream`. None
of these invariants is inductive alone: `AnchorInv` adds that a live session without an anchor has its
opening in the queue while the loop runs (`LiveWillBeAnchored`) and that nothing is emitted before it
(`NothingBeforeAnchor`); `TimeInv` ties `mLastEmittedSessionTimestampNs` to the last observation
emitted; `FilterInv` ties the live activation and the watermark to the history of accepted observations
(`Watermark`, `LiveIsTheLatestOpening`).

`NothingIsLostOrReordered` speaks of places. The *line* is the stream followed by the queue: a delivery
only moves its first queued element across, so every element keeps its place, and what is said of the
line is said of every interleaving. `OrderInv` is that the places of the observations in the line are
exactly the positions of what the filter accepted (`EachInItsPlace`); the lemmas about `PlaceIn` say what
one more member at the end does to a counting.

`ImplementsTheStream` is the refinement of `SessionStream`, one step of which is the emission of an
observation or of a diagnostic. `RefinementInv` joins four invariants: `StreamInv` (the
sequence number counts the stream, the remembered time is that of its last observation), `OrderInv` and
`FilterInv` (an observation belongs to an activation that opened in the *stream*, because it did among
what was accepted and both are in the same order), and `Answers`: the d-th diagnostic of the line is
about the d-th anomaly of the stream, and there is one anomaly more than diagnostics exactly while its
event is being delivered.

**SessionRecorder.** `TypeCorrect`, `TailIsBounded`, `ReportsAreTrue`, `DamageReportsAreFinal`,
`RecorderImplementsFile`. The strengthening is `TimerMatchesTail` (something is unflushed only if the
callback is pending, and due within one interval), `ReportInv` (the counters are those of the file and
a report of damage is the one made at the damage) and `FileInv` with `NewestIsRecorded` (the last
record of a live recording is the last event), which makes the next append gapless.

**LiveSession.** `SessionIsBoth` comes first: every step of the composition is a step (or a stutter) of
the controller and one of the recorder, so their theorems hold of the session. `SessionTypeCorrect`,
`HeadersAnchorTheStream`, `RecordingsKeepUp` and `ClosingIsRecorded` rest on an invariant `SInv` that
relates the two: the controller's `AnchorInv`; the recorder's types; the document's phase and which of
the three objects are still there (`DocumentOK`); that transport and controller agree on the live
activation (`Agreement`); that outside the drain loop nothing is queued (`Drained`); that the file holds
a header with the anchor and one record for each event delivered since (`FileOK`); and that the end of a
session that is no longer live is still queued or already in the file (`CloseComes`), which is why the
order of the close path matters. `SessionKeepsItsPromises` adds up the three modules: the composition
refines `SessionStream` for its consumers and `SessionFile` for the readers of its recordings. The
theorem about the recorder is taken over by instantiating `SessionRecorderProofs` for the recorder of
the session; the lemmas `Same...` say that this instance and the one `LiveSession` is composed of are
the same specification. The assumption `ClockAssumption` says that the clocks return something and that
bounds are numbers.

**KomportSerial.** `TypeCorrect` says, beyond types, that the configuration the transport believes in
force is always normalised and usable; `SerialImplementsTransport` is the refinement: every step opens,
fails to open, closes or reports, or changes nothing a consumer sees. The invariant adds
`ErringHasField` (a transaction that waits for the receivers of a port error has a setting under way)
and `OpenIsLive` (an open device has a live activation: a write is never observed with the id 0).
`ErrorsStayInside` rests on `WindowInv`: the error window is open exactly while some transaction on the
stack is under way, each transaction remembers what it found and restores it when it concludes, and a
transaction with settings left to apply is under way. `ReportsAreInForce` rests on `ForceInv`: as long
as no receiver calls back there is one transaction at most, on an open device; the settings it has
read back are those of the device (`ReadBack`), what was announced before it began is what was in
force then unless it belongs to an opening (`AnnouncedBefore`), and one with nothing to apply began
while everything was in force (`NothingToApply`).

**Terminal.** `TypeCorrect`, `OnlyRestoreLeaves`, `WindowIsOnHistory`, `DefaultRegionIsWhole`,
`RegionsIsolate`, `KeptText`. The invariant adds to the types that the scroll bar ranges over exactly
the history there is (`BarRangesOverHistory`), without which a scroll position could name a row that is
not there, and that a region nobody gave a bottom has the unbounded one (`DefaultIsUnbounded`), without
which a window that grows would leave rows below the region. The cursor is *not* on the grid in this
invariant, since a restored one need not be; what is proved is that no other step takes it off.

`KeptText` compares the roll of paper (the history in use, then the screen) before and after a step. A
step that feeds the history is described by two numbers (`Rolls`): k rows of the screen became history
and n blank ones came in at the bottom. `KeepsHistory` says where the rows of the new history were, which
`PushOfTop` proves of a push, with its shift of the array and a depth two below its height at most, and
`SetScrollBufferRolls` of a smaller history, whose depth is one below it at most; `ShiftsScreen` says it of the grid; `RollKeeps` concludes
that the new roll is the end of the old one with n blank rows behind it. `WhoResizes` and
`WhoResizesHistory` say that nothing but those steps changes the two sizes.

**ControlSequences and HostStream.** `TextIsWhatIsDrawn` says that the parser, with four variables and
any mixture of interrupted sequences, agrees with a definition that only looks at the bytes. Its
invariant `ParserOK` is that the flags are what the bytes since the last ESC make them (just escaped,
inside a CSI of so many parameters, at a designator, or over); the lemmas in `ControlSequencesProofs`
say that whether an earlier byte is text does not depend on later ones, and what a step adds.
`ReceivedInOrder` and `LossIsOverflow` rest on `ReceiveOK`: what is rendered, what is being rendered
and what waits are three increasing sequences, each below the next. `UploadsAreExact` and
`DownloadsAreExact` rest on `TransferOK`: a running upload has sent what it has read, and a download
whose writes succeeded has taken all there was from its start up to now, or up to the Ctrl-D that
closed it; what it proves of a finished download is a file without a hole, whole if the last flush
succeeded. `LogIsTheText` rests on `LogInv`: the log's share of what was heard begins when it was opened
and ends when it was closed, and as long as no write has failed, the lines written, then the line that
fills, are as long as the pieces of text of that share put together, and agree with them but for replaced
bytes; after a failure the lines agree with a beginning of it. Putting sequences together is a recursive definition of the community modules;
what is needed of it (`FlattenAppend`: one more piece comes last) is proved by induction over a *set* of
numbers (`SetInduction`), which the well-founded order of the naturals gives without an operator as a
parameter.

**Application.** `TypeCorrect`, `ErrorsAreShown`, `OneAttempt`, `CharsetsAgree`, `ShownInForce`. The
invariant is one predicate of a window and the registry, for every window (`WindowInv`); to the
properties it adds that an error that was reported, and not dropped by the acceptance of the dialog, is
still pending (`ErrorStays`), which is what keeps the action's last message back. The steps rest on lemmas about the functions that map a window to its
successors.

Every invariant, action property and refinement that a run checks and that holds is thus also a theorem.
Only model-checked are the two liveness properties, `EverythingIsDelivered` and `NothingWaitsForEver`,
since the provers treat neither fairness nor ENABLED, and the five violations, each of which is one
counterexample.

## 5. Not modelled

* Record codec: sizes and encodings are a pure function of fixed-width fields without steps, and its
  unit test enumerates them. `SessionRecorder` models its callers: an event is encodable or not.
* Terminal: colours and attributes, tables of characters (G0, G1), answers to the host (DA, DSR), the
  keyboard, and modes that only painting reads. `KomportFileScrollBuffer`, which nothing constructs.
* View: painting, selection, columns, the hex view.
* Application: menus, layout, macros, the clipboard, the wording of messages. The recording actions are
  inputs of `LiveSession`, the transfers and the log of `HostStream`.
* Serial transport: enumeration of ports, printed names of settings, calls that come back from inside a
  write.
* Character sets: parsing of charset files and lookup in tables, conversions without control.
* Dialogs, macro bar, translations, `main.cpp`, and `komportscript.h`, which declares a class that
  nothing implements.

Two places where the code differs from a comment are only listed as hazards, because what they disturb
is nothing a property here could tell: the document's destructor destroys the controller before the
recorder (`komportdoc.cpp:61`; `sessionrecorder.h:112` asks for the opposite, but the recorder's
destructor does not use the controller), and a request with a new endpoint is stored un-normalised when
its open fails (`komportserial.cpp:626`; the next transaction normalises it before it reaches the device).

What could be added: the answers of the emulation, which close the loop from the host through the
parser to a write on the port.
