------------------------------ MODULE Terminal ------------------------------
(***************************************************************************)
(* The terminal: the live grid (komport/komportcellarray.cpp), the control *)
(* functions that change it (komport/komportemulation.cpp), the scrollback *)
(* buffer (komport/komportscrollbuffer.cpp) and the view that resizes and  *)
(* scrolls the two (komport/komportview.cpp).                              *)
(*                                                                         *)
(* One action is one control function, from any sequence of bytes that     *)
(* selects it (ControlSequences models the bytes); the window, the profile *)
(* and the user act between any two of them.                               *)
(*                                                                         *)
(* Rows and columns count from 0, as in the source; a sequence's element   *)
(* i + 1 is row i.  A cell is its character: colours, attributes, painting *)
(* and the modes nothing here reads (DECCKM, DECTCEM) are left out.        *)
(***************************************************************************)
EXTENDS Integers, Sequences, SequencesExt

CONSTANTS
  Width,         \* columns, fixed by the view
  Heights,       \* rows the window may have room for
  BufferSizes,   \* scrollback sizes a profile may ask for
  Glyphs,        \* characters that can be drawn
  Blank,         \* the character of a cell that is clear
  Unbounded,     \* INT_MAX: below every screen there is
  Params,        \* numeric parameters of control sequences
  MaxDrawn       \* bound: characters drawn

ASSUME WidthAssumption   == Width \in Nat \ {0}
ASSUME HeightsAssumption == Heights # {} /\ Heights \subseteq Nat \ {0}
ASSUME SizesAssumption   == BufferSizes # {} /\ BufferSizes \subseteq Nat
ASSUME BlankAssumption   == Blank \notin Glyphs
ASSUME UnboundedAssumption ==
  Unbounded \in Nat /\ \A height \in Heights : Unbounded > height
ASSUME ParamsAssumption  == Params \subseteq Nat
ASSUME DrawnAssumption   == MaxDrawn \in Nat

VARIABLES
  mCells,         \* the live grid, top row first
  mCursor,
  mSaveCursor,
  mInsertMode,
  mScrollTop,     \* the margins as they were asked for
  mScrollBottom,
  mScrollBuffer,  \* the scrollback's rows, oldest first
  mDepth,         \* how many of them are said to be history
  mScrollBar,     \* its maximum and value
  crashed,        \* a missing cell has been dereferenced
  drawn,          \* how many characters have been drawn
  bottomAsked     \* history: the region in force names its bottom row

screenVars  == <<mCells, mCursor>>
modeVars    == <<mSaveCursor, mInsertMode, mScrollTop, mScrollBottom, bottomAsked>>
historyVars == <<mScrollBuffer, mDepth>>
vars == <<screenVars, modeVars, historyVars, mScrollBar, crashed, drawn>>

Cells    == Glyphs \cup {Blank}
Row      == [0 .. Width - 1 -> Cells]
BlankRow == [x \in 0 .. Width - 1 |-> Blank]
Blanks(n) == [i \in 1 .. n |-> BlankRow]

Least(a, b)    == IF a < b THEN a ELSE b
Greatest(a, b) == IF a > b THEN a ELSE b
qBound(low, value, high) == Greatest(low, Least(value, high))

Height == Len(mCells)
At(x, y) == [x |-> x, y |-> y]
Home == At(0, 0)

scrollTop    == qBound(0, mScrollTop, Height - 1)
scrollBottom == qBound(scrollTop, mScrollBottom, Height - 1)

IsWholeScreen == scrollTop = 0 /\ scrollBottom = Height - 1

Init ==
  /\ \E height \in Heights : mCells = Blanks(height)
  /\ mCursor = Home
  /\ mSaveCursor = Home
  /\ mInsertMode = FALSE
  /\ mScrollTop = 0
  /\ mScrollBottom = Unbounded
  /\ \E size \in BufferSizes : mScrollBuffer = Blanks(size)
  /\ mDepth = 0
  /\ mScrollBar = [maximum |-> 0, value |-> 0]
  /\ crashed = FALSE
  /\ drawn = 0
  /\ bottomAsked = FALSE

-----------------------------------------------------------------------------
(* The scrollback buffer and the scroll bar.                               *)

\* Mutant: the cap before it was lowered to the rows that hold text.
CappedAtSize(depth, size) == Least(depth, size)

\* The buffer's last row is always blank, so one row less is history.
Capped(depth, size) == IF depth > size - 1 THEN Greatest(0, size - 1) ELSE depth

\* A scrollUp() of the buffer counts the new row, then shrinks and grows back
\* the array, which caps the depth at either size.
DepthAfterPush(depth, size) ==
  LET counted == IF depth < size - 1 THEN depth + 1 ELSE depth
  IN  Capped(Capped(counted, size - 1), size)

\* Rows are pushed one at a time: each is written to the last row, the oldest is
\* dropped, a blank one appended.
DepthAfterPushes(n) ==
  LET size == Len(mScrollBuffer)
  IN  IF n = 0 THEN mDepth ELSE DepthAfterPush(Least(mDepth + n - 1, size - 1), size)

Push(rows) ==
  LET size  == Len(mScrollBuffer)
      shown == SubSeq(mScrollBuffer, 1, size - 1) \o rows
  IN  IF size = 0
      THEN UNCHANGED historyVars
      ELSE /\ mScrollBuffer' = Append(SubSeq(shown, Len(rows) + 1, Len(shown)), BlankRow)
           /\ mDepth' = DepthAfterPushes(Len(rows))

\* resetScroll()
AtEnd(depth) == [maximum |-> depth, value |-> depth]

\* KomportView::slotReceivedChar(), after the emulation has had the byte.
ViewFollows ==
  mScrollBar' = IF mScrollBar.value # mScrollBar.maximum THEN AtEnd(mDepth') ELSE mScrollBar

-----------------------------------------------------------------------------
(* Cells and rows.                                                         *)

OnGrid(position) == position.x \in 0 .. Width - 1 /\ position.y \in 0 .. Height - 1

\* Rows first .. bottom move up by n, and n blank rows follow them.
DeleteRows(cells, first, bottom, n) ==
  [i \in DOMAIN cells |->
     IF i - 1 \in first .. bottom - n THEN cells[i + n]
     ELSE IF i - 1 \in bottom - n + 1 .. bottom THEN BlankRow
     ELSE cells[i]]

InsertRows(cells, first, bottom, n) ==
  [i \in DOMAIN cells |->
     IF i - 1 \in first + n .. bottom THEN cells[i - n]
     ELSE IF i - 1 \in first .. first + n - 1 THEN BlankRow
     ELSE cells[i]]

WithRow(y, row) == [mCells EXCEPT ![y + 1] = row]
CursorRow == mCells[mCursor.y + 1]

ClearedBetween(row, first, last) ==
  [x \in DOMAIN row |-> IF x \in first .. last THEN Blank ELSE row[x]]

-----------------------------------------------------------------------------
(* Steps of the emulation.  Each ends in the view's own slot.              *)

NothingScrolls ==
  /\ UNCHANGED historyVars
  /\ ViewFollows

\* scrollUp() of the whole grid: the view has seen the top row leave.
ScrollUp(cells) ==
  /\ mCells' = Append(Tail(cells), BlankRow)
  /\ Push(<<Head(cells)>>)
  /\ IF mScrollBuffer = <<>> THEN ViewFollows ELSE mScrollBar' = AtEnd(mDepth')

\* Mutant: the test before DECSTBM was taken seriously.
AtOrBelow(y) == y >= scrollBottom

AtBottomMargin(y) == y = scrollBottom

\* doIndex() for a grid and a cursor that the caller may have changed.
IndexFrom(cells, x, y) ==
  IF ~AtBottomMargin(y)
  THEN /\ mCells' = cells
       /\ mCursor' = At(x, Least(y + 1, Height - 1))
       /\ NothingScrolls
  ELSE /\ mCursor' = At(x, y)
       /\ IF IsWholeScreen
          THEN ScrollUp(cells)
          ELSE /\ mCells' = DeleteRows(cells, scrollTop, scrollBottom, 1)
               /\ NothingScrolls

MoveCursor(position) ==
  /\ mCursor' = position
  /\ UNCHANGED <<mCells, modeVars, crashed, drawn>>
  /\ NothingScrolls

ChangeCells(cells) ==
  /\ mCells' = cells
  /\ UNCHANGED <<mCursor, modeVars, crashed, drawn>>
  /\ NothingScrolls

\* cell() has no cell there and its callers use it all the same.
Crash ==
  /\ crashed' = TRUE
  /\ UNCHANGED <<screenVars, modeVars, historyVars, mScrollBar, drawn>>

ChangeCursorRow(row) ==
  IF OnGrid(mCursor) THEN ChangeCells(WithRow(mCursor.y, row)) ELSE Crash

\* A printable character: insert mode makes room, the cursor advances, and
\* advanceCursorWithWrap() goes through doIndex() at the right edge.
Shifted(row) ==
  [x \in DOMAIN row |-> IF x > mCursor.x THEN row[x - 1] ELSE row[x]]

DrawnRow(glyph) ==
  [(IF mInsertMode THEN Shifted(CursorRow) ELSE CursorRow) EXCEPT ![mCursor.x] = glyph]

Drawn(glyph) ==
  LET cells == WithRow(mCursor.y, DrawnRow(glyph))
  IN  /\ drawn < MaxDrawn
      /\ drawn' = drawn + 1
      /\ UNCHANGED <<modeVars, crashed>>
      /\ IF mCursor.x + 1 < Width
         THEN /\ mCells' = cells
              /\ mCursor' = [mCursor EXCEPT !.x = @ + 1]
              /\ NothingScrolls
         ELSE IndexFrom(cells, 0, mCursor.y)

DrawChar(glyph) == IF OnGrid(mCursor) THEN Drawn(glyph) ELSE Crash

Index ==      \* LF, ESC D
  /\ IndexFrom(mCells, mCursor.x, mCursor.y)
  /\ UNCHANGED <<modeVars, crashed, drawn>>

NextLine ==   \* ESC E
  /\ IndexFrom(mCells, 0, mCursor.y)
  /\ UNCHANGED <<modeVars, crashed, drawn>>

ReverseIndex ==
  IF mCursor.y # scrollTop
  THEN MoveCursor(At(mCursor.x, Greatest(mCursor.y - 1, 0)))
  ELSE ChangeCells(InsertRows(mCells, scrollTop, scrollBottom, 1))

\* Mutant: the clamp of a height that is one row short of the last.
BelowLast(y) == Least(Height, y)

NotBelowLast(y) == Least(Height - 1, y)

CursorTo(row, column) ==
  MoveCursor(At(qBound(0, column - 1, Width - 1), qBound(0, row - 1, Height - 1)))

CursorUp(n)    == MoveCursor([mCursor EXCEPT !.y = Greatest(0, @ - n)])
CursorDown(n)  == MoveCursor([mCursor EXCEPT !.y = NotBelowLast(@ + n)])
CursorLeft(n)  == MoveCursor([mCursor EXCEPT !.x = Greatest(0, @ - n)])
CursorRight(n) == MoveCursor([mCursor EXCEPT !.x = Least(Width - 1, @ + n)])

CarriageReturn == MoveCursor([mCursor EXCEPT !.x = 0])
Tabulate == MoveCursor([mCursor EXCEPT !.x = Least(((@ \div 8) + 1) * 8, Width - 1)])

ClearEOL(attr) ==
  \/ attr = 0 /\ ChangeCursorRow(ClearedBetween(CursorRow, mCursor.x, Width - 1))
  \/ attr = 1 /\ ChangeCursorRow(ClearedBetween(CursorRow, 0, mCursor.x))
  \/ attr = 2 /\ ChangeCursorRow(BlankRow)

\* The cursor's row in part, and all rows below it, or above it; or all there are.
ClearScreen(attr) ==
  LET Cleared(first, last, rows) ==
        [i \in DOMAIN mCells |->
           IF i - 1 \in rows THEN BlankRow
           ELSE IF i - 1 = mCursor.y THEN ClearedBetween(mCells[i], first, last)
           ELSE mCells[i]]
  IN  \/ attr = 2 /\ ChangeCells(Blanks(Height))
      \/ attr < 2 /\ ~OnGrid(mCursor) /\ Crash
      \/ /\ attr = 0
         /\ OnGrid(mCursor)
         /\ ChangeCells(Cleared(mCursor.x, Width - 1, mCursor.y + 1 .. Height - 1))
      \/ /\ attr = 1
         /\ OnGrid(mCursor)
         /\ ChangeCells(Cleared(0, mCursor.x, 0 .. mCursor.y - 1))

DeleteChar(n) ==
  LET count == Least(n, Width - mCursor.x)
  IN  ChangeCursorRow([x \in 0 .. Width - 1 |->
        IF x < mCursor.x THEN CursorRow[x]
        ELSE IF x < Width - count THEN CursorRow[x + count] ELSE Blank])

InRegion(y) == scrollTop <= y /\ y <= scrollBottom

InsertLine(n) ==
  LET count == Least(n, scrollBottom - mCursor.y + 1)
  IN  ChangeCells(IF InRegion(mCursor.y)
                  THEN InsertRows(mCells, mCursor.y, scrollBottom, count) ELSE mCells)

DeleteLine(n) ==
  LET count == Least(n, scrollBottom - mCursor.y + 1)
  IN  ChangeCells(IF InRegion(mCursor.y)
                  THEN DeleteRows(mCells, mCursor.y, scrollBottom, count) ELSE mCells)

SetInsertMode(set) ==
  /\ mInsertMode' = set
  /\ UNCHANGED <<screenVars, mSaveCursor, mScrollTop, mScrollBottom, bottomAsked,
                 crashed, drawn>>
  /\ NothingScrolls

SaveCursor ==
  /\ mSaveCursor' = mCursor
  /\ UNCHANGED <<screenVars, mInsertMode, mScrollTop, mScrollBottom, bottomAsked,
                 crashed, drawn>>
  /\ NothingScrolls

RestoreCursor == MoveCursor(mSaveCursor)

\* Mutant: a defaulted bottom is stored as the row it is now.
StoredRow(haveBottom, bottom) == bottom

StoredBottom(haveBottom, bottom) == IF haveBottom THEN bottom ELSE Unbounded

\* DECSTBM; a parameter of 0 is a missing one.
SetScrollRegion(top, bottom) ==
  LET haveBottom == bottom > 0
      first == qBound(0, top - 1, Height - 1)
      last  == IF haveBottom THEN qBound(0, bottom - 1, Height - 1) ELSE Height - 1
  IN  /\ IF first >= last
         THEN UNCHANGED <<mCursor, mScrollTop, mScrollBottom, bottomAsked>>
         ELSE /\ mScrollTop' = first
              /\ mScrollBottom' = StoredBottom(haveBottom, last)
              /\ mCursor' = Home
              /\ bottomAsked' = haveBottom
      /\ UNCHANGED <<mCells, mSaveCursor, mInsertMode, crashed, drawn>>
      /\ NothingScrolls

Reset ==      \* ESC c
  /\ mInsertMode' = FALSE
  /\ mScrollTop' = 0
  /\ mScrollBottom' = Unbounded
  /\ bottomAsked' = FALSE
  /\ mCells' = Blanks(Height)
  /\ mCursor' = Home
  /\ UNCHANGED <<mSaveCursor, crashed, drawn>>
  /\ NothingScrolls

-----------------------------------------------------------------------------
(* Steps of the view.                                                      *)

\* Mutant: the scroll bar keeps the range it had.
KeepsRange(depth) == [mScrollBar EXCEPT !.value = Least(depth, mScrollBar.maximum)]

RangeAfterResize(depth) == AtEnd(depth)

\* resizeGridRows(): a shrinking window pushes its top rows into the history.
ResizeGridRows(rows) ==
  LET removed == Greatest(0, Height - rows)
  IN  /\ rows # Height
      /\ Push(SubSeq(mCells, 1, removed))
      /\ mCells' = SubSeq(mCells, removed + 1, Height) \o Blanks(Greatest(0, rows - Height))
      /\ mCursor' = [mCursor EXCEPT !.y = qBound(0, @ - removed, rows - 1)]
      /\ mScrollBar' = RangeAfterResize(mDepth')
      /\ UNCHANGED <<modeVars, crashed, drawn>>

\* setScrollBuffer(), for a profile or from the settings: a smaller array loses
\* its first rows, a larger one gains rows at its end.
SetScrollBuffer(size) ==
  LET old == Len(mScrollBuffer)
  IN  /\ size # old
      /\ mScrollBuffer' = IF size < old THEN SubSeq(mScrollBuffer, old - size + 1, old)
                          ELSE mScrollBuffer \o Blanks(size - old)
      /\ mDepth' = Capped(mDepth, size)
      /\ mScrollBar' = RangeAfterResize(mDepth')
      /\ UNCHANGED <<screenVars, modeVars, crashed, drawn>>

\* The mouse wheel, the minimap and auto-scroll set any value in the range.
Scroll ==
  /\ \E value \in 0 .. mScrollBar.maximum : mScrollBar' = [mScrollBar EXCEPT !.value = value]
  /\ UNCHANGED <<screenVars, modeVars, historyVars, crashed, drawn>>

\* A key or pasted text: the view returns to the live screen.
KeyPress ==
  /\ NothingScrolls
  /\ UNCHANGED <<screenVars, modeVars, crashed, drawn>>

\* Mutant: the row pushed last is taken for the last row of the buffer.
NewestIsLast(row) == Len(mScrollBuffer) - mDepth + row

\* cellAtHistoryRow(): where history row `row` (0 is the oldest) is kept.
HistoryIndex(row) == (Len(mScrollBuffer) - mDepth - 1) + row

\* getCell(): the row of the grid, or of the history, that is shown in row y.
VisibleRow(y) ==
  LET scrolled == mScrollBar.maximum - mScrollBar.value
  IN  IF y < scrolled THEN <<"history", ((Len(mScrollBuffer) - 1) - scrolled) + y>>
      ELSE <<"screen", y - scrolled>>

-----------------------------------------------------------------------------
Counts == (Params \ {0}) \cup {1}   \* ctlParam(1): a missing or 0 count is 1

Motion ==
  \/ \E row, column \in Params : CursorTo(row, column)
  \/ \E n \in Counts : CursorUp(n) \/ CursorDown(n) \/ CursorLeft(n) \/ CursorRight(n)
  \/ CarriageReturn \/ Tabulate
  \/ SaveCursor \/ RestoreCursor

Erasure ==
  \/ \E attr \in 0 .. 2 : ClearEOL(attr) \/ ClearScreen(attr)
  \/ \E n \in Counts : DeleteChar(n)

Scrolling ==
  \/ Index \/ NextLine \/ ReverseIndex
  \/ \E n \in Counts : InsertLine(n) \/ DeleteLine(n)

Modes ==
  \/ \E set \in BOOLEAN : SetInsertMode(set)
  \/ \E top, bottom \in Params : SetScrollRegion(top, bottom)
  \/ Reset

View ==
  \/ \E rows \in Heights : ResizeGridRows(rows)
  \/ \E size \in BufferSizes : SetScrollBuffer(size)
  \/ Scroll
  \/ KeyPress

Next ==
  /\ ~crashed
  /\ \/ \E glyph \in Glyphs : DrawChar(glyph)
     \/ Motion \/ Erasure \/ Scrolling \/ Modes \/ View

Spec == Init /\ [][Next]_vars
-----------------------------------------------------------------------------
(* Properties.                                                             *)

TypeOK ==
  /\ mCells \in Seq(Row) /\ Height \in Heights
  /\ mCursor \in [x : 0 .. Width - 1, y : Nat]
  /\ mSaveCursor \in [x : 0 .. Width - 1, y : Nat]
  /\ mInsertMode \in BOOLEAN
  /\ mScrollTop \in Nat
  /\ mScrollBottom \in Nat
  /\ mScrollBuffer \in Seq(Row) /\ Len(mScrollBuffer) \in BufferSizes
  /\ mDepth \in 0 .. Greatest(0, Len(mScrollBuffer) - 1)
  /\ mScrollBar \in [maximum : Nat, value : Nat]
  /\ crashed \in BOOLEAN
  /\ drawn \in Nat
  /\ bottomAsked \in BOOLEAN

\* komportemulation.cpp:747-751: a position outside the grid has no cell, and its
\* users dereference it.  Whatever the host sends, and however the window is
\* resized between two of its bytes, only a restored position leaves the grid.
OnlyRestoreLeavesTheGrid ==
  [][(OnGrid(mCursor) /\ ~OnGrid(mCursor)') => mCursor' = mSaveCursor]_vars

\* komportemulation.cpp:749-751: clamping "closes that off for every command that
\* positions the cursor", so no command draws where there is no cell.
EveryDrawHasACell == ~crashed

\* komportview.cpp (getCell, cellAtHistoryRow) and komportminimap.cpp: what the
\* view shows at any scroll position is a window on the one history that the
\* minimap shows, and each of its rows exists.
HistoryRow(row) ==
  IF row < mDepth THEN <<"history", HistoryIndex(row)>> ELSE <<"screen", row - mDepth>>

WindowShowsHistory ==
  LET scrolled == mScrollBar.maximum - mScrollBar.value
  IN  \A y \in 0 .. Height - 1 :
        /\ VisibleRow(y) = HistoryRow(mDepth - scrolled + y)
        /\ VisibleRow(y)[1] = "history" => VisibleRow(y)[2] \in 0 .. Len(mScrollBuffer) - 1

\* The text that has left the screen and the text on it, as one roll of paper.
Paper ==
  [row \in 1 .. mDepth |-> mScrollBuffer[HistoryIndex(row - 1) + 1]] \o mCells

\* What moves the text from the screen to the history, or cuts the history.  (A
\* history that is made larger is another matter: its new rows are appended after
\* the newest text.)
Feeds ==
  \/ IsWholeScreen /\ AtBottomMargin(mCursor.y) /\ Index
  \/ Height' # Height
  \/ /\ Len(mScrollBuffer') # Len(mScrollBuffer)
     /\ mDepth = 0 \/ Len(mScrollBuffer') < Len(mScrollBuffer)

\* The text stays in order, and some of it is lost only from the old end, and only
\* to a history that is `full` rows deep.
Keeps(full) ==
  \E n \in 0 .. Height + Height' :
    LET before == Paper \o Blanks(n)
    IN  /\ IsSuffix(Paper', before)
        /\ Len(Paper') < Len(before) => mDepth' >= full

\* komportemulation.cpp:1086-1096, komportview.cpp:559-579, komportscrollbuffer.cpp:
\* scrolling the whole screen, resizing the window and resizing the history move
\* the text without reordering or repeating any; what is lost is lost at the old
\* end, by a resize of the history only to the array's height less one, and by a
\* push only to the height less two.  That is a row below what komportscrollbuffer.cpp
\* (39-40, 47) and tests/tst_selection.cpp (258-260) state, "pinned at arrayHeight()-1":
\* a push clamps the depth while the array is one row shorter (line 77), and drops a
\* row that would still fit.
FullDepth ==
  IF Len(mScrollBuffer') # Len(mScrollBuffer) THEN Len(mScrollBuffer') - 1
  ELSE Len(mScrollBuffer') - 2

TextIsKept == [][Feeds => Keeps(FullDepth)]_vars

\* komportemulation.cpp:1179-1186 and 1105-1112: what scrolls, inserts or deletes
\* lines changes rows of the region only, only when the cursor is inside it, and
\* feeds no history unless the region is the whole screen.
RegionIsolates ==
  [][(~IsWholeScreen /\ (drawn' # drawn \/ Scrolling)) =>
       /\ UNCHANGED historyVars
       /\ \A y \in 0 .. Height - 1 :
            mCells'[y + 1] # mCells[y + 1] =>
              (InRegion(y) /\ InRegion(mCursor.y)) \/ (drawn' # drawn /\ y = mCursor.y)]_vars

\* komportemulation.cpp:1307-1319: while no bottom has been asked for, the last row
\* of the screen, whatever its height has become, is where it scrolls.
DefaultRegionReachesTheEdge ==
  ~bottomAsked => scrollBottom = Height - 1
=============================================================================
