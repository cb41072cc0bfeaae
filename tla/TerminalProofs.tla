--------------------------- MODULE TerminalProofs ---------------------------
(***************************************************************************)
(* Theorems about Terminal for every screen width, every set of window     *)
(* heights and history sizes, every set of parameters and every character. *)
(***************************************************************************)
EXTENDS Terminal, SequenceTheorems, TLAPS

USE WidthAssumption, HeightsAssumption, SizesAssumption, UnboundedAssumption,
    ParamsAssumption, DrawnAssumption

-----------------------------------------------------------------------------
(* Sequences of rows.                                                      *)

Rows == Seq(Row)

LEMMA BlankRowType == BlankRow \in Row
  BY DEF BlankRow, Row, Cells

LEMMA BlanksType ==
  ASSUME NEW n \in Nat
  PROVE  Blanks(n) \in Rows /\ Len(Blanks(n)) = n
  <1>1. Blanks(n) \in [1 .. n -> Row]
    BY BlankRowType DEF Blanks
  <1>2. QED BY <1>1 DEF Rows

\* A grid that is built row by row from rows that exist.
LEMMA GridType ==
  ASSUME NEW cells \in Rows, NEW next \in [DOMAIN cells -> Row]
  PROVE  next \in Rows /\ Len(next) = Len(cells)
  <1>1. Len(cells) \in Nat /\ DOMAIN cells = 1 .. Len(cells)
    BY DEF Rows
  <1>2. next \in [1 .. Len(cells) -> Row]
    BY <1>1
  <1>3. QED BY <1>1, <1>2 DEF Rows

LEMMA DeleteRowsType ==
  ASSUME NEW cells \in Rows, NEW first \in Nat, NEW bottom \in Int, bottom < Len(cells),
         NEW n \in Nat
  PROVE  /\ DeleteRows(cells, first, bottom, n) \in Rows
         /\ Len(DeleteRows(cells, first, bottom, n)) = Len(cells)
  <1> DEFINE next == DeleteRows(cells, first, bottom, n)
  <1>1. Len(cells) \in Nat /\ DOMAIN cells = 1 .. Len(cells)
        /\ \A i \in 1 .. Len(cells) : cells[i] \in Row
    BY DEF Rows
  <1>2. next \in [DOMAIN cells -> Row]
    <2>1. ASSUME NEW i \in DOMAIN cells, i - 1 \in first .. bottom - n
          PROVE  i + n \in 1 .. Len(cells)
      BY <1>1, <2>1
    <2>2. QED BY <1>1, <2>1, BlankRowType DEF DeleteRows
  <1>3. QED BY <1>2, GridType

LEMMA InsertRowsType ==
  ASSUME NEW cells \in Rows, NEW first \in Nat, NEW bottom \in Int, bottom < Len(cells),
         NEW n \in Nat
  PROVE  /\ InsertRows(cells, first, bottom, n) \in Rows
         /\ Len(InsertRows(cells, first, bottom, n)) = Len(cells)
  <1> DEFINE next == InsertRows(cells, first, bottom, n)
  <1>1. Len(cells) \in Nat /\ DOMAIN cells = 1 .. Len(cells)
        /\ \A i \in 1 .. Len(cells) : cells[i] \in Row
    BY DEF Rows
  <1>2. next \in [DOMAIN cells -> Row]
    <2>1. ASSUME NEW i \in DOMAIN cells, i - 1 \in first + n .. bottom
          PROVE  i - n \in 1 .. Len(cells)
      BY <1>1, <2>1
    <2>2. QED BY <1>1, <2>1, BlankRowType DEF InsertRows
  <1>3. QED BY <1>2, GridType

-----------------------------------------------------------------------------
(* The inductive invariant.                                                *)

\* The scroll bar ranges over the history there is.
BarRangesOverHistory ==
  mScrollBar.maximum = mDepth /\ mScrollBar.value <= mScrollBar.maximum

DefaultIsUnbounded == ~bottomAsked => mScrollBottom = Unbounded

GridOK == mCells \in Rows /\ Height \in Heights
CursorOK == mCursor \in [x : 0 .. Width - 1, y : Nat]
HistoryOK ==
  /\ mScrollBuffer \in Rows /\ Len(mScrollBuffer) \in BufferSizes
  /\ mDepth \in 0 .. Greatest(0, Len(mScrollBuffer) - 1)
  /\ mScrollBar \in [maximum : Nat, value : Nat]
  /\ BarRangesOverHistory
ModesOK ==
  /\ mSaveCursor \in [x : 0 .. Width - 1, y : Nat]
  /\ mInsertMode \in BOOLEAN
  /\ mScrollTop \in Nat /\ mScrollBottom \in Nat
  /\ bottomAsked \in BOOLEAN
  /\ DefaultIsUnbounded
CountersOK == crashed \in BOOLEAN /\ drawn \in Nat

Inv == GridOK /\ CursorOK /\ HistoryOK /\ ModesOK /\ CountersOK

\* What a step of the emulation keeps: the grid's size, and the cursor on it.
ScreenStep ==
  /\ mCells' \in Rows /\ Height' = Height
  /\ CursorOK'
  /\ OnGrid(mCursor) => OnGrid(mCursor)'

LEMMA InvType == Inv => TypeOK
  BY DEF Inv, GridOK, CursorOK, HistoryOK, ModesOK, CountersOK, TypeOK, Rows

LEMMA HeightType ==
  ASSUME Inv
  PROVE  /\ Height \in Nat \ {0} /\ Unbounded > Height /\ Len(mCells) = Height
         /\ mCells \in Rows /\ Width \in Nat \ {0}
  BY DEF Inv, GridOK, Height

LEMMA MarginType ==
  ASSUME Inv
  PROVE  scrollTop \in 0 .. Height - 1 /\ scrollBottom \in scrollTop .. Height - 1
  <1>1. Height \in Nat \ {0} /\ mScrollTop \in Nat /\ mScrollBottom \in Nat
    BY HeightType DEF Inv, ModesOK
  <1>2. scrollTop \in 0 .. Height - 1
    BY <1>1 DEF scrollTop, qBound, Least, Greatest
  <1>3. QED BY <1>1, <1>2 DEF scrollBottom, qBound, Least, Greatest

LEMMA InitInv == Init => Inv
  <1> SUFFICES ASSUME Init PROVE Inv
    OBVIOUS
  <1>1. GridOK
    BY BlanksType DEF Init, GridOK, Height
  <1>2. HistoryOK
    <2>1. PICK size \in BufferSizes : mScrollBuffer = Blanks(size)
      BY DEF Init
    <2>2. mScrollBuffer \in Rows /\ Len(mScrollBuffer) = size
      BY <2>1, BlanksType
    <2>3. QED BY <2>2 DEF Init, HistoryOK, BarRangesOverHistory, Greatest
  <1>3. Home \in [x : 0 .. Width - 1, y : Nat]
    BY DEF Home, At
  <1>4. CursorOK /\ mSaveCursor \in [x : 0 .. Width - 1, y : Nat]
    BY <1>3 DEF Init, CursorOK
  <1>5. mInsertMode \in BOOLEAN /\ bottomAsked \in BOOLEAN /\ CountersOK
    BY DEF Init, CountersOK
  <1>6. mScrollTop \in Nat /\ mScrollBottom \in Nat /\ DefaultIsUnbounded
    BY DEF Init, DefaultIsUnbounded
  <1>7. QED BY <1>1, <1>2, <1>4, <1>5, <1>6 DEF Inv, ModesOK

-----------------------------------------------------------------------------
(* The history and the scroll bar.                                         *)

LEMMA CappedType ==
  ASSUME NEW depth \in Nat, NEW size \in Nat
  PROVE  Capped(depth, size) \in 0 .. Greatest(0, size - 1)
  BY DEF Capped, Greatest

\* A buffer of one row is shrunk to none on the way.
LEMMA DepthAfterPushType ==
  ASSUME NEW depth \in Nat, NEW size \in Nat \ {0}
  PROVE  DepthAfterPush(depth, size) \in 0 .. Greatest(0, size - 1)
  <1> DEFINE counted == IF depth < size - 1 THEN depth + 1 ELSE depth
             shrunk  == Capped(counted, size - 1)
  <1>1. counted \in Nat /\ size - 1 \in Nat /\ size \in Nat
    OBVIOUS
  <1>2. shrunk \in Nat
    BY <1>1, CappedType DEF Greatest
  <1>3. DepthAfterPush(depth, size) = Capped(shrunk, size)
    BY DEF DepthAfterPush
  <1>4. QED BY <1>1, <1>2, <1>3, CappedType

LEMMA DepthAfterPushesType ==
  ASSUME HistoryOK, Len(mScrollBuffer) # 0, NEW n \in Nat
  PROVE  DepthAfterPushes(n) \in 0 .. Greatest(0, Len(mScrollBuffer) - 1)
  <1> DEFINE size == Len(mScrollBuffer)
             before == Least(mDepth + n - 1, size - 1)
  <1>1. size \in Nat \ {0} /\ mDepth \in 0 .. Greatest(0, size - 1)
    BY DEF HistoryOK
  <1>2. CASE n = 0
    BY <1>1, <1>2 DEF DepthAfterPushes
  <1>3. CASE n # 0
    <2>1. DepthAfterPushes(n) = DepthAfterPush(before, size)
      BY <1>3 DEF DepthAfterPushes
    <2>2. before \in Nat
      BY <1>1, <1>3 DEF Least, Greatest
    <2> HIDE DEF before, size
    <2>3. DepthAfterPushes(n) \in 0 .. Greatest(0, size - 1)
      BY <1>1, <2>1, <2>2, DepthAfterPushType
    <2>4. QED BY <2>3 DEF size
  <1>4. QED BY <1>2, <1>3

LEMMA PushType ==
  ASSUME HistoryOK, NEW rows \in Rows, Push(rows)
  PROVE  /\ mScrollBuffer' \in Rows /\ Len(mScrollBuffer') = Len(mScrollBuffer)
         /\ mDepth' \in 0 .. Greatest(0, Len(mScrollBuffer') - 1)
  <1> DEFINE size == Len(mScrollBuffer)
             kept  == SubSeq(mScrollBuffer, 1, size - 1)
             shown == kept \o rows
             moved == SubSeq(shown, Len(rows) + 1, Len(shown))
  <1>1. size \in Nat /\ mScrollBuffer \in Rows /\ Len(rows) \in Nat
    BY DEF HistoryOK, Rows
  <1>2. CASE size = 0
    BY <1>1, <1>2 DEF Push, historyVars, HistoryOK
  <1>3. CASE size # 0
    <2>1. kept \in Rows /\ Len(kept) = size - 1
      <3>1. \A i \in 1 .. size - 1 : mScrollBuffer[i] \in Row
        BY <1>1 DEF Rows
      <3>2. kept \in Rows /\ Len(kept) = IF 1 <= size - 1 THEN size - 1 - 1 + 1 ELSE 0
        <4>1. 1 \in Int /\ size - 1 \in Int
          BY <1>1
        <4> HIDE DEF size
        <4>2. QED BY <3>1, <4>1, SubSeqProperties DEF Rows
      <3> HIDE DEF kept, size
      <3>3. QED BY <1>1, <1>3, <3>2
    <2> HIDE DEF kept
    <2>2. shown \in Rows /\ Len(shown) = size - 1 + Len(rows)
      BY <1>1, <1>3, <2>1, ConcatProperties DEF Rows
    <2> HIDE DEF shown
    <2>3. moved \in Rows /\ Len(moved) = size - 1
      <3>1. \A i \in Len(rows) + 1 .. Len(shown) : shown[i] \in Row
        BY <1>1, <2>2 DEF Rows
      <3>2. /\ moved \in Rows
            /\ Len(moved) = IF Len(rows) + 1 <= Len(shown)
                            THEN Len(shown) - (Len(rows) + 1) + 1 ELSE 0
        <4>1. Len(rows) + 1 \in Int /\ Len(shown) \in Int
          BY <1>1, <1>3, <2>2
        <4>2. QED BY <3>1, <4>1, SubSeqProperties DEF Rows
      <3> HIDE DEF moved, size
      <3>3. QED BY <1>1, <1>3, <2>2, <3>2
    <2>4. mScrollBuffer' = Append(moved, BlankRow) /\ mDepth' = DepthAfterPushes(Len(rows))
      BY <1>1, <1>3 DEF Push, kept, shown
    <2> HIDE DEF moved
    <2>5. mScrollBuffer' \in Rows /\ Len(mScrollBuffer') = size
      BY <1>1, <1>3, <2>3, <2>4, BlankRowType DEF Rows
    <2>6. QED BY <1>1, <1>3, <2>4, <2>5, DepthAfterPushesType
  <1>4. QED BY <1>2, <1>3

LEMMA AtEndType ==
  ASSUME NEW depth \in Nat
  PROVE  /\ AtEnd(depth) \in [maximum : Nat, value : Nat]
         /\ AtEnd(depth).maximum = depth /\ AtEnd(depth).value = depth
  BY DEF AtEnd

LEMMA ViewFollowsType ==
  ASSUME HistoryOK, UNCHANGED historyVars, ViewFollows
  PROVE  HistoryOK'
  <1>1. UNCHANGED <<mScrollBuffer, mDepth>> /\ mDepth \in Nat
    BY DEF historyVars, HistoryOK, Greatest
  <1>2. CASE mScrollBar' = mScrollBar
    BY <1>1, <1>2 DEF HistoryOK, BarRangesOverHistory
  <1>3. CASE mScrollBar' = AtEnd(mDepth)
    BY <1>1, <1>3, AtEndType DEF HistoryOK, BarRangesOverHistory
  <1>4. QED BY <1>1, <1>2, <1>3 DEF ViewFollows

LEMMA NothingScrollsType ==
  ASSUME HistoryOK, NothingScrolls
  PROVE  HistoryOK'
  BY ViewFollowsType DEF NothingScrolls

\* A push to a buffer, with the range of the scroll bar set to what is there then.
LEMMA PushAtEndType ==
  ASSUME HistoryOK, NEW rows \in Rows, Push(rows), mScrollBar' = AtEnd(mDepth')
  PROVE  HistoryOK'
  <1>1. /\ mScrollBuffer' \in Rows /\ Len(mScrollBuffer') \in BufferSizes
        /\ mDepth' \in 0 .. Greatest(0, Len(mScrollBuffer') - 1)
    BY PushType DEF HistoryOK
  <1>2. mDepth' \in Nat
    BY <1>1
  <1>3. QED BY <1>1, <1>2, AtEndType DEF HistoryOK, BarRangesOverHistory

LEMMA ScrollUpType ==
  ASSUME Inv, NEW cells \in Rows, Len(cells) = Height, ScrollUp(cells)
  PROVE  mCells' \in Rows /\ Len(mCells') = Height /\ HistoryOK'
  <1>1. /\ cells # <<>> /\ Head(cells) \in Row /\ Tail(cells) \in Rows
        /\ Len(Tail(cells)) = Height - 1
    BY HeightType, HeadTailProperties DEF Rows
  <1>2. mCells' \in Rows /\ Len(mCells') = Height
    BY <1>1, HeightType, BlankRowType DEF ScrollUp, Rows
  <1>3. <<Head(cells)>> \in Rows
    BY <1>1 DEF Rows
  <1>4. HistoryOK /\ mScrollBuffer \in Rows
    BY DEF Inv, HistoryOK
  <1>5. CASE mScrollBuffer = <<>>
    <2>1. UNCHANGED historyVars
      BY <1>5 DEF ScrollUp, Push
    <2>2. QED BY <1>2, <1>4, <1>5, <2>1, ViewFollowsType DEF ScrollUp
  <1>6. CASE mScrollBuffer # <<>>
    BY <1>2, <1>3, <1>4, <1>6, PushAtEndType DEF ScrollUp
  <1>7. QED BY <1>5, <1>6

-----------------------------------------------------------------------------
(* The steps of the emulation.                                             *)

\* What doIndex() does to a grid and a cursor, whoever calls it.
LEMMA IndexFromType ==
  ASSUME Inv, NEW cells \in Rows, Len(cells) = Height,
         NEW x \in 0 .. Width - 1, NEW y \in Nat, IndexFrom(cells, x, y)
  PROVE  /\ mCells' \in Rows /\ Height' = Height /\ CursorOK' /\ HistoryOK'
         /\ mCursor'.x = x
         /\ y \in 0 .. Height - 1 => mCursor'.y \in 0 .. Height - 1
  <1>1. /\ Height \in Nat \ {0} /\ HistoryOK
        /\ scrollTop \in 0 .. Height - 1 /\ scrollBottom \in scrollTop .. Height - 1
    BY HeightType, MarginType DEF Inv
  <1>2. CASE ~AtBottomMargin(y)
    <2>1. mCells' = cells /\ mCursor' = At(x, Least(y + 1, Height - 1)) /\ NothingScrolls
      BY <1>2 DEF IndexFrom
    <2>2. Least(y + 1, Height - 1) \in 0 .. Height - 1
      BY <1>1 DEF Least
    <2>3. /\ mCursor'.x = x /\ mCursor'.y = Least(y + 1, Height - 1) /\ CursorOK'
      BY <1>1, <2>1, <2>2 DEF At, CursorOK
    <2>4. Height' = Height
      BY <2>1 DEF Height
    <2>5. QED BY <1>1, <2>1, <2>2, <2>3, <2>4, NothingScrollsType
  <1>3. CASE AtBottomMargin(y)
    <2>1. mCursor' = At(x, y) /\ mCursor'.x = x /\ mCursor'.y = y /\ CursorOK'
      BY <1>3 DEF IndexFrom, At, CursorOK
    <2>2. CASE IsWholeScreen
      <3>1. ScrollUp(cells)
        BY <1>3, <2>2 DEF IndexFrom
      <3>2. mCells' \in Rows /\ Len(mCells') = Height /\ HistoryOK'
        BY <3>1, ScrollUpType
      <3>3. QED BY <2>1, <3>2 DEF Height
    <2>3. CASE ~IsWholeScreen
      <3>1. /\ mCells' = DeleteRows(cells, scrollTop, scrollBottom, 1)
            /\ NothingScrolls
        BY <1>3, <2>3 DEF IndexFrom
      <3>2. mCells' \in Rows /\ Len(mCells') = Height
        BY <1>1, <3>1, DeleteRowsType
      <3>3. QED BY <1>1, <2>1, <3>1, <3>2, NothingScrollsType DEF Height
    <2>4. QED BY <2>2, <2>3
  <1>4. QED BY <1>2, <1>3

\* Everything else moves the cursor, or changes rows, or dies.
LEMMA InvStep ==
  ASSUME Inv, ScreenStep, HistoryOK', UNCHANGED <<modeVars, crashed>>, drawn' \in Nat
  PROVE  Inv'
  BY DEF Inv, ScreenStep, GridOK, ModesOK, DefaultIsUnbounded, CountersOK, modeVars,
         CursorOK, Rows

LEMMA CrashInv == ASSUME Inv, Crash PROVE Inv' /\ ScreenStep
  <1>1. UNCHANGED <<mCells, mCursor, mSaveCursor, mInsertMode, mScrollTop, mScrollBottom,
                    bottomAsked, mScrollBuffer, mDepth, mScrollBar, drawn>> /\ crashed' = TRUE
    BY DEF Crash, screenVars, modeVars, historyVars
  <1>2. HistoryOK'
    BY <1>1 DEF Inv, HistoryOK, BarRangesOverHistory
  <1>3. Height' = Height /\ (OnGrid(mCursor) <=> OnGrid(mCursor)')
    BY <1>1 DEF Height, OnGrid
  <1>4. GridOK' /\ CursorOK' /\ ModesOK' /\ CountersOK'
    BY <1>1, <1>3 DEF Inv, GridOK, CursorOK, ModesOK, DefaultIsUnbounded, CountersOK
  <1>5. QED BY <1>1, <1>2, <1>3, <1>4 DEF Inv, ScreenStep, GridOK

LEMMA MoveCursorInv ==
  ASSUME Inv, NEW position \in [x : 0 .. Width - 1, y : Nat], MoveCursor(position),
         OnGrid(mCursor) => OnGrid(position)
  PROVE  Inv' /\ ScreenStep
  <1>1. Height' = Height /\ UNCHANGED <<mCells, modeVars, crashed, drawn>>
    BY DEF MoveCursor, Height
  <1>2. HistoryOK'
    BY NothingScrollsType DEF MoveCursor, Inv
  <1>3. ScreenStep
    BY <1>1 DEF MoveCursor, ScreenStep, Inv, GridOK, CursorOK, OnGrid
  <1>4. drawn' \in Nat
    BY <1>1 DEF Inv, CountersOK
  <1>5. QED BY <1>1, <1>2, <1>3, <1>4, InvStep

LEMMA ChangeCellsInv ==
  ASSUME Inv, NEW cells \in Rows, Len(cells) = Height, ChangeCells(cells)
  PROVE  Inv' /\ ScreenStep
  <1>1. /\ mCells' = cells /\ Height' = Height
        /\ UNCHANGED <<mCursor, modeVars, crashed, drawn>>
    BY DEF ChangeCells, Height
  <1>2. HistoryOK'
    BY NothingScrollsType DEF ChangeCells, Inv
  <1>3. ScreenStep
    BY <1>1 DEF ScreenStep, Inv, CursorOK, OnGrid
  <1>4. drawn' \in Nat
    BY <1>1 DEF Inv, CountersOK
  <1>5. QED BY <1>1, <1>2, <1>3, <1>4, InvStep

LEMMA CursorRowType == ASSUME Inv, OnGrid(mCursor) PROVE CursorRow \in Row
  BY HeightType DEF CursorRow, OnGrid, Rows

LEMMA ChangeCursorRowInv ==
  ASSUME Inv, NEW row, OnGrid(mCursor) => row \in Row, ChangeCursorRow(row)
  PROVE  Inv' /\ ScreenStep
  <1>1. CASE ~OnGrid(mCursor)
    BY <1>1, CrashInv DEF ChangeCursorRow
  <1>2. CASE OnGrid(mCursor)
    <2>1. WithRow(mCursor.y, row) \in Rows /\ Len(WithRow(mCursor.y, row)) = Height
      BY <1>2, HeightType DEF WithRow, OnGrid, Rows
    <2>2. QED BY <1>2, <2>1, ChangeCellsInv DEF ChangeCursorRow
  <1>3. QED BY <1>1, <1>2

LEMMA ClearedType ==
  ASSUME NEW row \in Row, NEW first, NEW last
  PROVE  ClearedBetween(row, first, last) \in Row
  BY DEF ClearedBetween, Row, Cells

LEMMA DrawnRowType ==
  ASSUME Inv, OnGrid(mCursor), NEW glyph \in Glyphs
  PROVE  DrawnRow(glyph) \in Row
  <1>1. CursorRow \in Row /\ mCursor.x \in 0 .. Width - 1
    BY CursorRowType DEF OnGrid
  <1>2. Shifted(CursorRow) \in Row
    <2>1. \A x \in 0 .. Width - 1 : x > mCursor.x => x - 1 \in 0 .. Width - 1
      BY <1>1
    <2>2. QED BY <1>1, <2>1 DEF Shifted, Row
  <1>3. (IF mInsertMode THEN Shifted(CursorRow) ELSE CursorRow) \in Row
    BY <1>1, <1>2
  <1>4. QED BY <1>1, <1>3 DEF DrawnRow, Row, Cells

LEMMA DrawCharInv ==
  ASSUME Inv, NEW glyph \in Glyphs, DrawChar(glyph)
  PROVE  Inv' /\ ScreenStep
  <1>1. CASE ~OnGrid(mCursor)
    BY <1>1, CrashInv DEF DrawChar
  <1>2. CASE OnGrid(mCursor)
    <2> DEFINE cells == WithRow(mCursor.y, DrawnRow(glyph))
    <2>1. Drawn(glyph) /\ mCursor \in [x : 0 .. Width - 1, y : 0 .. Height - 1]
      BY <1>2 DEF DrawChar, OnGrid, Inv, CursorOK
    <2>3. DrawnRow(glyph) \in Row
      BY <1>2, DrawnRowType
    <2>4. cells \in Rows /\ Len(cells) = Height
      BY <2>1, <2>3, HeightType DEF WithRow, Rows
    <2>5. UNCHANGED <<modeVars, crashed>> /\ drawn' \in Nat
      BY <2>1 DEF Drawn, Inv, CountersOK
    <2>6. CASE mCursor.x + 1 < Width
      <3>1. /\ mCells' = cells /\ mCursor' = [mCursor EXCEPT !.x = @ + 1]
            /\ NothingScrolls
        BY <2>1, <2>6 DEF Drawn
      <3>2. CursorOK' /\ mCursor'.x \in 0 .. Width - 1 /\ mCursor'.y = mCursor.y
        BY <2>1, <2>6, <3>1 DEF CursorOK
      <3>3. ScreenStep
        BY <2>4, <3>1, <3>2 DEF ScreenStep, Height, OnGrid
      <3>4. QED BY <2>5, <3>1, <3>3, InvStep, NothingScrollsType DEF Inv
    <2>7. CASE ~(mCursor.x + 1 < Width)
      <3>1. IndexFrom(cells, 0, mCursor.y)
        BY <2>1, <2>7 DEF Drawn
      <3> HIDE DEF cells
      <3>2. 0 \in 0 .. Width - 1 /\ mCursor.y \in 0 .. Height - 1 /\ mCursor.y \in Nat
        BY <2>1
      <3>3. /\ mCells' \in Rows /\ Height' = Height /\ CursorOK' /\ HistoryOK'
            /\ mCursor'.x = 0 /\ mCursor'.y \in 0 .. Height - 1
        BY <2>4, <3>1, <3>2, IndexFromType
      <3>4. ScreenStep
        BY <3>2, <3>3 DEF ScreenStep, OnGrid
      <3>5. QED BY <2>5, <3>3, <3>4, InvStep
    <2>8. QED BY <2>6, <2>7
  <1>3. QED BY <1>1, <1>2

\* LF, ESC D and ESC E: doIndex() from the column given.
LEMMA IndexInv ==
  ASSUME Inv, NEW x \in 0 .. Width - 1, IndexFrom(mCells, x, mCursor.y),
         UNCHANGED <<modeVars, crashed, drawn>>
  PROVE  Inv' /\ ScreenStep
  <1>1. /\ mCells \in Rows /\ Len(mCells) = Height /\ mCursor.y \in Nat /\ drawn' \in Nat
    BY HeightType DEF Inv, CursorOK, CountersOK
  <1>2. /\ mCells' \in Rows /\ Height' = Height /\ CursorOK' /\ HistoryOK'
        /\ mCursor'.x = x
        /\ mCursor.y \in 0 .. Height - 1 => mCursor'.y \in 0 .. Height - 1
    BY <1>1, IndexFromType
  <1>3. ScreenStep
    BY <1>2 DEF ScreenStep, OnGrid
  <1>4. QED BY <1>1, <1>2, <1>3, InvStep

LEMMA ReverseIndexInv == ASSUME Inv, ReverseIndex PROVE Inv' /\ ScreenStep
  <1>1. CASE mCursor.y # scrollTop
    <2> DEFINE position == At(mCursor.x, Greatest(mCursor.y - 1, 0))
    <2>1. /\ position \in [x : 0 .. Width - 1, y : Nat]
          /\ OnGrid(mCursor) => OnGrid(position)
      BY HeightType DEF Inv, CursorOK, At, Greatest, OnGrid
    <2>2. QED BY <1>1, <2>1, MoveCursorInv DEF ReverseIndex
  <1>2. CASE mCursor.y = scrollTop
    <2>1. /\ scrollTop \in Nat /\ scrollBottom \in Int /\ scrollBottom < Len(mCells)
          /\ mCells \in Rows
      BY HeightType, MarginType
    <2>2. /\ InsertRows(mCells, scrollTop, scrollBottom, 1) \in Rows
          /\ Len(InsertRows(mCells, scrollTop, scrollBottom, 1)) = Height
      BY <2>1, HeightType, InsertRowsType
    <2>3. QED BY <1>2, <2>2, ChangeCellsInv DEF ReverseIndex
  <1>3. QED BY <1>1, <1>2

LEMMA ScrollingInv == ASSUME Inv, Scrolling PROVE Inv' /\ ScreenStep
  <1>1. CASE Index
    BY <1>1, IndexInv DEF Index, Inv, CursorOK
  <1>2. CASE NextLine
    BY <1>2, IndexInv DEF NextLine
  <1>3. CASE ReverseIndex
    BY <1>3, ReverseIndexInv
  <1>4. ASSUME NEW n \in Counts, InsertLine(n) \/ DeleteLine(n)
        PROVE  Inv' /\ ScreenStep
    <2> DEFINE count == Least(n, scrollBottom - mCursor.y + 1)
    <2>1. /\ mCells \in Rows /\ Len(mCells) = Height /\ n \in Nat /\ mCursor.y \in Nat
          /\ scrollTop \in Nat /\ scrollBottom \in Int /\ scrollBottom < Len(mCells)
      BY HeightType, MarginType DEF Inv, CursorOK, Counts
    <2>2. InRegion(mCursor.y) => count \in Nat
      BY <2>1 DEF InRegion, Least
    <2> HIDE DEF count
    <2>3. InRegion(mCursor.y) =>
            /\ InsertRows(mCells, mCursor.y, scrollBottom, count) \in Rows
            /\ Len(InsertRows(mCells, mCursor.y, scrollBottom, count)) = Height
      BY <2>1, <2>2, InsertRowsType
    <2>4. InRegion(mCursor.y) =>
            /\ DeleteRows(mCells, mCursor.y, scrollBottom, count) \in Rows
            /\ Len(DeleteRows(mCells, mCursor.y, scrollBottom, count)) = Height
      BY <2>1, <2>2, DeleteRowsType
    <2>5. CASE InsertLine(n)
      <3>1. ChangeCells(IF InRegion(mCursor.y)
                        THEN InsertRows(mCells, mCursor.y, scrollBottom, count) ELSE mCells)
        BY <2>5 DEF InsertLine, count
      <3>2. QED BY <2>1, <2>3, <3>1, ChangeCellsInv
    <2>6. CASE DeleteLine(n)
      <3>1. ChangeCells(IF InRegion(mCursor.y)
                        THEN DeleteRows(mCells, mCursor.y, scrollBottom, count) ELSE mCells)
        BY <2>6 DEF DeleteLine, count
      <3>2. QED BY <2>1, <2>4, <3>1, ChangeCellsInv
    <2>7. QED BY <1>4, <2>5, <2>6
  <1>5. QED BY <1>1, <1>2, <1>3, <1>4 DEF Scrolling

LEMMA MotionInv ==
  ASSUME Inv, Motion
  PROVE  Inv' /\ (ScreenStep \/ RestoreCursor)
  <1>1. /\ Height \in Nat \ {0} /\ mCursor \in [x : 0 .. Width - 1, y : Nat]
        /\ Params \subseteq Nat /\ Counts \subseteq Nat
    BY HeightType DEF Inv, CursorOK, Counts
  <1>2. ASSUME NEW row \in Params, NEW column \in Params, CursorTo(row, column)
        PROVE  Inv' /\ ScreenStep
    <2> DEFINE position ==
          At(qBound(0, column - 1, Width - 1), qBound(0, row - 1, Height - 1))
    <2>1. /\ qBound(0, column - 1, Width - 1) \in 0 .. Width - 1
          /\ qBound(0, row - 1, Height - 1) \in 0 .. Height - 1
      BY <1>1 DEF qBound, Least, Greatest
    <2>2. position \in [x : 0 .. Width - 1, y : Nat] /\ OnGrid(position)
      BY <2>1 DEF At, OnGrid
    <2>3. QED BY <1>2, <2>2, MoveCursorInv DEF CursorTo
  <1>3. ASSUME NEW n \in Counts, CursorUp(n) \/ CursorDown(n)
        PROVE  Inv' /\ ScreenStep
    <2>1. ASSUME NEW y \in Nat, OnGrid(mCursor) => y <= Height - 1,
                 MoveCursor([mCursor EXCEPT !.y = y])
          PROVE  Inv' /\ ScreenStep
      <3> DEFINE position == [mCursor EXCEPT !.y = y]
      <3>1. /\ position \in [x : 0 .. Width - 1, y : Nat]
            /\ OnGrid(mCursor) => OnGrid(position)
        BY <1>1, <2>1 DEF OnGrid
      <3>2. QED BY <2>1, <3>1, MoveCursorInv
    <2>2. /\ Greatest(0, mCursor.y - n) \in Nat
          /\ OnGrid(mCursor) => Greatest(0, mCursor.y - n) <= Height - 1
      BY <1>1 DEF Greatest, OnGrid
    <2>3. NotBelowLast(mCursor.y + n) \in 0 .. Height - 1
      BY <1>1 DEF NotBelowLast, Least
    <2>4. QED BY <1>3, <2>1, <2>2, <2>3 DEF CursorUp, CursorDown
  <1>4. ASSUME NEW x \in 0 .. Width - 1, MoveCursor([mCursor EXCEPT !.x = x])
        PROVE  Inv' /\ ScreenStep
    <2> DEFINE position == [mCursor EXCEPT !.x = x]
    <2>1. /\ position \in [x : 0 .. Width - 1, y : Nat]
          /\ OnGrid(mCursor) => OnGrid(position)
      BY <1>1 DEF OnGrid
    <2>2. QED BY <1>4, <2>1, MoveCursorInv
  <1>5. ASSUME NEW n \in Counts, CursorLeft(n) \/ CursorRight(n)
        PROVE  Inv' /\ ScreenStep
    <2>1. /\ Greatest(0, mCursor.x - n) \in 0 .. Width - 1
          /\ Least(Width - 1, mCursor.x + n) \in 0 .. Width - 1
      BY <1>1 DEF Greatest, Least
    <2>2. QED BY <1>4, <1>5, <2>1 DEF CursorLeft, CursorRight
  <1>6. CASE CarriageReturn
    BY <1>4, <1>6 DEF CarriageReturn
  <1>7. CASE Tabulate
    <2>1. Least(((mCursor.x \div 8) + 1) * 8, Width - 1) \in 0 .. Width - 1
      BY <1>1 DEF Least
    <2>2. QED BY <1>4, <1>7, <2>1 DEF Tabulate
  <1>8. CASE SaveCursor
    <2>1. /\ UNCHANGED <<mCells, mCursor, mInsertMode, mScrollTop, mScrollBottom, bottomAsked,
                         crashed, drawn>>
          /\ mSaveCursor' = mCursor /\ NothingScrolls
      BY <1>8 DEF SaveCursor, screenVars
    <2>2. HistoryOK'
      BY <2>1, NothingScrollsType DEF Inv
    <2>3. ScreenStep
      BY <2>1 DEF ScreenStep, Inv, GridOK, CursorOK, Height, OnGrid
    <2>4. GridOK' /\ CursorOK' /\ ModesOK' /\ CountersOK'
      BY <2>1, <2>3 DEF ScreenStep, Inv, GridOK, CursorOK, ModesOK, DefaultIsUnbounded, CountersOK
    <2>5. QED BY <2>2, <2>3, <2>4 DEF Inv
  <1>9. CASE RestoreCursor
    <2>1. /\ mCursor' = mSaveCursor /\ UNCHANGED <<mCells, modeVars, crashed, drawn>>
          /\ NothingScrolls
      BY <1>9 DEF RestoreCursor, MoveCursor
    <2>2. HistoryOK'
      BY <2>1, NothingScrollsType DEF Inv
    <2>3. GridOK' /\ CursorOK' /\ ModesOK' /\ CountersOK'
      BY <2>1
         DEF Inv, GridOK, Height, CursorOK, ModesOK, DefaultIsUnbounded, CountersOK, modeVars
    <2>4. QED BY <1>9, <2>2, <2>3 DEF Inv
  <1>10. QED BY <1>2, <1>3, <1>5, <1>6, <1>7, <1>8, <1>9 DEF Motion

LEMMA ClearScreenInv ==
  ASSUME Inv, NEW attr \in 0 .. 2, ClearScreen(attr)
  PROVE  Inv' /\ ScreenStep
  <1> DEFINE Cleared(first, last, rows) ==
        [i \in DOMAIN mCells |->
           IF i - 1 \in rows THEN BlankRow
           ELSE IF i - 1 = mCursor.y THEN ClearedBetween(mCells[i], first, last)
           ELSE mCells[i]]
  <1>1. ASSUME NEW first, NEW last, NEW rows
        PROVE  /\ Cleared(first, last, rows) \in Rows
               /\ Len(Cleared(first, last, rows)) = Height
    <2>1. \A i \in DOMAIN mCells : mCells[i] \in Row
      BY HeightType DEF Rows
    <2>2. Cleared(first, last, rows) \in [DOMAIN mCells -> Row]
      BY <2>1, ClearedType, BlankRowType
    <2>3. QED BY <2>2, HeightType, GridType
  <1>2. CASE ChangeCells(Blanks(Height))
    BY <1>2, HeightType, BlanksType, ChangeCellsInv
  <1>3. CASE Crash
    BY <1>3, CrashInv
  <1>4. CASE ChangeCells(Cleared(mCursor.x, Width - 1, mCursor.y + 1 .. Height - 1))
    <2> HIDE DEF Cleared
    <2>1. QED BY <1>1, <1>4, ChangeCellsInv
  <1>5. CASE ChangeCells(Cleared(0, mCursor.x, 0 .. mCursor.y - 1))
    <2> HIDE DEF Cleared
    <2>1. QED BY <1>1, <1>5, ChangeCellsInv
  <1>6. QED BY <1>2, <1>3, <1>4, <1>5 DEF ClearScreen

LEMMA ErasureInv == ASSUME Inv, Erasure PROVE Inv' /\ ScreenStep
  <1>1. ASSUME NEW attr \in 0 .. 2, ClearEOL(attr) PROVE Inv' /\ ScreenStep
    <2>1. \A first, last : OnGrid(mCursor) => ClearedBetween(CursorRow, first, last) \in Row
      BY CursorRowType, ClearedType
    <2>2. QED BY <1>1, <2>1, BlankRowType, ChangeCursorRowInv DEF ClearEOL
  <1>2. ASSUME NEW attr \in 0 .. 2, ClearScreen(attr) PROVE Inv' /\ ScreenStep
    BY <1>2, ClearScreenInv
  <1>3. ASSUME NEW n \in Counts, DeleteChar(n) PROVE Inv' /\ ScreenStep
    <2> DEFINE count == Least(n, Width - mCursor.x)
               row == [x \in 0 .. Width - 1 |->
                         IF x < mCursor.x THEN CursorRow[x]
                         ELSE IF x < Width - count THEN CursorRow[x + count] ELSE Blank]
    <2>1. n \in Nat /\ mCursor.x \in 0 .. Width - 1 /\ count \in Nat
      BY DEF Counts, Inv, CursorOK, Least
    <2>2. OnGrid(mCursor) => row \in Row
      <3> HIDE DEF count
      <3>1. \A x \in 0 .. Width - 1 : x < Width - count => x + count \in 0 .. Width - 1
        BY <2>1
      <3>2. QED BY <3>1, CursorRowType DEF Row, Cells
    <2>3. ChangeCursorRow(row)
      BY <1>3 DEF DeleteChar
    <2> HIDE DEF row
    <2>4. QED BY <2>2, <2>3, ChangeCursorRowInv
  <1>4. QED BY <1>1, <1>2, <1>3 DEF Erasure

LEMMA HomeType == ASSUME Inv PROVE Home \in [x : 0 .. Width - 1, y : Nat] /\ OnGrid(Home)
  BY HeightType DEF Home, At, OnGrid

LEMMA ModesInv == ASSUME Inv, Modes PROVE Inv' /\ ScreenStep
  <1>1. ASSUME NEW set \in BOOLEAN, SetInsertMode(set) PROVE Inv' /\ ScreenStep
    <2>1. /\ UNCHANGED <<mCells, mCursor, mSaveCursor, mScrollTop, mScrollBottom, bottomAsked,
                         crashed, drawn>>
          /\ mInsertMode' \in BOOLEAN /\ NothingScrolls
      BY <1>1 DEF SetInsertMode, screenVars
    <2>2. HistoryOK'
      BY <2>1, NothingScrollsType DEF Inv
    <2>3. ScreenStep
      BY <2>1 DEF ScreenStep, Inv, GridOK, CursorOK, Height, OnGrid
    <2>4. GridOK' /\ CursorOK' /\ ModesOK' /\ CountersOK'
      BY <2>1, <2>3 DEF ScreenStep, Inv, GridOK, CursorOK, ModesOK, DefaultIsUnbounded, CountersOK
    <2>5. QED BY <2>2, <2>3, <2>4 DEF Inv
  <1>2. ASSUME NEW top \in Params, NEW bottom \in Params, SetScrollRegion(top, bottom)
        PROVE  Inv' /\ ScreenStep
    <2> DEFINE haveBottom == bottom > 0
               first == qBound(0, top - 1, Height - 1)
               last  == IF haveBottom THEN qBound(0, bottom - 1, Height - 1) ELSE Height - 1
    <2>1. /\ UNCHANGED <<mCells, mSaveCursor, mInsertMode, crashed, drawn>>
          /\ NothingScrolls /\ Height' = Height
      BY <1>2 DEF SetScrollRegion, Height
    <2>2. first \in Nat /\ last \in Nat /\ haveBottom \in BOOLEAN
      BY HeightType DEF qBound, Least, Greatest
    <2>3. HistoryOK'
      BY <2>1, NothingScrollsType DEF Inv
    <2>4. CASE UNCHANGED <<mCursor, mScrollTop, mScrollBottom, bottomAsked>>
      <3>1. ScreenStep
        BY <2>1, <2>4 DEF ScreenStep, Inv, GridOK, CursorOK, OnGrid
      <3>2. GridOK' /\ CursorOK' /\ ModesOK' /\ CountersOK'
        BY <2>1, <2>4, <3>1
           DEF ScreenStep, Inv, GridOK, CursorOK, ModesOK, DefaultIsUnbounded, CountersOK
      <3>3. QED BY <2>3, <3>1, <3>2 DEF Inv
    <2>5. CASE /\ mScrollTop' = first /\ mScrollBottom' = StoredBottom(haveBottom, last)
               /\ mCursor' = Home /\ bottomAsked' = haveBottom
      <3> HIDE DEF first, last, haveBottom
      <3>1. ScreenStep
        BY <2>1, <2>5, HomeType DEF ScreenStep, Inv, GridOK, CursorOK, OnGrid
      <3>2. /\ mScrollTop' \in Nat /\ mScrollBottom' \in Nat /\ bottomAsked' \in BOOLEAN
            /\ DefaultIsUnbounded'
        BY <2>2, <2>5 DEF StoredBottom, DefaultIsUnbounded
      <3>3. GridOK' /\ CursorOK' /\ ModesOK' /\ CountersOK'
        BY <2>1, <3>1, <3>2 DEF ScreenStep, Inv, GridOK, CursorOK, ModesOK, CountersOK
      <3>4. QED BY <2>3, <3>1, <3>3 DEF Inv
    <2>6. QED BY <1>2, <2>4, <2>5 DEF SetScrollRegion
  <1>3. CASE Reset
    <2>1. /\ UNCHANGED <<mSaveCursor, crashed, drawn>>
          /\ mInsertMode' = FALSE /\ mScrollTop' = 0 /\ mScrollBottom' = Unbounded
          /\ bottomAsked' = FALSE /\ mCells' = Blanks(Height) /\ mCursor' = Home
          /\ NothingScrolls
      BY <1>3 DEF Reset
    <2>2. HistoryOK'
      BY <2>1, NothingScrollsType DEF Inv
    <2>3. mCells' \in Rows /\ Height' = Height
      BY <2>1, HeightType, BlanksType DEF Height
    <2>4. ScreenStep
      BY <2>1, <2>3, HomeType DEF ScreenStep, CursorOK, OnGrid
    <2>5. ModesOK'
      BY <2>1 DEF Inv, ModesOK, DefaultIsUnbounded
    <2>6. GridOK' /\ CursorOK' /\ CountersOK'
      BY <2>1, <2>4 DEF ScreenStep, Inv, GridOK, CountersOK
    <2>7. QED BY <2>2, <2>4, <2>5, <2>6 DEF Inv
  <1>4. QED BY <1>1, <1>2, <1>3 DEF Modes

-----------------------------------------------------------------------------
(* The steps of the view.                                                  *)

\* Whatever the window's new height, the cursor is on the screen afterwards.
LEMMA ResizeGridRowsInv ==
  ASSUME Inv, NEW rows \in Heights, ResizeGridRows(rows)
  PROVE  Inv' /\ OnGrid(mCursor)'
  <1> DEFINE removed == Greatest(0, Height - rows)
             added   == Greatest(0, rows - Height)
             top     == SubSeq(mCells, 1, removed)
             kept    == SubSeq(mCells, removed + 1, Height)
  <1>1. /\ Height \in Nat \ {0} /\ rows \in Nat \ {0} /\ Len(mCells) = Height
        /\ removed \in 0 .. Height - 1 /\ added \in Nat
        /\ Height - removed + added = rows
    BY HeightType DEF Greatest
  <1>2. \A i \in 1 .. Height : mCells[i] \in Row
    BY HeightType DEF Rows
  <1> HIDE DEF removed, added
  <1>3. top \in Rows
    <2>1. 1 \in Int /\ removed \in Int /\ \A i \in 1 .. removed : mCells[i] \in Row
      BY <1>1, <1>2
    <2>2. QED BY <2>1, SubSeqProperties DEF Rows
  <1>4. kept \in Rows /\ Len(kept) = Height - removed
    <2>1. /\ removed + 1 \in Int /\ Height \in Int
          /\ \A i \in removed + 1 .. Height : mCells[i] \in Row
      BY <1>1, <1>2
    <2>2. /\ kept \in Rows
          /\ Len(kept) = IF removed + 1 <= Height THEN Height - (removed + 1) + 1 ELSE 0
      BY <2>1, SubSeqProperties DEF Rows
    <2> HIDE DEF kept
    <2>3. QED BY <1>1, <2>2
  <1>5. /\ Push(top) /\ mCells' = kept \o Blanks(added)
        /\ mCursor' = [mCursor EXCEPT !.y = qBound(0, @ - removed, rows - 1)]
        /\ mScrollBar' = AtEnd(mDepth') /\ UNCHANGED <<modeVars, crashed, drawn>>
    BY DEF ResizeGridRows, RangeAfterResize, removed, added
  <1> HIDE DEF top, kept
  <1>6. mCells' \in Rows /\ Height' = rows
    <2>1. Blanks(added) \in Rows /\ Len(Blanks(added)) = added
      BY <1>1, BlanksType
    <2>2. mCells' \in Rows /\ Len(mCells') = Len(kept) + added
      BY <1>4, <1>5, <2>1, ConcatProperties DEF Rows
    <2>3. QED BY <1>1, <1>4, <2>2 DEF Height
  <1>7. HistoryOK'
    BY <1>3, <1>5, PushAtEndType DEF Inv
  <1>8. CursorOK' /\ OnGrid(mCursor)'
    <2>1. mCursor \in [x : 0 .. Width - 1, y : Nat]
      BY DEF Inv, CursorOK
    <2>2. qBound(0, mCursor.y - removed, rows - 1) \in 0 .. rows - 1
      BY <1>1, <2>1 DEF qBound, Least, Greatest
    <2> DEFINE y == qBound(0, mCursor.y - removed, rows - 1)
    <2>3. mCursor' = [mCursor EXCEPT !.y = y]
      BY <1>5
    <2> HIDE DEF y
    <2>4. mCursor'.x \in 0 .. Width - 1 /\ mCursor'.y = y /\ DOMAIN mCursor' = {"x", "y"}
          /\ mCursor' = [x |-> mCursor'.x, y |-> mCursor'.y]
      BY <2>1, <2>3
    <2>5. y \in 0 .. rows - 1
      BY <2>2 DEF y
    <2>6. QED BY <1>1, <1>6, <2>4, <2>5 DEF CursorOK, OnGrid
  <1>9. ModesOK' /\ CountersOK'
    BY <1>5 DEF Inv, ModesOK, DefaultIsUnbounded, CountersOK, modeVars
  <1>10. QED BY <1>6, <1>7, <1>8, <1>9 DEF Inv, GridOK

LEMMA SetScrollBufferType ==
  ASSUME Inv, NEW size \in BufferSizes, SetScrollBuffer(size)
  PROVE  mScrollBuffer' \in Rows /\ Len(mScrollBuffer') = size
  <1> DEFINE old == Len(mScrollBuffer)
  <1>1. /\ size \in Nat /\ old \in Nat /\ mScrollBuffer \in Rows
        /\ \A i \in 1 .. old : mScrollBuffer[i] \in Row
    BY DEF Inv, HistoryOK, Rows
  <1>2. CASE size < old
    <2>1. /\ old - size + 1 \in Int /\ old \in Int
          /\ \A i \in old - size + 1 .. old : mScrollBuffer[i] \in Row
      BY <1>1, <1>2
    <2>2. mScrollBuffer' = SubSeq(mScrollBuffer, old - size + 1, old)
      BY <1>2 DEF SetScrollBuffer
    <2> HIDE DEF old
    <2>3. /\ mScrollBuffer' \in Rows
          /\ Len(mScrollBuffer') = IF old - size + 1 <= old THEN old - (old - size + 1) + 1
                                   ELSE 0
      BY <2>1, <2>2, SubSeqProperties DEF Rows
    <2>4. QED BY <1>1, <1>2, <2>3
  <1>3. CASE ~(size < old)
    <2>1. size - old \in Nat
      BY <1>1, <1>3
    <2>2. Blanks(size - old) \in Rows /\ Len(Blanks(size - old)) = size - old
      BY <2>1, BlanksType
    <2>3. mScrollBuffer' = mScrollBuffer \o Blanks(size - old)
      BY <1>3 DEF SetScrollBuffer
    <2>4. mScrollBuffer' \in Rows /\ Len(mScrollBuffer') = old + (size - old)
      BY <1>1, <2>2, <2>3, ConcatProperties DEF Rows
    <2>5. QED BY <1>1, <2>4
  <1>4. QED BY <1>2, <1>3

LEMMA SetScrollBufferInv ==
  ASSUME Inv, NEW size \in BufferSizes, SetScrollBuffer(size)
  PROVE  Inv' /\ ScreenStep
  <1> DEFINE old == Len(mScrollBuffer)
  <1>1. /\ size \in Nat /\ old \in Nat /\ mScrollBuffer \in Rows /\ mDepth \in Nat
        /\ \A i \in 1 .. old : mScrollBuffer[i] \in Row
    BY DEF Inv, HistoryOK, Rows, Greatest
  <1>2. mScrollBuffer' \in Rows /\ Len(mScrollBuffer') = size
    BY SetScrollBufferType
  <1>3. mDepth' \in 0 .. Greatest(0, size - 1) /\ mDepth' \in Nat
    <2>1. mDepth' = Capped(mDepth, size)
      BY DEF SetScrollBuffer
    <2>2. Capped(mDepth, size) \in 0 .. Greatest(0, size - 1)
      BY <1>1, CappedType
    <2>3. QED BY <2>1, <2>2
  <1>4. mScrollBar' = AtEnd(mDepth') /\ UNCHANGED <<mCells, mCursor, modeVars, crashed, drawn>>
    BY DEF SetScrollBuffer, RangeAfterResize, screenVars
  <1>5. HistoryOK'
    BY <1>2, <1>3, <1>4, AtEndType DEF HistoryOK, BarRangesOverHistory
  <1>6. ScreenStep
    BY <1>4 DEF ScreenStep, Inv, GridOK, CursorOK, Height, OnGrid
  <1>7. drawn' \in Nat
    BY <1>4 DEF Inv, CountersOK
  <1>8. QED BY <1>4, <1>5, <1>6, <1>7, InvStep

LEMMA ScrollInv == ASSUME Inv, Scroll PROVE Inv' /\ ScreenStep
  <1>1. PICK value \in 0 .. mScrollBar.maximum :
          mScrollBar' = [mScrollBar EXCEPT !.value = value]
    BY DEF Scroll
  <1>2. UNCHANGED <<mCells, mCursor, modeVars, mScrollBuffer, mDepth, crashed, drawn>>
    BY DEF Scroll, screenVars, historyVars
  <1>3. HistoryOK'
    BY <1>1, <1>2 DEF Inv, HistoryOK, BarRangesOverHistory
  <1>4. ScreenStep
    BY <1>2 DEF ScreenStep, Inv, GridOK, CursorOK, Height, OnGrid
  <1>5. drawn' \in Nat
    BY <1>2 DEF Inv, CountersOK
  <1>6. QED BY <1>2, <1>3, <1>4, <1>5, InvStep

LEMMA KeyPressInv == ASSUME Inv, KeyPress PROVE Inv' /\ ScreenStep
  <1>1. UNCHANGED <<mCells, mCursor, modeVars, crashed, drawn>> /\ NothingScrolls
    BY DEF KeyPress, screenVars
  <1>2. HistoryOK'
    BY <1>1, NothingScrollsType DEF Inv
  <1>3. ScreenStep
    BY <1>1 DEF ScreenStep, Inv, GridOK, CursorOK, Height, OnGrid
  <1>4. drawn' \in Nat
    BY <1>1 DEF Inv, CountersOK
  <1>5. QED BY <1>1, <1>2, <1>3, <1>4, InvStep

-----------------------------------------------------------------------------
(* The theorems.                                                           *)

LEMMA NextInv ==
  ASSUME Inv, Next
  PROVE  Inv' /\ ((OnGrid(mCursor) /\ ~OnGrid(mCursor)') => mCursor' = mSaveCursor)
  <1>1. ASSUME NEW glyph \in Glyphs, DrawChar(glyph) PROVE Inv' /\ ScreenStep
    BY <1>1, DrawCharInv
  <1>2. CASE Motion
    <2>1. RestoreCursor => mCursor' = mSaveCursor
      BY DEF RestoreCursor, MoveCursor
    <2>2. QED BY <1>2, <2>1, MotionInv DEF ScreenStep
  <1>3. CASE Erasure \/ Scrolling \/ Modes
    BY <1>3, ErasureInv, ScrollingInv, ModesInv DEF ScreenStep
  <1>4. CASE View
    BY <1>4, ResizeGridRowsInv, SetScrollBufferInv, ScrollInv, KeyPressInv
       DEF View, ScreenStep
  <1>5. QED BY <1>1, <1>2, <1>3, <1>4 DEF Next, ScreenStep

LEMMA StutterInv ==
  ASSUME Inv, UNCHANGED vars
  PROVE  Inv' /\ (OnGrid(mCursor) => OnGrid(mCursor)')
  <1>1. UNCHANGED <<mCells, mCursor, modeVars, mScrollBuffer, mDepth, mScrollBar, crashed, drawn>>
    BY DEF vars, screenVars, historyVars
  <1>2. HistoryOK'
    BY <1>1 DEF Inv, HistoryOK, BarRangesOverHistory
  <1>3. ScreenStep /\ drawn' \in Nat
    BY <1>1 DEF ScreenStep, Inv, GridOK, CursorOK, CountersOK, Height, OnGrid
  <1>4. QED BY <1>1, <1>2, <1>3, InvStep DEF ScreenStep

\* The inductive invariant: grid, cursor, margins, history and scroll bar fit each other.
THEOREM Invariance == Spec => []Inv
  <1>1. Inv /\ [Next]_vars => Inv'
    BY NextInv, StutterInv
  <1>2. QED BY <1>1, InitInv, PTL DEF Spec

\* The terminal's state stays well typed: grid, history and modes keep their shapes
\* whatever the host sends and however window and history are resized.
THEOREM TypeCorrect == Spec => []TypeOK
  BY Invariance, InvType, PTL

\* komportemulation.cpp:747-751: for every screen and every parameter, only a
\* restored position takes the cursor from the grid.
THEOREM OnlyRestoreLeaves == Spec => OnlyRestoreLeavesTheGrid
  <1>1. Inv /\ [Next]_vars =>
          [(OnGrid(mCursor) /\ ~OnGrid(mCursor)') => mCursor' = mSaveCursor]_vars
    BY NextInv
  <1>2. QED BY <1>1, Invariance, PTL DEF Spec, OnlyRestoreLeavesTheGrid

\* komportview.cpp (getCell, cellAtHistoryRow): for every size of history and every
\* position of the scroll bar, the view shows rows of the one history that exist.
THEOREM WindowIsOnHistory == Spec => []WindowShowsHistory
  <1>1. Inv => WindowShowsHistory
    <2> SUFFICES ASSUME Inv PROVE WindowShowsHistory
      OBVIOUS
    <2>1. /\ Len(mScrollBuffer) \in Nat /\ mDepth \in 0 .. Greatest(0, Len(mScrollBuffer) - 1)
          /\ mScrollBar.maximum = mDepth
          /\ mScrollBar.value \in Nat /\ mScrollBar.value <= mDepth
      BY DEF Inv, HistoryOK, BarRangesOverHistory, Rows
    <2> DEFINE scrolled == mScrollBar.maximum - mScrollBar.value
               size == Len(mScrollBuffer)
    <2>2. /\ scrolled \in 0 .. mDepth /\ size \in Nat /\ mDepth \in Nat
          /\ mDepth <= size - 1 \/ mDepth = 0
      BY <2>1 DEF Greatest
    <2>3. ASSUME NEW y \in 0 .. Height - 1
          PROVE  /\ VisibleRow(y) = HistoryRow(mDepth - scrolled + y)
                 /\ VisibleRow(y)[1] = "history" => VisibleRow(y)[2] \in 0 .. size - 1
      <3>1. y \in Nat
        BY HeightType
      <3>2. CASE y < scrolled
        <4>1. VisibleRow(y) = <<"history", ((size - 1) - scrolled) + y>>
          BY <3>2 DEF VisibleRow
        <4>2. /\ mDepth - scrolled + y < mDepth
              /\ HistoryIndex(mDepth - scrolled + y) = ((size - 1) - scrolled) + y
              /\ ((size - 1) - scrolled) + y \in 0 .. size - 1
          BY <2>2, <3>1, <3>2 DEF HistoryIndex
        <4>3. QED BY <4>1, <4>2 DEF HistoryRow
      <3>3. CASE ~(y < scrolled)
        <4>1. VisibleRow(y) = <<"screen", y - scrolled>>
          BY <3>3 DEF VisibleRow
        <4>2. /\ ~(mDepth - scrolled + y < mDepth)
              /\ (mDepth - scrolled + y) - mDepth = y - scrolled
          BY <2>2, <3>1, <3>3
        <4>3. QED BY <4>1, <4>2 DEF HistoryRow
      <3>4. QED BY <3>2, <3>3
    <2>4. QED BY <2>3 DEF WindowShowsHistory
  <1>2. QED BY <1>1, Invariance, PTL

\* komportemulation.cpp:1307-1319: a default region reaches the last row of every
\* screen the window may become.
THEOREM DefaultRegionIsWhole == Spec => []DefaultRegionReachesTheEdge
  <1>1. Inv => DefaultRegionReachesTheEdge
    <2> SUFFICES ASSUME Inv, ~bottomAsked PROVE scrollBottom = Height - 1
      BY DEF DefaultRegionReachesTheEdge
    <2>1. /\ Height \in Nat \ {0} /\ Unbounded \in Nat /\ Unbounded > Height
          /\ mScrollBottom = Unbounded /\ scrollTop \in 0 .. Height - 1
      BY HeightType, MarginType DEF Inv, ModesOK, DefaultIsUnbounded
    <2>2. QED BY <2>1 DEF scrollBottom, qBound, Least, Greatest
  <1>2. QED BY <1>1, Invariance, PTL

-----------------------------------------------------------------------------
(* A region that is not the whole screen.                                  *)

LEMMA RowsOutside ==
  ASSUME NEW cells \in Rows, NEW first \in Nat, NEW bottom \in Int, bottom < Len(cells),
         NEW n \in Nat, n <= bottom - first + 1,
         NEW y \in 0 .. Len(cells) - 1, ~(first <= y /\ y <= bottom)
  PROVE  /\ DeleteRows(cells, first, bottom, n)[y + 1] = cells[y + 1]
         /\ InsertRows(cells, first, bottom, n)[y + 1] = cells[y + 1]
  <1>1. y + 1 \in DOMAIN cells /\ (y + 1) - 1 = y /\ y \in Nat
    BY DEF Rows
  <1>2. /\ y \notin first .. bottom - n /\ y \notin bottom - n + 1 .. bottom
        /\ y \notin first + n .. bottom /\ y \notin first .. first + n - 1
    BY <1>1
  <1>3. QED BY <1>1, <1>2 DEF DeleteRows, InsertRows

\* The rows that differ after doIndex() are in the region, and so is the cursor.
LEMMA IndexFromIsolates ==
  ASSUME Inv, ~IsWholeScreen, NEW cells \in Rows, Len(cells) = Height,
         NEW x, NEW y \in Nat, IndexFrom(cells, x, y), NEW r \in 0 .. Height - 1
  PROVE  /\ UNCHANGED historyVars
         /\ mCells'[r + 1] # cells[r + 1] => InRegion(r) /\ InRegion(y)
  <1>1. CASE ~AtBottomMargin(y)
    BY <1>1 DEF IndexFrom, NothingScrolls
  <1>2. CASE AtBottomMargin(y)
    <2>1. /\ mCells' = DeleteRows(cells, scrollTop, scrollBottom, 1)
          /\ UNCHANGED historyVars /\ y = scrollBottom
      BY <1>2 DEF IndexFrom, NothingScrolls, AtBottomMargin
    <2>2. /\ Height \in Nat \ {0}
          /\ scrollTop \in 0 .. Height - 1 /\ scrollBottom \in scrollTop .. Height - 1
      BY HeightType, MarginType
    <2>3. InRegion(y)
      BY <2>1, <2>2 DEF InRegion
    <2>4. ASSUME ~InRegion(r) PROVE mCells'[r + 1] = cells[r + 1]
      <3>1. /\ scrollTop \in Nat /\ scrollBottom \in Int /\ scrollBottom < Len(cells)
            /\ 1 \in Nat /\ 1 <= scrollBottom - scrollTop + 1 /\ r \in 0 .. Len(cells) - 1
        BY <2>2
      <3>2. ~(scrollTop <= r /\ r <= scrollBottom)
        BY <2>4 DEF InRegion
      <3>3. QED BY <2>1, <3>1, <3>2, RowsOutside
    <2>5. QED BY <2>1, <2>3, <2>4
  <1>3. QED BY <1>1, <1>2

LEMMA ScrollingIsolates ==
  ASSUME Inv, ~IsWholeScreen, Scrolling, NEW r \in 0 .. Height - 1
  PROVE  /\ UNCHANGED historyVars
         /\ mCells'[r + 1] # mCells[r + 1] => InRegion(r) /\ InRegion(mCursor.y)
  <1>1. /\ mCells \in Rows /\ Len(mCells) = Height /\ Height \in Nat \ {0}
        /\ mCursor.y \in Nat
        /\ scrollTop \in 0 .. Height - 1 /\ scrollBottom \in scrollTop .. Height - 1
    BY HeightType, MarginType DEF Inv, CursorOK
  <1>2. CASE Index \/ NextLine
    BY <1>1, <1>2, IndexFromIsolates DEF Index, NextLine
  <1>3. CASE ReverseIndex
    <2>1. CASE mCursor.y # scrollTop
      BY <1>3, <2>1 DEF ReverseIndex, MoveCursor, NothingScrolls
    <2>2. CASE mCursor.y = scrollTop
      <3>1. /\ mCells' = InsertRows(mCells, scrollTop, scrollBottom, 1)
            /\ UNCHANGED historyVars /\ InRegion(mCursor.y)
        BY <1>1, <1>3, <2>2 DEF ReverseIndex, ChangeCells, NothingScrolls, InRegion
      <3>2. /\ scrollTop \in Nat /\ scrollBottom \in Int /\ scrollBottom < Len(mCells)
            /\ 1 \in Nat /\ 1 <= scrollBottom - scrollTop + 1 /\ r \in 0 .. Len(mCells) - 1
        BY <1>1
      <3>3. ~InRegion(r) => mCells'[r + 1] = mCells[r + 1]
        BY <1>1, <3>1, <3>2, RowsOutside DEF InRegion
      <3>4. QED BY <3>1, <3>3
    <2>3. QED BY <2>1, <2>2
  <1>4. ASSUME NEW n \in Counts, InsertLine(n) \/ DeleteLine(n)
        PROVE  /\ UNCHANGED historyVars
               /\ mCells'[r + 1] # mCells[r + 1] => InRegion(r) /\ InRegion(mCursor.y)
    <2> DEFINE count == Least(n, scrollBottom - mCursor.y + 1)
               inserted == InsertRows(mCells, mCursor.y, scrollBottom, count)
               deleted  == DeleteRows(mCells, mCursor.y, scrollBottom, count)
    <2>1. /\ UNCHANGED historyVars
          /\ mCells' = IF InRegion(mCursor.y)
                       THEN IF InsertLine(n) THEN inserted ELSE deleted ELSE mCells
      BY <1>4 DEF InsertLine, DeleteLine, ChangeCells, NothingScrolls
    <2>2. CASE ~InRegion(mCursor.y)
      BY <2>1, <2>2
    <2>3. CASE InRegion(mCursor.y)
      <3>1. /\ scrollTop \in Nat /\ scrollBottom \in Int /\ scrollBottom < Len(mCells)
            /\ r \in 0 .. Len(mCells) - 1 /\ scrollTop <= mCursor.y
            /\ mCursor.y <= scrollBottom /\ n \in Nat
        BY <1>1, <2>3 DEF InRegion, Counts
      <3>2. count \in Nat /\ count <= scrollBottom - mCursor.y + 1
        BY <1>1, <3>1 DEF Least
      <3> HIDE DEF count
      <3>3. ~(mCursor.y <= r /\ r <= scrollBottom) =>
              inserted[r + 1] = mCells[r + 1] /\ deleted[r + 1] = mCells[r + 1]
        <4>1. mCells \in Rows /\ mCursor.y \in Nat
          BY <1>1
        <4> SUFFICES ASSUME ~(mCursor.y <= r /\ r <= scrollBottom)
                     PROVE  inserted[r + 1] = mCells[r + 1] /\ deleted[r + 1] = mCells[r + 1]
          OBVIOUS
        <4>2. /\ DeleteRows(mCells, mCursor.y, scrollBottom, count)[r + 1] = mCells[r + 1]
              /\ InsertRows(mCells, mCursor.y, scrollBottom, count)[r + 1] = mCells[r + 1]
          BY <3>1, <3>2, <4>1, RowsOutside
        <4>3. QED BY <4>2
      <3>4. (mCursor.y <= r /\ r <= scrollBottom) => InRegion(r)
        BY <1>1, <3>1 DEF InRegion
      <3> HIDE DEF inserted, deleted
      <3>5. QED BY <2>1, <2>3, <3>3, <3>4
    <2>4. QED BY <2>2, <2>3
  <1>5. QED BY <1>2, <1>3, <1>4 DEF Scrolling

LEMMA DrawingIsolates ==
  ASSUME Inv, ~IsWholeScreen, NEW glyph \in Glyphs, OnGrid(mCursor), Drawn(glyph),
         NEW r \in 0 .. Height - 1
  PROVE  /\ UNCHANGED historyVars
         /\ mCells'[r + 1] # mCells[r + 1] =>
              (InRegion(r) /\ InRegion(mCursor.y)) \/ r = mCursor.y
  <1> DEFINE cells == WithRow(mCursor.y, DrawnRow(glyph))
  <1>1. cells \in Rows /\ Len(cells) = Height /\ mCursor.y \in Nat
    <2>1. DrawnRow(glyph) \in Row
      BY DrawnRowType
    <2>2. QED BY <2>1, HeightType DEF WithRow, OnGrid, Rows
  <1>2. r # mCursor.y => cells[r + 1] = mCells[r + 1]
    BY HeightType DEF WithRow, OnGrid, Rows
  <1> HIDE DEF cells
  <1>3. CASE mCursor.x + 1 < Width
    BY <1>2, <1>3 DEF Drawn, NothingScrolls, cells
  <1>4. CASE ~(mCursor.x + 1 < Width)
    <2>1. IndexFrom(cells, 0, mCursor.y)
      BY <1>4 DEF Drawn, cells
    <2>2. /\ UNCHANGED historyVars
          /\ mCells'[r + 1] # cells[r + 1] => InRegion(r) /\ InRegion(mCursor.y)
      BY <1>1, <2>1, IndexFromIsolates
    <2>3. QED BY <1>2, <2>2
  <1>5. QED BY <1>3, <1>4

\* Nothing else counts characters.
LEMMA WhoDraws ==
  ASSUME Next, drawn' # drawn
  PROVE  \E glyph \in Glyphs : OnGrid(mCursor) /\ Drawn(glyph)
  <1>1. \A cells, position, row :
          ~ChangeCells(cells) /\ ~MoveCursor(position) /\ ~ChangeCursorRow(row) /\ ~Crash
    BY DEF ChangeCells, MoveCursor, ChangeCursorRow, Crash
  <1>2. ~Motion
    BY <1>1 DEF Motion, CursorTo, CursorUp, CursorDown, CursorLeft, CursorRight,
       CarriageReturn, Tabulate, SaveCursor, RestoreCursor
  <1>3. ~Erasure
    BY <1>1 DEF Erasure, ClearEOL, ClearScreen, DeleteChar
  <1>4. ~Scrolling
    BY <1>1 DEF Scrolling, Index, NextLine, ReverseIndex, InsertLine, DeleteLine
  <1>5. ~Modes
    BY DEF Modes, SetInsertMode, SetScrollRegion, Reset
  <1>6. ~View
    BY DEF View, ResizeGridRows, SetScrollBuffer, Scroll, KeyPress
  <1>7. PICK glyph \in Glyphs : DrawChar(glyph)
    BY <1>2, <1>3, <1>4, <1>5, <1>6 DEF Next
  <1>8. QED BY <1>1, <1>7 DEF DrawChar

\* komportemulation.cpp:1179-1186 and 1105-1112: for every region and every count, what
\* scrolls, inserts or deletes lines changes rows of the region only.
THEOREM RegionsIsolate == Spec => RegionIsolates
  <1>1. ASSUME Inv, [Next]_vars, ~IsWholeScreen, drawn' # drawn \/ Scrolling
        PROVE  /\ UNCHANGED historyVars
               /\ \A y \in 0 .. Height - 1 :
                    mCells'[y + 1] # mCells[y + 1] =>
                      \/ InRegion(y) /\ InRegion(mCursor.y)
                      \/ drawn' # drawn /\ y = mCursor.y
    <2>1. 0 \in 0 .. Height - 1
      BY <1>1, HeightType
    <2>2. CASE Scrolling
      BY <1>1, <2>1, <2>2, ScrollingIsolates
    <2>3. CASE drawn' # drawn
      <3>1. PICK glyph \in Glyphs : OnGrid(mCursor) /\ Drawn(glyph)
        BY <1>1, <2>3, WhoDraws DEF vars
      <3>2. QED BY <1>1, <2>1, <2>3, <3>1, DrawingIsolates
    <2>4. QED BY <1>1, <2>2, <2>3
  <1>2. Inv /\ [Next]_vars =>
          [(~IsWholeScreen /\ (drawn' # drawn \/ Scrolling)) =>
             /\ UNCHANGED historyVars
             /\ \A y \in 0 .. Height - 1 :
                  mCells'[y + 1] # mCells[y + 1] =>
                    (InRegion(y) /\ InRegion(mCursor.y)) \/ (drawn' # drawn /\ y = mCursor.y)]_vars
    BY <1>1
  <1>3. QED BY <1>2, Invariance, PTL DEF Spec, RegionIsolates

-----------------------------------------------------------------------------
(* The text is kept: the roll of paper of before and after a step, by the   *)
(* places of its rows.                                                      *)

\* The rows at the end of another roll.
LEMMA SuffixByPlaces ==
  ASSUME NEW s \in Rows, NEW t \in Rows, Len(s) <= Len(t),
         \A i \in 1 .. Len(s) : s[i] = t[Len(t) - Len(s) + i]
  PROVE  IsSuffix(s, t)
  <1>1. PICK r, q : r = Reverse(s) /\ q = Reverse(t)
    OBVIOUS
  <1>2. PICK m, n : m = Len(s) /\ n = Len(t)
    OBVIOUS
  <1>3. /\ m \in Nat /\ n \in Nat /\ m <= n
        /\ \A i \in 1 .. m : s[i] \in Row
        /\ \A i \in 1 .. n : t[i] \in Row
    BY <1>2 DEF Rows
  <1>4. /\ r = [i \in 1 .. m |-> s[(m - i) + 1]]
        /\ q = [i \in 1 .. n |-> t[(n - i) + 1]]
    BY <1>1, <1>2 DEF Reverse
  <1>5. r \in Rows /\ q \in Rows /\ Len(r) = m /\ Len(q) = n
    BY <1>3, <1>4 DEF Rows
  <1>6. ASSUME NEW i \in 1 .. m PROVE r[i] = q[i]
    <2>1. (m - i) + 1 \in 1 .. m /\ n - m + ((m - i) + 1) = (n - i) + 1 /\ i \in 1 .. n
      BY <1>3
    <2> QED BY <1>2, <1>4, <2>1
  <1>7. /\ SubSeq(r, 1, m) = r
        /\ SubSeq(q, 1, m) \in Rows /\ Len(SubSeq(q, 1, m)) = m
        /\ \A i \in 1 .. m : SubSeq(q, 1, m)[i] = q[i]
    BY <1>3, <1>5 DEF Rows
  <1>8. r = SubSeq(q, 1, m)
    BY <1>5, <1>6, <1>7, SeqEqual DEF Rows
  <1> QED BY <1>1, <1>3, <1>5, <1>7, <1>8 DEF IsSuffix, IsPrefix

\* The rows of the roll.
PaperIs ==
  /\ Paper \in Rows /\ Len(Paper) = mDepth + Height /\ mDepth \in Nat /\ Height \in Nat \ {0}
  /\ \A j \in 1 .. mDepth :
       Paper[j] = mScrollBuffer[(Len(mScrollBuffer) - mDepth - 1) + j]
  /\ \A j \in 1 .. Height : Paper[mDepth + j] = mCells[j]

LEMMA PaperRows == Inv => PaperIs
  <1> SUFFICES ASSUME Inv PROVE PaperIs
    OBVIOUS
  <1>1. PICK size, buffer, depth :
          buffer = mScrollBuffer /\ size = Len(buffer) /\ depth = mDepth
    OBVIOUS
  <1>2. /\ size \in Nat /\ depth \in Nat /\ depth \in 0 .. Greatest(0, size - 1)
        /\ \A i \in 1 .. size : buffer[i] \in Row
    BY <1>1 DEF Inv, HistoryOK, Rows, Greatest
  <1>3. depth <= size /\ (depth # 0 => depth < size)
    BY <1>2 DEF Greatest
  <1>4. \A row \in 1 .. depth :
          /\ HistoryIndex(row - 1) + 1 = (size - depth - 1) + row
          /\ (size - depth - 1) + row \in 1 .. size
    BY <1>1, <1>2, <1>3 DEF HistoryIndex
  <1>5. PICK history : history = [row \in 1 .. depth |-> buffer[(size - depth - 1) + row]]
    OBVIOUS
  <1>6. mCells \in Rows /\ Len(mCells) = Height /\ Height \in Nat
    BY HeightType
  <1>7. Paper = history \o mCells
    <2>1. \A row \in 1 .. depth :
            buffer[HistoryIndex(row - 1) + 1] = buffer[(size - depth - 1) + row]
      BY <1>4
    <2>2. [row \in 1 .. depth |-> buffer[HistoryIndex(row - 1) + 1]] = history
      BY <1>5, <2>1
    <2> QED BY <1>1, <2>2, Zenon DEF Paper
  <1>8. /\ history \in Rows /\ Len(history) = depth
        /\ \A j \in 1 .. depth : history[j] = buffer[(size - depth - 1) + j]
        /\ Paper \in Rows /\ Len(Paper) = depth + Height
        /\ \A i \in 1 .. depth + Height :
             Paper[i] = IF i <= depth THEN history[i] ELSE mCells[i - depth]
    <2>1. history \in Rows /\ Len(history) = depth
      BY <1>2, <1>4, <1>5 DEF Rows
    <2>2. \A j \in 1 .. depth : history[j] = buffer[(size - depth - 1) + j]
      BY <1>5
    <2>3. /\ history \o mCells \in Rows
          /\ Len(history \o mCells) = Len(history) + Len(mCells)
          /\ \A i \in 1 .. Len(history) + Len(mCells) : (history \o mCells)[i] =
               IF i <= Len(history) THEN history[i] ELSE mCells[i - Len(history)]
      BY <1>6, <2>1, ConcatProperties DEF Rows
    <2> QED BY <1>6, <1>7, <2>1, <2>2, <2>3
  <1>9. \A j \in 1 .. depth : Paper[j] = history[j]
    BY <1>2, <1>6, <1>8
  <1>10. ASSUME NEW j \in 1 .. Height PROVE Paper[depth + j] = mCells[j]
    <2>1. depth + j \in 1 .. depth + Height /\ ~(depth + j <= depth) /\ (depth + j) - depth = j
      BY <1>2, <1>6
    <2> QED BY <1>8, <2>1
  <1> QED BY <1>1, <1>2, <1>8, <1>9, <1>10, HeightType DEF PaperIs

\* A push of rows: the history ends with them, and what it has lost it had to.
LEMMA PushKeeps ==
  ASSUME HistoryOK, NEW rows \in Rows, Push(rows), Len(mScrollBuffer) # 0
  PROVE  /\ Len(mScrollBuffer') = Len(mScrollBuffer)
         /\ mDepth' <= mDepth + Len(rows)
         /\ mDepth' < mDepth + Len(rows) => mDepth' >= Len(mScrollBuffer) - 2
         /\ \A j \in 1 .. mDepth' :
              mScrollBuffer'[(Len(mScrollBuffer) - mDepth' - 1) + j] =
                IF Len(rows) + j <= mDepth'
                THEN mScrollBuffer[(Len(mScrollBuffer) - mDepth' - 1) + Len(rows) + j]
                ELSE rows[Len(rows) - mDepth' + j]
  <1>1. PICK size, k, depth, next, buffer, later :
          /\ size = Len(mScrollBuffer) /\ k = Len(rows) /\ depth = mDepth /\ next = mDepth'
          /\ buffer = mScrollBuffer /\ later = mScrollBuffer'
    OBVIOUS
  <1>2. /\ size \in Nat \ {0} /\ k \in Nat /\ depth \in 0 .. size - 1 /\ buffer \in Rows
        /\ Len(buffer) = size
    BY <1>1 DEF HistoryOK, Rows, Greatest
  <1>3. later \in Rows /\ Len(later) = size /\ next \in 0 .. size - 1
    BY <1>1, <1>2, PushType DEF Greatest
  <1>4. next <= depth + k /\ (next < depth + k => next >= size - 2)
    <2>1. next = IF k = 0 THEN depth ELSE DepthAfterPush(Least(depth + k - 1, size - 1), size)
      BY <1>1, <1>2 DEF Push, DepthAfterPushes
    <2> QED BY <1>2, <2>1 DEF DepthAfterPush, Capped, Least, Greatest
  <1>5. PICK shown : shown = SubSeq(buffer, 1, size - 1) \o rows
    OBVIOUS
  <1>6. later = Append(SubSeq(shown, k + 1, Len(shown)), BlankRow)
    BY <1>1, <1>2, <1>5 DEF Push
  <1>7. /\ shown \in Rows /\ Len(shown) = size - 1 + k
        /\ \A i \in 1 .. size - 1 + k :
             shown[i] = IF i <= size - 1 THEN buffer[i] ELSE rows[i - (size - 1)]
    <2>1. PICK kept : kept = SubSeq(buffer, 1, size - 1)
      OBVIOUS
    <2>2. /\ kept \in Rows /\ Len(kept) = size - 1
          /\ \A i \in 1 .. size - 1 : kept[i] = buffer[i]
      BY <1>2, <2>1 DEF Rows
    <2> QED BY <1>1, <1>2, <1>5, <2>1, <2>2, ConcatProperties DEF Rows
  <1>8. \A i \in 1 .. size - 1 : later[i] = shown[i + k]
    <2>1. PICK moved : moved = SubSeq(shown, k + 1, size - 1 + k)
      OBVIOUS
    <2>2. /\ moved \in Rows /\ Len(moved) = size - 1
          /\ \A i \in 1 .. size - 1 : moved[i] = shown[i + k]
      <3>1. PICK first, last : first = k + 1 /\ last = size - 1 + k
        OBVIOUS
      <3>2. /\ first \in Int /\ last \in Int
            /\ \A i \in first .. last : shown[i] \in Row
        BY <1>2, <1>7, <3>1 DEF Rows
      <3>3. /\ moved \in Seq(Row)
            /\ Len(moved) = IF first <= last THEN last - first + 1 ELSE 0
            /\ \A i \in 1 .. last - first + 1 : moved[i] = shown[first + i - 1]
        BY <2>1, <3>1, <3>2, SubSeqProperties
      <3>4. Len(moved) = size - 1 /\ last - first + 1 = size - 1
        BY <1>2, <3>1, <3>3
      <3>5. ASSUME NEW i \in 1 .. size - 1 PROVE moved[i] = shown[i + k]
        <4>1. first + i - 1 = i + k
          BY <1>2, <3>1
        <4> QED BY <3>3, <3>4, <4>1
      <3> QED BY <3>3, <3>4, <3>5 DEF Rows
    <2>3. later = Append(moved, BlankRow)
      BY <1>6, <1>7, <2>1
    <2>4. \A i \in 1 .. size - 1 : Append(moved, BlankRow)[i] = moved[i]
      BY <2>2 DEF Rows
    <2> QED BY <2>2, <2>3, <2>4
  <1>9. ASSUME NEW j \in 1 .. next
        PROVE  later[(size - next - 1) + j] =
                 IF k + j <= next THEN buffer[(size - next - 1) + k + j]
                 ELSE rows[k - next + j]
    <2>1. PICK i, p, q :
            /\ i = (size - next - 1) + j
            /\ p = (size - next - 1) + k + j
            /\ q = k - next + j
      OBVIOUS
    <2>2. /\ i \in 1 .. size - 1 /\ p \in 1 .. size - 1 + k
          /\ i + k = p /\ p - (size - 1) = q
          /\ k + j <= next => p <= size - 1
          /\ ~(k + j <= next) => ~(p <= size - 1)
      BY <1>2, <1>3, <2>1
    <2>3. later[i] = shown[p]
      BY <1>8, <2>2
    <2>4. shown[p] = IF p <= size - 1 THEN buffer[p] ELSE rows[q]
      BY <1>7, <2>2
    <2>5. later[i] = IF k + j <= next THEN buffer[p] ELSE rows[q]
      BY <2>2, <2>3, <2>4, Zenon
    <2> QED BY <2>1, <2>5, Zenon
  <1> QED BY <1>1, <1>3, <1>4, <1>9

\* A roll of e + l rows is one of d + h rows that has lost some at its old end and got n
\* blank ones at its new one: k of the h rows of the screen have become history.
Rolled(old, new, d, h, e, l, k, n) ==
  /\ Len(old) = d + h /\ Len(new) = e + l /\ k <= h /\ l = h - k + n /\ e <= d + k
  /\ \A j \in 1 .. e : new[j] = old[(d + k - e) + j]
  /\ \A j \in 1 .. h - k : new[e + j] = old[d + k + j]
  /\ \A j \in h - k + 1 .. l : new[e + j] = BlankRow

LEMMA RolledSuffix ==
  ASSUME NEW old \in Rows, NEW new \in Rows, NEW d \in Nat, NEW h \in Nat, NEW e \in Nat,
         NEW l \in Nat, NEW k \in Nat, NEW n \in Nat, Rolled(old, new, d, h, e, l, k, n)
  PROVE  IsSuffix(new, old \o Blanks(n))
  <1>0. /\ Len(old) = d + h /\ Len(new) = e + l /\ k <= h /\ l = h - k + n /\ e <= d + k
        /\ \A j \in 1 .. e : new[j] = old[(d + k - e) + j]
        /\ \A j \in 1 .. h - k : new[e + j] = old[d + k + j]
        /\ \A j \in h - k + 1 .. l : new[e + j] = BlankRow
    BY DEF Rolled
  <1> USE <1>0
  <1>1. PICK blanks, before, shift :
          blanks = Blanks(n) /\ before = old \o blanks /\ shift = d + k - e
    OBVIOUS
  <1>2. /\ blanks \in Rows /\ Len(blanks) = n
        /\ \A i \in 1 .. n : blanks[i] = BlankRow
    BY <1>1, BlanksType DEF Blanks
  <1>3. /\ before \in Rows /\ Len(before) = Len(old) + Len(blanks)
        /\ \A i \in 1 .. Len(old) + Len(blanks) :
             before[i] = IF i <= Len(old) THEN old[i] ELSE blanks[i - Len(old)]
    <2>1. old \in Seq(Row) /\ blanks \in Seq(Row)
      BY <1>2 DEF Rows
    <2>2. /\ old \o blanks \in Seq(Row)
          /\ Len(old \o blanks) = Len(old) + Len(blanks)
          /\ \A i \in 1 .. Len(old) + Len(blanks) : (old \o blanks)[i] =
               IF i <= Len(old) THEN old[i] ELSE blanks[i - Len(old)]
      BY <2>1, ConcatProperties, Zenon
    <2> QED BY <1>1, <2>2, Zenon DEF Rows
  <1>4. /\ Len(before) = d + h + n
        /\ \A i \in 1 .. d + h : before[i] = old[i]
        /\ \A i \in d + h + 1 .. d + h + n : before[i] = BlankRow
    <2>1. \A i \in d + h + 1 .. d + h + n : i - (d + h) \in 1 .. n
      OBVIOUS
    <2> QED BY <1>2, <1>3, <2>1
  <1>5. shift \in Nat /\ Len(before) - Len(new) = shift /\ Len(new) <= Len(before)
    BY <1>1, <1>4
  <1>6. ASSUME NEW i \in 1 .. e + l PROVE new[i] = before[shift + i]
    <2>1. CASE i <= e
      <3>1. i \in 1 .. e /\ shift + i \in 1 .. d + h
        BY <1>1, <2>1
      <3> QED BY <1>1, <1>4, <3>1
    <2>2. CASE i > e
      <3>1. PICK j : j = i - e
        OBVIOUS
      <3>2. j \in 1 .. l /\ i = e + j /\ shift + i = d + k + j
        BY <1>1, <2>2, <3>1
      <3>3. CASE j <= h - k
        <4>1. j \in 1 .. h - k /\ d + k + j \in 1 .. d + h
          BY <3>2, <3>3
        <4> QED BY <1>4, <3>2, <4>1
      <3>4. CASE ~(j <= h - k)
        <4>1. j \in h - k + 1 .. l /\ d + k + j \in d + h + 1 .. d + h + n
          BY <3>2, <3>4
        <4> QED BY <1>4, <3>2, <4>1
      <3> QED BY <3>3, <3>4
    <2> QED BY <2>1, <2>2
  <1>7. IsSuffix(new, before)
    BY <1>3, <1>5, <1>6, SuffixByPlaces
  <1> QED BY <1>1, <1>7

\* The same of the roll the terminal has, in terms of its parts.
KeepsHistory(k) ==
  /\ mDepth' <= mDepth + k
  /\ mDepth' < mDepth + k => mDepth' >= FullDepth
  /\ \A j \in 1 .. mDepth' :
       mScrollBuffer'[(Len(mScrollBuffer') - mDepth' - 1) + j]
         = Paper[(mDepth + k - mDepth') + j]

ShiftsScreen(k, n) ==
  /\ k <= Height /\ Height' = Height - k + n /\ n <= Height'
  /\ \A j \in 1 .. Height' :
       mCells'[j] = IF j <= Height - k THEN mCells[k + j] ELSE BlankRow

Rolls(k, n) == KeepsHistory(k) /\ ShiftsScreen(k, n)

LEMMA RollKeeps ==
  ASSUME Inv, Inv', NEW k \in Nat, NEW n \in Nat, Rolls(k, n)
  PROVE  Keeps(FullDepth)
  <1>1. PICK old, new, tall, taller, deep, deeper :
          /\ old = Paper /\ new = Paper' /\ tall = Height /\ taller = Height'
          /\ deep = mDepth /\ deeper = mDepth'
    OBVIOUS
  <1>2. /\ old \in Rows /\ Len(old) = deep + tall /\ deep \in Nat /\ tall \in Nat
        /\ \A j \in 1 .. tall : old[deep + j] = mCells[j]
    BY <1>1, PaperRows DEF PaperIs
  <1>3. PaperIs'
    BY PaperRows, PTL
  <1>4. /\ new \in Rows /\ Len(new) = deeper + taller /\ deeper \in Nat /\ taller \in Nat
        /\ \A j \in 1 .. deeper : new[j] = mScrollBuffer'[(Len(mScrollBuffer') - deeper - 1) + j]
        /\ \A j \in 1 .. taller : new[deeper + j] = mCells'[j]
    BY <1>1, <1>3 DEF PaperIs
  <1>5. /\ taller = tall - k + n /\ k <= tall /\ deeper <= deep + k /\ n <= taller
        /\ deeper < deep + k => deeper >= FullDepth
        /\ \A j \in 1 .. taller :
             mCells'[j] = IF j <= tall - k THEN mCells[k + j] ELSE BlankRow
    BY <1>1 DEF Rolls, KeepsHistory, ShiftsScreen
  <1>6. \A j \in 1 .. deeper : new[j] = old[(deep + k - deeper) + j]
    BY <1>1, <1>4 DEF Rolls, KeepsHistory
  <1>7. \A j \in 1 .. tall - k : new[deeper + j] = old[deep + k + j]
    <2>1. ASSUME NEW j \in 1 .. tall - k PROVE new[deeper + j] = old[deep + k + j]
      <3>1. j \in 1 .. taller /\ k + j \in 1 .. tall /\ deep + (k + j) = deep + k + j /\ j <= tall - k
        BY <1>2, <1>4, <1>5
      <3>2. new[deeper + j] = mCells'[j] /\ mCells'[j] = mCells[k + j]
        BY <1>4, <1>5, <3>1
      <3> QED BY <1>2, <3>1, <3>2
    <2> QED BY <2>1
  <1>8. \A j \in tall - k + 1 .. taller : new[deeper + j] = BlankRow
    <2>1. ASSUME NEW j \in tall - k + 1 .. taller PROVE new[deeper + j] = BlankRow
      <3>1. j \in 1 .. taller /\ ~(j <= tall - k)
        BY <1>2, <1>4, <1>5
      <3> QED BY <1>4, <1>5, <3>1
    <2> QED BY <2>1
  <1>9. IsSuffix(new, old \o Blanks(n))
    <2>1. k <= tall /\ taller = tall - k + n /\ deeper <= deep + k
      BY <1>5
    <2>2. Rolled(old, new, deep, tall, deeper, taller, k, n)
      BY <1>2, <1>4, <1>6, <1>7, <1>8, <2>1, Zenon DEF Rolled
    <2>3. /\ old \in Rows /\ new \in Rows
          /\ deep \in Nat /\ tall \in Nat /\ deeper \in Nat /\ taller \in Nat
      BY <1>2, <1>4, Zenon
    <2> QED BY <2>2, <2>3, RolledSuffix, Zenon
  <1>10. deeper + taller < deep + tall + n => deeper < deep + k
    BY <1>2, <1>4, <1>5
  <1>14. Len(old \o Blanks(n)) = deep + tall + n
    <2>1. old \in Seq(Row) /\ Blanks(n) \in Seq(Row) /\ Len(Blanks(n)) = n
      BY <1>2, BlanksType DEF Rows
    <2>2. Len(old \o Blanks(n)) = Len(old) + Len(Blanks(n))
      BY <2>1, ConcatProperties, Zenon
    <2> QED BY <1>2, <2>1, <2>2
  <1>11. Len(new) < Len(old \o Blanks(n)) => mDepth' >= FullDepth
    <2>1. deeper < deep + k => mDepth' >= FullDepth
      BY <1>1, <1>5, Zenon
    <2> QED BY <1>4, <1>10, <1>14, <2>1, Zenon
  <1>12. n \in 0 .. Height + Height'
    <2>1. n \in 0 .. tall + taller
      BY <1>2, <1>4, <1>5
    <2> QED BY <1>1, <2>1, Zenon
  <1> QED BY <1>1, <1>9, <1>11, <1>12, Zenon DEF Keeps

-----------------------------------------------------------------------------
(* The steps that feed the history.                                        *)

\* A push of the screen's top rows.
LEMMA PushOfTop ==
  ASSUME Inv, NEW rows \in Rows, Push(rows), Len(rows) <= Height,
         \A i \in 1 .. Len(rows) : rows[i] = mCells[i]
  PROVE  KeepsHistory(Len(rows))
  <1>1. PICK size, k, depth, next, buffer, later, old :
          /\ size = Len(mScrollBuffer) /\ k = Len(rows) /\ depth = mDepth /\ next = mDepth'
          /\ buffer = mScrollBuffer /\ later = mScrollBuffer' /\ old = Paper
    OBVIOUS
  <1>2. /\ size \in Nat /\ k \in Nat /\ depth \in Nat /\ (size = 0 => depth = 0)
        /\ HistoryOK /\ Height \in Nat /\ k <= Height
    BY <1>1, HeightType DEF Inv, HistoryOK, Rows, Greatest
  <1>5. FullDepth = size - 2
    BY <1>1, PushType DEF FullDepth, Inv
  <1>3. CASE size = 0
    <2>1. mScrollBuffer' = mScrollBuffer /\ mDepth' = 0 /\ mDepth = 0
      BY <1>1, <1>2, <1>3 DEF Push, historyVars
    <2>2. /\ 0 <= 0 + k /\ Len(mScrollBuffer) = 0 /\ 0 >= 0 - 2 /\ 1 .. 0 = {}
      BY <1>1, <1>2, <1>3
    <2> QED BY <1>1, <1>3, <1>5, <2>1, <2>2 DEF KeepsHistory
  <1>4. CASE size # 0
    <2>1. /\ Len(later) = size /\ next <= depth + k
          /\ next < depth + k => next >= size - 2
          /\ \A j \in 1 .. next :
               later[(size - next - 1) + j] =
                 IF k + j <= next THEN buffer[(size - next - 1) + k + j]
                 ELSE rows[k - next + j]
      BY <1>1, <1>2, <1>4, PushKeeps
    <2>2. /\ next \in Nat
          /\ \A j \in 1 .. depth : old[j] = buffer[(size - depth - 1) + j]
          /\ \A j \in 1 .. k : old[depth + j] = rows[j]
      <3>1. next \in Nat
        BY <1>1, <1>2, PushType
      <3>2. /\ \A j \in 1 .. depth : old[j] = buffer[(size - depth - 1) + j]
            /\ \A j \in 1 .. Height : old[depth + j] = mCells[j]
        BY <1>1, PaperRows DEF PaperIs
      <3>3. \A j \in 1 .. k : j \in 1 .. Height
        BY <1>2
      <3> QED BY <1>1, <3>1, <3>2, <3>3
    <2>3. ASSUME NEW j \in 1 .. next
          PROVE  later[(size - next - 1) + j] = old[(depth + k - next) + j]
      <3>1. PICK p, q, r :
              /\ p = (size - next - 1) + k + j
              /\ q = k - next + j
              /\ r = (depth + k - next) + j
        OBVIOUS
      <3>2. later[(size - next - 1) + j] = IF k + j <= next THEN buffer[p] ELSE rows[q]
        BY <2>1, <3>1
      <3>3. CASE k + j <= next
        <4>1. r \in 1 .. depth /\ (size - depth - 1) + r = p
          BY <1>2, <2>1, <2>2, <3>1, <3>3
        <4>2. old[r] = buffer[p]
          BY <2>2, <4>1
        <4> QED BY <3>1, <3>2, <3>3, <4>2, Zenon
      <3>4. CASE ~(k + j <= next)
        <4>1. q \in 1 .. k /\ depth + q = r
          <5>1. k \in Nat /\ depth \in Nat /\ next \in Nat
            BY <1>2, <2>2
          <5> QED BY <3>1, <3>4, <5>1
        <4>2. old[r] = rows[q]
          BY <2>2, <4>1
        <4> QED BY <3>1, <3>2, <3>4, <4>2, Zenon
      <3> QED BY <3>3, <3>4
    <2> QED BY <1>1, <1>5, <2>1, <2>3, Zenon DEF KeepsHistory
  <1> QED BY <1>3, <1>4

\* komportemulation.cpp:1086-1096: a line feed at the bottom of the whole screen.
LEMMA IndexRolls ==
  ASSUME Inv, IsWholeScreen, AtBottomMargin(mCursor.y), Index
  PROVE  Rolls(1, 1)
  <1>1. mCells' = Append(Tail(mCells), BlankRow) /\ Push(<<Head(mCells)>>)
    BY DEF Index, IndexFrom, ScrollUp
  <1>2. /\ mCells \in Seq(Row) /\ Len(mCells) = Height /\ Height \in Nat \ {0}
        /\ mCells # <<>>
    BY HeightType DEF Rows
  <1>3. PICK top, rest : top = Head(mCells) /\ rest = Tail(mCells)
    OBVIOUS
  <1>4. /\ top = mCells[1] /\ top \in Row /\ rest \in Seq(Row) /\ Len(rest) = Height - 1
        /\ \A j \in 1 .. Height - 1 : rest[j] = mCells[j + 1]
    BY <1>2, <1>3
  <1>5. KeepsHistory(1)
    <2>1. PICK rows : rows = <<top>>
      OBVIOUS
    <2>2. /\ rows \in Rows /\ Len(rows) = 1 /\ rows[1] = mCells[1]
          /\ \A i \in 1 .. 1 : i = 1
      BY <1>4, <2>1 DEF Rows
    <2>3. Push(rows) /\ Len(rows) <= Height /\ \A i \in 1 .. Len(rows) : rows[i] = mCells[i]
      BY <1>1, <1>2, <1>3, <2>1, <2>2
    <2> QED BY <2>2, <2>3, PushOfTop
  <1>6. ShiftsScreen(1, 1)
    <2>1. /\ mCells' \in Seq(Row) /\ Len(mCells') = Height
          /\ mCells'[Height] = BlankRow
          /\ \A j \in 1 .. Height - 1 : mCells'[j] = rest[j]
      BY <1>1, <1>2, <1>3, <1>4, BlankRowType
    <2>2. Height' = Height
      BY <2>1 DEF Height
    <2>3. ASSUME NEW j \in 1 .. Height
          PROVE  mCells'[j] = IF j <= Height - 1 THEN mCells[1 + j] ELSE BlankRow
      <3>1. CASE j <= Height - 1
        <4>1. j \in 1 .. Height - 1 /\ j + 1 = 1 + j
          BY <1>2, <3>1
        <4> QED BY <1>4, <2>1, <3>1, <4>1
      <3>2. CASE ~(j <= Height - 1)
        BY <1>2, <2>1, <3>2
      <3> QED BY <3>1, <3>2
    <2> QED BY <1>2, <2>2, <2>3 DEF ShiftsScreen
  <1> QED BY <1>5, <1>6 DEF Rolls

\* komportview.cpp:559-579: the window has more rows, or fewer.
LEMMA ResizeRolls ==
  ASSUME Inv, NEW rows \in Heights, ResizeGridRows(rows)
  PROVE  \E k, n \in Nat : Rolls(k, n)
  <1>1. PICK h, k, n : /\ h = Height /\ k = Greatest(0, h - rows)
                       /\ n = Greatest(0, rows - h)
    OBVIOUS
  <1>2. /\ h \in Nat \ {0} /\ rows \in Nat \ {0} /\ k \in 0 .. h - 1 /\ n \in Nat
        /\ h - k + n = rows /\ k <= h /\ n <= rows
    BY <1>1, HeightType DEF Greatest
  <1>3. PICK cells, top, kept, blanks :
          /\ cells = mCells /\ top = SubSeq(cells, 1, k) /\ kept = SubSeq(cells, k + 1, h)
          /\ blanks = Blanks(n)
    OBVIOUS
  <1>4. Push(top) /\ mCells' = kept \o blanks
    BY <1>1, <1>3 DEF ResizeGridRows
  <1>5. cells \in Seq(Row) /\ Len(cells) = h /\ \A i \in 1 .. h : cells[i] \in Row
    BY <1>1, <1>3, HeightType DEF Rows
  <1>6. /\ top \in Seq(Row) /\ Len(top) = k
        /\ \A i \in 1 .. k : top[i] = cells[i]
    BY <1>2, <1>3, <1>5
  <1>7. /\ kept \in Seq(Row) /\ Len(kept) = h - k
        /\ \A i \in 1 .. h - k : kept[i] = cells[k + i]
    <2>1. PICK first : first = k + 1
      OBVIOUS
    <2>2. /\ first \in Int /\ h \in Int /\ first <= h /\ h - first + 1 = h - k
          /\ \A i \in first .. h : cells[i] \in Row
      BY <1>2, <1>5, <2>1
    <2>3. /\ kept \in Seq(Row) /\ Len(kept) = h - k
          /\ \A i \in 1 .. h - first + 1 : kept[i] = cells[first + i - 1]
      BY <1>3, <2>1, <2>2, SubSeqProperties
    <2>4. ASSUME NEW i \in 1 .. h - k PROVE kept[i] = cells[k + i]
      <3>1. first + i - 1 = k + i
        BY <1>2, <2>1
      <3> QED BY <2>2, <2>3, <3>1
    <2> QED BY <2>3, <2>4
  <1>8. /\ blanks \in Seq(Row) /\ Len(blanks) = n
        /\ \A i \in 1 .. n : blanks[i] = BlankRow
    BY <1>2, <1>3, BlanksType DEF Rows, Blanks
  <1>9. KeepsHistory(k)
    <2>1. top \in Rows /\ Push(top) /\ Len(top) = k /\ Len(top) <= Height
      BY <1>1, <1>2, <1>4, <1>6 DEF Rows
    <2>2. \A i \in 1 .. Len(top) : top[i] = mCells[i]
      BY <1>3, <1>6
    <2>3. KeepsHistory(Len(top))
      BY <2>1, <2>2, PushOfTop
    <2> QED BY <2>1, <2>3
  <1>10. ShiftsScreen(k, n)
    <2>1. /\ kept \o blanks \in Seq(Row) /\ Len(kept \o blanks) = Len(kept) + Len(blanks)
          /\ \A i \in 1 .. Len(kept) + Len(blanks) : (kept \o blanks)[i] =
               IF i <= Len(kept) THEN kept[i] ELSE blanks[i - Len(kept)]
      BY <1>7, <1>8, ConcatProperties, Zenon
    <2>2. Height' = rows
      BY <1>2, <1>4, <1>7, <1>8, <2>1 DEF Height
    <2>3. ASSUME NEW j \in 1 .. rows
          PROVE  mCells'[j] = IF j <= h - k THEN cells[k + j] ELSE BlankRow
      <3>1. mCells'[j] = IF j <= h - k THEN kept[j] ELSE blanks[j - (h - k)]
        BY <1>2, <1>4, <1>7, <1>8, <2>1
      <3>2. CASE j <= h - k
        BY <1>7, <3>1, <3>2
      <3>3. CASE ~(j <= h - k)
        <4>1. j - (h - k) \in 1 .. n
          BY <1>2, <3>3
        <4> QED BY <1>8, <3>1, <3>3, <4>1
      <3> QED BY <3>2, <3>3
    <2> QED BY <1>1, <1>2, <1>3, <2>2, <2>3 DEF ShiftsScreen
  <1> QED BY <1>2, <1>9, <1>10 DEF Rolls

\* A smaller history, or a larger one before there is any.
LEMMA SetScrollBufferRolls ==
  ASSUME Inv, NEW size \in BufferSizes, SetScrollBuffer(size),
         mDepth = 0 \/ size < Len(mScrollBuffer)
  PROVE  Rolls(0, 0)
  <1>1. PICK old, buffer, later, depth, next, paper :
          /\ buffer = mScrollBuffer /\ later = mScrollBuffer' /\ old = Len(buffer)
          /\ depth = mDepth /\ next = mDepth' /\ paper = Paper
    OBVIOUS
  <1>2. /\ size \in Nat /\ old \in Nat /\ depth \in Nat /\ buffer \in Seq(Row)
        /\ (depth = 0 \/ depth <= old - 1)
        /\ \A i \in 1 .. old : buffer[i] \in Row
    BY <1>1 DEF Inv, HistoryOK, Rows, Greatest
  <1>3. next = Capped(depth, size) /\ mCells' = mCells
    BY <1>1 DEF SetScrollBuffer, screenVars
  <1>4. /\ next \in Nat /\ next <= depth /\ (next < depth => next >= size - 1)
        /\ (next = 0 \/ next <= size - 1)
    BY <1>2, <1>3 DEF Capped, Greatest
  <1>5. Len(later) = size
    BY <1>1, SetScrollBufferType
  <1>6. ASSUME NEW j \in 1 .. next
        PROVE  later[(size - next - 1) + j] = paper[(depth - next) + j]
    <2>1. size < old /\ next <= size - 1 /\ depth <= old - 1
      BY <1>1, <1>2, <1>4
    <2>2. PICK first : first = old - size + 1
      OBVIOUS
    <2>3. first \in Int /\ old \in Int /\ \A i \in first .. old : buffer[i] \in Row
      BY <1>2, <2>1, <2>2
    <2>4. later = SubSeq(buffer, first, old)
      BY <1>1, <2>1, <2>2 DEF SetScrollBuffer
    <2>5. \A i \in 1 .. old - first + 1 : later[i] = buffer[first + i - 1]
      BY <2>3, <2>4, SubSeqProperties
    <2>6. PICK i, p, r :
            /\ i = (size - next - 1) + j
            /\ p = (old - next - 1) + j
            /\ r = (depth - next) + j
      OBVIOUS
    <2>7. /\ i \in 1 .. old - first + 1 /\ first + i - 1 = p
          /\ r \in 1 .. depth /\ (old - depth - 1) + r = p
      BY <1>2, <1>4, <2>1, <2>2, <2>6
    <2>8. \A k \in 1 .. depth : paper[k] = buffer[(old - depth - 1) + k]
      BY <1>1, PaperRows DEF PaperIs
    <2>9. later[i] = buffer[p] /\ paper[r] = buffer[p]
      BY <2>5, <2>7, <2>8
    <2> QED BY <2>6, <2>9, Zenon
  <1>7. KeepsHistory(0)
    <2>1. depth + 0 = depth
      BY <1>2
    <2>2. /\ next <= depth + 0 /\ (next < depth + 0 => next >= size - 1)
          /\ \A j \in 1 .. next :
               later[(size - next - 1) + j] = paper[(depth + 0 - next) + j]
      <3>1. \A j \in 1 .. next :
               later[(size - next - 1) + j] = paper[(depth - next) + j]
        BY <1>6
      <3>2. next <= depth + 0 /\ (next < depth + 0 => next >= size - 1)
        BY <1>4, <2>1
      <3>3. depth + 0 - next = depth - next
        <4>1. depth \in Nat /\ next \in Nat
          BY <1>2, <1>4
        <4> QED BY <4>1
      <3> QED BY <3>1, <3>2, <3>3
    <2>3. mDepth' = next /\ mDepth = depth /\ mScrollBuffer' = later /\ Paper = paper
          /\ Len(mScrollBuffer') = size
      BY <1>1, <1>5
    <2>4. FullDepth = size - 1
      BY <1>1, <1>5 DEF FullDepth, SetScrollBuffer
    <2> QED BY <2>2, <2>3, <2>4, Zenon DEF KeepsHistory
  <1>8. ShiftsScreen(0, 0)
    <2>1. Height' = Height /\ Height \in Nat
      BY <1>3, HeightType DEF Height
    <2>2. Height - 0 + 0 = Height /\ 0 <= Height /\ Height - 0 = Height
          /\ \A j \in 1 .. Height : 0 + j = j /\ j <= Height
      BY <2>1
    <2> QED BY <1>3, <2>1, <2>2 DEF ShiftsScreen
  <1> QED BY <1>7, <1>8 DEF Rolls

\* Nothing else changes the number of rows of the screen, or of the buffer.
LEMMA WhoResizes ==
  ASSUME Inv, Next, Height' # Height
  PROVE  \E rows \in Heights : ResizeGridRows(rows)
  <1>1. ASSUME NEW glyph \in Glyphs, DrawChar(glyph) PROVE FALSE
    BY <1>1, DrawCharInv DEF ScreenStep
  <1>2. ~Motion
    <2>1. RestoreCursor => Height' = Height
      BY DEF RestoreCursor, MoveCursor, Height
    <2> QED BY <2>1, MotionInv DEF ScreenStep
  <1>3. ~Erasure /\ ~Scrolling /\ ~Modes
    BY ErasureInv, ScrollingInv, ModesInv DEF ScreenStep
  <1>4. View
    BY <1>1, <1>2, <1>3 DEF Next
  <1> QED BY <1>4, SetScrollBufferInv, ScrollInv, KeyPressInv DEF View, ScreenStep

LEMMA IndexFromSize ==
  ASSUME Inv, NEW cells \in Rows, Len(cells) = Height, NEW x, NEW y, IndexFrom(cells, x, y)
  PROVE  Len(mScrollBuffer') = Len(mScrollBuffer)
  <1>1. CASE NothingScrolls
    BY <1>1 DEF NothingScrolls, historyVars
  <1>2. CASE ScrollUp(cells)
    <2>1. cells \in Seq(Row) /\ cells # <<>>
      BY HeightType DEF Rows
    <2>2. PICK top : top = <<Head(cells)>>
      OBVIOUS
    <2>3. top \in Rows
      BY <2>1, <2>2 DEF Rows
    <2>4. Push(top)
      BY <1>2, <2>2 DEF ScrollUp
    <2> QED BY <2>3, <2>4, PushType DEF Inv
  <1> QED BY <1>1, <1>2 DEF IndexFrom

LEMMA WhoResizesHistory ==
  ASSUME Inv, Next, Len(mScrollBuffer') # Len(mScrollBuffer)
  PROVE  \E size \in BufferSizes : SetScrollBuffer(size)
  <1>1. /\ ~NothingScrolls /\ ~UNCHANGED historyVars
        /\ \A cells \in Rows : \A x, y : Len(cells) = Height => ~IndexFrom(cells, x, y)
    BY IndexFromSize DEF NothingScrolls, historyVars
  <1>2. \A cells, position, row :
          ~ChangeCells(cells) /\ ~MoveCursor(position) /\ ~ChangeCursorRow(row) /\ ~Crash
    BY <1>1 DEF ChangeCells, MoveCursor, ChangeCursorRow, Crash
  <1>3. ASSUME NEW glyph \in Glyphs, DrawChar(glyph) PROVE FALSE
    <2>1. OnGrid(mCursor) /\ Drawn(glyph)
      BY <1>2, <1>3 DEF DrawChar
    <2> DEFINE cells == WithRow(mCursor.y, DrawnRow(glyph))
    <2>2. cells \in Rows /\ Len(cells) = Height
      <3>1. DrawnRow(glyph) \in Row
        BY <2>1, DrawnRowType
      <3> QED BY <2>1, <3>1, HeightType DEF WithRow, OnGrid, Rows
    <2>3. NothingScrolls \/ IndexFrom(cells, 0, mCursor.y)
      BY <2>1 DEF Drawn
    <2> HIDE DEF cells
    <2> QED BY <1>1, <2>2, <2>3
  <1>4. ~Motion
    BY <1>1, <1>2 DEF Motion, CursorTo, CursorUp, CursorDown, CursorLeft, CursorRight,
       CarriageReturn, Tabulate, SaveCursor, RestoreCursor
  <1>5. ~Erasure
    BY <1>2 DEF Erasure, ClearEOL, ClearScreen, DeleteChar
  <1>6. ~Scrolling
    <2>1. ~Index /\ ~NextLine
      BY <1>1, HeightType DEF Index, NextLine
    <2> QED BY <1>2, <2>1 DEF Scrolling, ReverseIndex, InsertLine, DeleteLine
  <1>7. ~Modes
    BY <1>1 DEF Modes, SetInsertMode, SetScrollRegion, Reset
  <1>8. ASSUME NEW rows \in Heights, ResizeGridRows(rows) PROVE FALSE
    <2>1. PICK n, top : n = Greatest(0, Height - rows) /\ top = SubSeq(mCells, 1, n)
      OBVIOUS
    <2>2. n \in Int /\ \A i \in 1 .. n : mCells[i] \in Row
      BY <2>1, HeightType DEF Greatest, Rows
    <2>3. top \in Rows
      BY <2>1, <2>2, SubSeqProperties DEF Rows
    <2>4. Push(top)
      BY <1>8, <2>1 DEF ResizeGridRows
    <2> QED BY <2>3, <2>4, PushType DEF Inv
  <1>9. View
    BY <1>3, <1>4, <1>5, <1>6, <1>7 DEF Next
  <1> QED BY <1>1, <1>8, <1>9 DEF View, Scroll, KeyPress

\* komportemulation.cpp:1086-1096, komportview.cpp:559-579: for every size of the
\* screen and of its history, feeding the whole screen a line, resizing the window
\* and resizing the history keep the text in order, and lose of it only its oldest
\* rows: a resized history those that its height less one cannot hold, a push those
\* beyond the height less two, which is where scrollUp() pins the depth.
THEOREM KeptText == Spec => TextIsKept
  <1>1. ASSUME Inv, Inv', Next, Feeds
        PROVE  Keeps(FullDepth)
    <2>1. \E k, n \in Nat : Rolls(k, n)
      <3>1. CASE IsWholeScreen /\ AtBottomMargin(mCursor.y) /\ Index
        BY <1>1, <3>1, IndexRolls
      <3>2. CASE Height' # Height
        BY <1>1, <3>2, WhoResizes, ResizeRolls
      <3>3. CASE /\ Len(mScrollBuffer') # Len(mScrollBuffer)
                 /\ mDepth = 0 \/ Len(mScrollBuffer') < Len(mScrollBuffer)
        <4>1. PICK size \in BufferSizes : SetScrollBuffer(size)
          BY <1>1, <3>3, WhoResizesHistory
        <4>2. Len(mScrollBuffer') = size
          BY <1>1, <4>1, SetScrollBufferType
        <4>3. Rolls(0, 0)
          BY <1>1, <3>3, <4>1, <4>2, SetScrollBufferRolls
        <4> QED BY <4>3
      <3> QED BY <1>1, <3>1, <3>2, <3>3 DEF Feeds
    <2> QED BY <1>1, <2>1, RollKeeps
  <1>2. Inv /\ Inv' /\ [Next]_vars => [Feeds => Keeps(FullDepth)]_vars
    BY <1>1
  <1>3. QED BY <1>2, Invariance, PTL DEF Spec, TextIsKept
=============================================================================
