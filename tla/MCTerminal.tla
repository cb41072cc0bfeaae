----------------------------- MODULE MCTerminal -----------------------------
(* Terminal on a very small window.                                        *)
EXTENDS Terminal

\* Two columns wrap; a screen of two or three rows has regions of every shape.
MCHeights     == {2, 3}
MCBufferSizes == {0, 1, 3}
MCGlyphs      == {"a"}
MCBlank       == " "

\* A missing parameter, the first and second row, and one past any screen.
MCParams == {0, 2, 4}
=============================================================================
