SPECIFICATION Spec
CONSTANTS
  Width = 2
  Heights <- MCHeights
  BufferSizes <- MCBufferSizes
  Glyphs <- MCGlyphs
  Blank <- MCBlank
  Unbounded = 9
  Params <- MCParams
  MaxDrawn = 2
CHECK_DEADLOCK FALSE
INVARIANTS
  EveryDrawHasACell
