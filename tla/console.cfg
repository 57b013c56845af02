SPECIFICATION Spec
CONSTANTS
  Thread = {t1, t2}
  Char = {"a", "b"}
  BufRows = 2
  Rows = 4
  Columns = 2
  MaxOut = 8
  MaxShared = 5
  Word = 16
CHECK_DEADLOCK FALSE
SYMMETRY Symmetry
INVARIANT TypeOK
INVARIANT ScreenShowsText
INVARIANT GlyphsInBuffer
