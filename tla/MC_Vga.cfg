\* Two tab stops per row (16 columns) and two rows, so that tabs, wraps and
\* scrolls all happen; one printable character, and a control code that writech drops;
\* strings of up to two characters.
CONSTANTS
  BS = bs
  TAB = tab
  CR = cr
  LF = lf
  COLS = 16
  ROWS = 2
  Chars = {a, ctl, bs, tab, cr, lf}
  Printable = {a}
  MaxStr = 2
  FgArgs = {7, 15}
  BgArgs = {0}
  ColorArgs = {3, 17}
  Garbage = {0}
SPECIFICATION Spec
INVARIANTS
  TypeOK
  CursorOnScreen
