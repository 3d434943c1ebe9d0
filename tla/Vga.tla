-------------------------------- MODULE Vga ---------------------------------
(***************************************************************************)
(* The VGA text console of src/kernel/misc/vga.c: the software cursor      *)
(* csr_x/csr_y, its saved copy, the output switches and the text           *)
(* attribute.  move_csr only writes the cursor cell to ports 0x3D4/0x3D5;  *)
(* that port output is left out.                                           *)
(*                                                                         *)
(* The screen's cells are not kept: every write goes to the cell under the *)
(* cursor (writech, writechf) or to a cell the caller names (vga_set_cell),*)
(* so what decides whether a write stays in the 80x25 buffer is where the  *)
(* cursor is.  COLS and ROWS stand for the code's 80 and 25; the tab stop  *)
(* of 8 is the code's.  Each call runs to completion: the console has no   *)
(* lock and the model takes its callers one at a time.                     *)
(***************************************************************************)
EXTENDS Integers, Sequences, SequencesExt

CONSTANTS
  COLS, ROWS,   \* text columns and rows (80 and 25 in the code)
  Chars,        \* characters a caller writes (model values and the codes below)
  Printable,    \* the subset of Chars that are >= ' ' as a signed char
  BS, TAB, CR, LF,
  MaxStr,       \* longest string passed to puts or vga_print
  FgArgs,       \* foreground and background arguments of settextcolor
  BgArgs,
  ColorArgs,    \* arguments of vga_set_color
  Garbage       \* what the byte after vga_to_ansi[] may hold

ASSUME /\ COLS \in Nat \ {0} /\ ROWS \in Nat \ {0}
       /\ {BS, TAB, CR, LF} \subseteq Chars /\ Printable \subseteq Chars

\* vga_to_ansi[]: VGA colour numbers to ANSI ones, 16 entries.
VgaToAnsi == <<0, 4, 2, 6, 1, 5, 3, 7, 8, 12, 10, 14, 9, 13, 11, 15>>

VARIABLES
  csr_x, csr_y,          \* software cursor
  old_x, old_y,          \* store_csr's copy of it
  use_serial, use_csr,   \* output switches
  old_s, old_csr,        \* store_csr's copy of them
  attrib                 \* text attribute byte

vars == <<csr_x, csr_y, old_x, old_y, use_serial, use_csr, old_s, old_csr, attrib>>

-----------------------------------------------------------------------------
(* The cursor as writech sees it: a record threaded through the helpers    *)
(* so that puts and vga_print can fold writech over a string.              *)

\* Mutant: scroll tests csr_y > 25, one row late.
ScrollLate(s) == IF s.y > ROWS THEN [s EXCEPT !.y = ROWS - 1] ELSE s

\* scroll: with the cursor on or below the last row, the text moves up by
\* csr_y - ROWS + 1 lines and the cursor goes to the last row.
Scroll(s) == IF s.y >= ROWS THEN [s EXCEPT !.y = ROWS - 1] ELSE s

\* The wrap shared by writech and writechf.
Wrap(s) == IF s.x >= COLS THEN [s EXCEPT !.x = 0, !.y = @ + 1] ELSE s

\* Mutant: backspace decrements csr_x without its csr_x != 0 test.
WriteChBackspaceUnguarded(s, c) ==
  LET t == CASE c = BS  -> [s EXCEPT !.x = @ - 1]
             [] c = TAB -> [s EXCEPT !.x = ((@ + 8) \div 8) * 8]
             [] c = CR  -> [s EXCEPT !.x = 0]
             [] c = LF  -> [s EXCEPT !.x = 0, !.y = @ + 1]
             [] c \in Printable -> [s EXCEPT !.x = @ + 1]
             [] OTHER   -> s
  IN Scroll(Wrap(t))

\* writech(c): backspace, tab to the next multiple of 8, carriage return,
\* newline, or a printable character stored under the cursor; anything
\* else (control codes, bytes >= 0x80 that are negative as char) is
\* dropped.  Then wrap and scroll.
WriteCh(s, c) ==
  LET t == CASE c = BS  -> [s EXCEPT !.x = IF @ # 0 THEN @ - 1 ELSE @]
             [] c = TAB -> [s EXCEPT !.x = ((@ + 8) \div 8) * 8]
             [] c = CR  -> [s EXCEPT !.x = 0]
             [] c = LF  -> [s EXCEPT !.x = 0, !.y = @ + 1]
             [] c \in Printable -> [s EXCEPT !.x = @ + 1]
             [] OTHER   -> s
  IN Scroll(Wrap(t))

Cursor == [x |-> csr_x, y |-> csr_y]

SetCursor(s) == csr_x' = s.x /\ csr_y' = s.y

Strings == UNION {[1 .. n -> Chars] : n \in 0 .. MaxStr}

-----------------------------------------------------------------------------
(* Operations                                                              *)

Writech(c) ==
  /\ SetCursor(WriteCh(Cursor, c))
  /\ UNCHANGED <<old_x, old_y, use_serial, use_csr, old_s, old_csr, attrib>>

\* writechf: placech at the cursor whatever c is, then advance, wrap and
\* scroll.
Writechf ==
  /\ SetCursor(Scroll(Wrap([Cursor EXCEPT !.x = @ + 1])))
  /\ UNCHANGED <<old_x, old_y, use_serial, use_csr, old_s, old_csr, attrib>>

\* puts: writech over the strlen(text) characters.
Puts(text) ==
  /\ SetCursor(FoldLeft(WriteCh, Cursor, text))
  /\ UNCHANGED <<old_x, old_y, use_serial, use_csr, old_s, old_csr, attrib>>

\* vga_print: writech over the buffer up to its NUL; len is only returned.
VgaPrint(buffer) ==
  /\ SetCursor(FoldLeft(WriteCh, Cursor, buffer))
  /\ UNCHANGED <<old_x, old_y, use_serial, use_csr, old_s, old_csr, attrib>>

\* place_csr and vga_set_csr: the cursor goes to (x, y).
PlaceCsr(x, y) ==
  /\ SetCursor([x |-> x, y |-> y])
  /\ UNCHANGED <<old_x, old_y, use_serial, use_csr, old_s, old_csr, attrib>>

\* cls: every row blanked with the current attribute, the cursor home.
Cls ==
  /\ SetCursor([x |-> 0, y |-> 0])
  /\ UNCHANGED <<old_x, old_y, use_serial, use_csr, old_s, old_csr, attrib>>

\* init_video: textmemptr set to 0xB8000 and cls; its own csr_y = 0 and
\* move_csr repeat what cls did, so the step is cls's.
InitVideo == Cls

SetSerial(on) ==
  /\ use_serial' = on
  /\ UNCHANGED <<csr_x, csr_y, old_x, old_y, use_csr, old_s, old_csr, attrib>>

SetCsr(on) ==
  /\ use_csr' = on
  /\ UNCHANGED <<csr_x, csr_y, old_x, old_y, use_serial, old_s, old_csr, attrib>>

StoreCsr ==
  /\ old_x' = csr_x /\ old_y' = csr_y /\ old_s' = use_serial /\ old_csr' = use_csr
  /\ UNCHANGED <<csr_x, csr_y, use_serial, use_csr, attrib>>

\* restore_csr puts the saved cursor and switches back.
RestoreCsr ==
  /\ csr_x' = old_x /\ csr_y' = old_y /\ use_serial' = old_s /\ use_csr' = old_csr
  /\ UNCHANGED <<old_x, old_y, old_s, old_csr, attrib>>

\* settextcolor (and resettextcolor, brighttextcolor).
Settextcolor(fore, back) ==
  /\ attrib' = back * 16 + (fore % 16)
  /\ UNCHANGED <<csr_x, csr_y, old_x, old_y, use_serial, use_csr, old_s, old_csr>>

\* vga_set_color: arguments above 16 become 7, then both are looked up in
\* vga_to_ansi[]; index 16 reads the byte after the table.
VgaSetColor(fg, bg) ==
  LET Clamp(c) == IF c > 16 THEN 7 ELSE c
      Lookup(i) == IF i < 16 THEN {VgaToAnsi[i + 1]} ELSE Garbage
  IN \E f \in Lookup(Clamp(fg)), b \in Lookup(Clamp(bg)) :
       Settextcolor(f, b)

-----------------------------------------------------------------------------
\* The statics' initial values.
Init ==
  /\ csr_x = 0 /\ csr_y = 0 /\ old_x = 0 /\ old_y = 0
  /\ use_serial = 1 /\ use_csr = 1 /\ old_s = 1 /\ old_csr = 1
  /\ attrib = 15

Next ==
  \/ \E c \in Chars : Writech(c)
  \/ Writechf
  \/ \E s \in Strings : Puts(s) \/ VgaPrint(s)
  \/ \E x \in 0 .. COLS - 1, y \in 0 .. ROWS - 1 : PlaceCsr(x, y)
  \/ Cls
  \/ InitVideo
  \/ \E on \in {0, 1} : SetSerial(on) \/ SetCsr(on)
  \/ StoreCsr
  \/ RestoreCsr
  \/ \E f \in FgArgs, b \in BgArgs : Settextcolor(f, b)
  \/ \E f, b \in ColorArgs : VgaSetColor(f, b)

Spec == Init /\ [][Next]_vars

-----------------------------------------------------------------------------
(* Properties                                                              *)

TypeOK ==
  /\ {csr_x, csr_y, old_x, old_y} \subseteq Nat
  /\ {use_serial, use_csr, old_s, old_csr} \subseteq {0, 1}
  /\ attrib \in Nat

\* Between calls the cursor, and the copy store_csr keeps of it, is on the
\* screen, so the next writech, writechf or puts stores its character
\* inside the ROWS x COLS text buffer: tabs, wraps at the right edge,
\* newlines on the last row and restores of a stale copy included.
CursorOnScreen ==
  /\ csr_x < COLS /\ csr_y < ROWS
  /\ old_x < COLS /\ old_y < ROWS

=============================================================================
