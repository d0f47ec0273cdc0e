----------------------------- MODULE Terminal -----------------------------
(* The frame-buffer terminal (src/system/kernel/Terminal.c): where each     *)
(* character is drawn, how the cursor moves, and how the screen scrolls. A  *)
(* screen is a record of the cursor position and of the cells, and of       *)
(* whether it has scrolled (for its users to look at, and reset); a cell is *)
(* the set of the glyphs drawn over each other in it, because drawing sets  *)
(* the glyph's own pixels and clears no others. Pixels and colours are left *)
(* out.                                                                     *)
EXTENDS Integers, SequencesExt

CONSTANTS
    Columns,   \* MaximumCharactersPerRow
    Rows       \* MaximumRows

(* With one column the character that scrolls the screen would fill it.     *)
ASSUME SizeAssumption == Columns \in Nat /\ Columns >= 2 /\ Rows \in Nat /\ Rows >= 2

Capacity == Columns * Rows
Cells    == 0 .. Capacity - 1
LastRow  == (Rows - 1) * Columns   \* the first cell of the last row

(* The characters that do not draw a glyph of their own.                    *)
Backspace == "BS"
Newline   == "NL"
Tab       == "TAB"
Space     == " "

(* Position is a u64, and a backspace at 0 wraps it: OffScreen stands for   *)
(* 2^64 - 1, a cell far outside of the frame buffer.                        *)
OffScreen == -1

BlankScreen == [Position |-> 0, scrolled |-> FALSE, cells |-> [c \in Cells |-> {}]]

TerminalClear(screen) ==
    [screen EXCEPT !.Position = 0, !.cells = [c \in Cells |-> {}]]

Glyph(char) == IF char \in {Space, Newline} THEN {} ELSE {char}

Draw(cells, cell, char) == [cells EXCEPT ![cell] = @ \cup Glyph(char)]

(* Every row moves up by one and the last is blanked.                       *)
ScrollUp(cells) ==
    [c \in Cells |-> IF c < LastRow THEN cells[c + Columns] ELSE {}]

(* '\b' steps back and blanks the cell it steps onto.                       *)
PutBackspace(screen) ==
    [screen EXCEPT
        !.Position = @ - 1,
        !.cells = [c \in Cells |-> IF c = screen.Position - 1 THEN {} ELSE @[c]]]

NextPosition(screen, char) ==
    IF char = Newline THEN (screen.Position \div Columns + 1) * Columns
    ELSE screen.Position + 1

(* The screen scrolls when the cursor would leave it, before the character  *)
(* is drawn, so that nothing is ever drawn in the last cell.                *)
AtEnd(screen, char) == NextPosition(screen, char) >= Capacity

(* One character, other than a tab.                                         *)
PutPlain(screen, char) ==
    IF char = Backspace THEN PutBackspace(screen)
    ELSE IF ~AtEnd(screen, char) THEN
        [screen EXCEPT
            !.Position = NextPosition(screen, char),
            !.cells = Draw(@, screen.Position, char)]
    ELSE
        [Position |-> IF char = Newline THEN LastRow ELSE LastRow + 1,
         cells |-> Draw(ScrollUp(screen.cells), LastRow, char),
         scrolled |-> TRUE]

(* Printing a text, one character at a time: screen and the text that is    *)
(* still to be printed, before and after. A tab is four spaces.             *)
TerminalPutChar(before, after, text, rest) ==
    IF Head(text) = Tab
    THEN after = before /\ rest = <<Space, Space, Space, Space>> \o Tail(text)
    ELSE after = PutPlain(before, Head(text)) /\ rest = Tail(text)

=============================================================================
