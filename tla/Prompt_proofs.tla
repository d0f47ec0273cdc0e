--------------------------- MODULE Prompt_proofs ---------------------------
(* Proofs about the prompt on the terminal, for every screen of two columns *)
(* and rows or more, every size of the line buffer that leaves room on it,  *)
(* and any texts and characters.                                            *)
(*                                                                          *)
(* What is printed reaches the screen one character at a time, and each of  *)
(* them may scroll it. So the invariant says of each place of the prompt    *)
(* what of its text is still to come, and where that will leave the cursor. *)
EXTENDS Prompt, SequenceTheorems, FiniteSetTheorems, WellFoundedInduction, TLAPS

-----------------------------------------------------------------------------
(* The invariant *)

(* What a cell may show: one glyph at most.                                 *)
Contents == {{}} \cup {{char} : char \in Printable}

(* From the cursor on, the screen is empty.                                 *)
IsScreen(s) ==
    /\ s \in [Position : -1 .. Capacity - 1, scrolled : BOOLEAN, cells : [Cells -> Contents]]
    /\ \A c \in Cells : c >= s.Position => s.cells[c] = {}

LineOK ==
    /\ OutBuffer \in [0 .. Size -> Chars \cup {NUL, Foreign}]
    /\ Index \in 0 .. Size
    /\ StartPosition \in Nat
    /\ typed \in Seq(Chars)
    /\ tabbed \in BOOLEAN /\ filled \in BOOLEAN

Texts == Seq(Printable)

EndsInCursor == output \in Texts /\ output # <<>> /\ output[Len(output)] = Cursor

(* The cursor is where the first `shown` characters of the line leave it,   *)
(* once the text that is to come has moved it by `moves`, or by more.       *)
LineIsShown(moves, shown) ==
    /\ screen.Position + moves >= Len(typed) + 1
    /\ ~screen.scrolled => screen.Position + moves >= StartPosition + Len(typed)
    /\ ~screen.scrolled /\ ~tabbed =>
          /\ screen.Position + moves = StartPosition + Len(typed)
          /\ \A i \in 1 .. shown : screen.cells[StartPosition + i - 2] = Glyph(typed[i])

CursorIsShown == screen.cells[screen.Position - 1] = {Cursor}

AtShell == at \in {"Shell", "Stopped"} => output \in Texts /\ screen.Position >= 0

AtBegin ==
    at = "Begin" =>
        /\ Index = 0 /\ typed = <<>> /\ ~tabbed /\ ~filled
        /\ screen.Position >= 0
        /\ EndsInCursor \/ (output = <<>> /\ screen.Position >= 1 /\ CursorIsShown)

(* The texts of InputReadLine, and what is left of them.                    *)
Waiting  == output = <<>> /\ LineIsShown(0, Len(typed)) /\ (~screen.scrolled /\ ~tabbed => CursorIsShown)
Erasing2 == output = <<Backspace, Backspace, Cursor>> /\ LineIsShown(-1, Len(typed))
Erasing1 == output = <<Backspace, Cursor>> /\ LineIsShown(0, Len(typed))
Echoing3 ==
    /\ typed # <<>> /\ output = <<Backspace, typed[Len(typed)], Cursor>>
    /\ typed[Len(typed)] = Tab => tabbed
    /\ LineIsShown(1, Len(typed) - 1)
Echoing2 ==
    /\ typed # <<>> /\ EndsInCursor /\ Len(output) >= 2 /\ screen.Position >= 0
    /\ ~tabbed => output = <<typed[Len(typed)], Cursor>> /\ typed[Len(typed)] # Tab
    /\ LineIsShown(Len(output), Len(typed) - 1)
Echoing1 == output = <<Cursor>> /\ LineIsShown(1, Len(typed))

AtRead ==
    at = "Read" =>
        /\ StartPosition >= 1
        /\ Waiting \/ Erasing2 \/ Erasing1 \/ Echoing3 \/ Echoing2 \/ Echoing1

AtErase ==
    at = "Erase" =>
        /\ StartPosition >= 1
        /\ output \in {<<>>, <<Backspace>>}
        /\ ~screen.scrolled => screen.Position - Len(output) >= StartPosition

AtRun ==
    at = "Run" =>
        /\ output \in {<<>>, <<Newline>>, <<Backspace, Newline>>}
        /\ screen.Position >= 0
        /\ output = <<Backspace, Newline>> => screen.Position >= 1

(* The buffer is full only in a line that has filled it.                    *)
FullIsFilled == at \in {"Read", "Run"} /\ Index = Size => filled

IInv ==
    /\ at \in {"Shell", "Stopped", "Begin", "Read", "Erase", "Run"}
    /\ IsScreen(screen) /\ LineOK
    /\ AtShell /\ AtBegin /\ AtRead /\ AtErase /\ AtRun
    /\ LineIsWhatWasTyped /\ FullIsFilled

-----------------------------------------------------------------------------
(* The terminal *)

LEMMA Sizes ==
    /\ Columns \in Nat /\ Columns >= 2
    /\ LastRow \in Nat /\ LastRow >= Columns
    /\ Capacity \in Nat /\ Capacity = LastRow + Columns
    /\ Cells = 0 .. Capacity - 1
    /\ Size \in Nat /\ Size >= 1 /\ Size < LastRow
<1>1. Columns \in Nat /\ Columns >= 2 /\ Rows \in Nat /\ Rows >= 2
  BY SizeAssumption
<1>2. PICK above \in Nat : Rows = above + 2
  <2>1. Rows - 2 \in Nat /\ Rows = (Rows - 2) + 2
    BY <1>1
  <2>. QED BY <2>1
<1>3. above * Columns \in Nat
  BY <1>1, <1>2
<1>4. (Rows - 1) * Columns = above * Columns + Columns
  BY <1>1, <1>2
<1>5. Columns * Rows = above * Columns + Columns + Columns
  BY <1>1, <1>2
<1>. QED BY <1>1, <1>3, <1>4, <1>5, ScreenAssumption DEF LastRow, Capacity, Cells

(* A line end moves the cursor on, to the beginning of a row.               *)
LEMMA RowsFollow ==
    ASSUME NEW p \in Nat
    PROVE  /\ (p \div Columns + 1) * Columns \in Nat
           /\ (p \div Columns + 1) * Columns > p
<1>1. Columns \in Nat /\ Columns >= 2
  BY Sizes
<1>2. /\ p \div Columns \in Nat /\ p % Columns \in Nat /\ p % Columns < Columns
      /\ p = Columns * (p \div Columns) + (p % Columns)
  BY <1>1
<1>3. (p \div Columns + 1) * Columns = Columns * (p \div Columns) + Columns
  BY <1>1, <1>2
<1>4. Columns * (p \div Columns) \in Nat
  BY <1>1, <1>2
<1>. QED BY <1>1, <1>2, <1>3, <1>4

LEMMA GlyphsAreContents ==
    /\ {} \in Contents
    /\ \A char \in Printable : Glyph(char) \in Contents
BY DEF Contents, Glyph
Screens == [Position : -1 .. Capacity - 1, scrolled : BOOLEAN, cells : [Cells -> Contents]]

LEMMA BackspaceErases ==
    ASSUME NEW s, IsScreen(s), s.Position >= 0, NEW t, t = PutPlain(s, Backspace)
    PROVE  /\ IsScreen(t)
           /\ t.Position = s.Position - 1 /\ t.scrolled = s.scrolled
           /\ \A c \in Cells : c < s.Position - 1 => t.cells[c] = s.cells[c]
<1>1. /\ s \in Screens /\ s.Position \in -1 .. Capacity - 1
      /\ s.scrolled \in BOOLEAN /\ s.cells \in [Cells -> Contents]
      /\ \A c \in Cells : c >= s.Position => s.cells[c] = {}
  BY DEF IsScreen, Screens
<1>. DEFINE cells == [c \in Cells |-> IF c = s.Position - 1 THEN {} ELSE s.cells[c]]
<1>2. t = [s EXCEPT !.Position = s.Position - 1, !.cells = cells]
  BY DEF PutPlain, PutBackspace
<1>3. /\ t.Position = s.Position - 1 /\ t.scrolled = s.scrolled /\ t.cells = cells
      /\ t = [Position |-> s.Position - 1, scrolled |-> s.scrolled, cells |-> cells]
  BY <1>1, <1>2 DEF Screens
<1>4. /\ cells \in [Cells -> Contents]
      /\ \A c \in Cells : cells[c] = IF c = s.Position - 1 THEN {} ELSE s.cells[c]
  BY <1>1, GlyphsAreContents
<1>5. t \in Screens
  BY <1>1, <1>3, <1>4, Sizes DEF Screens
<1>6. \A c \in Cells : c >= s.Position - 1 => cells[c] = {}
  BY <1>1, <1>4, Sizes
<1>. QED BY <1>1, <1>3, <1>4, <1>5, <1>6, Sizes DEF IsScreen, Screens

(* A character that leaves the screen where it is.                          *)
LEMMA CharactersAreDrawn ==
    ASSUME NEW s, IsScreen(s), s.Position >= 0, NEW char \in Printable,
           NEW t, t = PutPlain(s, char), ~AtEnd(s, char)
    PROVE  /\ IsScreen(t)
           /\ t.Position > s.Position /\ t.scrolled = s.scrolled
           /\ char # Newline => t.Position = s.Position + 1
           /\ s.Position \in Cells /\ t.cells[s.Position] = Glyph(char)
           /\ \A c \in Cells : c < s.Position => t.cells[c] = s.cells[c]
<1>1. /\ s \in Screens /\ s.Position \in 0 .. Capacity - 1 /\ s.Position \in Cells
      /\ s.scrolled \in BOOLEAN /\ s.cells \in [Cells -> Contents]
      /\ \A c \in Cells : c >= s.Position => s.cells[c] = {}
  BY Sizes DEF IsScreen, Screens
<1>2. char # Backspace
  BY CharsAssumption
<1>. DEFINE cells == Draw(s.cells, s.Position, char)
            next  == NextPosition(s, char)
<1>3. t = [s EXCEPT !.Position = next, !.cells = cells]
  BY <1>2 DEF PutPlain
<1>4. next \in Nat /\ next > s.Position /\ next < Capacity /\ (char # Newline => next = s.Position + 1)
  <2>1. CASE char = Newline
    <3>1. s.Position \in Nat
      BY <1>1
    <3>2. next = (s.Position \div Columns + 1) * Columns
      BY <2>1 DEF NextPosition
    <3>3. next \in Nat /\ next > s.Position
      BY <3>1, <3>2, RowsFollow
    <3>. QED BY <2>1, <3>3, Sizes DEF AtEnd
  <2>2. CASE char # Newline
    <3>1. next = s.Position + 1
      BY <2>2 DEF NextPosition
    <3>. QED BY <1>1, <2>2, <3>1, Sizes DEF AtEnd
  <2>. QED BY <2>1, <2>2
<1>5. /\ cells \in [Cells -> Contents] /\ cells[s.Position] = Glyph(char)
      /\ \A c \in Cells : c # s.Position => cells[c] = s.cells[c]
  <2>1. s.cells[s.Position] = {}
    BY <1>1, Sizes
  <2>2. s.cells[s.Position] \cup Glyph(char) = Glyph(char)
    BY <2>1
  <2>3. cells = [s.cells EXCEPT ![s.Position] = Glyph(char)]
    BY <2>2 DEF Draw
  <2>4. Glyph(char) \in Contents
    BY GlyphsAreContents
  <2>. QED BY <1>1, <2>3, <2>4
<1>6. /\ t.Position = next /\ t.scrolled = s.scrolled /\ t.cells = cells
      /\ t = [Position |-> next, scrolled |-> s.scrolled, cells |-> cells]
  <2>. HIDE DEF next, cells
  <2>. QED BY <1>1, <1>3 DEF Screens
<1>7. t \in Screens
  <2>. HIDE DEF next, cells
  <2>. QED BY <1>1, <1>4, <1>5, <1>6, Sizes DEF Screens
<1>8. \A c \in Cells : c >= next => cells[c] = {}
  <2>. HIDE DEF next, cells
  <2>. QED BY <1>1, <1>4, <1>5, Sizes
<1>. QED
  <2>. HIDE DEF next, cells
  <2>. QED BY <1>1, <1>4, <1>5, <1>6, <1>7, <1>8, Sizes DEF IsScreen, Screens

(* A character that scrolls the screen begins the last row.                 *)
LEMMA CharactersScroll ==
    ASSUME NEW s, IsScreen(s), s.Position >= 0, NEW char \in Printable,
           NEW t, t = PutPlain(s, char), AtEnd(s, char)
    PROVE  /\ IsScreen(t)
           /\ t.Position >= LastRow /\ t.scrolled
           /\ char # Newline =>
                 t.Position = LastRow + 1 /\ t.cells[t.Position - 1] = Glyph(char)
<1>1. /\ s \in Screens /\ s.cells \in [Cells -> Contents]
      /\ \A c \in Cells : c >= s.Position => s.cells[c] = {}
  BY DEF IsScreen, Screens
<1>2. char # Backspace
  BY CharsAssumption
<1>. DEFINE up    == ScrollUp(s.cells)
            cells == Draw(up, LastRow, char)
            next  == IF char = Newline THEN LastRow ELSE LastRow + 1
<1>3. t = [Position |-> next, cells |-> cells, scrolled |-> TRUE]
  BY <1>2 DEF PutPlain
<1>4. /\ up \in [Cells -> Contents] /\ \A c \in Cells : c >= LastRow => up[c] = {}
      /\ LastRow \in Cells
  <2>1. LastRow \in Cells /\ \A c \in Cells : c < LastRow => c + Columns \in Cells
    BY Sizes
  <2>. QED BY <1>1, <2>1, GlyphsAreContents, Sizes DEF ScrollUp
<1>5. /\ cells \in [Cells -> Contents] /\ cells[LastRow] = Glyph(char)
      /\ \A c \in Cells : c # LastRow => cells[c] = up[c]
  <2>1. up[LastRow] = {}
    BY <1>4, Sizes
  <2>2. up[LastRow] \cup Glyph(char) = Glyph(char)
    BY <2>1
  <2>. HIDE DEF up
  <2>3. cells = [up EXCEPT ![LastRow] = Glyph(char)]
    BY <2>2 DEF Draw
  <2>4. Glyph(char) \in Contents
    BY GlyphsAreContents
  <2>. QED BY <1>4, <2>3, <2>4
<1>6. char = Newline => Glyph(char) = {}
  BY DEF Glyph
<1>. HIDE DEF up, cells
<1>7. \A c \in Cells : c >= next => cells[c] = {}
  BY <1>4, <1>5, <1>6, Sizes
<1>8. next \in -1 .. Capacity - 1 /\ next >= LastRow
  BY Sizes
<1>9. t \in Screens
  BY <1>3, <1>5, <1>8 DEF Screens
<1>. QED BY <1>3, <1>5, <1>7, <1>8, <1>9, Sizes DEF IsScreen, Screens
-----------------------------------------------------------------------------
(* One character reaches the screen *)

ErasesCell ==
    /\ screen'.Position = screen.Position - 1 /\ screen'.scrolled = screen.scrolled
    /\ \A c \in Cells : c < screen.Position - 1 => screen'.cells[c] = screen.cells[c]

Draws(char) ==
    /\ screen'.Position > screen.Position /\ screen'.scrolled = screen.scrolled
    /\ char # Newline => screen'.Position = screen.Position + 1
    /\ screen.Position \in Cells /\ screen'.cells[screen.Position] = Glyph(char)
    /\ \A c \in Cells : c < screen.Position => screen'.cells[c] = screen.cells[c]

Scrolls(char) ==
    /\ screen'.Position >= LastRow /\ screen'.scrolled
    /\ char # Newline => /\ screen'.Position = LastRow + 1
                         /\ screen'.cells[screen'.Position - 1] = Glyph(char)

Spaces == <<Space, Space, Space, Space>>

LEMMA PutCharDoes ==
    ASSUME IsScreen(screen), PutChar, Head(output) \in Printable \cup {Backspace}
    PROVE  /\ at' = at /\ UNCHANGED lineVars /\ IsScreen(screen')
           /\ \/ Head(output) = Tab /\ screen' = screen /\ output' = Spaces \o Tail(output)
              \/ Head(output) = Backspace /\ ErasesCell /\ output' = Tail(output)
              \/ /\ Head(output) \in Printable \ {Tab} /\ output' = Tail(output)
                 /\ Draws(Head(output)) \/ Scrolls(Head(output))
<1>. DEFINE char == Head(output)
<1>1. at' = at /\ UNCHANGED lineVars /\ screen.Position # OffScreen
      /\ TerminalPutChar(screen, screen', output, output')
  BY DEF PutChar
<1>2. screen.Position >= 0
  BY <1>1, Sizes DEF IsScreen, OffScreen
<1>3. CASE char = Tab
  BY <1>1, <1>3 DEF TerminalPutChar, Spaces
<1>4. CASE char # Tab
  <2>1. screen' = PutPlain(screen, char) /\ output' = Tail(output)
    BY <1>1, <1>4 DEF TerminalPutChar
  <2>2. CASE char = Backspace
    <3>1. screen' = PutPlain(screen, Backspace)
      BY <2>1, <2>2
    <3>2. IsScreen(screen') /\ ErasesCell
      BY <1>2, <3>1, BackspaceErases DEF ErasesCell
    <3>. QED BY <1>1, <2>1, <2>2, <3>2
  <2>3. CASE char # Backspace /\ ~AtEnd(screen, char)
    <3>1. char \in Printable
      BY <2>3
    <3>2. IsScreen(screen') /\ Draws(char)
      BY <1>2, <2>1, <2>3, <3>1, CharactersAreDrawn DEF Draws
    <3>. QED BY <1>1, <1>4, <2>1, <3>1, <3>2
  <2>4. CASE char # Backspace /\ AtEnd(screen, char)
    <3>1. char \in Printable
      BY <2>4
    <3>2. IsScreen(screen') /\ Scrolls(char)
      BY <1>2, <2>1, <2>4, <3>1, CharactersScroll DEF Scrolls
    <3>. QED BY <1>1, <1>4, <2>1, <3>1, <3>2
  <2>. QED BY <2>2, <2>3, <2>4
<1>. QED BY <1>3, <1>4

(* What a character leaves of the line on the screen. Below the cursor      *)
(* nothing changes, unless the screen scrolls.                              *)
LEMMA ErasingKeepsLine ==
    ASSUME IsScreen(screen), LineOK, UNCHANGED lineVars, ErasesCell,
           NEW moves \in Int, NEW shown \in 0 .. Len(typed), LineIsShown(moves, shown),
           ~tabbed => moves <= Len(typed) - shown, StartPosition >= 1
    PROVE  LineIsShown(moves + 1, shown)'
<1>1. /\ screen.Position \in Int /\ screen'.Position = screen.Position - 1
      /\ screen.Position < Capacity /\ Capacity \in Nat
      /\ StartPosition \in Nat /\ Len(typed) \in Nat /\ shown <= Len(typed) /\ shown \in Nat
      /\ typed' = typed /\ tabbed' = tabbed /\ StartPosition' = StartPosition
      /\ screen'.scrolled = screen.scrolled
  BY Sizes DEF IsScreen, LineOK, lineVars, ErasesCell
<1>2. ASSUME ~screen.scrolled, ~tabbed, NEW i \in 1 .. shown
      PROVE  screen'.cells[StartPosition + i - 2] = Glyph(typed[i])
  <2>1. screen.Position + moves = StartPosition + Len(typed)
        /\ screen.cells[StartPosition + i - 2] = Glyph(typed[i])
    BY <1>2 DEF LineIsShown
  <2>2. StartPosition + i - 2 \in Int /\ StartPosition + i - 2 < screen.Position - 1
    BY <1>1, <1>2, <2>1
  <2>3. StartPosition + i - 2 >= 0
    BY <1>1
  <2>4. StartPosition + i - 2 \in Cells
    BY <1>1, <2>2, <2>3 DEF Cells
  <2>. QED BY <2>1, <2>2, <2>4 DEF ErasesCell
<1>3. screen'.Position + (moves + 1) = screen.Position + moves
  BY <1>1
<1>. QED BY <1>1, <1>2, <1>3 DEF LineIsShown

LEMMA DrawingKeepsLine ==
    ASSUME IsScreen(screen), IsScreen(screen'), LineOK, UNCHANGED lineVars, NEW char, Draws(char),
           ~tabbed => char # Newline,
           NEW moves \in Int, NEW shown \in 0 .. Len(typed), LineIsShown(moves, shown),
           ~tabbed => moves <= Len(typed) - shown + 1, StartPosition >= 1
    PROVE  LineIsShown(moves - 1, shown)'
<1>1. /\ screen.Position \in Int /\ screen'.Position \in Int
      /\ screen'.Position >= screen.Position + 1
      /\ ~tabbed => screen'.Position = screen.Position + 1
      /\ screen.Position < Capacity /\ Capacity \in Nat
      /\ StartPosition \in Nat /\ Len(typed) \in Nat /\ shown <= Len(typed) /\ shown \in Nat
      /\ typed' = typed /\ tabbed' = tabbed /\ StartPosition' = StartPosition
      /\ screen'.scrolled = screen.scrolled
  BY Sizes DEF IsScreen, LineOK, lineVars, Draws
<1>2. ASSUME ~screen.scrolled, ~tabbed, NEW i \in 1 .. shown
      PROVE  screen'.cells[StartPosition + i - 2] = Glyph(typed[i])
  <2>1. screen.Position + moves = StartPosition + Len(typed)
        /\ screen.cells[StartPosition + i - 2] = Glyph(typed[i])
    BY <1>2 DEF LineIsShown
  <2>2. StartPosition + i - 2 \in Int /\ StartPosition + i - 2 < screen.Position
    BY <1>1, <1>2, <2>1
  <2>3. StartPosition + i - 2 >= 0
    BY <1>1
  <2>4. StartPosition + i - 2 \in Cells
    BY <1>1, <2>2, <2>3 DEF Cells
  <2>. QED BY <2>1, <2>2, <2>4 DEF Draws
<1>3. screen'.Position + (moves - 1) >= screen.Position + moves
      /\ ~tabbed => screen'.Position + (moves - 1) = screen.Position + moves
  BY <1>1
<1>4. /\ screen'.Position + (moves - 1) >= Len(typed') + 1
      /\ ~screen'.scrolled => screen'.Position + (moves - 1) >= StartPosition' + Len(typed')
  BY <1>1, <1>3 DEF LineIsShown
<1>5. ~screen'.scrolled /\ ~tabbed' =>
          screen'.Position + (moves - 1) = StartPosition' + Len(typed')
  BY <1>1, <1>3 DEF LineIsShown
<1>. QED BY <1>1, <1>2, <1>4, <1>5 DEF LineIsShown

LEMMA ScrollingKeepsRoom ==
    ASSUME LineOK, UNCHANGED lineVars, IsScreen(screen'), NEW char, Scrolls(char),
           Len(typed) <= Size, NEW moves \in Nat, NEW shown
    PROVE  LineIsShown(moves, shown)'
BY Sizes DEF LineOK, lineVars, IsScreen, Scrolls, LineIsShown
-----------------------------------------------------------------------------
(* Texts *)

LEMMA Characters ==
    /\ Cursor \in Printable /\ Newline \in Printable /\ Tab \in Printable /\ Space \in Printable
    /\ Chars \subseteq Printable /\ Backspace \notin Printable
    /\ Cursor # Tab /\ Cursor # Newline /\ Newline # Tab /\ Backspace # Tab
    /\ Newline \notin Chars
    /\ Glyph(Cursor) = {Cursor}
BY CharsAssumption DEF Cursor, Newline, Tab, Space, Backspace, Glyph

LEMMA SpacesAreText == Spaces \in Texts /\ Len(Spaces) = 4
BY Characters DEF Spaces, Texts

(* What is left of a text when its first character has reached the screen.  *)
LEMMA TextsGoOn ==
    ASSUME NEW text \in Texts, text # <<>>
    PROVE  /\ Head(text) \in Printable /\ Head(text) = text[1]
           /\ Tail(text) \in Texts /\ Len(Tail(text)) = Len(text) - 1 /\ Len(text) >= 1
           /\ Len(text) \in Nat
           /\ Len(text) >= 2 => /\ Tail(text)[Len(Tail(text))] = text[Len(text)]
                                /\ Tail(text) # <<>> /\ Spaces \o Tail(text) # <<>>
           /\ Spaces \o Tail(text) \in Texts
           /\ Len(Spaces \o Tail(text)) = Len(text) + 3
           /\ Len(text) >= 2 =>
                 (Spaces \o Tail(text))[Len(Spaces \o Tail(text))] = text[Len(text)]
<1>1. /\ Head(text) \in Printable /\ Head(text) = text[1]
      /\ Tail(text) \in Texts /\ Len(Tail(text)) = Len(text) - 1 /\ Len(text) >= 1
      /\ Len(text) \in Nat
      /\ Len(text) >= 2 => Tail(text)[Len(Tail(text))] = text[Len(text)]
  BY DEF Texts
<1>. DEFINE rest == Tail(text)
<1>2. rest \in Texts /\ Spaces \in Texts /\ Len(Spaces) = 4 /\ Len(rest) = Len(text) - 1
  BY <1>1, SpacesAreText
<1>3. /\ Spaces \o rest \in Texts /\ Len(Spaces \o rest) = Len(rest) + 4
      /\ Len(rest) >= 1 => (Spaces \o rest)[Len(rest) + 4] = rest[Len(rest)]
  <2>. HIDE DEF rest
  <2>1. Spaces \in Seq(Printable) /\ rest \in Seq(Printable) /\ Len(rest) \in Nat
    BY <1>2 DEF Texts
  <2>2. /\ Spaces \o rest \in Seq(Printable)
        /\ Len(Spaces \o rest) = Len(Spaces) + Len(rest)
        /\ \A i \in 1 .. Len(Spaces) + Len(rest) :
              (Spaces \o rest)[i] = IF i <= Len(Spaces) THEN Spaces[i] ELSE rest[i - Len(Spaces)]
    BY <2>1, ConcatProperties
  <2>. QED BY <1>2, <2>1, <2>2 DEF Texts
<1>4. Len(<<>>) = 0
  OBVIOUS
<1>5. Len(text) >= 2 => rest # <<>> /\ Spaces \o rest # <<>>
  <2>1. Len(rest) = Len(text) - 1 /\ Len(text) \in Nat /\ Len(Spaces \o rest) = Len(rest) + 4
    BY <1>1, <1>2, <1>3
  <2>. HIDE DEF rest
  <2>2. Len(text) >= 2 => Len(rest) # 0 /\ Len(Spaces \o rest) # 0
    BY <2>1
  <2>3. rest = <<>> => Len(rest) = 0
    BY <1>4
  <2>4. Spaces \o rest = <<>> => Len(Spaces \o rest) = 0
    BY <1>4
  <2>. QED BY <2>2, <2>3, <2>4
<1>. QED BY <1>1, <1>2, <1>3, <1>5

LEMMA PairsGoOn ==
    ASSUME NEW a, NEW b
    PROVE  /\ <<a>> # <<>> /\ Head(<<a>>) = a /\ Tail(<<a>>) = <<>>
           /\ <<a, b>> # <<>> /\ Head(<<a, b>>) = a /\ Tail(<<a, b>>) = <<b>>
OBVIOUS

LEMMA TriplesGoOn ==
    ASSUME NEW a, NEW b, NEW c
    PROVE  <<a, b, c>> # <<>> /\ Head(<<a, b, c>>) = a /\ Tail(<<a, b, c>>) = <<b, c>>
OBVIOUS

-----------------------------------------------------------------------------
(* PutChar at each place of the prompt *)

(* A text goes on anywhere on the screen.                                   *)
LEMMA PutCharOfText ==
    ASSUME IsScreen(screen), PutChar, output \in Texts
    PROVE  /\ at' = at /\ UNCHANGED lineVars /\ IsScreen(screen')
           /\ screen.Position >= 0 /\ screen'.Position >= 0 /\ output # <<>>
           /\ output' \in Texts
           /\ \/ Head(output) = Tab /\ screen' = screen /\ output' = Spaces \o Tail(output)
              \/ /\ Head(output) \in Printable \ {Tab} /\ output' = Tail(output)
                 /\ Draws(Head(output)) \/ Scrolls(Head(output))
<1>1. output # <<>> /\ screen.Position # OffScreen
  BY DEF PutChar
<1>2. Head(output) \in Printable /\ Head(output) # Backspace /\ Tail(output) \in Texts
      /\ Spaces \o Tail(output) \in Texts
  BY <1>1, TextsGoOn, Characters
<1>3. screen.Position \in Nat
  BY <1>1, Sizes DEF IsScreen, OffScreen
<1>4. /\ at' = at /\ UNCHANGED lineVars /\ IsScreen(screen')
      /\ \/ Head(output) = Tab /\ screen' = screen /\ output' = Spaces \o Tail(output)
         \/ /\ Head(output) \in Printable \ {Tab} /\ output' = Tail(output)
            /\ Draws(Head(output)) \/ Scrolls(Head(output))
  BY <1>2, PutCharDoes
<1>5. screen'.Position >= 0
  <2>1. screen'.Position \in Int
    BY <1>4 DEF IsScreen
  <2>. QED BY <1>3, <1>4, <2>1, Sizes DEF Draws, Scrolls
<1>6. output' \in Texts
  BY <1>2, <1>4
<1>. QED BY <1>1, <1>3, <1>4, <1>5, <1>6

LEMMA PutCharAtShell ==
    ASSUME IInv, PutChar, at \in {"Shell", "Stopped"}
    PROVE  IsScreen(screen') /\ AtShell'
BY PutCharOfText DEF IInv, AtShell

LEMMA PutCharAtRun ==
    ASSUME IInv, PutChar, at = "Run"
    PROVE  IsScreen(screen') /\ AtRun'
<1>1. /\ output \in {<<Newline>>, <<Backspace, Newline>>}
      /\ output = <<Backspace, Newline>> => screen.Position >= 1
      /\ IsScreen(screen)
  BY DEF IInv, AtRun, PutChar
<1>2. CASE output = <<Newline>>
  <2>1. output \in Texts /\ Head(output) = Newline /\ Tail(output) = <<>>
    BY <1>2, PairsGoOn, Characters DEF Texts
  <2>2. IsScreen(screen') /\ screen'.Position >= 0 /\ output' = <<>>
    BY <1>1, <2>1, PutCharOfText, Characters
  <2>. QED BY <2>2 DEF AtRun
<1>3. CASE output = <<Backspace, Newline>>
  <2>1. Head(output) = Backspace /\ Tail(output) = <<Newline>>
    BY <1>3, PairsGoOn
  <2>2. IsScreen(screen') /\ ErasesCell /\ output' = <<Newline>>
    BY <1>1, <2>1, PutCharDoes, Characters
  <2>3. screen'.Position >= 0
    BY <1>1, <1>3, <2>2, Sizes DEF ErasesCell, IsScreen
  <2>. QED BY <2>2, <2>3, PairsGoOn DEF AtRun
<1>. QED BY <1>1, <1>2, <1>3

LEMMA PutCharAtErase ==
    ASSUME IInv, PutChar, at = "Erase"
    PROVE  IsScreen(screen') /\ AtErase'
<1>1. /\ output = <<Backspace>> /\ StartPosition \in Nat /\ StartPosition >= 1
      /\ ~screen.scrolled => screen.Position - 1 >= StartPosition
      /\ IsScreen(screen)
  BY DEF IInv, LineOK, AtErase, PutChar
<1>2. Head(output) = Backspace /\ Tail(output) = <<>>
  BY <1>1, PairsGoOn
<1>3. IsScreen(screen') /\ ErasesCell /\ output' = <<>> /\ UNCHANGED lineVars
  BY <1>1, <1>2, PutCharDoes, Characters
<1>4. Len(<<>>) = 0 /\ screen.Position \in Int
  BY <1>1 DEF IsScreen
<1>5. ~screen'.scrolled => screen'.Position - Len(output') >= StartPosition'
  BY <1>1, <1>3, <1>4 DEF ErasesCell, lineVars
<1>. QED BY <1>1, <1>3, <1>5 DEF AtErase, lineVars

LEMMA PutCharAtBegin ==
    ASSUME IInv, PutChar, at = "Begin"
    PROVE  IsScreen(screen') /\ AtBegin'
<1>1. /\ EndsInCursor /\ IsScreen(screen) /\ LineOK
      /\ Index = 0 /\ typed = <<>> /\ ~tabbed /\ ~filled
  BY DEF IInv, AtBegin, PutChar
<1>2. /\ output \in Texts /\ output # <<>> /\ output[Len(output)] = Cursor
  BY <1>1 DEF EndsInCursor
<1>3. /\ IsScreen(screen') /\ screen'.Position >= 0 /\ output' \in Texts
      /\ screen.Position >= 0 /\ UNCHANGED lineVars
      /\ \/ Head(output) = Tab /\ screen' = screen /\ output' = Spaces \o Tail(output)
         \/ /\ Head(output) \in Printable \ {Tab} /\ output' = Tail(output)
            /\ Draws(Head(output)) \/ Scrolls(Head(output))
  BY <1>1, <1>2, PutCharOfText
<1>4. CASE Len(output) = 1
  <2>1. Head(output) = Cursor /\ Len(Tail(output)) = 0 /\ Tail(output) \in Texts
    BY <1>2, <1>4, TextsGoOn
  <2>2. (Draws(Cursor) \/ Scrolls(Cursor))
    BY <1>3, <2>1, Characters DEF Texts
  <2>3. output' = <<>>
    BY <1>3, <2>1, Characters DEF Texts
  <2>4. screen'.Position >= 1 /\ screen'.cells[screen'.Position - 1] = {Cursor}
    <3>1. CASE Draws(Cursor)
      <4>1. screen'.Position = screen.Position + 1 /\ screen.Position \in Int
            /\ screen'.cells[screen.Position] = {Cursor}
        BY <1>1, <3>1, Characters DEF Draws, IsScreen
      <4>2. screen'.Position - 1 = screen.Position
        BY <4>1
      <4>. QED BY <1>3, <4>1, <4>2
    <3>2. CASE Scrolls(Cursor)
      BY <3>2, Characters, Sizes DEF Scrolls
    <3>. QED BY <2>2, <3>1, <3>2
  <2>. QED BY <1>1, <1>3, <2>3, <2>4 DEF AtBegin, CursorIsShown, lineVars
<1>5. CASE Len(output) # 1
  <2>. Len(output) >= 2
    BY <1>2, <1>5, TextsGoOn
  <2>1. output'[Len(output')] = Cursor /\ output' # <<>>
    <3>1. CASE output' = Spaces \o Tail(output)
      BY <1>2, <1>5, <3>1, TextsGoOn
    <3>2. CASE output' = Tail(output)
      BY <1>2, <1>5, <3>2, TextsGoOn
    <3>. QED BY <1>3, <3>1, <3>2
  <2>2. EndsInCursor'
    BY <1>3, <2>1 DEF EndsInCursor
  <2>. QED BY <1>1, <1>3, <2>2 DEF AtBegin, lineVars
<1>. QED BY <1>4, <1>5

LEMMA PutCharAtRead ==
    ASSUME IInv, PutChar, at = "Read"
    PROVE  IsScreen(screen') /\ AtRead'
<1>1. /\ output # <<>> /\ IsScreen(screen) /\ LineOK
      /\ StartPosition \in Nat /\ StartPosition >= 1
      /\ typed \in Seq(Chars) /\ Len(typed) \in Nat /\ Len(typed) <= Size
      /\ at' = at /\ UNCHANGED lineVars
  <2>1. Len(typed) = Index /\ Index \in 0 .. Size
    BY DEF IInv, LineOK, LineIsWhatWasTyped
  <2>. QED BY <2>1, Sizes DEF IInv, LineOK, AtRead, PutChar
<1>0. PICK n \in Nat : n = Len(typed)
  BY <1>1
<1>2. n \in 0 .. Len(typed) /\ n = Len(typed) /\ typed' = typed /\ tabbed' = tabbed
      /\ StartPosition' = StartPosition
  BY <1>0, <1>1 DEF lineVars
<1>3. Waiting \/ Erasing2 \/ Erasing1 \/ Echoing3 \/ Echoing2 \/ Echoing1
  BY DEF IInv, AtRead
<1>4. CASE Erasing2
  <2>1. Head(output) = Backspace /\ Tail(output) = <<Backspace, Cursor>>
    BY <1>4, TriplesGoOn DEF Erasing2
  <2>2. IsScreen(screen') /\ ErasesCell /\ output' = <<Backspace, Cursor>>
    BY <1>1, <2>1, PutCharDoes, Characters
  <2>3. LineIsShown(-1 + 1, n)'
    BY <1>1, <1>2, <1>4, <2>2, ErasingKeepsLine DEF Erasing2
  <2>. QED BY <1>1, <1>2, <2>2, <2>3 DEF AtRead, Erasing1
<1>5. CASE Erasing1
  <2>1. Head(output) = Backspace /\ Tail(output) = <<Cursor>>
    BY <1>5, PairsGoOn DEF Erasing1
  <2>2. IsScreen(screen') /\ ErasesCell /\ output' = <<Cursor>>
    BY <1>1, <2>1, PutCharDoes, Characters
  <2>3. LineIsShown(0 + 1, n)'
    BY <1>1, <1>2, <1>5, <2>2, ErasingKeepsLine DEF Erasing1
  <2>. QED BY <1>1, <1>2, <2>2, <2>3 DEF AtRead, Echoing1
<1>6. CASE Echoing3
  <2>. DEFINE char == typed[n]
  <2>1. Head(output) = Backspace /\ Tail(output) = <<char, Cursor>> /\ typed # <<>>
    BY <1>2, <1>6, TriplesGoOn DEF Echoing3
  <2>2. IsScreen(screen') /\ ErasesCell /\ output' = <<char, Cursor>>
    BY <1>1, <2>1, PutCharDoes, Characters
  <2>3. n >= 1 /\ n - 1 \in 0 .. n /\ char \in Printable
    BY <1>1, <1>2, <2>1, Characters
  <2>4. LineIsShown(1 + 1, n - 1)'
    BY <1>1, <1>2, <1>6, <2>2, <2>3, ErasingKeepsLine DEF Echoing3
  <2>5. output' \in Texts /\ Len(output') = 2 /\ output'[2] = Cursor /\ output' # <<>>
    BY <2>2, <2>3, Characters, PairsGoOn DEF Texts
  <2>6. char = Tab => tabbed
    BY <1>2, <1>6 DEF Echoing3
  <2>7. screen'.Position >= 0
    <3>1. screen.Position \in Int /\ screen.Position + 1 >= n + 1
      BY <1>1, <1>2, <1>6 DEF Echoing3, LineIsShown, IsScreen
    <3>. QED BY <2>2, <2>3, <3>1 DEF ErasesCell
  <2>. QED BY <1>1, <1>2, <2>1, <2>2, <2>4, <2>5, <2>6, <2>7 DEF AtRead, Echoing2, EndsInCursor
<1>7. CASE Echoing1
  <2>1. Head(output) = Cursor /\ Tail(output) = <<>> /\ output \in Texts
    BY <1>7, PairsGoOn, Characters DEF Echoing1, Texts
  <2>2. IsScreen(screen') /\ output' = <<>> /\ (Draws(Cursor) \/ Scrolls(Cursor))
    BY <1>1, <2>1, PutCharOfText, Characters
  <2>3. CASE Draws(Cursor)
    <3>1. LineIsShown(1 - 1, n)'
      BY <1>1, <1>2, <1>7, <2>2, <2>3, DrawingKeepsLine, Characters DEF Echoing1
    <3>2. screen'.Position - 1 = screen.Position /\ screen'.cells[screen.Position] = {Cursor}
      BY <1>1, <2>3, Characters DEF Draws, IsScreen
    <3>. QED BY <1>1, <1>2, <2>2, <3>1, <3>2 DEF AtRead, Waiting, CursorIsShown
  <2>4. CASE Scrolls(Cursor)
    <3>1. LineIsShown(0, n)'
      BY <1>1, <2>2, <2>4, ScrollingKeepsRoom
    <3>2. screen'.scrolled
      BY <2>4 DEF Scrolls
    <3>. QED BY <1>1, <1>2, <2>2, <3>1, <3>2 DEF AtRead, Waiting
  <2>. QED BY <2>2, <2>3, <2>4
<1>8. CASE Echoing2
  <2>. DEFINE char == Head(output)
  <2>0. PICK m \in Nat : m = Len(output)
    BY <1>8, TextsGoOn DEF Echoing2, EndsInCursor
  <2>1. /\ typed # <<>> /\ output \in Texts /\ output # <<>> /\ output[Len(output)] = Cursor
        /\ m \in Nat /\ m >= 2
        /\ ~tabbed => output = <<typed[n], Cursor>> /\ typed[n] # Tab
        /\ LineIsShown(m, n - 1)
    BY <1>2, <1>8, <2>0, TextsGoOn DEF Echoing2, EndsInCursor
  <2>2. n >= 1 /\ n - 1 \in 0 .. Len(typed) /\ typed[n] \in Chars
    BY <1>1, <1>2, <2>1
  <2>3. ~tabbed => char = typed[n] /\ char # Tab /\ char # Newline /\ m = 2
    <3>1. Len(<<typed[n], Cursor>>) = 2 /\ Head(<<typed[n], Cursor>>) = typed[n]
      OBVIOUS
    <3>2. typed[n] # Newline
      BY <2>2, Characters
    <3>. QED BY <2>0, <2>1, <3>1, <3>2
  <2>4. /\ IsScreen(screen') /\ output' \in Texts /\ screen'.Position >= 0
        /\ \/ char = Tab /\ screen' = screen /\ output' = Spaces \o Tail(output)
           \/ /\ char \in Printable \ {Tab} /\ output' = Tail(output)
              /\ Draws(char) \/ Scrolls(char)
    BY <1>1, <2>1, PutCharOfText
  <2>5. /\ Len(Tail(output)) = m - 1 /\ Len(Spaces \o Tail(output)) = m + 3
        /\ output' # <<>> /\ output'[Len(output')] = Cursor
    BY <2>0, <2>1, <2>4, TextsGoOn
  <2>6. CASE char = Tab
    <3>1. screen' = screen /\ Len(output') = m + 3 /\ tabbed
      BY <2>3, <2>4, <2>5, <2>6
    <3>2. LineIsShown(m + 3, n - 1)'
      <4>1. screen.Position \in Int
        BY <1>1 DEF IsScreen
      <4>. QED BY <1>1, <1>2, <2>1, <3>1, <4>1 DEF LineIsShown
    <3>. QED BY <1>1, <1>2, <2>1, <2>4, <2>5, <3>1, <3>2 DEF AtRead, Echoing2, EndsInCursor
  <2>7. CASE char # Tab
    <3>1. output' = Tail(output) /\ (Draws(char) \/ Scrolls(char)) /\ Len(output') = m - 1
          /\ char \in Printable
      BY <2>4, <2>5, <2>7
    <3>2. LineIsShown(m - 1, n - 1)'
      <4>1. CASE Draws(char)
        <5>1. m \in Int /\ n - 1 \in 0 .. Len(typed) /\ (~tabbed => char # Newline)
          BY <2>1, <2>2, <2>3
        <5>2. ~tabbed => m <= Len(typed) - (n - 1) + 1
          BY <1>1, <1>2, <2>3
        <5>. QED BY <1>1, <2>1, <2>4, <4>1, <5>1, <5>2, DrawingKeepsLine
      <4>2. CASE Scrolls(char)
        <5>1. m - 1 \in Nat
          BY <2>1
        <5>. QED BY <1>1, <2>4, <4>2, <5>1, ScrollingKeepsRoom
      <4>. QED BY <3>1, <4>1, <4>2
    <3>3. CASE m # 2
      <4>1. tabbed /\ m - 1 >= 2
        BY <2>1, <2>3, <3>3
      <4>. QED BY <1>1, <1>2, <2>1, <2>4, <2>5, <3>1, <3>2, <4>1 DEF AtRead, Echoing2, EndsInCursor
    <3>4. CASE m = 2
      <4>1. output' = <<Cursor>>
        <5>1. Len(output') = 1 /\ output'[1] = Cursor /\ output' \in Seq(Printable)
          BY <2>4, <2>5, <3>1, <3>4 DEF Texts
        <5>. QED BY <5>1
      <4>2. ASSUME ~screen'.scrolled, ~tabbed
            PROVE  screen'.cells[StartPosition + n - 2] = Glyph(typed[n])
        <5>1. Draws(char) /\ ~screen.scrolled
          BY <3>1, <4>2 DEF Draws, Scrolls
        <5>2. screen.Position = StartPosition + n - 2
          <6>1. screen.Position + 2 = StartPosition + n /\ screen.Position \in Int
            BY <1>1, <1>2, <2>1, <3>4, <4>2, <5>1 DEF LineIsShown, IsScreen
          <6>2. StartPosition \in Int
            BY <1>1
          <6>. QED BY <6>1, <6>2
        <5>. QED BY <2>3, <4>2, <5>1, <5>2 DEF Draws
      <4>3. LineIsShown(1, n)'
        <5>1. LineIsShown(1, n - 1)'
          <6>1. m - 1 = 1
            BY <3>4
          <6>. QED BY <3>2, <6>1
        <5>2. ASSUME ~screen'.scrolled, ~tabbed', NEW i \in 1 .. n
              PROVE  screen'.cells[StartPosition' + i - 2] = Glyph(typed'[i])
          <6>1. CASE i = n
            BY <1>2, <4>2, <5>2, <6>1
          <6>2. CASE i # n
            <7>1. i \in 1 .. n - 1
              BY <5>2, <6>2
            <7>. QED BY <5>1, <5>2, <7>1 DEF LineIsShown
          <6>. QED BY <6>1, <6>2
        <5>. QED BY <5>1, <5>2 DEF LineIsShown
      <4>4. LineIsShown(1, Len(typed))'
        BY <1>2, <4>3 DEF LineIsShown
      <4>5. Echoing1'
        BY <4>1, <4>4 DEF Echoing1
      <4>6. StartPosition' >= 1
        BY <1>1, <1>2
      <4>. QED BY <2>4, <4>5, <4>6 DEF AtRead
    <3>. QED BY <2>4, <3>3, <3>4
  <2>. QED BY <2>6, <2>7
<1>. QED BY <1>1, <1>3, <1>4, <1>5, <1>6, <1>7, <1>8 DEF Waiting

LEMMA PutCharIsSound ==
    ASSUME IInv, PutChar
    PROVE  IInv'
<1>1. at' = at /\ UNCHANGED lineVars
  BY DEF PutChar
<1>2. LineOK' /\ LineIsWhatWasTyped' /\ FullIsFilled'
  BY <1>1 DEF IInv, LineOK, LineIsWhatWasTyped, FullIsFilled, lineVars
<1>3. CASE at \in {"Shell", "Stopped"}
  BY <1>1, <1>2, <1>3, PutCharAtShell DEF IInv, AtBegin, AtRead, AtErase, AtRun
<1>4. CASE at = "Begin"
  BY <1>1, <1>2, <1>4, PutCharAtBegin DEF IInv, AtShell, AtRead, AtErase, AtRun
<1>5. CASE at = "Read"
  BY <1>1, <1>2, <1>5, PutCharAtRead DEF IInv, AtShell, AtBegin, AtErase, AtRun
<1>6. CASE at = "Erase"
  BY <1>1, <1>2, <1>6, PutCharAtErase DEF IInv, AtShell, AtBegin, AtRead, AtRun
<1>7. CASE at = "Run"
  BY <1>1, <1>2, <1>7, PutCharAtRun DEF IInv, AtShell, AtBegin, AtRead, AtErase
<1>. QED BY <1>3, <1>4, <1>5, <1>6, <1>7 DEF IInv

-----------------------------------------------------------------------------
(* The lines of the prompt *)

LEMMA TextsEnd ==
    ASSUME NEW text \in Texts, NEW last \in Printable
    PROVE  /\ text \o <<last>> \in Texts /\ text \o <<last>> # <<>>
           /\ (text \o <<last>>)[Len(text \o <<last>>)] = last
<1>1. text \in Seq(Printable) /\ Len(text) \in Nat
  BY DEF Texts
<1>2. text \o <<last>> = Append(text, last)
  BY <1>1, AppendIsConcat
<1>3. /\ Append(text, last) \in Seq(Printable) /\ Append(text, last) # <<>>
      /\ Len(Append(text, last)) = Len(text) + 1
      /\ Append(text, last)[Len(text) + 1] = last
  BY <1>1, AppendProperties
<1>. QED BY <1>2, <1>3 DEF Texts

(* What is printed outside of InputReadLine.                                *)
LEMMA PromptTexts ==
    /\ PromptText \in Texts /\ EchoText \in Texts /\ ErrorText \in Texts /\ HelpLines \in Texts
    /\ <<>> \in Texts
BY CharsAssumption DEF Texts

LEMMA ClearingKeepsBytes ==
    ASSUME OutBuffer \in [0 .. Size -> Chars \cup {NUL, Foreign}]
    PROVE  Cleared(OutBuffer) \in [0 .. Size -> Chars \cup {NUL, Foreign}]
BY Sizes DEF Cleared

(* The line ends at the first NUL, or behind the byte behind the buffer.    *)
LEMMA LinesEnd ==
    ASSUME LineOK
    PROVE  /\ LineLength \in 0 .. Size + 1
           /\ \A i \in 0 .. LineLength - 1 : OutBuffer[i] # NUL
<1>. DEFINE Ends == {i \in 0 .. Size : OutBuffer[i] = NUL}
            IsLength(length) ==
                /\ \A i \in 0 .. length - 1 : OutBuffer[i] # NUL
                /\ length <= Size => OutBuffer[length] = NUL
<1>1. \E length \in 0 .. Size + 1 : IsLength(length)
  <2>1. CASE Ends = {}
    <3>1. IsLength(Size + 1) /\ Size + 1 \in 0 .. Size + 1
      BY <2>1, Sizes
    <3>. QED BY <3>1
  <2>2. CASE Ends # {}
    <3>. DEFINE R == OpToRel(<, Nat)
    <3>0. Ends \subseteq Nat
      BY Sizes
    <3>1. IsWellFoundedOn(R, Nat)
      BY NatLessThanWellFounded
    <3>2. \A x, y \in Nat : x < y => <<x, y>> \in R
      BY DEF OpToRel
    <3>3. PICK end \in Ends : \A i \in Ends : ~(<<i, end>> \in R)
      <4>. HIDE DEF R, Ends
      <4>. QED BY <2>2, <3>0, <3>1, WFMin
    <3>. HIDE DEF R
    <3>4. \A i \in Ends : ~(i < end)
      BY <3>0, <3>2, <3>3
    <3>5. end \in 0 .. Size + 1 /\ IsLength(end)
      <4>1. end \in 0 .. Size /\ OutBuffer[end] = NUL
        BY <3>3
      <4>2. ASSUME NEW i \in 0 .. end - 1
            PROVE  OutBuffer[i] # NUL
        <5>1. i \in 0 .. Size /\ i < end
          BY <4>1, <4>2, Sizes
        <5>. QED BY <3>4, <5>1
      <4>. QED BY <4>1, <4>2, Sizes
    <3>. QED BY <3>5
  <2>. QED BY <2>1, <2>2
<1>2. LineLength = CHOOSE length \in 0 .. Size + 1 : IsLength(length)
  BY DEF LineLength
<1>3. LineLength \in 0 .. Size + 1 /\ IsLength(LineLength)
  <2>. HIDE DEF IsLength
  <2>. QED BY <1>1, <1>2
<1>. QED BY <1>3

LEMMA LineIsText ==
    ASSUME LineOK
    PROVE  Line \in Texts
<1>1. LineLength \in Nat
  BY LinesEnd, Sizes
<1>2. ASSUME NEW i \in 1 .. LineLength
      PROVE  OutBuffer[i - 1] \in Printable
  <2>1. i - 1 \in 0 .. LineLength - 1 /\ i - 1 \in 0 .. Size
    BY <1>2, LinesEnd, Sizes
  <2>2. OutBuffer[i - 1] \in Chars \cup {Foreign}
    BY <2>1, LinesEnd DEF LineOK
  <2>. QED BY <2>2, CharsAssumption
<1>3. Line \in [1 .. LineLength -> Printable]
  BY <1>2 DEF Line
<1>. QED BY <1>1, <1>3 DEF Texts

-----------------------------------------------------------------------------
(* The other actions *)

LEMMA BeginLineIsSound ==
    ASSUME IInv, BeginLine
    PROVE  IInv'
<1>1. /\ screen' = screen /\ IsScreen(screen) /\ screen.Position >= 0 /\ LineOK
      /\ output' = PromptText \o <<Cursor>> /\ at' = "Begin"
      /\ OutBuffer' = Cleared(OutBuffer) /\ Index' = 0
      /\ typed' = <<>> /\ tabbed' = FALSE /\ filled' = FALSE /\ StartPosition' = StartPosition
  BY DEF IInv, BeginLine, Go, Show, AtShell
<1>2. LineOK'
  <2>1. Cleared(OutBuffer) \in [0 .. Size -> Chars \cup {NUL, Foreign}]
    BY <1>1, ClearingKeepsBytes DEF LineOK
  <2>2. 0 \in 0 .. Size /\ <<>> \in Seq(Chars)
    BY Sizes
  <2>3. StartPosition \in Nat
    BY <1>1 DEF LineOK
  <2>. QED BY <1>1, <2>1, <2>2, <2>3 DEF LineOK
<1>3. EndsInCursor'
  <2>. DEFINE text == PromptText \o <<Cursor>>
  <2>1. text \in Texts /\ text # <<>> /\ text[Len(text)] = Cursor
    BY TextsEnd, PromptTexts, Characters
  <2>2. output' = text
    BY <1>1
  <2>. HIDE DEF text
  <2>. QED BY <2>1, <2>2 DEF EndsInCursor
<1>4. AtBegin'
  BY <1>1, <1>3 DEF AtBegin
<1>5. AtShell' /\ AtRead' /\ AtErase' /\ AtRun' /\ LineIsWhatWasTyped' /\ FullIsFilled'
  BY <1>1 DEF AtShell, AtRead, AtErase, AtRun, LineIsWhatWasTyped, FullIsFilled
<1>. QED BY <1>1, <1>2, <1>4, <1>5 DEF IInv

LEMMA MarkStartIsSound ==
    ASSUME IInv, MarkStart
    PROVE  IInv'
<1>1. /\ IsScreen(screen) /\ screen.Position >= 1 /\ CursorIsShown /\ LineOK
      /\ output' = output /\ output = <<>> /\ at' = "Read"
      /\ StartPosition' = screen.Position
      /\ screen' = [screen EXCEPT !.scrolled = FALSE]
      /\ Index = 0 /\ typed = <<>>
      /\ UNCHANGED <<OutBuffer, Index, typed, tabbed, filled>>
  BY DEF IInv, MarkStart, Go, AtBegin, EndsInCursor
<1>2. /\ screen'.Position = screen.Position /\ screen'.cells = screen.cells
      /\ screen'.scrolled = FALSE /\ IsScreen(screen')
      /\ screen.Position \in Nat
  <2>1. /\ screen \in Screens /\ screen.Position \in -1 .. Capacity - 1
        /\ \A c \in Cells : c >= screen.Position => screen.cells[c] = {}
    BY <1>1 DEF IsScreen, Screens
  <2>2. /\ screen'.Position = screen.Position /\ screen'.cells = screen.cells
        /\ screen'.scrolled = FALSE /\ screen' \in Screens
    BY <1>1, <2>1 DEF Screens
  <2>3. IsScreen(screen')
    BY <2>1, <2>2 DEF IsScreen, Screens
  <2>4. screen.Position \in Nat
    BY <1>1, <2>1, Sizes
  <2>. QED BY <2>2, <2>3, <2>4
<1>3. LineOK'
  BY <1>1, <1>2 DEF LineOK
<1>4. Len(<<>>) = 0
  OBVIOUS
<1>5. LineIsShown(0, Len(typed))' /\ CursorIsShown'
  BY <1>1, <1>2, <1>4 DEF LineIsShown, CursorIsShown
<1>6. AtRead'
  BY <1>1, <1>2, <1>5 DEF AtRead, Waiting
<1>7. AtShell' /\ AtBegin' /\ AtErase' /\ AtRun'
  BY <1>1 DEF AtShell, AtBegin, AtErase, AtRun
<1>8. LineIsWhatWasTyped' /\ FullIsFilled'
  BY <1>1, <1>4, Sizes DEF LineIsWhatWasTyped, FullIsFilled
<1>. QED BY <1>1, <1>2, <1>3, <1>6, <1>7, <1>8 DEF IInv

(* The prompt waits for a key when it is at "Read" and all is printed.      *)
LEMMA WaitsAtRead ==
    ASSUME IInv, at = "Read", output = <<>>
    PROVE  /\ IsScreen(screen) /\ LineOK /\ StartPosition >= 1
           /\ screen.Position \in Nat /\ Len(typed) \in Nat /\ StartPosition \in Nat
           /\ LineIsShown(0, Len(typed))
           /\ screen.Position >= Len(typed) + 1
           /\ Index = Len(typed) /\ Index \in 0 .. Size
           /\ \A i \in 1 .. Index : OutBuffer[i - 1] = typed[i]
           /\ Index = Size => filled
           /\ ~screen.scrolled /\ ~tabbed => CursorIsShown
<1>1. /\ IsScreen(screen) /\ LineOK /\ StartPosition >= 1 /\ StartPosition \in Nat
      /\ Index = Len(typed) /\ Index \in 0 .. Size /\ Len(typed) \in Nat
      /\ \A i \in 1 .. Index : OutBuffer[i - 1] = typed[i]
      /\ Index = Size => filled
  BY DEF IInv, AtRead, LineOK, LineIsWhatWasTyped, FullIsFilled
<1>2. LineIsShown(0, Len(typed)) /\ (~screen.scrolled /\ ~tabbed => CursorIsShown)
  BY TriplesGoOn, PairsGoOn DEF IInv, AtRead, Waiting, Erasing2, Erasing1, Echoing3, Echoing2,
     Echoing1, EndsInCursor
<1>3. screen.Position \in Nat /\ screen.Position >= Len(typed) + 1
  BY <1>1, <1>2, Sizes DEF LineIsShown, IsScreen
<1>. QED BY <1>1, <1>2, <1>3

LEMMA TypeNewlineIsSound ==
    ASSUME IInv, TypeNewline
    PROVE  IInv'
<1>1. /\ at = "Read" /\ output = <<>> /\ at' = "Run" /\ screen' = screen
      /\ output' = <<Backspace, Newline>> /\ UNCHANGED lineVars
  BY DEF TypeNewline, Go, Show
<1>2. /\ IsScreen(screen) /\ LineOK /\ screen.Position >= 1
      /\ Index = Len(typed)
      /\ \A i \in 1 .. Index : OutBuffer[i - 1] = typed[i]
      /\ Index = Size => filled
  BY <1>1, WaitsAtRead
<1>3. LineOK' /\ LineIsWhatWasTyped' /\ FullIsFilled'
  BY <1>1, <1>2 DEF LineOK, LineIsWhatWasTyped, FullIsFilled, lineVars
<1>4. AtRun'
  BY <1>1, <1>2, Sizes DEF AtRun, IsScreen
<1>5. AtShell' /\ AtBegin' /\ AtErase' /\ AtRead'
  BY <1>1 DEF AtShell, AtBegin, AtErase, AtRead
<1>. QED BY <1>1, <1>2, <1>3, <1>4, <1>5 DEF IInv

LEMMA TypeTooMuchIsSound ==
    ASSUME IInv, TypeTooMuch
    PROVE  IInv'
<1>1. /\ at = "Read" /\ output = <<>> /\ at' = "Shell" /\ screen' = screen
      /\ output' = ErrorText \o <<Newline>> /\ UNCHANGED lineVars
  BY DEF TypeTooMuch, Go, Show
<1>2. IsScreen(screen) /\ LineOK /\ screen.Position \in Nat
  BY <1>1, WaitsAtRead
<1>3. LineOK' /\ LineIsWhatWasTyped' /\ FullIsFilled'
  BY <1>1, <1>2 DEF LineOK, LineIsWhatWasTyped, FullIsFilled, lineVars
<1>4. AtShell'
  BY <1>1, <1>2, TextsEnd, PromptTexts, Characters DEF AtShell
<1>5. AtRun' /\ AtBegin' /\ AtErase' /\ AtRead'
  BY <1>1 DEF AtRun, AtBegin, AtErase, AtRead
<1>. QED BY <1>1, <1>2, <1>3, <1>4, <1>5 DEF IInv

LEMMA TypeControlCIsSound ==
    ASSUME IInv, TypeControlC
    PROVE  IInv'
<1>1. /\ at = "Read" /\ output = <<>> /\ at' = "Erase" /\ screen' = screen /\ output' = output
      /\ OutBuffer' = Cleared(OutBuffer)
      /\ UNCHANGED <<Index, StartPosition, typed, tabbed, filled>>
  BY DEF TypeControlC, Go
<1>2. /\ IsScreen(screen) /\ LineOK /\ StartPosition >= 1 /\ StartPosition \in Nat
      /\ screen.Position \in Nat /\ Len(typed) \in Nat /\ LineIsShown(0, Len(typed))
  BY <1>1, WaitsAtRead
<1>3. LineOK' /\ LineIsWhatWasTyped' /\ FullIsFilled'
  BY <1>1, <1>2, ClearingKeepsBytes DEF LineOK, LineIsWhatWasTyped, FullIsFilled
<1>4. AtErase'
  <2>1. Len(<<>>) = 0
    OBVIOUS
  <2>2. ~screen.scrolled => screen.Position - Len(output) >= StartPosition
    BY <1>1, <1>2, <2>1 DEF LineIsShown
  <2>. QED BY <1>1, <1>2, <2>2 DEF AtErase
<1>5. AtRun' /\ AtBegin' /\ AtShell' /\ AtRead'
  BY <1>1 DEF AtRun, AtBegin, AtShell, AtRead
<1>. QED BY <1>1, <1>2, <1>3, <1>4, <1>5 DEF IInv

(* Only the byte behind the line changes.                                   *)
LEMMA TypeBackspaceIsSound ==
    ASSUME IInv, TypeBackspace
    PROVE  IInv'
<1>1. /\ at = "Read" /\ output = <<>> /\ at' = "Read" /\ screen' = screen /\ Index > 0
      /\ output' = <<Backspace, Backspace, Cursor>>
      /\ OutBuffer' = [OutBuffer EXCEPT ![Index] = NUL]
      /\ Index' = Index - 1 /\ typed' = Front(typed)
      /\ UNCHANGED <<StartPosition, tabbed, filled>>
  BY DEF TypeBackspace, Go, Show, CanErase
<1>2. /\ IsScreen(screen) /\ LineOK /\ StartPosition >= 1 /\ StartPosition \in Nat
      /\ screen.Position \in Nat /\ LineIsShown(0, Len(typed))
      /\ screen.Position >= Len(typed) + 1
      /\ Index = Len(typed) /\ Index \in 0 .. Size
      /\ \A i \in 1 .. Index : OutBuffer[i - 1] = typed[i]
  BY <1>1, WaitsAtRead
<1>3. PICK n \in Nat : n = Index /\ n >= 1
  BY <1>1, <1>2, Sizes
<1>4. /\ typed' \in Seq(Chars) /\ Len(typed') = n - 1
      /\ \A i \in 1 .. n - 1 : typed'[i] = typed[i]
  <2>1. typed \in Seq(Chars) /\ Len(typed) = n
    BY <1>2, <1>3 DEF LineOK
  <2>2. Front(typed) = SubSeq(typed, 1, n - 1)
    BY <2>1 DEF Front
  <2>. QED BY <1>1, <1>3, <2>1, <2>2
<1>5. LineOK'
  <2>1. OutBuffer' \in [0 .. Size -> Chars \cup {NUL, Foreign}]
    BY <1>1, <1>2 DEF LineOK
  <2>2. Index' \in 0 .. Size
    BY <1>1, <1>2, <1>3, Sizes
  <2>. QED BY <1>1, <1>2, <1>4, <2>1, <2>2 DEF LineOK
<1>6. LineIsWhatWasTyped'
  <2>1. ASSUME NEW i \in 1 .. n - 1
        PROVE  OutBuffer'[i - 1] = typed'[i]
    <3>1. i - 1 \in 0 .. Size /\ i - 1 # Index /\ i \in 1 .. Index
      BY <1>2, <1>3, <2>1, Sizes
    <3>2. OutBuffer'[i - 1] = OutBuffer[i - 1]
      BY <1>1, <1>2, <3>1 DEF LineOK
    <3>. QED BY <1>2, <1>4, <2>1, <3>1, <3>2
  <2>2. Index' = n - 1
    BY <1>1, <1>3
  <2>. QED BY <1>4, <2>1, <2>2 DEF LineIsWhatWasTyped
<1>7. LineIsShown(-1, n - 1)'
  <2>1. screen.Position - 1 >= n /\ (~screen.scrolled => screen.Position >= StartPosition + n)
        /\ (~screen.scrolled /\ ~tabbed =>
               /\ screen.Position = StartPosition + n
               /\ \A i \in 1 .. n : screen.cells[StartPosition + i - 2] = Glyph(typed[i]))
    BY <1>2, <1>3 DEF LineIsShown
  <2>2. /\ screen.Position + -1 = screen.Position - 1
        /\ Len(typed') + 1 = n /\ StartPosition + Len(typed') = StartPosition + n - 1
    BY <1>2, <1>3, <1>4
  <2>3. ASSUME ~screen.scrolled, ~tabbed, NEW i \in 1 .. n - 1
        PROVE  screen.cells[StartPosition + i - 2] = Glyph(typed'[i])
    <3>1. i \in 1 .. n
      BY <1>3, <2>3
    <3>. QED BY <1>4, <2>1, <2>3, <3>1
  <2>4. /\ screen'.Position + -1 >= Len(typed') + 1
        /\ ~screen'.scrolled => screen'.Position + -1 >= StartPosition' + Len(typed')
        /\ ~screen'.scrolled /\ ~tabbed' =>
               screen'.Position + -1 = StartPosition' + Len(typed')
    BY <1>1, <1>2, <1>3, <2>1, <2>2
  <2>. QED BY <1>1, <2>3, <2>4 DEF LineIsShown
<1>8. AtRead'
  <2>1. LineIsShown(-1, Len(typed))'
    BY <1>4, <1>7
  <2>2. Erasing2'
    BY <1>1, <2>1 DEF Erasing2
  <2>. QED BY <1>1, <1>2, <2>2 DEF AtRead
<1>9. FullIsFilled'
  <2>1. Index' # Size
    BY <1>1, <1>2, Sizes
  <2>. QED BY <2>1 DEF FullIsFilled
<1>10. AtRun' /\ AtBegin' /\ AtShell' /\ AtErase'
  BY <1>1 DEF AtRun, AtBegin, AtShell, AtErase
<1>. QED BY <1>1, <1>2, <1>5, <1>6, <1>8, <1>9, <1>10 DEF IInv

LEMMA TypeCharIsSound ==
    ASSUME IInv, NEW char \in Chars, TypeChar(char)
    PROVE  IInv'
<1>1. /\ at = "Read" /\ output = <<>> /\ at' = "Read" /\ screen' = screen /\ Index < Size
      /\ output' = <<Backspace, char, Cursor>>
      /\ OutBuffer' = [OutBuffer EXCEPT ![Index] = char]
      /\ Index' = Index + 1 /\ typed' = Append(typed, char)
      /\ tabbed' = (tabbed \/ char = Tab)
      /\ filled' = (filled \/ Index' = Size)
      /\ UNCHANGED StartPosition
  BY DEF TypeChar, Go, Show, HasRoom, EchoOf
<1>2. /\ IsScreen(screen) /\ LineOK /\ StartPosition >= 1 /\ StartPosition \in Nat
      /\ screen.Position \in Nat /\ LineIsShown(0, Len(typed))
      /\ screen.Position >= Len(typed) + 1
      /\ Index = Len(typed) /\ Index \in 0 .. Size
      /\ \A i \in 1 .. Index : OutBuffer[i - 1] = typed[i]
  BY <1>1, WaitsAtRead
<1>3. PICK n \in Nat : n = Index
  BY <1>2, Sizes
<1>4. /\ typed' \in Seq(Chars) /\ Len(typed') = n + 1 /\ typed' # <<>>
      /\ typed'[n + 1] = char
      /\ \A i \in 1 .. n : typed'[i] = typed[i]
  <2>1. typed \in Seq(Chars) /\ Len(typed) = n
    BY <1>2, <1>3 DEF LineOK
  <2>. QED BY <1>1, <2>1, AppendProperties
<1>5. LineOK'
  <2>1. OutBuffer' \in [0 .. Size -> Chars \cup {NUL, Foreign}]
    BY <1>1, <1>2 DEF LineOK
  <2>2. Index' \in 0 .. Size
    BY <1>1, <1>2, <1>3, Sizes
  <2>3. tabbed' \in BOOLEAN /\ filled' \in BOOLEAN
    BY <1>1
  <2>. QED BY <1>1, <1>2, <1>4, <2>1, <2>2, <2>3 DEF LineOK
<1>6. LineIsWhatWasTyped'
  <2>1. ASSUME NEW i \in 1 .. n + 1
        PROVE  OutBuffer'[i - 1] = typed'[i]
    <3>1. CASE i = n + 1
      <4>1. i - 1 = Index
        BY <1>3, <3>1
      <4>. QED BY <1>1, <1>2, <1>4, <3>1, <4>1 DEF LineOK
    <3>2. CASE i # n + 1
      <4>1. i - 1 \in 0 .. Size /\ i - 1 # Index /\ i \in 1 .. Index /\ i \in 1 .. n
        BY <1>2, <1>3, <2>1, <3>2, Sizes
      <4>2. OutBuffer'[i - 1] = OutBuffer[i - 1]
        BY <1>1, <1>2, <4>1 DEF LineOK
      <4>. QED BY <1>2, <1>4, <4>1, <4>2
    <3>. QED BY <3>1, <3>2
  <2>2. Index' = n + 1
    BY <1>1, <1>3
  <2>. QED BY <1>4, <2>1, <2>2 DEF LineIsWhatWasTyped
<1>7. LineIsShown(1, n)'
  <2>1. screen.Position >= n + 1 /\ (~screen.scrolled => screen.Position >= StartPosition + n)
        /\ (~screen.scrolled /\ ~tabbed =>
               /\ screen.Position = StartPosition + n
               /\ \A i \in 1 .. n : screen.cells[StartPosition + i - 2] = Glyph(typed[i]))
    BY <1>2, <1>3 DEF LineIsShown
  <2>2. ~tabbed' => ~tabbed
    BY <1>1
  <2>. QED BY <1>1, <1>2, <1>3, <1>4, <2>1, <2>2 DEF LineIsShown
<1>8. AtRead'
  <2>1. LineIsShown(1, Len(typed) - 1)'
    <3>1. Len(typed') - 1 = n
      BY <1>4
    <3>. QED BY <1>7, <3>1 DEF LineIsShown
  <2>2. typed'[Len(typed')] = char /\ (char = Tab => tabbed')
    BY <1>1, <1>4
  <2>3. Echoing3'
    BY <1>1, <1>4, <2>1, <2>2 DEF Echoing3
  <2>. QED BY <1>1, <1>2, <2>3 DEF AtRead
<1>9. FullIsFilled'
  BY <1>1 DEF FullIsFilled
<1>10. AtRun' /\ AtBegin' /\ AtShell' /\ AtErase'
  BY <1>1 DEF AtRun, AtBegin, AtShell, AtErase
<1>. QED BY <1>1, <1>2, <1>5, <1>6, <1>8, <1>9, <1>10 DEF IInv

LEMMA EraseOneIsSound ==
    ASSUME IInv, EraseOne
    PROVE  IInv'
<1>1. /\ at = "Erase" /\ output = <<>> /\ at' = "Erase" /\ screen' = screen
      /\ output' = <<Backspace>> /\ UNCHANGED lineVars
      /\ screen.Position # StartPosition
  BY DEF EraseOne, Go, Show, Erased
<1>2. /\ IsScreen(screen) /\ LineOK /\ StartPosition >= 1 /\ StartPosition \in Nat
      /\ screen.Position \in Int
      /\ ~screen.scrolled => screen.Position >= StartPosition
  <2>1. Len(<<>>) = 0
    OBVIOUS
  <2>2. IsScreen(screen) /\ screen.Position \in Int
    BY DEF IInv, IsScreen
  <2>. QED BY <1>1, <2>1, <2>2 DEF IInv, LineOK, AtErase
<1>3. LineOK' /\ LineIsWhatWasTyped' /\ FullIsFilled'
  BY <1>1, <1>2 DEF LineOK, LineIsWhatWasTyped, FullIsFilled, lineVars
<1>4. AtErase'
  <2>1. Len(output') = 1
    BY <1>1
  <2>2. ~screen.scrolled => screen.Position - Len(output') >= StartPosition
    BY <1>1, <1>2, <2>1
  <2>. QED BY <1>1, <1>2, <2>2 DEF AtErase, lineVars
<1>5. AtRun' /\ AtBegin' /\ AtShell' /\ AtRead'
  BY <1>1 DEF AtRun, AtBegin, AtShell, AtRead
<1>. QED BY <1>1, <1>2, <1>3, <1>4, <1>5 DEF IInv

LEMMA EraseDoneIsSound ==
    ASSUME IInv, EraseDone
    PROVE  IInv'
<1>1. /\ at = "Erase" /\ at' = "Read" /\ screen' = screen
      /\ output' = <<Backspace, Cursor>>
      /\ screen.Position = StartPosition
      /\ Index' = 0 /\ typed' = <<>> /\ tabbed' = FALSE
      /\ UNCHANGED <<OutBuffer, StartPosition, filled>>
  BY DEF EraseDone, Go, Show, Erased
<1>2. IsScreen(screen) /\ LineOK /\ StartPosition >= 1 /\ StartPosition \in Nat
  BY <1>1 DEF IInv, LineOK, AtErase
<1>3. Len(<<>>) = 0 /\ <<>> \in Seq(Chars)
  OBVIOUS
<1>4. LineOK' /\ LineIsWhatWasTyped' /\ FullIsFilled'
  <2>1. LineOK'
    <3>1. OutBuffer' \in [0 .. Size -> Chars \cup {NUL, Foreign}] /\ filled' \in BOOLEAN
      BY <1>1, <1>2 DEF LineOK
    <3>2. 0 \in 0 .. Size
      BY Sizes
    <3>. QED BY <1>1, <1>2, <1>3, <3>1, <3>2 DEF LineOK
  <2>2. LineIsWhatWasTyped'
    BY <1>1, <1>3 DEF LineIsWhatWasTyped
  <2>3. FullIsFilled'
    BY <1>1, Sizes DEF FullIsFilled
  <2>. QED BY <2>1, <2>2, <2>3
<1>5. AtRead'
  <2>1. LineIsShown(0, Len(typed))'
    BY <1>1, <1>2, <1>3 DEF LineIsShown
  <2>2. Erasing1'
    BY <1>1, <2>1 DEF Erasing1
  <2>. QED BY <1>1, <1>2, <2>2 DEF AtRead
<1>6. AtRun' /\ AtBegin' /\ AtShell' /\ AtErase'
  BY <1>1 DEF AtRun, AtBegin, AtShell, AtErase
<1>. QED BY <1>1, <1>2, <1>4, <1>5, <1>6 DEF IInv

(* Whatever main does with a line, it goes on with a text, or with none.    *)
LEMMA RunLineIsSound ==
    ASSUME IInv, RunLine
    PROVE  IInv'
<1>1. /\ at = "Run" /\ output = <<>> /\ IsScreen(screen) /\ LineOK /\ screen.Position >= 0
      /\ UNCHANGED lineVars
  BY DEF IInv, AtRun, RunLine, RunEmpty, RunStop, RunClear, RunHelp, RunEcho, Run, Go
<1>2. /\ at' \in {"Shell", "Stopped"} /\ output' \in Texts
      /\ IsScreen(screen') /\ screen'.Position >= 0
  <2>1. CASE RunEmpty
    BY <1>1, <2>1, PromptTexts DEF RunEmpty, Go
  <2>2. CASE RunStop
    BY <1>1, <2>2, PromptTexts DEF RunStop, Run, Go
  <2>3. CASE RunClear
    <3>. DEFINE blank == [c \in Cells |-> {}]
    <3>1. /\ at' = "Shell" /\ output' = <<>>
          /\ screen' = [screen EXCEPT !.Position = 0, !.cells = blank]
      BY <1>1, <2>3 DEF RunClear, Run, Go, TerminalClear
    <3>2. screen \in Screens
      BY <1>1 DEF IsScreen, Screens
    <3>3. blank \in [Cells -> Contents] /\ \A c \in Cells : blank[c] = {}
      BY GlyphsAreContents
    <3>. HIDE DEF blank
    <3>4. /\ screen' \in Screens /\ screen'.Position = 0
          /\ \A c \in Cells : screen'.cells[c] = {}
      <4>1. /\ screen'.Position = 0 /\ screen'.cells = blank
            /\ screen' = [Position |-> 0, scrolled |-> screen.scrolled, cells |-> blank]
            /\ screen.scrolled \in BOOLEAN
        BY <3>1, <3>2 DEF Screens
      <4>2. 0 \in -1 .. Capacity - 1
        BY Sizes
      <4>. QED BY <3>3, <4>1, <4>2 DEF Screens
    <3>5. IsScreen(screen')
      BY <3>4 DEF IsScreen, Screens
    <3>. QED BY <3>1, <3>4, <3>5, PromptTexts
  <2>4. CASE RunHelp
    BY <1>1, <2>4, PromptTexts DEF RunHelp, Run, Go, Show
  <2>5. CASE RunEcho
    <3>1. at' = "Shell" /\ screen' = screen /\ output' = (EchoText \o Line) \o <<Newline>>
      BY <2>5 DEF RunEcho, Run, Go, Show
    <3>2. EchoText \o Line \in Texts
      BY <1>1, LineIsText, PromptTexts, ConcatProperties DEF Texts
    <3>. QED BY <1>1, <3>1, <3>2, TextsEnd, Characters
  <2>. QED BY <2>1, <2>2, <2>3, <2>4, <2>5 DEF RunLine
<1>3. LineOK' /\ LineIsWhatWasTyped' /\ FullIsFilled'
  BY <1>1, <1>2 DEF LineOK, LineIsWhatWasTyped, FullIsFilled, lineVars
<1>4. AtShell' /\ AtRun' /\ AtBegin' /\ AtRead' /\ AtErase'
  BY <1>2 DEF AtShell, AtRun, AtBegin, AtRead, AtErase
<1>. QED BY <1>2, <1>3, <1>4 DEF IInv

-----------------------------------------------------------------------------
(* The theorems *)

LEMMA InitIsSound ==
    ASSUME Init
    PROVE  IInv
<1>1. /\ screen = BlankScreen /\ output = <<>> /\ at = "Shell"
      /\ Index = 0 /\ StartPosition = 0 /\ typed = <<>> /\ tabbed = FALSE /\ filled = FALSE
  BY DEF Init
<1>2. IsScreen(screen) /\ screen.Position = 0
  <2>. DEFINE blank == [c \in Cells |-> {}]
  <2>1. blank \in [Cells -> Contents] /\ \A c \in Cells : blank[c] = {}
    BY GlyphsAreContents
  <2>2. screen = [Position |-> 0, scrolled |-> FALSE, cells |-> blank]
    BY <1>1 DEF BlankScreen
  <2>. HIDE DEF blank
  <2>3. 0 \in -1 .. Capacity - 1
    BY Sizes
  <2>4. screen \in Screens /\ screen.Position = 0 /\ screen.cells = blank
    BY <2>1, <2>2, <2>3 DEF Screens
  <2>. QED BY <2>1, <2>4 DEF IsScreen, Screens
<1>3. LineOK
  <2>1. OutBuffer \in [0 .. Size -> Chars \cup {NUL, Foreign}]
    BY DEF Init
  <2>2. 0 \in 0 .. Size /\ <<>> \in Seq(Chars)
    BY Sizes
  <2>. QED BY <1>1, <2>1, <2>2 DEF LineOK
<1>4. AtShell /\ AtBegin /\ AtRead /\ AtErase /\ AtRun
  BY <1>1, <1>2, PromptTexts DEF AtShell, AtBegin, AtRead, AtErase, AtRun
<1>5. LineIsWhatWasTyped /\ FullIsFilled
  BY <1>1 DEF LineIsWhatWasTyped, FullIsFilled
<1>. QED BY <1>1, <1>2, <1>3, <1>4, <1>5 DEF IInv

LEMMA StepsAreSound ==
    ASSUME IInv, [Next]_vars
    PROVE  IInv'
<1>1. CASE PutChar
  BY <1>1, PutCharIsSound
<1>2. CASE BeginLine \/ MarkStart
  BY <1>2, BeginLineIsSound, MarkStartIsSound
<1>3. CASE TypeNewline \/ TypeBackspace \/ TypeTooMuch \/ TypeControlC
  BY <1>3, TypeNewlineIsSound, TypeBackspaceIsSound, TypeTooMuchIsSound, TypeControlCIsSound
<1>4. CASE \E char \in Chars : TypeChar(char)
  BY <1>4, TypeCharIsSound
<1>5. CASE EraseOne \/ EraseDone
  BY <1>5, EraseOneIsSound, EraseDoneIsSound
<1>6. CASE RunLine
  BY <1>6, RunLineIsSound
<1>7. CASE UNCHANGED vars
  <2>1. /\ screen' = screen /\ output' = output /\ at' = at /\ OutBuffer' = OutBuffer
        /\ Index' = Index /\ StartPosition' = StartPosition /\ typed' = typed
        /\ tabbed' = tabbed /\ filled' = filled
    BY <1>7 DEF vars, lineVars
  <2>2. /\ IsScreen(screen') /\ LineOK' /\ AtShell' /\ AtBegin' /\ AtErase' /\ AtRun'
        /\ LineIsWhatWasTyped' /\ FullIsFilled'
    BY <2>1 DEF IInv, LineOK, AtShell, AtBegin, AtErase, AtRun, LineIsWhatWasTyped,
       FullIsFilled, EndsInCursor, CursorIsShown
  <2>3. AtRead'
    BY <2>1 DEF IInv, AtRead, Waiting, Erasing2, Erasing1, Echoing3, Echoing2, Echoing1,
       EndsInCursor, CursorIsShown, LineIsShown
  <2>. QED BY <2>1, <2>2, <2>3 DEF IInv
<1>. QED BY <1>1, <1>2, <1>3, <1>4, <1>5, <1>6, <1>7 DEF Next

(* The invariant holds: of the screen, of the line buffer, and of what is   *)
(* still to be printed at each place of the prompt.                         *)
THEOREM InvariantHolds == Spec => []IInv
<1>1. Init => IInv
  BY InitIsSound
<1>2. IInv /\ [Next]_vars => IInv'
  BY StepsAreSound
<1>. QED BY <1>1, <1>2, PTL DEF Spec

(* The line that InputReadLine returns is the line the user has typed and   *)
(* corrected, however often it was corrected, given up and begun again.     *)
THEOREM LineIsReturned == Spec => []LineIsWhatWasTyped
<1>1. IInv => LineIsWhatWasTyped
  BY DEF IInv
<1>. QED BY <1>1, InvariantHolds, PTL

LEMMA LineIsOnTheScreen ==
    ASSUME IInv
    PROVE  ScreenShowsTheLine
<1>1. /\ screen.Position \in -1 .. Capacity - 1 /\ screen.cells \in [Cells -> Contents]
      /\ \A c \in Cells : c >= screen.Position => screen.cells[c] = {}
  BY DEF IInv, IsScreen
<1>2. ASSUME at = "Read", output = <<>>, ~screen.scrolled, ~tabbed
      PROVE  /\ screen.Position = StartPosition + Len(typed)
             /\ screen.cells[screen.Position - 1] = {Cursor}
             /\ \A i \in 1 .. Len(typed) : screen.cells[StartPosition + i - 2] = Glyph(typed[i])
  <2>1. /\ LineIsShown(0, Len(typed)) /\ screen.Position \in Nat /\ CursorIsShown
    BY <1>2, WaitsAtRead
  <2>. QED BY <1>2, <2>1 DEF LineIsShown, CursorIsShown
<1>3. ASSUME NEW c \in Cells
      PROVE  Cardinality(screen.cells[c]) <= 1
  <2>1. screen.cells[c] \in Contents
    BY <1>1
  <2>2. CASE screen.cells[c] = {}
    BY <2>2, FS_EmptySet
  <2>3. CASE screen.cells[c] # {}
    <3>1. PICK char : screen.cells[c] = {char}
      BY <2>1, <2>3 DEF Contents
    <3>2. Cardinality({char}) = 1
      BY FS_Singleton
    <3>. QED BY <3>1, <3>2
  <2>. QED BY <2>2, <2>3
<1>4. screen.cells[Capacity - 1] = {}
  BY <1>1, Sizes
<1>. QED BY <1>2, <1>3, <1>4 DEF ScreenShowsTheLine

(* The screen shows that line with the cursor behind it, until it scrolls   *)
(* or a tab is echoed, and never two glyphs in one cell.                    *)
THEOREM LineIsSeen == Spec => []ScreenShowsTheLine
BY LineIsOnTheScreen, InvariantHolds, PTL

LEMMA CursorIsOnTheScreen ==
    ASSUME IInv
    PROVE  OffScreenOnlyAfterScrolling
<1>. SUFFICES ASSUME screen.Position = -1
              PROVE  at = "Erase" /\ screen.scrolled
  BY DEF OffScreenOnlyAfterScrolling, OffScreen
<1>1. at \notin {"Shell", "Stopped", "Begin", "Run"}
  BY DEF IInv, AtShell, AtBegin, AtRun
<1>2. at # "Read"
  <2>1. SUFFICES ASSUME at = "Read"
                 PROVE  FALSE
    OBVIOUS
  <2>2. typed \in Seq(Chars) /\ Len(typed) \in Nat /\ (typed # <<>> => Len(typed) >= 1)
    BY DEF IInv, LineOK
  <2>3. Waiting \/ Erasing2 \/ Erasing1 \/ Echoing3 \/ Echoing1 \/ Echoing2
    BY <2>1 DEF IInv, AtRead
  <2>4. CASE Waiting \/ Erasing2 \/ Erasing1
    BY <2>2, <2>4 DEF Waiting, Erasing2, Erasing1, LineIsShown
  <2>5. CASE Echoing3 \/ Echoing1
    BY <2>2, <2>5 DEF Echoing3, Echoing1, LineIsShown
  <2>6. CASE Echoing2
    BY <2>6 DEF Echoing2
  <2>. QED BY <2>3, <2>4, <2>5, <2>6
<1>3. CASE at = "Erase"
  <2>1. Len(<<>>) = 0 /\ Len(<<Backspace>>) = 1
    OBVIOUS
  <2>2. /\ StartPosition \in Nat /\ StartPosition >= 1 /\ screen.scrolled \in BOOLEAN
        /\ Len(output) \in {0, 1}
        /\ ~screen.scrolled => screen.Position - Len(output) >= StartPosition
    BY <1>3, <2>1 DEF IInv, AtErase, LineOK, IsScreen
  <2>. QED BY <1>3, <2>2
<1>. QED BY <1>1, <1>2, <1>3 DEF IInv

(* The cursor leaves the screen only when Ctrl-C gives up a line that has   *)
(* scrolled the screen.                                                     *)
THEOREM CursorStaysOnTheScreen == Spec => []OffScreenOnlyAfterScrolling
BY CursorIsOnTheScreen, InvariantHolds, PTL

LEMMA OverrunsAreOfFilledLines ==
    ASSUME IInv, [Next]_vars
    PROVE  [OutBuffer'[Size] # OutBuffer[Size] => filled]_vars
<1>1. /\ OutBuffer \in [0 .. Size -> Chars \cup {NUL, Foreign}]
      /\ Index \in 0 .. Size /\ Size \in 0 .. Size
      /\ at = "Read" /\ Index = Size => filled
  BY Sizes DEF IInv, LineOK, FullIsFilled
<1>2. Cleared(OutBuffer)[Size] = OutBuffer[Size]
  BY <1>1 DEF Cleared
<1>3. CASE BeginLine \/ TypeControlC
  BY <1>2, <1>3 DEF BeginLine, TypeControlC
<1>4. CASE TypeBackspace
  <2>1. OutBuffer' = [OutBuffer EXCEPT ![Index] = NUL] /\ at = "Read"
    BY <1>4 DEF TypeBackspace, Go
  <2>2. CASE Index = Size
    BY <1>1, <2>1, <2>2
  <2>3. CASE Index # Size
    BY <1>1, <2>1, <2>3
  <2>. QED BY <2>2, <2>3
<1>5. CASE \E char \in Chars : TypeChar(char)
  <2>1. PICK char \in Chars : OutBuffer' = [OutBuffer EXCEPT ![Index] = char] /\ Index < Size
    BY <1>5 DEF TypeChar, HasRoom
  <2>2. Index # Size
    BY <1>1, <2>1, Sizes
  <2>. QED BY <1>1, <2>1, <2>2
<1>6. CASE \/ PutChar \/ MarkStart \/ TypeNewline \/ TypeTooMuch \/ EraseOne \/ EraseDone
           \/ RunLine \/ UNCHANGED vars
  BY <1>6 DEF PutChar, MarkStart, TypeNewline, TypeTooMuch, EraseOne, EraseDone,
     RunLine, RunEmpty, RunStop, RunClear, RunHelp, RunEcho, Run, lineVars, vars
<1>. QED BY <1>3, <1>4, <1>5, <1>6 DEF Next

(* InputReadLine writes the byte behind its buffer only when the line has   *)
(* filled the buffer.                                                       *)
THEOREM OverrunsAreBounded == Spec => OverrunOnlyWhenFilled
BY OverrunsAreOfFilledLines, InvariantHolds, PTL DEF Spec, OverrunOnlyWhenFilled

=============================================================================
