------------------------------ MODULE Prompt ------------------------------
(* The prompt: InputReadLine (src/system/kernel/Input.c) and the loop of    *)
(* main that calls it (src/system/StartKernel.c), on the terminal. The      *)
(* characters come from the queue of module Input, in any order.            *)
(*                                                                          *)
(* OutBuffer has one byte more than the code's buffer: byte Size is not the *)
(* prompt's, but the code can write it, and reads it as part of the line    *)
(* when the line fills the buffer.                                          *)
EXTENDS Terminal, FiniteSets

CONSTANTS
    Printable,      \* the characters of texts: all but the backspace
    Chars,          \* those that go into a line; Tab may be one
    Size,           \* sizeof(Line)
    PromptText,     \* " $ "
    EchoText,       \* ">> "
    ErrorText,      \* "\t[err: prompt too long]"
    HelpLines,      \* the lines that "help" prints
    ClearCommand, HelpCommand, StopCommand   \* the lines with a meaning

NUL     == "NUL"
Foreign == "?"      \* a byte behind the buffer that is not NUL
Cursor  == "_"

ASSUME CharsAssumption ==
    /\ {Backspace, Newline, NUL} \cap Chars = {} /\ Backspace \notin Printable
    /\ Chars \cup {Newline, Tab, Space, Cursor, Foreign} \subseteq Printable
    /\ {PromptText, EchoText, ErrorText, HelpLines} \subseteq Seq(Printable)
ASSUME ScreenAssumption == Size \in Nat \ {0} /\ Size < LastRow

VARIABLES
    screen,          \* gTerminal and the frame buffer
    output,          \* the text that is being printed
    at,              \* where the prompt is when it has been
    OutBuffer, Index, StartPosition,
    typed,           \* history: the line as the user has typed and corrected it
    tabbed,          \* history: a tab was echoed since the line was begun
    filled           \* history: this line has filled the buffer

lineVars == <<OutBuffer, Index, StartPosition, typed, tabbed, filled>>
vars == <<screen, output, at, lineVars>>

Buffer == 0 .. Size - 1

(* Mutant: one byte too many is cleared.                                    *)
ClearedOneMore(buffer) == [i \in 0 .. Size |-> NUL]

Cleared(buffer) == [i \in 0 .. Size |-> IF i = Size THEN buffer[Size] ELSE NUL]

Init ==
    /\ screen = BlankScreen
    /\ output = <<>>
    /\ at = "Shell"
    /\ OutBuffer \in {[i \in 0 .. Size |-> IF i = Size THEN byte ELSE NUL] : byte \in {NUL, Foreign}}
    /\ Index = 0 /\ StartPosition = 0 /\ typed = <<>>
    /\ tabbed = FALSE /\ filled = FALSE

(* The program goes on when what it prints is on the screen.                *)
Go(from, to) == output = <<>> /\ at = from /\ at' = to
Show(text)   == output' = text /\ UNCHANGED screen

PutChar ==
    /\ output # <<>>
    /\ screen.Position # OffScreen   \* else the character is drawn outside of the frame buffer
    /\ TerminalPutChar(screen, screen', output, output')
    /\ UNCHANGED <<at, lineVars>>

-----------------------------------------------------------------------------
(* InputReadLine                                                            *)

(* The loop of main prints its prompt, and InputReadLine begins a line      *)
(* behind it.                                                               *)
BeginLine ==
    /\ Go("Shell", "Begin")
    /\ Show(PromptText \o <<Cursor>>)
    /\ OutBuffer' = Cleared(OutBuffer)
    /\ Index' = 0
    /\ typed' = <<>> /\ tabbed' = FALSE /\ filled' = FALSE
    /\ UNCHANGED StartPosition

(* StartPosition is the position behind the first cursor.                   *)
MarkStart ==
    /\ Go("Begin", "Read")
    /\ StartPosition' = screen.Position
    /\ screen' = [screen EXCEPT !.scrolled = FALSE]
    /\ UNCHANGED <<output, OutBuffer, Index, typed, tabbed, filled>>

TypeNewline ==
    /\ Go("Read", "Run")
    /\ Show(<<Backspace, Newline>>)
    /\ UNCHANGED lineVars

(* Mutant: an empty line is erased further.                                 *)
EraseWhenEmpty == Index >= 0

CanErase == Index > 0

(* OutBuffer[Index--] = NUL: the byte behind the line is cleared, and the   *)
(* erased character stays in the buffer.                                    *)
TypeBackspace ==
    /\ Go("Read", "Read")
    /\ CanErase
    /\ OutBuffer' = [OutBuffer EXCEPT ![Index] = NUL]
    /\ Index' = Index - 1
    /\ Show(<<Backspace, Backspace, Cursor>>)
    /\ typed' = Front(typed)
    /\ UNCHANGED <<StartPosition, tabbed, filled>>

(* Mutant: the cursor is not taken away before the character is echoed.     *)
EchoOverCursor(char) == <<char, Cursor>>

EchoOf(char) == <<Backspace, char, Cursor>>

HasRoom == Index < Size

TypeChar(char) ==
    /\ Go("Read", "Read")
    /\ HasRoom
    /\ OutBuffer' = [OutBuffer EXCEPT ![Index] = char]
    /\ Index' = Index + 1
    /\ Show(EchoOf(char))
    /\ typed' = Append(typed, char)
    /\ tabbed' = (tabbed \/ char = Tab)
    /\ filled' = (filled \/ Index' = Size)
    /\ UNCHANGED StartPosition

(* The line is given up: InputReadLine returns 0, whatever is in the buffer.*)
TypeTooMuch ==
    /\ Go("Read", "Shell")
    /\ ~HasRoom
    /\ Show(ErrorText \o <<Newline>>)
    /\ UNCHANGED lineVars

(* Ctrl-C clears the buffer, and backspaces until the position is the one   *)
(* the line began at.                                                       *)
TypeControlC ==
    /\ Go("Read", "Erase")
    /\ OutBuffer' = Cleared(OutBuffer)
    /\ UNCHANGED <<screen, output, Index, StartPosition, typed, tabbed, filled>>

(* Mutant: the loop ends one cell behind the start.                         *)
ErasedEarly == screen.Position = StartPosition + 1

Erased == screen.Position = StartPosition

EraseOne ==
    /\ ~Erased
    /\ Go("Erase", "Erase")
    /\ Show(<<Backspace>>)
    /\ UNCHANGED lineVars

(* Mutant: the line is erased on the screen and in the buffer, not counted  *)
(* down to 0.                                                               *)
EraseDoneKeepsIndex ==
    /\ Erased
    /\ Go("Erase", "Read")
    /\ Show(<<Backspace, Cursor>>)
    /\ typed' = <<>> /\ tabbed' = FALSE
    /\ UNCHANGED <<OutBuffer, Index, StartPosition, filled>>

EraseDone ==
    /\ Erased
    /\ Go("Erase", "Read")
    /\ Show(<<Backspace, Cursor>>)
    /\ Index' = 0
    /\ typed' = <<>> /\ tabbed' = FALSE
    /\ UNCHANGED <<OutBuffer, StartPosition, filled>>

-----------------------------------------------------------------------------
(* The line as a C string: the bytes before the first NUL, those behind the *)
(* buffer included.                                                         *)
LineLength ==
    CHOOSE length \in 0 .. Size + 1 :
        /\ \A i \in 0 .. length - 1 : OutBuffer[i] # NUL
        /\ length <= Size => OutBuffer[length] = NUL

Line == [i \in 1 .. LineLength |-> OutBuffer[i - 1]]

(* main, with what InputReadLine has returned: Index.                       *)
RunEmpty ==
    /\ Go("Run", "Shell")
    /\ Index = 0
    /\ UNCHANGED <<screen, output, lineVars>>

Run(command, next) ==
    /\ Go("Run", next)
    /\ Index # 0
    /\ Line = command
    /\ UNCHANGED lineVars

(* "reset" and "panic" do not come back.                                    *)
RunStop  == Run(StopCommand, "Stopped") /\ UNCHANGED <<screen, output>>
RunClear == Run(ClearCommand, "Shell") /\ screen' = TerminalClear(screen) /\ UNCHANGED output
RunHelp  == Run(HelpCommand, "Shell") /\ Show(HelpLines)
RunEcho  ==
    /\ Line \notin {StopCommand, ClearCommand, HelpCommand}
    /\ Run(Line, "Shell")
    /\ Show(EchoText \o Line \o <<Newline>>)

RunLine == RunEmpty \/ RunStop \/ RunClear \/ RunHelp \/ RunEcho

Next ==
    \/ PutChar \/ BeginLine \/ MarkStart
    \/ TypeNewline \/ TypeBackspace \/ TypeTooMuch \/ TypeControlC
    \/ \E char \in Chars : TypeChar(char)
    \/ EraseOne \/ EraseDone
    \/ RunLine

(* The code runs on by itself except where it waits for a key.              *)
Fairness ==
    /\ WF_vars(PutChar) /\ WF_vars(BeginLine) /\ WF_vars(MarkStart)
    /\ WF_vars(EraseOne) /\ WF_vars(EraseDone) /\ WF_vars(RunLine)

Spec == Init /\ [][Next]_vars /\ Fairness

-----------------------------------------------------------------------------
(* The line the prompt will return is the line the user has typed and       *)
(* corrected: the count, and as many bytes of the buffer.                   *)
LineIsWhatWasTyped ==
    at \in {"Read", "Run"} =>
        /\ Index = Len(typed)
        /\ \A i \in 1 .. Index : OutBuffer[i - 1] = typed[i]

(* ... and it is what the screen shows, with the cursor behind it, as long  *)
(* as the screen has not scrolled and no tab has been echoed; and no glyph  *)
(* is ever drawn over another: the cursor is erased before a character is   *)
(* drawn, rows that scroll in are blank, and the last cell stays empty.     *)
ScreenShowsTheLine ==
    /\ at = "Read" /\ output = <<>> /\ ~screen.scrolled /\ ~tabbed =>
        /\ screen.Position = StartPosition + Len(typed)
        /\ screen.cells[screen.Position - 1] = {Cursor}
        /\ \A i \in 1 .. Len(typed) : screen.cells[StartPosition + i - 2] = Glyph(typed[i])
    /\ \A c \in Cells : Cardinality(screen.cells[c]) <= 1
    /\ screen.cells[Capacity - 1] = {}

(* The cursor leaves the screen only in the loop of Ctrl-C, and only when   *)
(* the line has scrolled the screen: StartPosition is then a place the      *)
(* cursor may never come back to.                                           *)
OffScreenOnlyAfterScrolling ==
    screen.Position = OffScreen => at = "Erase" /\ screen.scrolled

(* The byte behind the buffer is written only after the line has filled the *)
(* buffer.                                                                  *)
OverrunOnlyWhenFilled == [][OutBuffer'[Size] # OutBuffer[Size] => filled]_vars

(* Ctrl-C gives the prompt back, unless the line has scrolled the screen.   *)
ControlCReturns == at = "Erase" ~> (at = "Read" \/ screen.scrolled)
=============================================================================
