------------------------------- MODULE Keymap -------------------------------
(* The characters of the keys (src/system/kernel/Input.c): what             *)
(* InputScancodeToASCII makes of a scan code with shift and caps lock.       *)
(* Module Input presses the keys and switches caps lock.                    *)
EXTENDS Integers, FiniteSets, Sequences

NUL   == "NUL"     \* and "GRAVE" is a backquote
Codes == 0 .. 226   \* below SCANCODE_KEY_COUNT

A        == 4
Z        == 29
One      == 30
Zero     == 39
Space    == 44
CapsLock == 57

SmallLetters   == <<"a", "b", "c", "d", "e", "f", "g", "h", "i", "j", "k", "l", "m",
                    "n", "o", "p", "q", "r", "s", "t", "u", "v", "w", "x", "y", "z">>
CapitalLetters == <<"A", "B", "C", "D", "E", "F", "G", "H", "I", "J", "K", "L", "M",
                    "N", "O", "P", "Q", "R", "S", "T", "U", "V", "W", "X", "Y", "Z">>
Digits         == <<"1", "2", "3", "4", "5", "6", "7", "8", "9", "0">>

(* Mutant: one sign stands twice.                                           *)
DigitSignsTwice == <<"!", "@", "#", "$", "%", "^", "&", "*", "(", "(">>

DigitSigns == <<"!", "@", "#", "$", "%", "^", "&", "*", "(", ")">>

(* The keys right of the letters, without and with shift.                   *)
SignKeys == 45 .. 49 \cup 51 .. 56
Signs == [code \in SignKeys |->
    CASE code = 45 -> <<"-", "_">>
      [] code = 46 -> <<"=", "+">>
      [] code = 47 -> <<"[", "{">>
      [] code = 48 -> <<"]", "}">>
      [] code = 49 -> <<"\\", "|">>
      [] code = 51 -> <<";", ":">>
      [] code = 52 -> <<"'", "\"">>
      [] code = 53 -> <<"GRAVE", "~">>
      [] code = 54 -> <<",", "<">>
      [] code = 55 -> <<".", ">">>
      [] code = 56 -> <<"/", "?">>]

(* The keys that are characters to the prompt and have no glyph.            *)
Control == [code \in {40, 42, 43} |->
    CASE code = 40 -> "NL" [] code = 42 -> "BS" [] code = 43 -> "TAB"]

(* Shift as the signs see it, and as the letters do.                        *)
ShiftOfSigns(shift, caps)   == shift
ShiftOfLetters(shift, caps) == shift # caps

InputScancodeToASCII(code, shift, caps) ==
    CASE code \in A .. Z      -> IF ShiftOfLetters(shift, caps)
                                 THEN CapitalLetters[code - A + 1] ELSE SmallLetters[code - A + 1]
      [] code \in One .. Zero -> IF ShiftOfSigns(shift, caps)
                                 THEN DigitSigns[code - One + 1] ELSE Digits[code - One + 1]
      [] code \in SignKeys    -> Signs[code][IF ShiftOfSigns(shift, caps) THEN 2 ELSE 1]
      [] code = Space         -> " "
      [] code \in DOMAIN Control -> Control[code]
      [] OTHER                -> NUL

InputScancodeIsASCII(code) == code \in A .. Z \cup One .. Zero \cup SignKeys \cup {Space}

-----------------------------------------------------------------------------
(* The printable characters of ASCII.                                       *)
Punctuation ==
    {" ", "!", "\"", "#", "$", "%", "&", "'", "(", ")", "*", "+", ",", "-", ".", "/", ":", ";", "<",
     "=", ">", "?", "@", "[", "\\", "]", "^", "_", "GRAVE", "{", "|", "}", "~"}
ElementsOf(seq) == {seq[i] : i \in DOMAIN seq}

Letters   == ElementsOf(SmallLetters) \cup ElementsOf(CapitalLetters)
Printable == Letters \cup ElementsOf(Digits) \cup Punctuation

(* The keys, with or without shift, that give a character.                  *)
Typed(c, caps) == {p \in Codes \X BOOLEAN : InputScancodeToASCII(p[1], p[2], caps) = c}

(* Whether, in a state of caps lock, every printable character can be       *)
(* typed, in one way only (the space bar alone gives its character with and *)
(* without shift), whether it is the keys said to be ASCII keys that give   *)
(* them, and whether caps lock does to letters what shift does, and nothing *)
(* to other keys.                                                           *)
OneKeyEach == [caps \in BOOLEAN |->
    /\ \A c \in Printable \ {" "} : Cardinality(Typed(c, caps)) = 1
    /\ Typed(" ", caps) = {Space} \X BOOLEAN
    /\ \A code \in Codes, shift \in BOOLEAN :
           LET c == InputScancodeToASCII(code, shift, caps)
           IN  /\ InputScancodeIsASCII(code) <=> c \in Printable
               /\ c = InputScancodeToASCII(code, (c \in Letters) # shift, ~caps)]
=============================================================================
