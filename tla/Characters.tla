------------------------------- MODULE Characters -------------------------------
(***************************************************************************)
(* Characters and C strings, for the modules about text.  A character is a *)
(* string of one character, a text is a sequence of them, and a text is    *)
(* indexed from 0, as in the code: past its end stands NUL.  The tests of  *)
(* characters are the macros of include/types.h.                           *)
(***************************************************************************)
EXTENDS Arithmetic, FiniteSetsExt

NUL == ""

\* Codes 32 to 126, in order (a grave accent cannot be written in a string).
Printable == <<" ", "!", "\"", "#", "$", "%", "&", "'", "(", ")", "*", "+", ",", "-", ".", "/",
    "0", "1", "2", "3", "4", "5", "6", "7", "8", "9", ":", ";", "<", "=", ">", "?",
    "@", "A", "B", "C", "D", "E", "F", "G", "H", "I", "J", "K", "L", "M", "N", "O",
    "P", "Q", "R", "S", "T", "U", "V", "W", "X", "Y", "Z", "[", "\\", "]", "^", "_",
    "grave", "a", "b", "c", "d", "e", "f", "g", "h", "i", "j", "k", "l", "m", "n", "o",
    "p", "q", "r", "s", "t", "u", "v", "w", "x", "y", "z", "{", "|", "}", "~">>

\* The other characters there are.
Controls == [c \in {"\t", "\n", "\r"} |-> CASE c = "\t" -> 9 [] c = "\n" -> 10 [] c = "\r" -> 13]

Character == ToSet(Printable) \cup DOMAIN Controls

Code == [c \in Character |->
           IF c \in DOMAIN Controls THEN Controls[c]
           ELSE 31 + (CHOOSE k \in DOMAIN Printable : Printable[k] = c)]

\* The character with a code; the codes that no model writes are all NUL.
CharOf(code) ==
    IF code \in 32..126 THEN Printable[code - 31]
    ELSE IF code \in {9, 10, 13} THEN CHOOSE c \in DOMAIN Controls : Controls[c] = code
    ELSE NUL

Lowers == <<"a", "b", "c", "d", "e", "f", "g", "h", "i", "j", "k", "l", "m",
            "n", "o", "p", "q", "r", "s", "t", "u", "v", "w", "x", "y", "z">>
Uppers == <<"A", "B", "C", "D", "E", "F", "G", "H", "I", "J", "K", "L", "M",
            "N", "O", "P", "Q", "R", "S", "T", "U", "V", "W", "X", "Y", "Z">>

Numerals == {"0", "1", "2", "3", "4", "5", "6", "7", "8", "9"}
HexDigits == Numerals \cup {"a", "b", "c", "d", "e", "f", "A", "B", "C", "D", "E", "F"}

IsNumeralChar(c) == c \in Numerals
IsLowerChar(c) == c \in ToSet(Lowers)
IsUpperChar(c) == c \in ToSet(Uppers)
IsAlphaChar(c) == IsLowerChar(c) \/ IsUpperChar(c)
IsSymbolChar(c) == IsAlphaChar(c) \/ c = "_" \/ IsNumeralChar(c)
IsWhiteSpace(c) == c \in {" ", "\t"}
IsQuoteChar(c) == c \in {"'", "\""}
IsNegativeChar(c) == c = "-"

\* The letter that stands in one alphabet where c stands in the other.
Partner(c, from, to) == IF c \in ToSet(from) THEN to[CHOOSE k \in DOMAIN from : from[k] = c] ELSE c
ToLowerChar(c) == Partner(c, Uppers, Lowers)
ToUpperChar(c) == Partner(c, Lowers, Uppers)

\* The digits of any base up to 16, and their values.
LowerDigits == <<"0", "1", "2", "3", "4", "5", "6", "7", "8", "9", "a", "b", "c", "d", "e", "f">>
UpperDigits == <<"0", "1", "2", "3", "4", "5", "6", "7", "8", "9", "A", "B", "C", "D", "E", "F">>
DigitsOf(base) == ToSet(SubSeq(LowerDigits, 1, base)) \cup ToSet(SubSeq(UpperDigits, 1, base))
DigitOf(c) == CHOOSE n \in 0..15 : c \in {LowerDigits[n + 1], UpperDigits[n + 1]}

-----------------------------------------------------------------------------
\* s[i], Mid() and Left(); a position past the end gives nothing.
At(s, i) == IF i >= 0 /\ i < Len(s) THEN s[i + 1] ELSE NUL
Mid(s, i, n) == SubSeq(s, i + 1, IF i + n < Len(s) THEN i + n ELSE Len(s))
From(s, i) == SubSeq(s, i + 1, Len(s))

RECURSIVE Copies(_, _)
Copies(s, n) == IF n <= 0 THEN <<>> ELSE s \o Copies(s, n - 1)

\* The first position from i on where s[position] is in a set, or the end.
FirstIn(s, i, chars) ==
    LET found == {k \in i..(Len(s) - 1) : s[k + 1] \in chars} IN
    IF found = {} THEN Len(s) ELSE Min(found)

\* The first position from i on whose character is not in a set.
FirstNotIn(s, i, chars) ==
    LET found == {k \in i..(Len(s) - 1) : s[k + 1] \notin chars} IN
    IF found = {} THEN Greatest(i, Len(s)) ELSE Min(found)

RECURSIVE NumberOf(_, _)
NumberOf(digits, base) ==
    IF digits = <<>> THEN 0 ELSE base * NumberOf(Front(digits), base) + DigitOf(Last(digits))

\* The character after an escape character, and the position behind it.  A "0"
\* is NUL and is not stepped over.  A code is kept in a byte.
Deescaped(s, i) ==
    LET c == At(s, i)
        hex == c \in {"x", "X"}
        start == IF hex THEN i + 1 ELSE i
        digits == Least(IF hex THEN 2 ELSE 3,
                        FirstNotIn(s, start, IF hex THEN HexDigits ELSE Numerals) - start)
        code == NumberOf(Mid(s, start, digits), IF hex THEN 16 ELSE 10) % 256
    IN CASE c = "0" -> [c |-> NUL, pos |-> i]
         [] c \in {"n", "r", "t"} ->
              [c |-> CASE c = "n" -> "\n" [] c = "r" -> "\r" [] c = "t" -> "\t", pos |-> i + 1]
         [] hex \/ (IsNumeralChar(c) /\ c # "0") -> [c |-> CharOf(code), pos |-> start + digits]
         [] OTHER -> [c |-> c, pos |-> i + 1]
=============================================================================
