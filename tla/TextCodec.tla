------------------------------- MODULE TextCodec -------------------------------
(***************************************************************************)
(* The conversions of AString (src/src/strsup.cpp) that settings files go  *)
(* through: a value is escaped and quoted on the way out, unquoted and     *)
(* unescaped on the way in.  A text is a sequence of characters, and       *)
(* Letters stands for all those that no conversion treats specially.       *)
(***************************************************************************)
EXTENDS Integers, SequencesExt, FiniteSetsExt

CONSTANT Letters

Backslash == "\\"
Quotes == {"\"", "'"}

\* EscapeSearch and EscapeReplace (without the backspace, which is like a tab).
EscapeLetter == [c \in {"\\", "\"", "'", "\n", "\r", "\t"} |->
                   CASE c = "\n" -> "n" [] c = "\r" -> "r" [] c = "\t" -> "t" [] OTHER -> c]

Characters == Letters \cup DOMAIN EscapeLetter \cup {EscapeLetter[c] : c \in DOMAIN EscapeLetter}
              \cup {" "}

Has(s, c) == c \in ToSet(s)

\* Mutant: the escape character itself is not escaped.
EscapedButBackslash(c) == IF c \in DOMAIN EscapeLetter \ {Backslash}
                          THEN <<Backslash, EscapeLetter[c]>> ELSE <<c>>

EscapedChar(c) == IF c \in DOMAIN EscapeLetter THEN <<Backslash, EscapeLetter[c]>> ELSE <<c>>

Escapify(s) == FlattenSeq([k \in 1..Len(s) |-> EscapedChar(s[k])])

\* One step of the loop: mode says what the character before was.  An escape
\* nobody writes is read as its letter, and the character after it is lost
\* (deescape() advances the index and so does the loop).  Numbers are left out.
DeEscapeStep(acc, c) ==
    CASE acc.mode = "plain" /\ c = Backslash -> [acc EXCEPT !.mode = "escape"]
      [] acc.mode = "plain" /\ c # Backslash -> [acc EXCEPT !.out = Append(@, c)]
      [] acc.mode = "skip" -> [acc EXCEPT !.mode = "plain"]
      [] acc.mode = "escape" ->
           LET known == {d \in DOMAIN EscapeLetter : EscapeLetter[d] = c} IN
           IF known # {}
           THEN [out |-> Append(acc.out, CHOOSE d \in known : TRUE), mode |-> "plain"]
           ELSE [out |-> Append(acc.out, c), mode |-> "skip"]

DeEscapify(s) == FoldLeft(DeEscapeStep, [out |-> <<>>, mode |-> "plain"], s).out

\* Quotify(true): only a text with a space is quoted.
Quotify(s) == IF Has(s, " ") THEN <<"\"">> \o s \o <<"\"">> ELSE s

\* A pair of quotes is taken off, or a single one at the start.
DeQuotify(s) ==
    IF s = <<>> \/ Head(s) \notin Quotes THEN s
    ELSE IF Last(s) = Head(s) THEN SubSeq(s, 2, Len(s) - 1)
    ELSE Tail(s)

\* A value as it stands after the "=" of its line, and back.
Encode(value) == Quotify(Escapify(value))
Decode(text) == DeEscapify(DeQuotify(text))
=============================================================================
