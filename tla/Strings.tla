--------------------------------- MODULE Strings ---------------------------------
(***************************************************************************)
(* AString (src/src/strsup.cpp): pieces of texts, searching, replacing,    *)
(* words, lines and lists of texts.  Positions count from 0, -1 is "not    *)
(* found".  An operation that changes its object is the object after it.   *)
(***************************************************************************)
EXTENDS Characters

NotFound == -1
MaxPos == 2147483647

\* Create() and Append(): as much as is asked for and there; -1 is all of it.
Create(t, n) == IF n < 0 THEN t ELSE Mid(t, 0, n)
Appended(s, t, n) == s \o Create(t, n)

Left(s, n) == Mid(s, 0, Greatest(n, 0))

\* Mid(): nothing for a position that is not in the text; -1 is the rest.
MidOf(s, pos, n) ==
    IF pos < 0 \/ pos >= Len(s) THEN <<>> ELSE IF n < 0 THEN From(s, pos) ELSE Mid(s, pos, n)

\* Right(): nothing if there are not that many characters.
Right(s, n) == IF n > 0 /\ n <= Len(s) THEN From(s, Len(s) - n) ELSE <<>>

FirstChar(s) == At(s, 0)
LastChar(s) == At(s, Len(s) - 1)

Folded(s) == [k \in DOMAIN s |-> ToLowerChar(s[k])]

\* stricmp() and strcmp() as far as they are asked for equality; the same for
\* the first n characters.
Same(s, t, bCase) == IF bCase THEN s = t ELSE Folded(s) = Folded(t)
SameN(s, t, n, bCase) == Same(Left(s, n), Left(t, n), bCase)

\* strcmp() and stricmp(), as signs: the first character that differs decides.
CompareCase(s, t) ==
    LET differ == {i \in 0..Greatest(Len(s), Len(t)) : At(s, i) # At(t, i)}
        CodeAt(text) == LET c == At(text, Min(differ)) IN IF c = NUL THEN 0 ELSE Code[c]
    IN IF differ = {} THEN 0 ELSE IF CodeAt(s) < CodeAt(t) THEN -1 ELSE 1

CompareNoCase(s, t) == CompareCase(Folded(s), Folded(t))

\* The order of nodes in a list: pairs by their "key" or "value", and texts, which
\* are both to themselves.  The context of the comparison may turn it round.
AlphaCompare(node1, node2, part, bCase, reversed) ==
    LET cmp == IF bCase THEN CompareCase(node1[part], node2[part])
               ELSE CompareNoCase(node1[part], node2[part])
    IN IF "other" \in {node1.is, node2.is} THEN -1 ELSE IF reversed THEN -cmp ELSE cmp

-----------------------------------------------------------------------------
(* UTF-8: a byte is a character of one, the lead of 2 to 4 bytes, or inside one. *)

Leads == [c \in {"lead2", "lead3", "lead4"} |-> CASE c = "lead2" -> 2 [] c = "lead3" -> 3 [] c = "lead4" -> 4]
Cont == "cont"
Illegal == "illegal"

IsUTF8Char(c) == c \in DOMAIN Leads \cup {Cont, Illegal}
UTF8CharLen(c) == IF c \in DOMAIN Leads THEN Leads[c] ELSE IF IsUTF8Char(c) THEN 0 ELSE 1

RECURSIVE UTF8Chars(_, _)
UTF8Chars(s, i) ==
    IF i >= Len(s) THEN 0
    ELSE LET len == UTF8CharLen(At(s, i)) IN
         IF len > 0 THEN 1 + UTF8Chars(s, i + len) ELSE UTF8Chars(s, i + 1)

UTF8Strlen(s) == UTF8Chars(s, 0)

RECURSIVE GetStartOfCurrentChar(_, _)
GetStartOfCurrentChar(s, pos) ==
    IF UTF8CharLen(At(s, pos)) = 0 /\ pos > 0 THEN GetStartOfCurrentChar(s, pos - 1) ELSE pos

GetEndOfCurrentChar(s, pos) ==
    LET start == GetStartOfCurrentChar(s, pos) IN start + UTF8CharLen(At(s, start)) - 1

\* The position n characters on, or none if the text is too short.
RECURSIVE CharsOn(_, _, _)
CharsOn(s, pos, n) ==
    IF At(s, pos) = NUL \/ n = 0 THEN (IF n > 0 THEN NotFound ELSE pos)
    ELSE CharsOn(s, GetEndOfCurrentChar(s, pos) + 1, n - 1)

\* The end counts as the start of a character unless every character is a byte.
GetStartOfChar(s, n) ==
    IF n < 0 THEN NotFound ELSE IF n = 0 THEN 0
    ELSE IF UTF8Strlen(s) = Len(s) THEN (IF n < Len(s) THEN n ELSE NotFound)
    ELSE CharsOn(s, 0, n)

GetEndOfChar(s, n) ==
    LET pos == GetStartOfChar(s, n) IN IF pos >= 0 THEN GetEndOfCurrentChar(s, pos) ELSE pos

CountChars(s, p1, p2) ==
    Cardinality({p \in Greatest(p1, 0)..(Least(p2, Len(s)) - 1) : At(s, p) # Cont})

\* At most n characters, the last of them dots if some are missing.
Abbreviate(s, n) ==
    LET tail == <<".", ".", ".">> IN
    IF n >= UTF8Strlen(s) THEN s
    ELSE IF n > 3 THEN Create(s, GetStartOfChar(s, n - 3)) \o tail
    ELSE Left(tail, n)

-----------------------------------------------------------------------------
(* Searching and replacing *)

\* The places of t in s between two positions.
Places(s, t, from, to, bCase) ==
    IF Len(t) > Len(s) THEN {}
    ELSE {i \in Least(from, to)..Greatest(from, to) : Same(Mid(s, i, Len(t)), t, bCase)}

FirstPlace(found, forwards) ==
    IF found = {} THEN NotFound ELSE IF forwards THEN Min(found) ELSE Max(found)

PlaceBetween(s, t, from, to, bCase) == FirstPlace(Places(s, t, from, to, bCase), to > from)

\* The first place from startpos to endpos, which may be in front of it.
PosEx(s, t, startpos, endpos, bCase) ==
    PlaceBetween(s, t, Clamp(startpos, 0, Len(s)), Clamp(endpos, 0, Len(s)), bCase)

Pos(s, t, startpos) == PosEx(s, t, startpos, MaxPos, TRUE)
PosNoCase(s, t, startpos) == PosEx(s, t, startpos, MaxPos, FALSE)
LastPos(s, t) == PosEx(s, t, MaxPos, 0, TRUE)

CharPos(s, c, pos) ==
    LET i == FirstIn(s, Clamp(pos, 0, Len(s)), {c}) IN IF i = Len(s) THEN NotFound ELSE i

LastCharPos(s, c, pos) ==
    LET found == {i \in 0..Clamp(pos, 0, Len(s)) : At(s, i) = c} IN
    IF found = {} THEN NotFound ELSE Max(found)

StartsWith(s, t) == SameN(s, t, Len(t), TRUE)
EndsWith(s, t) == Same(From(s, Greatest(Len(s) - Len(t), 0)), t, TRUE)

MatchLength(s, t) ==
    LET n == Least(Len(s), Len(t))
        differ == {i \in 0..(n - 1) : ToLowerChar(At(s, i)) # ToLowerChar(At(t, i))}
    IN IF differ = {} THEN n ELSE Min(differ)

MatchBeginning(s, t) == SameN(s, t, Least(Len(s), Len(t)), FALSE)

\* What all the lines that begin like t, as far as they go, have in common.
FindMinimumMatchLength(lines, t) ==
    LET like == SelectSeq(lines, LAMBDA line : MatchBeginning(line, t)) IN
    IF like = <<>> THEN <<>>
    ELSE FoldLeft(LAMBDA max, line : Left(max, MatchLength(max, line)), Head(like), Tail(like))

\* Mutant: the search goes on behind the start of what was replaced, not its end.
ReplaceBehindStart(s, search, with, flags, bCase, p) ==
    LET p1 == PosEx(s, search, p, MaxPos, bCase) IN
    IF p1 < 0 THEN From(s, p) ELSE Mid(s, p, p1 - p) \o with \o From(s, p1 + 1)

\* flags restrict the replacing to the start or the end of the text.
RECURSIVE ReplaceFrom(_, _, _, _, _, _)
ReplaceFound(s, search, with, flags, bCase, p, p1) ==
    IF p1 < 0 THEN From(s, p)
    ELSE IF ("start" \in flags => p1 = 0) /\ ("end" \in flags => p1 = Len(s) - Len(search))
    THEN Mid(s, p, p1 - p) \o with \o ReplaceFrom(s, search, with, flags, bCase, p1 + Len(search))
    ELSE Mid(s, p, p1 + 1 - p) \o ReplaceFrom(s, search, with, flags, bCase, p1 + 1)

ReplaceFrom(s, search, with, flags, bCase, p) ==
    ReplaceFound(s, search, with, flags, bCase, p, PosEx(s, search, p, MaxPos, bCase))

\* (An empty text to search for is found for ever.)
SearchAndReplace(s, search, with, flags) == ReplaceFrom(s, search, with, flags, TRUE, 0)
SearchAndReplaceNoCase(s, search, with, flags) == ReplaceFrom(s, search, with, flags, FALSE, 0)

RECURSIVE CountFrom(_, _, _, _)
CountFrom(s, t, p, bCase) ==
    LET p1 == PosEx(s, t, p, MaxPos, bCase) IN
    IF p1 < 0 THEN 0 ELSE 1 + CountFrom(s, t, p1 + Len(t), bCase)

Count(s, t) == CountFrom(s, t, 0, TRUE)
CountNoCase(s, t) == CountFrom(s, t, 0, FALSE)

\* Each character becomes its partner, and goes if it has none (unless zeros are
\* to be kept); the last of equal search characters counts.
Replace(s, searchchars, replacechars, includezero) ==
    LET Lookup(c) == LET k == LastCharPos(searchchars, c, MaxPos) IN
                     IF k < 0 THEN c ELSE At(replacechars, k)
        new == [k \in DOMAIN s |-> Lookup(s[k])]
    IN IF includezero THEN new ELSE SelectSeq(new, LAMBDA c : c # NUL)

Insert(s, pos, t) == LET p == Clamp(pos, 0, Len(s)) IN Left(s, p) \o t \o From(s, p)
DeleteChars(s, pos, n) ==
    LET p == Clamp(pos, 0, Len(s)) IN Left(s, p) \o From(s, p + Clamp(n, 0, Len(s) - p))

RemoveWhiteSpace(s) ==
    LET kept == {i \in 0..(Len(s) - 1) : ~ IsWhiteSpace(At(s, i))} IN
    IF kept = {} THEN <<>> ELSE Mid(s, Min(kept), Max(kept) + 1 - Min(kept))

AppendCopies(s, t, n) == s \o Copies(t, n)

-----------------------------------------------------------------------------
(* Words.  flags say which quotes and escapes there are. *)

DefaultFlags == {"single quote", "double quote", "slash escape"}

IsWhiteSpaceEx(c) == IsWhiteSpace(c) \/ c = "\n"
IsQuoteCharFlags(c, flags) ==
    (c = "'" /\ "single quote" \in flags) \/ (c = "\"" /\ "double quote" \in flags)
IsInnerQuoteCharFlags(c, flags) ==
    (c = "'" /\ "inner single quote" \in flags) \/ (c = "\"" /\ "inner double quote" \in flags)
IsEscapeCharFlags(c, flags) ==
    (c = "'" /\ "quote escape" \in flags) \/ (c = "\\" /\ "slash escape" \in flags)

\* The closing quote from i on, or the end.
RECURSIVE FindEndQuote(_, _, _, _)
FindEndQuote(q, s, i, flags) ==
    IF i >= Len(s) THEN i
    ELSE IF IsEscapeCharFlags(At(s, i), flags) THEN FindEndQuote(q, s, Deescaped(s, i + 1).pos, flags)
    ELSE IF At(s, i) = q THEN i ELSE FindEndQuote(q, s, i + 1, flags)

StartOfNextWord(s, pos) == FirstNotIn(s, Least(pos, Len(s)), {" ", "\t", "\n"})

RECURSIVE PlainWordEnd(_, _, _)
PlainWordEnd(s, pos, flags) ==
    LET c == At(s, pos) IN
    IF pos >= Len(s) \/ IsWhiteSpaceEx(c) THEN pos
    ELSE PlainWordEnd(s, CASE IsInnerQuoteCharFlags(c, flags) -> FindEndQuote(c, s, pos + 1, flags) + 1
                           [] IsEscapeCharFlags(c, flags) /\ ~ IsInnerQuoteCharFlags(c, flags) ->
                                Deescaped(s, pos + 1).pos
                           [] OTHER -> pos + 1, flags)

\* The end may be one past the end of the text: a quote that is not closed, or an
\* escape character at the end.
EndOfThisWord(s, at, flags) ==
    LET pos == Least(at, Len(s))  c == At(s, pos) IN
    IF pos = Len(s) THEN pos
    ELSE IF IsQuoteCharFlags(c, flags) THEN FindEndQuote(c, s, pos + 1, flags) + 1
    ELSE PlainWordEnd(s, pos, flags)

\* Where the words start and end.
RECURSIVE WordSpans(_, _, _)
SpansAfter(s, span, flags) == <<span>> \o WordSpans(s, span.end, flags)

SpansFrom(s, pos, flags) ==
    IF pos >= Len(s) THEN <<>>
    ELSE SpansAfter(s, [start |-> pos, end |-> EndOfThisWord(s, pos, flags)], flags)

WordSpans(s, at, flags) == SpansFrom(s, StartOfNextWord(s, at), flags)

CountWords(s, flags) == Len(WordSpans(s, 0, flags))

\* The nth span, or the end of the text.
SpanAt(s, spans, n) ==
    IF Greatest(n, 0) < Len(spans) THEN spans[Greatest(n, 0) + 1] ELSE [start |-> Len(s), end |-> Len(s)]

StartOfWord(s, n, flags) == SpanAt(s, WordSpans(s, 0, flags), n).start
EndOfWord(s, n, flags) == SpanAt(s, WordSpans(s, 0, flags), n).end

\* The number of words that end before pos, a position in the text (behind its
\* end the code has no end either).
WordUnderPos(s, pos, flags) == Len(SelectSeq(WordSpans(s, 0, flags), LAMBDA span : span.end < pos))

AllWords == MaxPos

\* Mutant: one word too few is counted from nWord on.
WordsShort(s, nWord, nWords, flags) ==
    LET start == StartOfWord(s, nWord, flags)
        last == IF nWords = AllWords THEN CountWords(s, flags)
                ELSE Least(CountWords(s, flags), nWords)
        end == IF last > 0 THEN EndOfWord(s, last - 1, flags) ELSE start
    IN IF end > start THEN Mid(s, start, end - start) ELSE <<>>

WordsIn(s, spans, nWord, nWords) ==
    LET start == SpanAt(s, spans, nWord).start
        last == IF nWords = AllWords THEN Len(spans) ELSE Least(Len(spans), nWord + nWords)
        end == IF last > 0 THEN SpanAt(s, spans, last - 1).end ELSE start
    IN IF end > start THEN Mid(s, start, end - start) ELSE <<>>

Words(s, nWord, nWords, flags) == WordsIn(s, WordSpans(s, 0, flags), nWord, nWords)

LastWords(s, nWords, flags) == Words(s, CountWords(s, flags) - nWords, nWords, flags)

SplitWords(s, n, flags) ==
    IF n > 0 THEN <<Create(s, EndOfWord(s, n - 1, flags)), From(s, StartOfWord(s, n, flags))>>
    ELSE <<<<>>, s>>

\* One word is put behind the others, after a space.
CatWord(s, word) ==
    IF word = <<>> THEN s ELSE IF s = <<>> THEN word
    ELSE IF IsWhiteSpace(LastChar(s)) THEN s \o word ELSE s \o <<" ">> \o word

CatWords(s, word1, word2) == CatWord(CatWord(s, word1), word2)

\* The words taken out, and the text without them: after MAXWORDS, nothing.
WordsOut(s, spans, nWord, nWords) ==
    [words |-> WordsIn(s, spans, nWord, nWords),
     rest |-> WordsIn(s, spans, 0, nWord) \o <<" ">>
                \o (IF nWords = AllWords THEN <<>> ELSE WordsIn(s, spans, nWord + nWords, AllWords))]

DelWords(s, nWord, nWords, flags) == WordsOut(s, WordSpans(s, 0, flags), nWord, nWords)

Blanks == {" ", "\t", "\n"}

ForwardWord(s, pos) ==
    FirstNotIn(s, FirstIn(s, Clamp(pos, 0, Len(s)), Blanks), Blanks)

\* Back over white space to the start of a word, or of the text.
BackwardWord(s, at) ==
    LET p == Clamp(at, 0, Len(s))
        Last0(positions) == IF positions = {} THEN 0 ELSE Max(positions)
        word == Last0({k \in 1..(p - 1) : At(s, k) \notin Blanks})
        start == Last0({k \in 1..word : At(s, k) \in Blanks})
    IN IF At(s, start) \in Blanks THEN start + 1 ELSE start

-----------------------------------------------------------------------------
(* Lines, and columns, which are lines with another marker. *)

\* The marker from p on, outside quotes and escapes.
RECURSIVE FindMarker(_, _, _, _, _)
FindMarker(s, marker, flags, p, quote) ==
    LET c == At(s, p) IN
    IF p >= Len(s) THEN p
    ELSE IF IsEscapeCharFlags(c, flags) THEN FindMarker(s, marker, flags, Deescaped(s, p + 1).pos, quote)
    ELSE IF quote # NUL THEN FindMarker(s, marker, flags, p + 1, IF c = quote THEN NUL ELSE quote)
    ELSE IF Mid(s, p, Len(marker)) = marker THEN p
    ELSE FindMarker(s, marker, flags, p + 1, IF IsQuoteCharFlags(c, flags) THEN c ELSE NUL)

RECURSIVE LineStart(_, _, _, _, _)
LineStart(s, n, marker, flags, p) ==
    IF n <= 0 \/ p >= Len(s) THEN p
    ELSE LET p1 == FindMarker(s, marker, flags, p, NUL) IN
         LineStart(s, n - 1, marker, flags, IF p1 < Len(s) THEN p1 + Len(marker) ELSE p1)

PositionOfLine(s, n, marker, flags) == LineStart(s, n, marker, flags, 0)

RECURSIVE LinesFrom(_, _, _, _)
LinesFrom(s, marker, flags, p) ==
    IF p >= Len(s) THEN 0
    ELSE 1 + LinesFrom(s, marker, flags, FindMarker(s, marker, flags, p, NUL) + Len(marker))

CountLines(s, marker, flags) == LinesFrom(s, marker, flags, 0)

LineAt(s, p, marker, flags) ==
    IF p < Len(s) THEN Mid(s, p, FindMarker(s, marker, flags, p, NUL) - p) ELSE <<>>

Line(s, n, marker, flags) == LineAt(s, PositionOfLine(s, n, marker, flags), marker, flags)

CutLineAt(s, p, marker, flags) ==
    IF p < Len(s) THEN Left(s, p) \o MidOf(s, FindMarker(s, marker, flags, p, NUL) + Len(marker), -1) ELSE s

CutLine(s, n, marker, flags) == CutLineAt(s, PositionOfLine(s, n, marker, flags), marker, flags)

\* Markers are added until there are n lines (for ever, in a quote that is open).
RECURSIVE Lengthened(_, _, _, _)
Lengthened(s, n, marker, flags) ==
    IF CountLines(s, marker, flags) >= n THEN s ELSE Lengthened(s \o marker, n, marker, flags)

\* (An empty text gets a line too many.)
Ended(long, n, marker, flags) ==
    IF CountLines(long, marker, flags) = n /\ Right(long, Len(marker)) # marker THEN long \o marker ELSE long

PasteAt(whole, p, t, marker) == Left(whole, p) \o t \o marker \o MidOf(whole, p, -1)

PasteInto(whole, n, t, marker, flags) ==
    PasteAt(whole, PositionOfLine(whole, n, marker, flags), t, marker)

PasteLine(s, n, t, marker, flags) ==
    PasteInto(Ended(Lengthened(s, n, marker, flags), n, marker, flags), n, t, marker, flags)

\* The start and the end of the line p is in, without quotes.
StartOfLine(s, p, marker) ==
    LET found == {k \in Len(marker)..p : Mid(s, k - Len(marker), Len(marker)) = marker} IN
    IF found # {} THEN Max(found) ELSE Least(p, Len(marker) - 1)

EndOfLine(s, p, marker) ==
    LET found == {k \in p..(Len(s) - 1) : Mid(s, k, Len(marker)) = marker} IN
    IF found # {} THEN Min(found) ELSE Greatest(p, Len(s))

-----------------------------------------------------------------------------
(* Lists of texts *)

Found(line, t, bPartial) ==
    IF bPartial THEN SameN(t, line, Least(Len(t), Len(line)), FALSE) ELSE Same(t, line, FALSE)

\* The first from the k-th on, backwards or forwards; 0 is none.
Find(lines, k, t, bPartial) ==
    LET found == {j \in k..Len(lines) : Found(lines[j], t, bPartial)} IN
    IF found = {} THEN 0 ELSE Min(found)

FindBackwards(lines, k, t, bPartial) ==
    LET found == {j \in 1..k : Found(lines[j], t, bPartial)} IN IF found = {} THEN 0 ELSE Max(found)

\* A text read up to an end, and how long it was; -1 at the end of the stream.
ReadUntil(stream, end, dropped) ==
    LET n == FirstIn(stream, 0, {end})
        text == SelectSeq(Left(stream, n), LAMBDA c : c \notin dropped)
    IN [text |-> text, rest |-> From(stream, n + 1),
        len |-> IF n = Len(stream) /\ text = <<>> THEN -1 ELSE Len(text)]

ReadLn(stream) == ReadUntil(stream, "\n", {NUL, "\r"})
\* The FILE version drops returns.
ReadCh(stream, isfile) == ReadUntil(stream, NUL, IF isfile THEN {"\r"} ELSE {})
WriteLn(s) == s \o <<"\n">>
WriteCh(s) == s \o <<NUL>>

\* The lines up to the one that closes the first brace.
RECURSIVE LinesOfBlock(_, _, _)
LinesOfBlock(lines, level, text) ==
    IF lines = <<>> THEN text
    ELSE LET line == RemoveWhiteSpace(Head(lines))
             opened == IF Pos(line, <<"{">>, 0) >= 0 THEN level + 1 ELSE level
             closes == Pos(line, <<"}">>, 0) >= 0
             kept == IF line = <<>> THEN text ELSE text \o line \o <<"\n">>
         IN IF closes /\ opened = 1 THEN text
            ELSE LinesOfBlock(Tail(lines), IF closes THEN opened - 1 ELSE opened, kept)

\* Texts compared by words and numbers: -1, 0 or 1.  Where both have white space,
\* or the same signed number, neither is stepped over and the loop never ends.
Endless == 2

SignedAt(s, p) ==
    LET signed == At(s, p) \in {"+", "-"}
        start == IF signed THEN p + 1 ELSE p
        n == NumberOf(Mid(s, start, FirstNotIn(s, start, Numerals) - start), 10)
    IN IF At(s, p) = "-" THEN -n ELSE n

RECURSIVE WordWise(_, _, _, _, _)
WordWise(s, t, p1, p2, numbers) ==
    LET c1 == At(s, p1)  c2 == At(t, p2)
        Starts(c) == c \in {"+", "-"} \cup Numerals
        n1 == FirstNotIn(s, p1, Numerals)
        n2 == FirstNotIn(t, p2, Numerals)
    IN CASE c1 = NUL \/ c2 = NUL -> (IF c2 # NUL THEN -1 ELSE IF c1 # NUL THEN 1 ELSE 0)
         [] c1 # NUL /\ c2 # NUL /\ IsWhiteSpace(c1) /\ IsWhiteSpace(c2) -> Endless
         [] numbers /\ Starts(c1) /\ Starts(c2) ->
              IF SignedAt(s, p1) # SignedAt(t, p2)
              THEN (IF SignedAt(s, p1) < SignedAt(t, p2) THEN -1 ELSE 1)
              ELSE IF n1 = p1 /\ n2 = p2 THEN Endless ELSE WordWise(s, t, n1, n2, numbers)
         [] OTHER -> IF c1 # c2 THEN (IF Code[c1] < Code[c2] THEN -1 ELSE 1)
                     ELSE WordWise(s, t, p1 + 1, p2 + 1, numbers)

CompareWordWise(s, t, numbers) == WordWise(s, t, 0, 0, numbers)
CompareWordWiseNoCase(s, t, numbers) == WordWise(Folded(s), Folded(t), 0, 0, numbers)

-----------------------------------------------------------------------------
(* Conversions: case, URLs, HTML, base64, paths, tabs, fields, brackets, columns, format
   specifiers; and AStringUpdate, which gathers what is added to a text. *)

IsPrint(c) == c \in ToSet(Printable)

\* Bytes above 127 are left alone.
UpperCase(s) == [k \in DOMAIN s |-> IF IsUTF8Char(s[k]) THEN s[k] ELSE ToUpperChar(s[k])]
LowerCase(s) == [k \in DOMAIN s |-> IF IsUTF8Char(s[k]) THEN s[k] ELSE ToLowerChar(s[k])]

\* Lower where the other text is, upper where it is not, as far as it goes.
ApplyCase(s, t) ==
    [k \in DOMAIN s |-> IF k > Len(t) \/ IsUTF8Char(s[k]) THEN s[k]
                        ELSE IF IsLowerChar(t[k]) THEN ToLowerChar(s[k]) ELSE ToUpperChar(s[k])]

AllUpperCase(s) ==
    FlattenSeq([k \in DOMAIN s |-> (IF s[k] # ToLowerChar(s[k]) THEN <<"_">> ELSE <<>>) \o <<ToUpperChar(s[k])>>])

InitialCapitalCase(s) ==
    FlattenSeq([k \in DOMAIN s |-> IF s[k] = "_" THEN <<>>
                                   ELSE IF k = 1 \/ s[k - 1] = "_" THEN <<ToUpperChar(s[k])>> ELSE <<s[k]>>])

\* Equal ends are taken off as long as they are among chars.
Remove1(s, chars) ==
    LET Goes(i) == Len(s) - 1 - i > i /\ At(s, i) = At(s, Len(s) - 1 - i) /\ At(s, i) \in chars
        stays == {i \in 0..Len(s) : ~Goes(i)}
        n == Min(stays)
    IN Mid(s, n, Len(s) - 2 * n)

StripUnprintable(s) == SelectSeq(s, IsPrint)

-----------------------------------------------------------------------------
(* URLs, HTML and base64 *)

URLChars == {" ", "+", "%", "!", "#", "$", "&", "'", "(", ")", "*", ",", "-", ":", ";", "<", "=", ">",
             "?", "@", "[", "\"", "\\", "]", "^", "{", "}", "~"} 

HexOf(n) == At(<<"0", "1", "2", "3", "4", "5", "6", "7", "8", "9", "a", "b", "c", "d", "e", "f">>, n)

\* Mutant: a plus sign is left as it is.
URLButPlus(c) ==
    IF c \in URLChars \ {"+"} THEN <<"%", HexOf(Code[c] \div 16), HexOf(Code[c] % 16)>> ELSE <<c>>

URLChar(c) == IF c \in URLChars THEN <<"%", HexOf(Code[c] \div 16), HexOf(Code[c] % 16)>> ELSE <<c>>

URLify(s) == FlattenSeq([k \in DOMAIN s |-> URLChar(s[k])])

\* What sscanf() reads of the two characters after a "%", with blanks and a sign
\* before the digits; nothing if there is no digit.
HexCharacter(pair) ==
    LET sign == FirstNotIn(pair, 0, {" ", "\t", "\n", "\r"})
        start == IF At(pair, sign) \in {"+", "-"} THEN sign + 1 ELSE sign
        n == NumberOf(Mid(pair, start, FirstNotIn(pair, start, HexDigits) - start), 16)
    IN IF At(pair, start) \notin HexDigits THEN <<>>
       ELSE <<CharOf(IF At(pair, sign) = "-" THEN 256 - n ELSE n)>>

\* Two characters are stepped over, whatever they are.
RECURSIVE DeURLFrom(_, _)
DeURLFrom(s, i) ==
    LET c == At(s, i) IN
    IF i >= Len(s) THEN <<>>
    ELSE CASE c = "%" -> HexCharacter(Mid(s, i + 1, 2)) \o DeURLFrom(s, i + 3)
           [] c = "+" -> <<" ">> \o DeURLFrom(s, i + 1)
           [] OTHER -> <<c>> \o DeURLFrom(s, i + 1)

DeURLify(s) == DeURLFrom(s, 0)

Entities == [amp |-> <<"&", "a", "m", "p", ";">>, lt |-> <<"&", "l", "t", ";">>, gt |-> <<"&", "g", "t", ";">>]

HTMLify(s) ==
    LET amp == SearchAndReplace(s, <<"&">>, Entities.amp, {})
        lt == SearchAndReplace(amp, <<"<">>, Entities.lt, {})
    IN SearchAndReplace(lt, <<">">>, Entities.gt, {})

\* The ampersands come last, so that none of them makes a new entity.
DeHTMLify(s) ==
    LET lt == SearchAndReplace(s, Entities.lt, <<"<">>, {})
        gt == SearchAndReplace(lt, Entities.gt, <<">">>, {})
    IN SearchAndReplace(gt, Entities.amp, <<"&">>, {})

Base64Chars == Mid(Printable, 33, 26) \o Mid(Printable, 65, 26) \o Mid(Printable, 16, 10) \o <<"+", "/">>

\* Bytes are numbers here; three of them are four digits in base 64, and of less
\* than three as many digits as they need.
Digits(bytes) ==
    LET data == 65536 * bytes[1] + 256 * (IF Len(bytes) > 1 THEN bytes[2] ELSE 0)
                  + (IF Len(bytes) > 2 THEN bytes[3] ELSE 0)
        Digit(n) == At(Base64Chars, n % 64)
        digits == <<Digit(data \div 262144), Digit(data \div 4096), Digit(data \div 64), Digit(data)>>
    IN Left(digits, Len(bytes) + 1) \o Copies(<<"=">>, 3 - Len(bytes))

RECURSIVE Base64Encode(_)
Base64Encode(bytes) ==
    IF bytes = <<>> THEN <<>> ELSE Digits(Left(bytes, 3)) \o Base64Encode(From(bytes, 3))

\* The text up to the first "="; -1 if there is another character in it.
Base64DecodeLength(s) ==
    LET p == FirstIn(s, 0, {"="}) IN
    IF \A i \in 0..(p - 1) : At(s, i) \in ToSet(Base64Chars) THEN (p * 3) \div 4 ELSE -1

Base64Lookup(c) == CharPos(Base64Chars, c, 0)

\* What the first n of the three bytes of four digits are.
BytesOf(digits, n) ==
    LET data == FoldLeft(LAMBDA sum, c : sum * 64 + Base64Lookup(c), 0,
                         Left(digits, n + 1) \o Copies(<<"A">>, 3 - n)) IN
    Left(<<data \div 65536, (data \div 256) % 256, data % 256>>, n)

RECURSIVE DecodeFrom(_, _, _)
DecodeFrom(s, i, n) ==
    IF n <= 0 THEN <<>>
    ELSE BytesOf(Mid(s, i, 4), Least(n, 3)) \o DecodeFrom(s, i + 4, n - 3)

Base64Decode(s, maxbytes) == DecodeFrom(s, 0, Least(Base64DecodeLength(s), maxbytes))

-----------------------------------------------------------------------------
(* Paths.  (There are drives on other systems only.) *)

Slashes == {"/", "\\"}

\* The last slash, but not one at the start, which is 0.
LastSlash(s) == LET found == {i \in 1..(Len(s) - 1) : At(s, i) \in Slashes} IN
                IF found = {} THEN 0 ELSE Max(found)

\* Searched from the end (bSlashFromEnd) or from the start.
SlashChar(s, fromend) ==
    LET found == {i \in 0..(Len(s) - 1) : At(s, i) \in Slashes}
        i == IF fromend THEN LastSlash(s) ELSE IF found = {} THEN Len(s) ELSE Min(found)
    IN IF At(s, i) = "\\" THEN "\\" ELSE "/"

\* slash is NUL to use what is there.
AddSlash(s, slash, fromend) ==
    LET c == IF slash = NUL THEN SlashChar(s, fromend) ELSE slash IN
    IF s # <<>> /\ LastChar(s) \notin {c} \cup Slashes THEN Append(s, c) ELSE s

PathPart(s) ==
    LET i == LastSlash(s)  slash == SlashChar(s, TRUE) IN
    CASE i > 0 -> Left(s, i)
      [] i = 0 /\ s # <<>> /\ At(s, 0) = slash -> <<slash>>
      [] OTHER -> <<>>

\* (Of a file in the root directory, the slash too.)
FilePart(s) == LET i == LastSlash(s) IN IF i = 0 THEN s ELSE From(s, i + 1)

CatPart(s, path, slash) ==
    LET p == FirstNotIn(path, 0, Slashes) IN
    IF At(path, p) = NUL THEN s ELSE AddSlash(s, slash, TRUE) \o From(path, p)

CatPath(s, path1, path2, slash) == CatPart(CatPart(s, path1, slash), path2, slash)

\* The parts at the last point, unless that is the first character.
Prefix(s) == LET pos == LastPos(s, <<".">>) IN IF pos > 0 THEN Left(s, pos) ELSE s
Suffix(s) == LET pos == LastPos(s, <<".">>) IN IF pos > 0 THEN MidOf(s, pos + 1, -1) ELSE <<>>

-----------------------------------------------------------------------------
(* Tabs *)

NextStop(column, size) == column + size - (column % size)

OutputLength(s, tabsize, n) ==
    FoldLeft(LAMBDA column, c : IF c = "\t" THEN NextStop(column, tabsize) ELSE column + 1, 0,
             IF n < 0 THEN s ELSE Left(s, n))

ExpandTabs(s, tabsize) ==
    FoldLeft(LAMBDA out, c : IF c = "\t" THEN out \o Copies(<<" ">>, NextStop(Len(out), tabsize) - Len(out))
                             ELSE Append(out, c), <<>>, s)

\* Tabs until a column is full.
RECURSIVE TabsTo(_, _, _)
TabsTo(column, goal, tabsize) ==
    IF column >= goal THEN <<>> ELSE <<"\t">> \o TabsTo(NextStop(column, tabsize), goal, tabsize)

TabToNextColumn(s, tabsize, columnsize) ==
    LET column == OutputLength(s, tabsize, -1) IN
    s \o TabsTo(column, NextStop(column, columnsize), tabsize)

-----------------------------------------------------------------------------
(* Fields between markers, columns, brackets and tokens *)

\* The field behind start, and where; pos is -1 if there is none.
GetField(s, startmarker, endmarker, start) ==
    LET p == Pos(s, startmarker, start)
        pos == p + Len(startmarker)
        p1 == Pos(s, endmarker, pos)
    IN IF p < start \/ p < 0 \/ p1 < 0 THEN [pos |-> NotFound, len |-> -1, text |-> <<>>]
       ELSE [pos |-> pos, len |-> p1 - pos, text |-> MidOf(s, pos, p1 - pos)]

SetField(s, startmarker, endmarker, t, start) ==
    LET field == GetField(s, startmarker, endmarker, start) IN
    IF field.pos >= 0 THEN Left(s, field.pos) \o t \o MidOf(s, field.pos + field.len, -1)
    ELSE s \o startmarker \o t \o endmarker

\* The nth text between markers, and where; an empty one counts as none.
RECURSIVE FieldNumber(_, _, _, _)
FieldNumber(s, marker, n, p) ==
    LET found == Pos(s, marker, p)
        p1 == IF found < 0 THEN Len(s) ELSE found
    IN IF n > 0 THEN FieldNumber(s, marker, n - 1, p1 + Len(marker))
       ELSE IF p1 > p THEN [pos |-> p, text |-> MidOf(s, p, p1 - p)] ELSE [pos |-> NotFound, text |-> <<>>]

GetFieldNumber(s, marker, n, start) == FieldNumber(s, marker, n, start)

SplitColumns(s, separator) ==
    LET p == Pos(s, separator, 0) IN
    IF p < 0 THEN <<s, <<>>>> ELSE <<Left(s, p), From(s, p + Len(separator))>>

\* The columns that a separator follows: the last is not one of them.
RECURSIVE Columns(_, _)
Columns(s, separator) ==
    LET p == Pos(s, separator, 0) IN
    IF p < 0 THEN <<>> ELSE <<Left(s, p)>> \o Columns(From(s, p + Len(separator)), separator)

ExtractColumns(s, separator, max) == Left(Columns(s, separator), max)

QuotedColumns(s, separator) ==
    FlattenSeq([k \in DOMAIN Columns(s, separator) |-> <<"'">> \o Columns(s, separator)[k] \o <<"'", " ">>])

\* The token from pos on, and where it ends.
GetToken(s, separators, pos) ==
    LET start == FirstNotIn(s, pos, separators)  end == FirstIn(s, start, separators) IN
    [token |-> Mid(s, start, end - start), pos |-> end]

\* How many brackets are open after each character.
DepthAt(s, open, close, i) ==
    Cardinality({k \in 0..i : At(s, k) = open}) - Cardinality({k \in 0..i : At(s, k) = close})

\* The first region in brackets, and the text with something in its place.  The
\* bracket that opens is tested first: one that is both never closes.
ExtractRegion(s, startchar, endchar, replacement) ==
    LET i0 == FirstIn(s, 0, {startchar})
        closed == {i \in i0..(Len(s) - 1) : At(s, i) = endchar /\ DepthAt(From(s, i0), startchar, endchar, i - i0) = 0}
        i == Min(closed)
    IN IF closed = {} \/ startchar = endchar THEN [region |-> <<>>, rest |-> s]
       ELSE [region |-> Mid(s, i0 + 1, i - i0 - 1), rest |-> Left(s, i0) \o replacement \o MidOf(s, i + 1, -1)]

\* Depths of the brackets from j on, escaped ones not counted.
RECURSIVE LeastDepth(_, _, _, _)
LeastDepth(s, j, end, level) ==
    LET next == CASE At(s, j) = "(" -> level + 1 [] At(s, j) = ")" -> level - 1 [] OTHER -> level
        step == IF At(s, j) = "\\" /\ At(s, j + 1) # NUL THEN 2 ELSE 1
    IN IF j >= end THEN level ELSE Least(level, LeastDepth(s, j + step, end, IF step = 2 THEN level ELSE next))

\* As many brackets as go round the whole text.
StripBrackets(s) ==
    LET Round(i) == i < Len(s) \div 2 /\ At(s, i) = "(" /\ At(s, Len(s) - 1 - i) = ")"
        i == Min({k \in 0..Len(s) : ~Round(k)})
        level == LeastDepth(s, i, Len(s) - i, i)
    IN IF level >= 0 THEN Mid(s, level, Len(s) - 2 * level) ELSE s

\* The terminator, outside brackets; nested has each kind open and closed.  A
\* closing bracket without an opening one is stepped over.
RECURSIVE ClosingFrom(_, _, _, _, _)
ClosingFrom(s, terminator, p, nested, open) ==
    LET c == At(s, p)
        k == CharPos(nested, c, 0)
        kind == k \div 2
        total == FoldFunction(LAMBDA a, b : a + b, 0, open)
    IN IF c = NUL THEN NotFound
       ELSE IF total = 0 /\ c = terminator THEN p
       ELSE ClosingFrom(s, terminator, p + 1, nested,
                        CASE k >= 0 /\ k % 2 = 0 -> [open EXCEPT ![kind] = @ + 1]
                          [] k >= 0 /\ k % 2 = 1 /\ open[kind] > 0 -> [open EXCEPT ![kind] = @ - 1]
                          [] OTHER -> open)

FindClosing(s, terminator, p, nested) ==
    ClosingFrom(s, terminator, p, nested, [kind \in 0..(Len(nested) \div 2 - 1) |-> 0])

\* The position behind the token, or p if there is none: over escapes, over what
\* is in brackets (tokens has them in pairs) and over quotes.
RECURSIVE TokenFrom(_, _, _, _, _, _)
TokenFrom(s, p, p1, token, tokens, quotes) ==
    LET c == At(s, p1)
        k == CharPos(tokens, c, 0)
        opens == k >= 0 /\ k % 2 = 0
        inner == IF opens THEN TokenFrom(s, p1 + 1, p1 + 1, tokens[k + 2], tokens, quotes)
                 ELSE TokenFrom(s, p1 + 1, p1 + 1, c, <<>>, {})
    IN CASE c = NUL -> p
         [] c = "\\" /\ At(s, p1 + 1) # NUL -> TokenFrom(s, p, p1 + 2, token, tokens, quotes)
         [] c = token /\ c # NUL /\ ~(c = "\\" /\ At(s, p1 + 1) # NUL) -> p1 + 1
         [] c \notin {NUL, token, "\\"} /\ (opens \/ c \in quotes) ->
              IF inner > p1 + 1 THEN TokenFrom(s, p, inner, token, tokens, quotes) ELSE p
         [] OTHER -> TokenFrom(s, p, p1 + 1, token, tokens, quotes)

FindTokenForwards(s, p, token, tokens, quotes) == TokenFrom(s, p, p, token, tokens, quotes)

\* Its token is NUL, which the search never comes to: the position stays.
ForwardSexp(s, pos, sexp, quotes) ==
    IF pos < 0 \/ pos >= Len(s) THEN pos ELSE FindTokenForwards(s, pos, NUL, sexp, quotes)

-----------------------------------------------------------------------------
(* Format specifiers *)

\* The first "%" that is not doubled: the specifier, and the text on both sides.
RECURSIVE SpecifierAt(_, _)
SpecifierAt(s, p) ==
    LET p1 == Pos(s, <<"%">>, p) IN
    IF p1 >= 0 /\ At(s, p1 + 1) = "%" THEN SpecifierAt(s, p1 + 2) ELSE p1

SpecifierEnded(s, p0, digits, letter) ==
    LET fmtend == IF letter THEN digits + 1 ELSE digits
        end == IF letter \/ At(s, digits) = ";" THEN digits + 1 ELSE digits
    IN [fmt |-> Mid(s, p0 + 1, fmtend - p0 - 1), left |-> Left(s, p0), right |-> MidOf(s, end, -1)]

SpecifierWith(s, p0, digits) == SpecifierEnded(s, p0, digits, IsAlphaChar(At(s, digits)))

SpecifierFrom(s, p0) ==
    IF p0 < 0 THEN [fmt |-> <<>>, left |-> s, right |-> <<>>]
    ELSE SpecifierWith(s, p0, FirstNotIn(s, p0 + 1, Numerals \cup {"."}))

FindFormatSpecifier(s) == SpecifierFrom(s, SpecifierAt(s, 0))

\* A value, as a text already, in the place of a specifier (at the end if there is none).
ArgIn(f, t) == f.left \o t \o f.right
Arg(s, t) == ArgIn(FindFormatSpecifier(s), t)
EndArgs(s) == SearchAndReplace(s, <<"%", "%">>, <<"%">>, {})

-----------------------------------------------------------------------------
(* AStringUpdate: what is added goes through a buffer of size characters, the    *)
(* last of which is kept for the NUL that ends it.                              *)

Attached(s, size) == [string |-> s, buffer |-> <<>>, size |-> size]

Flush(u) == [u EXCEPT !.string = @ \o u.buffer, !.buffer = <<>>]

\* Mutant: a text too long for the buffer is added before what is in it.
OvertakingText(u, t) ==
    CASE Len(u.buffer) + Len(t) < u.size - 1 -> [u EXCEPT !.buffer = @ \o t]
      [] Len(u.buffer) + Len(t) >= u.size - 1 /\ Len(t) < u.size - 1 -> [Flush(u) EXCEPT !.buffer = t]
      [] OTHER -> [u EXCEPT !.string = @ \o t]

UpdateChar(u, c) ==
    LET added == [u EXCEPT !.buffer = Append(@, c)] IN
    IF Len(added.buffer) = u.size - 1 THEN Flush(added) ELSE added

UpdateText(u, t) ==
    CASE Len(u.buffer) + Len(t) < u.size - 1 -> [u EXCEPT !.buffer = @ \o t]
      [] Len(u.buffer) + Len(t) >= u.size - 1 /\ Len(t) < u.size - 1 -> [Flush(u) EXCEPT !.buffer = t]
      [] OTHER -> LET flushed == Flush(u) IN [flushed EXCEPT !.string = @ \o t]

UpdateString(u, t) == LET flushed == Flush(u) IN [flushed EXCEPT !.string = @ \o t]

TotalLength(u) == Len(u.string) + Len(u.buffer)
=============================================================================
