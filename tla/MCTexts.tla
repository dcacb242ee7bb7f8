--------------------------------- MODULE MCTexts ---------------------------------
(***************************************************************************)
(* Bounded inputs for Strings and SimpleEval, and what their operations    *)
(* should give for them, for MCLibrary.                                    *)
(***************************************************************************)
EXTENDS SimpleEval

Texts(chars, n) == UNION {[1..k -> chars] : k \in 0..n}

Worded == Texts({"a", " ", "\n", "'", "\\"}, 4)
Lined == [s : Texts({"a", ",", ";", "'"}, 4), marker : {<<",">>, <<",", ";">>}]
Encoded == {FlattenSeq(w) : w \in
              Texts({<<"a">>, <<"lead2", Cont>>, <<"lead3", Cont, Cont>>, <<"lead4", Cont, Cont, Cont>>}, 4)}
Named == Texts({"a", "/", "."}, 5)
InBrackets == Texts({"(", ")", "a"}, 6)
Searched == [s : Texts({"a", "b", "B"}, 4), t : Texts({"a", "b"}, 2) \ {<<>>}]
Compared == Texts({"a", " ", "-", "1", "2"}, 2)
Updates == [texts : Texts({<<>>, <<"x">>, <<"v", "w">>, <<"y", "z", "z">>}, 3), size : 2..4]
Tabbed == Texts({"a", "\t"}, 4)
Formats == Texts({"%", "a", "1", ";"}, 4)
Plain == Texts({"a", "4", " ", "+", "%", "&", "<", ";"}, 3)
Marked == {<<"&", "a", "m", "p", ";", "l", "t", ";">>, <<"&", "l", "t", ";">>, <<"&", "g", ">", "t", ";">>}
Bytes == Texts({0, 5, 128, 255}, 4)

AllIn(s, chars) == ToSet(s) \subseteq chars

\* No quote or escape is open at the end.
Closed(s) == \A span \in ToSet(WordSpans(s, 0, DefaultFlags)) : span.end <= Len(s)

\* The words of a text are all of it but white space; parting it, taking words
\* out and putting words together leave as many words as there should be.
WordsRight(s) ==
    LET flags == DefaultFlags
        total == CountWords(s, flags)
        all == Words(s, 0, AllWords, flags)
        start == StartOfWord(s, 0, flags)
    IN /\ Mid(s, start, Len(all)) = all
       /\ AllIn(Left(s, start) \o From(s, start + Len(all)), Blanks)
       /\ \A n \in 0..total :
            /\ LET parts == SplitWords(s, n, flags) IN
               CountWords(parts[1], flags) = n /\ CountWords(parts[2], flags) = total - n
            /\ \A k \in 0..2 :
                 LET cut == DelWords(s, n, k, flags) IN
                 CountWords(cut.rest, flags) + CountWords(cut.words, flags) = total
            /\ n < total => WordUnderPos(s, StartOfWord(s, n, flags) + 1, flags) = n
            /\ CountWords(LastWords(s, n, flags), flags) = n
       /\ Closed(s) /\ (LastChar(s) \in Blanks => EndOfWord(s, total - 1, flags) < Len(s)) =>
            CountWords(CatWords(s, <<"b">>, all), flags) = total + 1 + total
       /\ s # <<>> /\ AllIn(s, {"a", " "}) =>
            \A n \in 1..(total - 1) :
              /\ ForwardWord(s, StartOfWord(s, n - 1, flags)) = StartOfWord(s, n, flags)
              /\ BackwardWord(s, StartOfWord(s, n, flags)) = StartOfWord(s, n - 1, flags)

\* Tokens are words if they are parted by white space, and white space round a text
\* is all that is taken off it.
TokensRight(s) ==
    LET trimmed == RemoveWhiteSpace(s)
        start == FirstNotIn(s, 0, {" ", "\t"})
        token == GetToken(s, Blanks, 0)
    IN /\ ~IsWhiteSpace(FirstChar(trimmed)) /\ ~IsWhiteSpace(LastChar(trimmed))
       /\ Mid(s, start, Len(trimmed)) = trimmed
       /\ AllIn(Left(s, start) \o From(s, start + Len(trimmed)), {" ", "\t"})
       /\ StripUnprintable(s) = FlattenSeq([k \in DOMAIN s |-> IF s[k] = "\n" THEN <<>> ELSE <<s[k]>>])
       /\ token.token = Words(s, 0, 1, {}) /\ token.token \o From(s, token.pos) = From(s, StartOfNextWord(s, 0))
       /\ Remove1(AppendCopies(<<"'">>, s, 2) \o <<"'">>, {"'"}) = Remove1(s \o s, {"'"})

\* The lines of a text are all of it but the markers; a line cut out leaves the
\* others, and is back when it is pasted where it was.
LinesOf(t, marker, flags) == [k \in 1..CountLines(t, marker, flags) |-> Line(t, k - 1, marker, flags)]

Marked0(lines, marker) == FlattenSeq([k \in DOMAIN lines |-> lines[k] \o marker])

LineRight(s, p, line, marker) ==
    StartOfLine(s, p, marker) = p /\ MidOf(s, p, EndOfLine(s, p, marker) - p) = line

LinesHeld(s, lines, marker, flags) ==
    /\ \E whole \in {Marked0(lines, marker)} : s # whole => s \o marker = whole
    /\ \A n \in 0..(Len(lines) - 1) : \E cut \in {CutLine(s, n, marker, flags)} :
         /\ LinesOf(cut, marker, flags) = RemoveAt(lines, n + 1)
         /\ Count(s, <<"'">>) = 0 /\ cut # <<>> =>
              LinesOf(PasteLine(cut, n, lines[n + 1], marker, flags), marker, flags) = lines
         /\ Count(s, <<"'">>) = 0 /\ Len(marker) = 1 =>
              LineRight(s, PositionOfLine(s, n, marker, flags), lines[n + 1], marker)

\* A separator ends a column; taken off one by one, they are the same, and what is
\* left is the last of the lines.
ColumnsRight(s, separator) ==
    LET columns == Columns(s, separator)  parts == SplitColumns(s, separator)
        whole == Marked0(columns, separator)
    IN /\ Len(columns) = Count(s, separator) /\ Left(s, Len(whole)) = whole
       /\ Columns(From(s, Len(whole)), separator) = <<>>
       /\ columns # <<>> => /\ parts[1] = columns[1] /\ Columns(parts[2], separator) = Tail(columns)
                            /\ parts[1] \o separator \o parts[2] = s
       /\ \A n \in 0..3 :
            ExtractColumns(s, separator, n) = [k \in 1..Least(n, Len(columns)) |-> Line(s, k - 1, separator, {})]
       /\ Count(s, <<"'">>) = 0 =>
            Words(QuotedColumns(s, separator), 0, AllWords, DefaultFlags)
              = Left(QuotedColumns(s, separator), Len(whole) + (3 - Len(separator)) * Len(columns) - 1)

LinesRight(s, marker) == ColumnsRight(s, marker) /\ LinesHeld(s, LinesOf(s, marker, {"single quote"}), marker, {"single quote"})

\* Positions of characters and their number fit together in a text of several
\* bytes to the character, and a shortened one ends with a whole character.
CharactersRight(s) ==
    LET total == UTF8Strlen(s)
        starts == {p \in 0..(Len(s) - 1) : s[p + 1] # Cont}
    IN /\ total = Cardinality(starts)
       /\ \A n \in 0..(total - 1) :
            LET p == GetStartOfChar(s, n) IN
            /\ p \in starts /\ CountChars(s, 0, p) = n
            /\ \A q \in p..GetEndOfChar(s, n) : GetStartOfCurrentChar(s, q) = p
            /\ n < total - 1 => GetEndOfChar(s, n) + 1 = GetStartOfChar(s, n + 1)
       /\ \A n \in 0..4 :
            LET short == Abbreviate(s, n) IN
            /\ UTF8Strlen(short) = Least(n, total)
            /\ CountChars(short, 0, Len(short)) = UTF8Strlen(short)

PathsRight(s) ==
    /\ LastSlash(s) > 0 => PathPart(s) \o <<"/">> \o FilePart(s) = s
    /\ At(s, 0) # "/" /\ LastChar(s) # "/" /\ Pos(s, <<"/", "/">>, 0) = NotFound =>
         CatPath(PathPart(s), FilePart(s), <<>>, NUL) = s
    /\ Prefix(s) # s => Prefix(s) \o <<".">> \o Suffix(s) = s
    /\ Suffix(s) # <<>> => Pos(Suffix(s), <<".">>, 0) = NotFound

\* The lines of a block are those up to the brace that closes the first one, as
\* the search for a closing bracket finds it.  (A search for the end of an
\* expression finds none.)
Brace(c) == CASE c = "(" -> "{" [] c = ")" -> "}" [] OTHER -> c

BlocksRight(s) ==
    LET lines == [k \in DOMAIN s |-> <<" ", Brace(s[k])>>]
        closing == FindClosing(s, ")", 1, <<"(", ")">>)
        kept == IF closing = NotFound THEN s ELSE Left(s, closing)
    IN /\ At(s, 0) = "(" => LinesOfBlock(lines, 0, <<>>) = FlattenSeq([k \in DOMAIN kept |-> <<Brace(kept[k]), "\n">>])
       /\ \A p \in 0..Len(s) : ForwardSexp(s, p, <<"(", ")">>, {}) = p

\* Three searches for the bracket that closes the first one, and the stripping of
\* brackets round the whole.
BracketsRight(s) ==
    LET i == FirstIn(s, 0, {"("})
        closing == FindClosing(s, ")", i + 1, <<"(", ")">>)
        extracted == ExtractRegion(s, "(", ")", <<"x">>)
        token == FindTokenForwards(s, i + 1, ")", <<"(", ")">>, {})
        stripped == StripBrackets(s)
        n == (Len(s) - Len(stripped)) \div 2
    IN /\ i < Len(s) =>
            /\ (closing = NotFound) <=> (extracted.rest = s)
            /\ closing # NotFound => /\ extracted.region = Mid(s, i + 1, closing - i - 1)
                                     /\ token = closing + 1
       /\ s = Copies(<<"(">>, n) \o stripped \o Copies(<<")">>, n)
       /\ At(stripped, 0) = "(" /\ LastChar(stripped) = ")" =>
            FindClosing(stripped, ")", 1, <<"(", ")">>) # Len(stripped) - 1

\* What is replaced is what was found, from the left, and can be replaced back.
ReplacingRight(s, t) ==
    LET new == SearchAndReplace(s, t, <<"c">>, {})
        found == {i \in 0..(Len(s) - 1) : Mid(s, i, Len(t)) = t}
    IN /\ Pos(new, t, 0) = NotFound
       /\ SearchAndReplace(new, <<"c">>, t, {}) = s
       /\ Count(new, <<"c">>) = Count(s, t)
       /\ SearchAndReplaceNoCase(Folded(s), t, <<"c">>, {}) = Folded(SearchAndReplaceNoCase(s, t, <<"c">>, {}))
       /\ StartsWith(s, t) <=> SearchAndReplace(s, t, <<"c">>, {"start"}) # s
       /\ EndsWith(s, t) /\ (Count(s, t) = Cardinality(found)) => SearchAndReplace(s, t, <<"c">>, {"end"}) # s
       /\ found = {} <=> Pos(s, t, 0) = NotFound
       /\ found # {} => Pos(s, t, 0) = Min(found) /\ LastPos(s, t) = Max(found)

\* Beginnings and searches fit together, whatever the case, among texts as within.
\* Texts without a capital come back from the other case.
MatchesRight(s, t) ==
    LET n == MatchLength(s, t)
        lines == <<s, t, s \o t>>
        common == FindMinimumMatchLength(lines, t)
    IN /\ Folded(Left(s, n)) = Folded(Left(t, n)) /\ (n = Least(Len(s), Len(t)) \/ Folded(Left(s, n + 1)) # Folded(Left(t, n + 1)))
       /\ MatchBeginning(s, t) = (n = Least(Len(s), Len(t))) /\ MatchBeginning(s, t) = Found(s, t, TRUE)
       /\ \A line \in ToSet(lines) : MatchBeginning(line, t) => StartsWith(Folded(line), Folded(common))
       /\ MatchBeginning(s, t) => Len(common) = n
       /\ FindMinimumMatchLength(<<t \o s, t \o Reverse(s)>>, t) = t \o Left(s, MatchLength(s, Reverse(s)))
       /\ CountNoCase(s, t) = Count(Folded(s), Folded(t))
       /\ LET k == Find(lines, 1, t, FALSE)  l == FindBackwards(lines, 3, t, FALSE) IN
          /\ k \in 1..2 /\ l \in k..3 /\ (k = 1 <=> Folded(s) = Folded(t)) /\ (l = 3 <=> s = <<>>)
       /\ LET c == FirstChar(t)  last == LastCharPos(s, c, MaxPos) IN
          last = (IF \A k \in DOMAIN s : s[k] # c THEN NotFound ELSE LastPos(s, <<c>>))
       /\ Replace(Replace(s, <<"a", "b">>, <<"b", "a">>, FALSE), <<"b", "a">>, <<"a", "b">>, TRUE) = s
       /\ Len(s) = Len(Replace(s, t, <<>>, FALSE)) + Cardinality({k \in DOMAIN s : s[k] \in ToSet(t)})
       /\ Len(s) = Len(Replace(s, t, <<>>, TRUE))

CasesRight(s) ==
    /\ LowerCase(UpperCase(s)) = Folded(s) /\ ApplyCase(Folded(s), s) = s /\ ApplyCase(UpperCase(s), s) = s
    /\ InitialCapitalCase(LowerCase(AllUpperCase(s))) = UpperCase(Left(s, 1)) \o From(s, 1)

\* Texts are ordered by words and numbers, if the comparison ends at all.
Reversed(c) == IF c = Endless THEN Endless ELSE -c
Node(is, key, value) == [is |-> is, key |-> key, value |-> value]

\* Texts and pairs of a list are in one order, whichever part and direction.
OrderRight(s, t) ==
    LET pair == Node("pair", s, <<"b">>)  text == Node("text", t, t)  cmp == CompareNoCase(s, t) IN
    /\ AlphaCompare(pair, text, "key", FALSE, FALSE) = cmp
    /\ AlphaCompare(text, pair, "key", FALSE, TRUE) = cmp
    /\ AlphaCompare(pair, text, "value", TRUE, TRUE) = CompareCase(t, <<"b">>)
    /\ (cmp = 0) = Same(s, t, FALSE)
    /\ \A u \in Texts({"a", " ", "1"}, 2) : cmp < 1 /\ CompareNoCase(t, u) < 1 => CompareNoCase(s, u) < 1

ComparingRight(s) ==
  /\ \A t \in Compared : OrderRight(s, t) /\ OrderRight(s, Folded(t)) /\ CompareCase(s, t) = -CompareCase(t, s)
  /\ \A t \in Compared :
      LET c == CompareWordWise(s, t, TRUE) IN
      /\ CompareWordWiseNoCase(Replace(s, <<"a">>, <<"A">>, FALSE), t, TRUE) = c
      /\ CompareWordWise(t, s, TRUE) = Reversed(c)
      /\ \A u \in Texts({"a", "1", "2"}, 2) :
           c \in {-1, 0} /\ CompareWordWise(t, u, TRUE) = -1 => CompareWordWise(s, u, TRUE) \in {-1, Endless}

\* Whatever is added in whatever order comes out in that order, and the buffer is
\* never full.
UpdatesRight(texts, size) ==
    LET Add1(u, t) == IF Len(t) = 1 THEN UpdateChar(u, t[1])
                      ELSE IF t = <<"y", "z", "z">> THEN UpdateString(u, t) ELSE UpdateText(u, t)
        u == FoldLeft(Add1, Attached(<<>>, size), texts)
    IN /\ u.string \o u.buffer = FlattenSeq(texts)
       /\ Len(u.buffer) < size - 1 \/ Len(u.buffer) = 0
       /\ TotalLength(u) = Len(Flush(u).string)

TabsRight(s) ==
    \A size \in 1..3 :
      /\ Len(ExpandTabs(s, size)) = OutputLength(s, size, -1)
      /\ OutputLength(TabToNextColumn(s, size, 2 * size), size, -1) = NextStop(Len(ExpandTabs(s, size)), 2 * size)

PartsOf(f, s) ==
    f.left # s \/ f.right # <<>> =>
      \E sep \in {<<>>, <<";">>} : f.left \o <<"%">> \o f.fmt \o sep \o f.right = s

FormatsRight(s) ==
    /\ PartsOf(FindFormatSpecifier(s), s)
    /\ LET f == FindFormatSpecifier(s)  one == Arg(s, <<"x">>)  both == Arg(one, <<"y">>) IN
       /\ StartsWith(one, f.left) /\ EndsWith(one, f.right)
       /\ Pos(both, <<"x">>, 0) < Pos(both, <<"y">>, 0)
    /\ Len(s) = Count(s, <<"%">>) => Len(EndArgs(s)) = (Len(s) + 1) \div 2

TextRight(what, text) ==
    CASE what = "words" -> WordsRight(text) /\ TokensRight(text)
      [] what = "lines" -> LinesRight(text.s, text.marker)
      [] what = "characters" -> CharactersRight(text)
      [] what = "path" -> PathsRight(text)
      [] what = "brackets" -> BracketsRight(text) /\ BlocksRight(text)
      [] what = "search" -> ReplacingRight(text.s, text.t) /\ MatchesRight(text.s, text.t) /\ CasesRight(text.s)
      [] what = "compare" -> ComparingRight(text)
      [] what = "updates" -> UpdatesRight(text.texts, text.size)
      [] what = "tabs" -> TabsRight(text)
      [] what = "format" -> FormatsRight(text)

\* What is put in can be taken out, and what is written to a stream is read from it.
Restored(s, t, p) == DeleteChars(Insert(s, p, t), p, Len(t)) = s

Gives(read, s, rest) == read = [text |-> s, rest |-> rest, len |-> Len(s)]

\* What comes back from the conversions.
Returns(s) ==
    /\ \A p \in -1..Len(s), t \in {<<>>, <<"x">>, <<"y", "z">>} : Restored(s, t, p)
    /\ Appended(s, <<"x", "y">>, 1) = Insert(s, MaxPos, <<"x">>) /\ Appended(s, s, -1) = s \o s
    /\ Gives(ReadLn(WriteLn(s) \o WriteLn(s)), s, WriteLn(s))
    /\ \A isfile \in BOOLEAN : Gives(ReadCh(WriteCh(s) \o WriteLn(s), isfile), s, WriteLn(s))
    /\ ReadLn(WriteLn(Append(s, "\r"))).text = s /\ ReadLn(<<>>).len = -1
    /\ DeURLify(URLify(s)) = s
    /\ DeHTMLify(HTMLify(s)) = s
    /\ Pos(s, <<";">>, 0) = NotFound =>
         LET kept == SetField(<<"x", "&", "y", ";">>, <<"&">>, <<";">>, s, 0) IN
         /\ GetField(kept, <<"&">>, <<";">>, 0).text = s
         /\ GetField(SetField(s, <<"x">>, <<"y">>, <<"a">>, 0), <<"x">>, <<"y">>, 0).text = <<"a">>
BytesReturn(bytes) ==
    LET text == Base64Encode(bytes) IN
    Base64DecodeLength(text) = Len(bytes) /\ Base64Decode(text, Len(bytes)) = bytes

-----------------------------------------------------------------------------
(* Values and expressions *)

Kinds == {"signed", "unsigned", "pointer"}
Fractions == {Double(Fraction(n, d)) : n \in {-3, 0, 5}, d \in {1, 2}}
Pairs == ({Value(kind, n) : kind \in Kinds, n \in 0..(Word - 1)} \cup Fractions)
           \X ({Value(kind, n) : kind \in Kinds, n \in {0, 1, 3, Word \div 2, Word - 1}} \cup Fractions)

Half == Double(Fraction(1, 2))

\* What holds of every two values: those of a kind are in order, what is divided
\* comes back, and what is stored is loaded.
BothRight(a, b) ==
    /\ Cardinality({k \in 1..3 : <<Less(a, b), Equal(a, b), Less(b, a)>>[k]}) = 1
    /\ Equal(Negated(Negated(a)), a) \/ IsPointer(a)
    /\ IsZero(a) = IsZero(ApplyModifier(a, "-")) /\ ApplyModifiers(a, <<"!", "!">>) = Truth(~IsZero(a))
    /\ ~IsZero(a) => SameNumber(ApplyModifiers(a, <<"/", "/">>).f, Real(a))
    /\ \A type \in Types :
         LET kept == Get(a, type)  v == Set(Invalid, kept.raw, type).val IN
         /\ kept.success /\ Get(v, type) = kept
         /\ type.kind = "float" => SameNumber(Real(v), Real(a))
         /\ type.kind \in {"signed", "unsigned"} =>
              IsSigned(v) = (type.kind = "signed") /\ (IsSigned(v) \/ Unsigned(v) = kept.raw)

\* Quotients and remainders of fractions fit together, and so do shifts.
FractionsRight(a, b) ==
    /\ ~IsZero(b) =>
         LET times == Real(Divide(a, b))  rest == Real(Modulo(a, b)) IN
         /\ SameNumber(Real(Times(Divide(a, b), b)), Real(a))
         /\ SameNumber(Real(Plus(Times(Value("signed", Truncated(times)), Double(Real(b))), Double(rest))), Real(a))
         /\ Below(Fraction(Magnitude(rest.num), rest.den), Fraction(Magnitude(Real(b).num), Real(b).den))
    /\ Magnitude(Truncated(Real(b))) < Width => SameNumber(Real(ShiftRight(ShiftLeft(a, b), b)), Real(a))
    /\ SameNumber(Real(Minus(Plus(a, b), b)), Real(a))

\* Quotients and remainders of integers fit together, and the operations on bits
\* agree with sums and negatives.
IntegersRight(a, b) ==
    LET one == Value("unsigned", 1)
        overflows == Joint(a, b) = "signed" /\ Signed(a) = -(Word \div 2) /\ Signed(b) = -1
        Size(v) == Magnitude(Reading(v, SharedKind(a, b)).num)
    IN /\ ~IsZero(b) /\ ~overflows =>
            LET rest == Modulo(a, b) IN
            Plus(Times(Divide(a, b), b), rest).u = a.u /\ (Size(rest) < Size(b) \/ Joint(a, b) = "pointer")
       /\ Plus(BitAnd(a, b), BitOr(a, b)).u = Plus(a, b).u
       /\ Minus(BitOr(a, b), BitAnd(a, b)).u = BitXor(a, b).u
       /\ Negated(a).u = Plus(Inverted(a), one).u
       /\ ApplyModifiers(a, <<"-", "~", "-", "~">>).u = Plus(a, Value("unsigned", 2)).u
       /\ b.u < Width /\ Size(a) * 2^(b.u + 1) < Word => ShiftRight(ShiftLeft(a, b), b).u = a.u

\* A value is written with a conversion of its own class, the wanted one if it is.
FormatRight(v, format) ==
    LET written == FormatOf(v, format)  last == LastChar(written) IN
    /\ (last \in {"f", "e", "G"}) <=> IsFloat(v)
    /\ IsPointer(v) \/ (StartsWith(written, <<"%">>) /\ Count(written, <<last>>) = 1)

ValuesRight(a, b) ==
    /\ BothRight(a, b)
    /\ \A format \in {<<>>, <<"x">>, <<"8", "G">>, <<"s">>, <<"0", "4", "l">>} : FormatRight(a, format)
    /\ Joint(a, b) = "float" => FractionsRight(a, b)
    /\ IsInteger(a) /\ IsInteger(b) => IntegersRight(a, b)

Marks == [m \in {"decimal", "$", "0x", "@", "0o", "0b"} |->
            CASE m = "decimal" -> [text |-> <<>>, radix |-> 10]
              [] m = "$" -> [text |-> <<"$">>, radix |-> 16] [] m = "0x" -> [text |-> <<"0", "x">>, radix |-> 16]
              [] m = "@" -> [text |-> <<"@">>, radix |-> 8] [] m = "0o" -> [text |-> <<"0", "o">>, radix |-> 8]
              [] m = "0b" -> [text |-> <<"0", "b">>, radix |-> 2]]

RECURSIVE Written(_, _)
Written(n, radix) ==
    (IF n >= radix THEN Written(n \div radix, radix) ELSE <<>>)
      \o <<CHOOSE c \in DigitsOf(radix) : DigitOf(c) = n % radix>>

NumberTexts == [n : 0..20, mark : DOMAIN Marks, stop : {"", ")", "g", "-"}]

\* A number that is written is read, up to what follows it, and a character that
\* ends it ends it.
IntegerRight(n, text, stop) ==
    LET read == EvalNumber(<<"-", "-">> \o text \o <<stop>>, 0, TRUE, {})
        cut == EvalNumber(text \o <<"1">>, 0, FALSE, {"1"})
    IN /\ read.val.u = n % Word /\ read.pos = Len(text) + 2
       /\ IsNumberString(text, 0, FALSE)
       /\ Count(text, <<"1">>) = 0 => cut.val.u = n % Word /\ cut.pos = Len(text)

\* So is a fraction: digits behind a point, and an exponent in its own radix.
FractionRight(n, mark, stop) ==
    LET digits == Written(n, mark.radix)
        text == mark.text \o digits \o <<".">> \o digits
        value == Fraction(n * mark.radix^Len(digits) + n, mark.radix^Len(digits))
        Reads(t, f) == \E read \in {EvalNumber(t, 0, TRUE, {})} :
                         read.pos = Len(t) - 1 /\ IsFloat(read.val) /\ SameNumber(read.val.f, f)
    IN /\ Reads(text \o <<stop>>, value)
       /\ Reads(<<"/">> \o text \o <<stop>>, Over(Whole(1), value)) \/ n = 0
       /\ \A sign \in {<<>>, <<"-">>} :
            Reads(text \o <<"p">> \o sign \o <<"0", "x", "2">> \o <<stop>>,
                  TimesPower(value, mark.radix, IF sign = <<>> THEN 2 ELSE -2))

NumberRight(n, mark, stop) ==
    IntegerRight(n, Marks[mark].text \o Written(n, Marks[mark].radix), stop) /\ FractionRight(n, Marks[mark], stop)

\* Expressions, with the values they should have.
X == <<"x">>
Variables == [name \in {X} |-> Value("signed", -2)]
Atoms == {[t |-> <<"7">>, v |-> Value("unsigned", 7)],
          [t |-> <<"-", "3">>, v |-> Value("signed", -3)],
          [t |-> X, v |-> Variables[X]],
          [t |-> <<"f", "(", "x", ",", "4", ")">>, v |-> Call(<<"f">>, <<Variables[X], Value("unsigned", 4)>>)],
          [t |-> <<"$", "0">>, v |-> Value("unsigned", 0)],
          [t |-> <<"2", ".", "5">>, v |-> Double(Fraction(25, 10))]}
Operators == {<<"+">>, <<"-">>, <<"*">>, <<"/">>, <<"%">>, <<"<", "=">>, <<"&">>, <<"=", "=">>}
Gaps == {<<" ">>, <<" ", ";", ";", ")", "\n">>}

Both(a, oper, b, gap) == [t |-> a.t \o gap \o oper \o gap \o b.t, v |-> Applied(a.v, oper, b.v)]
Within(a) == [t |-> <<"(">> \o a.t \o <<")">>, v |-> a.v]

Expressions == [a : {x \in Atoms : Len(x.t) = 2}, b : Atoms, c : {x \in Atoms : Len(x.t) # 1},
                o1 : Operators, o2 : {<<"-">>, <<"/">>, <<"=", "=">>, <<"&">>}]

\* Operators work from left to right, brackets first, whatever the white space and
\* the comments; dividing by zero fails; an assignment keeps what was evaluated.
Comes(r, x, byzero) ==
    ~r.overrun /\ (IF byzero THEN ~r.success ELSE r.success /\ r.val = x.v)

Assigns(r, x) == r.success /\ r.vars[<<"y">>] = x.v /\ Evaluate(<<"y">>, Zero, r.vars).val = x.v

ExpressionRight(e) ==
    LET Evaluates(x, byzero) == Comes(Evaluate(x.t, Zero, Variables), x, byzero)
        first(gap) == Both(e.a, e.o1, e.b, gap)
        fails == ByZero(e.o1, e.b.v)
        inner == Both(e.b, e.o2, e.c, <<" ">>)
        innerfails == ByZero(e.o2, e.c.v)
    IN /\ \A gap \in Gaps : Evaluates(Both(first(gap), e.o2, e.c, gap), fails \/ innerfails)
       /\ Evaluates(Both(e.a, e.o1, Within(inner), <<" ">>), innerfails \/ ByZero(e.o1, inner.v))
       /\ innerfails \/ Assigns(Evaluate(<<"y", ":", "=">> \o Within(inner).t, Zero, Variables), inner)
=============================================================================
