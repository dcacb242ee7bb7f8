------------------------------- MODULE MCLibrary -------------------------------
(***************************************************************************)
(* A run over the library's algorithms and its lock: a behaviour picks an  *)
(* algorithm and an input for it, and the invariants compare what it       *)
(* computes with what it stands for; or it runs the threads of ThreadLock. *)
(* The sets of inputs are the bounds.                                      *)
(***************************************************************************)
EXTENDS ThreadLock, SequencesExt, FiniteSetsExt

CONSTANT Letters

VARIABLES subject, input

mcvars == <<subject, input, vars>>

A == INSTANCE Arithmetic
G == INSTANCE Rectangles
T == INSTANCE TextCodec

\* Items 2 and 3 are equal in order, and so are 0 and 1.
Compare(a, b) == a \div 2 - b \div 2
D == INSTANCE DataList

\* The clock stands at noon of 31 March 2000 UTC.
C == INSTANCE DateTime WITH
       DayWrap <- 4194304, UTCOffset <- 3600000,
       Now <- [days |-> 7395, ms |-> 46800000], NowUTC <- [days |-> 7395, ms |-> 43200000]

\* Patterns over two letters and a capital, and texts of up to three of them.
L == INSTANCE PatternLanguage WITH Letters <- {"a", "A", "b"}, MaxText <- 3
P == INSTANCE Glob

\* Words of six bits, and a function of two values.
S == INSTANCE MCTexts WITH
       Width <- 6, Bits <- [int8 |-> 2, short |-> 3, int |-> 4, long |-> 6, llong |-> 6],
       FunctionNames <- {<<"f">>},
       DoubleOf <- LAMBDA bits : [num |-> bits, den |-> 4],
       Call <- LAMBDA name, values :
                 [values[1] EXCEPT !.u = (@ + 3 * values[2].u) % 64]

F == INSTANCE MCFiles WITH AnyName <- {<<"any">>}

\* An algorithm is picked in one state of the lock only, among those of its part of
\* the library.
Parts == {"numbers", "lists", "dates", "patterns", "strings", "evaluation", "all files"}
MCInit == Init /\ subject \in Parts \cup {"lock"} /\ input = <<>> /\ (subject \in Parts => ~ condition)

Lock == subject = "lock" /\ Next /\ UNCHANGED <<subject, input>>

Pick(part, s, inputs) == subject = part /\ subject' = s /\ input' \in [{s} -> inputs] /\ UNCHANGED vars

given == input[subject]

Texts(chars, n) == UNION {[1..k -> chars] : k \in 0..n}

Products == [a : -4..4, b : -4..4, c : (-5..5) \ {0}]
Words == [val : 0..15, mul : 0..3, div : 1..3]
Arrays == [array : {[p \in 1..k |-> p] : k \in 0..8}, size : 0..5, n : 0..3]
Spans == {G!Span(at, size) : at \in 0..2, size \in 0..2}
Rects == Spans \X Spans

\* A sum of samples is linear in them: one that is not 0 at a time is enough.
Buffers == {[k \in 1..4 |-> IF k = one THEN 1 ELSE 0] : one \in 1..4} \cup {<<2, 1>>}

PickProduct == Pick("numbers", "product", Products)
PickProducts == Pick("numbers", "words of a number", Words)
PickArray == Pick("numbers", "array", {i \in Arrays : i.size * i.n <= Len(i.array)})
PickSamples == Pick("numbers", "samples", [buffer : Buffers, from : 0..5, to : 1..15])
PickRects == Pick("numbers", "rects", Rects \X Rects)
PickColour == Pick("numbers", "colour", {<<r, g, b, 0>> : r, g, b \in {0, 1, 100, 127, 128, 254, 255}})
PickList == Pick("lists", "list", [data : Texts(0..3, 5), item : 0..3])
PickText == Pick("lists", "text", Texts(T!Characters, 3))

\* Days around leap and other years and at the ends of the search for the year.
DayRuns ==
    (0..1550) \cup (7300..7500) \cup (C!Since(2099)..C!Since(2101)) \cup (C!Since(2399)..C!Since(2401))
Moments == [days : {0, 1, 59, 60, 366}, ms : {0, 1, 43200000, 86399999}]
Existing == {C!Set(31, 1, 2001, 0, 0, 0), C!Set(29, 2, 2000, 12, 0, 0), C!Set(15, 6, 1980, 23, 59, 59),
             C!Set(31, 12, 2024, 0, 0, 0), C!Set(1, 3, 2023, 1, 30, 0)}
Dates == {<<y, m, d>> \in {1980, 2000, 2005, 2100} \X {1, 2, 3, 11, 12} \X {1, 13, 28, 29, 30, 31} :
             d <= C!MonthLength(m - 1, y)}
Forms == {"y-m-d", "d/m/y", "y:m:d", "stamp", "m/d/y", "d-mon-y", "y-mon-d"}

PickDay == Pick("dates", "day", [d : DayRuns])
PickSpan == Pick("dates", "span", Moments \X Moments)
PickDate == Pick("dates", "date", [date : Dates, existing : Existing, form : Forms])
PickPhrase == Pick("dates", "phrase", [existing : Existing, day : 0..6, n : {1, 2, 12, 40}, week : {1, 2, 27, 52}])

AOrAnyB(cs) == L!Either(L!Letter("a", cs), L!Then(L!AnyChar, L!Letter("b", cs)))
Simple(cs) == {L!Letter("a", cs), L!Escaped("b", cs), L!AnyChar, L!OneOf("a", cs), L!NoneOf("a", cs),
               L!Upper, AOrAnyB(cs)}
Repeats(cs) == {L!Repeat(r, p) : r \in L!Repetitions, p \in {L!Letter("a", cs), L!AnyChar, AOrAnyB(cs)}}
Pieces(cs) == Simple(cs) \cup Repeats(cs) \cup {L!AnyText}
Patterns(cs) ==
    {L!Then(p, q) : p \in Simple(cs), q \in Pieces(cs)} \cup {L!Then(p, L!Letter("a", cs)) : p \in Repeats(cs)}
      \cup {L!Unless(p, q) : p \in Simple(cs), q \in {L!AnyText, AOrAnyB(cs)}}
      \cup {L!Neither(p, AOrAnyB(cs)) : p \in Simple(cs)}
      \cup {L!Nest(p, q, AOrAnyB(cs)) : p \in Simple(cs), q \in {L!AnyText, L!Letter("a", cs)}}
Neighbours(cs) == [p : Repeats(cs) \cup {L!AnyText}, q : {AOrAnyB(cs), L!AnyText}, casesens : {cs}]

PickPattern == \E cs \in BOOLEAN : Pick("patterns", "pattern", [pattern : Patterns(cs), casesens : {cs}])
PickRegions == \E cs \in BOOLEAN : Pick("patterns", "regions", Neighbours(cs))

PickString(s, inputs) == Pick("strings", s, inputs)
PickStrings ==
    \/ PickString("words", S!Worded) \/ PickString("lines", S!Lined) \/ PickString("characters", S!Encoded)
    \/ PickString("path", S!Named) \/ PickString("brackets", S!InBrackets) \/ PickString("search", S!Searched)
    \/ PickString("compare", S!Compared) \/ PickString("updates", S!Updates) \/ PickString("tabs", S!Tabbed)
    \/ PickString("format", S!Formats) \/ PickString("plain", S!Plain \cup S!Marked) \/ PickString("bytes", S!Bytes)

PickNumber(s, inputs) == Pick("evaluation", s, inputs)
PickNumbers ==
    \/ PickNumber("values", S!Pairs) \/ PickNumber("number", S!NumberTexts) \/ PickNumber("expression", S!Expressions)

PickFile(s, inputs) == Pick("all files", s, inputs)
PickFiles ==
    \/ PickFile("tree", F!Collections) \/ PickFile("files", F!Ordered) \/ PickFile("directory", F!Makings)
    \/ PickFile("times", F!Times \X F!Times) \/ PickFile("document", F!Documents)
    \/ PickFile("stream", F!Streams) \/ PickFile("opening", F!Worlds)

StringSubjects == {"words", "lines", "characters", "path", "brackets", "search", "compare", "updates", "tabs", "format"}

MCNext == Lock \/ PickDay \/ PickSpan \/ PickDate \/ PickPhrase \/ PickProduct \/ PickProducts \/ PickArray \/ PickSamples
            \/ PickRects \/ PickColour \/ PickList \/ PickText
            \/ PickPattern \/ PickRegions \/ PickStrings \/ PickNumbers \/ PickFiles

MCSpec == MCInit /\ [][MCNext]_mcvars /\ Fairness

-----------------------------------------------------------------------------
Cells(r) == {<<x, y>> : x \in r[1].at..(G!End(r[1]) - 1), y \in r[2].at..(G!End(r[2]) - 1)}

Corner(r) == <<r[1].at, r[2].at>>
Opposite(r) == <<G!End(r[1]), G!End(r[2])>>
SizeOf(r) == <<r[1].size, r[2].size>>
Minus(p) == G!SizeScale(p, -1)

\* Points, rectangles and their cells: a rectangle spanned from the opposite corner
\* is the same one, edges that move alike move it, and all its corners are in
\* another one if it is.  (PointInRect() takes the row below for part of it.)
PointsRight(r, q) ==
    LET corner == Corner(q)  size == SizeOf(q) IN
    /\ G!PointMinus(G!PointPlus(corner, size), size) = corner
    /\ size[1] * size[2] # 0 => G!PointOver(G!PointTimes(corner, size), size) = corner
    /\ G!RectEqual(G!Rect(Opposite(r), Minus(SizeOf(r))), r)
    /\ G!RectPlus(G!RectPlus(r, corner, size), Minus(corner), Minus(size)) = r
    /\ \A n \in -1..2 : <<G!MoveEnd(G!MoveStart(r[1], n), n), r[2]>> = G!Moved(r, <<n, 0>>)
    /\ \A pt \in (0..3) \X (0..4) :
         /\ pt \in Cells(r) <=> G!PointAtMost(Corner(r), pt) /\ G!PointBelow(pt, Opposite(r))
         /\ G!PointInRect(r, pt) <=> G!InsidePoint(<<r[1], G!MoveEnd(r[2], 1)>>, pt)
    /\ Cells(r) # {} => G!CornersIncl(r) \subseteq Cells(r) /\ G!centre(r) \in Cells(r)
    /\ G!InsideRect(r, q) <=>
         \A c \in G!Corners(r) : G!PointAtMost(corner, c) /\ G!PointAtMost(c, Opposite(q))

\* A rectangle of another size: about the same centre, large enough, or at a side.
Even(s, t) == A!Magnitude((s.at - t.at) - (G!End(t) - G!End(s))) <= 1

JustifiedRight(s, size) ==
    LET At(just) == G!JustifySpan(s, size, just) IN
    /\ At(101) = At(0) /\ At(0).at = s.at /\ At(102) = At(50) /\ Even(At(102), s)
    /\ At(103) = At(100) /\ G!End(At(103)) = G!End(s)
    /\ \A just \in {0, 24, 25, 66, 99} : At(just).at \in s.at..At(just + 1).at \/ size > s.size
    /\ At(G!JUSTIFY_FULLY) = s

SizesRight(r, size) ==
    LET grown == G!LimitSize(r, size)  centred == G!Centre(r, size) IN
    /\ G!InsideRect(r, grown) /\ G!PointAtMost(size, SizeOf(grown))
    /\ grown = r <=> G!PointAtMost(size, SizeOf(r))
    /\ SizeOf(centred) = size /\ centred = G!Centralise(r, size)
    /\ \A a \in 1..2 : Even(grown[a], r[a]) /\ Even(centred[a], r[a]) /\ JustifiedRight(r[a], size[a])

\* Sums and differences of colours stop at the ends of a channel, and mixing is
\* both; a number of a colour turned round is the pixel in the other order.
White == <<255, 255, 255, 255>>

ColoursRight(c, d) ==
    /\ Max(ToSet(c)) = 0 \/ Max(ToSet(G!Maximize(c))) \in 254..255
    /\ G!FromNumber(G!ToNumber(c)) = c
    /\ G!FromNumber(G!SwapColour(G!ToNumber(c))) = G!FromPixel(c, <<3, 2, 1>>)
    /\ G!FromPixel(G!FromPixel(c, <<2, 3, 1, 4>>), <<3, 1, 2, 4>>) = c
    /\ \A k \in G!Channels :
         G!ColourDifference(G!ColourSum(c, d), d)[k] = (IF c[k] + d[k] > 255 THEN 255 - d[k] ELSE c[k])
    /\ G!Mix(c, d, 1, 1) = G!ColourSum(c, d) /\ G!Mix(c, d, 1, -1) = G!ColourDifference(c, d)
    /\ G!ColourProduct(c, White) = c /\ G!ColourProduct(c, d) = G!ColourProduct(d, c)
    /\ \A n \in {0, 100, 255} : G!SetColour(c, n) = G!ColourProduct(c, [k \in G!Channels |-> n])

\* What is rounded down, up or to a limit is the nearest there is on that side.
ProductRight(a, b, c) ==
    LET r == A!muldivsr(a, b, c)  down == A!muldivs(a, b, c) IN
    /\ 2 * A!Magnitude(r * c - a * b) <= A!Magnitude(c)
    /\ A!muldivsr(-a, b, c) = -r
    /\ A!Magnitude(a * b) - A!Magnitude(down * c) \in 0..(A!Magnitude(c) - 1) /\ down * c * a * b >= 0
    /\ a * b >= 0 /\ c > 0 => A!muldivur(a, b, c) = r
    /\ A!addms(a, b, c) = A!Least(a + b, c)
    /\ a >= 0 /\ b >= 0 => A!addmu(a, b, A!Magnitude(c)) = (IF a > A!Magnitude(c) THEN a + b ELSE A!addms(a, b, A!Magnitude(c)))
    /\ A!LimitAngle(A!LimitAngle(100 * a) + 100 * b) = A!LimitAngle(100 * (a + b))

\* Twice the area of the samples, in steps of a third.
Steps(buffer, from, to) ==
    FoldSet(LAMBDA p, sum : sum + A!InterpRead(buffer, p, 3) + A!InterpRead(buffer, p + 1, 3), 0, from..(to - 1))

\* (Within one sample the means for doubles and for floats are not the area, and
\* not each other.)
SamplesRight(buffer, from, to) ==
    LET mean == A!InterpSum(buffer, from, to, 3)  float == A!InterpSumFloat(buffer, from, to, 3)
        size == Len(buffer)  other == Reverse(buffer) IN
    /\ from \div 3 < to \div 3 =>
         mean = [num |-> Steps(buffer, from, to), den |-> 6 * (to - from)] /\ float = mean
    /\ from \div 3 = to \div 3 /\ from < to =>
         mean.num * float.den * ((to % 3) + (from % 3) - 3) = 3 * float.num * mean.den
    /\ from % 3 = 0 =>
         A!InterpReadStereo(buffer, other, from, 3)
             = <<3 * buffer[((from \div 3) % size) + 1], 3 * buffer[size - ((from \div 3) % size)]>>

(* misc.cpp: muldivsr() rounds to the nearest, ties away from 0; muldivu()  *)
(* by words is the exact quotient; swapping bytes turns every item round    *)
(* and leaves the rest; an array that grows keeps its items and is large    *)
(* enough; a sum of samples is the area of the line through them, where it    *)
(* spans more than one.  PointSizeRect.h: intersection, hull and limiting of rectangles   *)
(* are what they are of the cells the rectangles cover, empty and touching  *)
(* ones included.  EvalNumber.cpp: quotients, remainders, bits and orders of  *)
(* values fit together, numbers in any radix are read as written;            *)
(* simpleeval.cpp: expressions come to what their operators make of them.    *)
NumbersExact ==
    /\ subject = "product" => ProductRight(given.a, given.b, given.c)
    /\ subject = "words of a number" =>
         A!muldivu(given.val, given.mul, given.div, 4)
             = ((given.val * given.mul) \div given.div) % 16
    /\ subject = "array" =>
         LET swapped == A!SwapBytes(given.array, given.size, given.n)
             grown == A!Allocate(given.array, given.n, 4) IN
         /\ A!SwapBytes(swapped, given.size, given.n) = given.array
         /\ \A k \in 1..given.n :
              LET item == SubSeq(given.array, (k - 1) * given.size + 1, k * given.size) IN
              SubSeq(swapped, (k - 1) * given.size + 1, k * given.size) = Reverse(item)
         /\ A!SwappedNumber(given.array) = A!SwapBytes(given.array, Len(given.array), 1)
         /\ Len(grown) >= given.n /\ grown # <<>> /\ IsPrefix(given.array, grown)
    /\ subject = "samples" => SamplesRight(given.buffer, given.from, given.to)
    /\ subject = "colour" => \A d \in {<<0, 1, 127, 0>>, <<255, 128, 100, 0>>} : ColoursRight(given, d)
    /\ subject = "rects" =>
         LET r == given[1]  q == given[2]  hull == G!MinRect(r, q)  held == G!Limit(r, q, TRUE) IN
         /\ Cells(G!MaxRect(r, q)) = Cells(r) \cap Cells(q)
         /\ \A t \in Rects : (G!InsideRect(r, t) /\ G!InsideRect(q, t)) <=> G!InsideRect(hull, t)
         /\ G!Include(r, q) = hull
         /\ G!InsideRect(held, q) /\ (G!InsideRect(r, q) => held = r)
         /\ \A pt \in (0..3) \X (0..3) : G!InsidePoint(r, pt) <=> pt \in Cells(r)
         /\ Cells(r) \cap Cells(q) # {} => G!Overlap(r, q)
         /\ G!Deflate(G!Inflate(r, <<1, 2>>), <<1, 2>>) = r
         /\ PointsRight(r, q) /\ SizesRight(r, SizeOf(q))
    /\ subject = "values" => S!ValuesRight(given[1], given[2])
    /\ subject = "number" => S!NumberRight(given.n, given.mark, given.stop)
    /\ subject = "expression" => S!ExpressionRight(given)

InOrder(data) == \A k, l \in DOMAIN data : k < l => Compare(data[k], data[l]) <= 0
Count(data, item) == Cardinality({k \in DOMAIN data : data[k] = item})
Among(data, key) == SelectSeq(data, LAMBDA item : item \div 2 = key)

\* What is put into a list is there, and can be taken out again.
PlacesRight(data, item) ==
    /\ \A at \in {-1, 0, 2, 9}, dup \in BOOLEAN :
         LET list == D!Add(data, item, at, dup)  place == D!Added(data, item, at, dup) IN
         IF place < 0 THEN list = data /\ Count(data, item) > 0
         ELSE D!Item(list, place) = item /\ D!RemoveIndex(list, place) = data
    /\ \A at \in {0, 2, 7}, grow \in BOOLEAN :
         LET list == D!Replace(data, at, item, grow)  place == A!Least(at, Len(list) - 1) IN
         /\ Len(list) = (IF grow THEN A!Greatest(Len(data), at + 1) ELSE Len(data))
         /\ \A k \in DOMAIN list : D!Item(list, k - 1) =
              (IF k - 1 = place THEN item ELSE IF k <= Len(data) THEN data[k] ELSE 0)
    /\ \A k, l \in 0..2 :
         LET list == D!Swap(data, k, l) IN
         /\ D!Swap(list, l, k) = data /\ \A value \in 0..3 : Count(list, value) = Count(data, value)
         /\ k < Len(data) /\ l < Len(data) => D!Item(list, k) = D!Item(data, l)

\* The ends of a list, what is made, merged and gone through.
ListsRight(data, item, list) ==
    LET merged == D!Merge(data, list, FALSE)  made == D!Generate(data, 4, item - 2, 2, 3)
        visited == D!Traversed(data, {item}) IN
    /\ data # <<>> => <<D!First(data)>> \o D!Pop(data) = data /\ Append(D!EndPop(data), D!Last0(data)) = data
    /\ data = <<>> => D!Pop(data) = data /\ D!EndPop(data) = data /\ {D!First(data), D!Last0(data)} = {0}
    /\ IsPrefix(data, made) /\ \A k \in (Len(data) + 1)..(Len(made) - 1) : made[k + 1] - made[k] \in 0..1
    /\ D!Merge(data, list, TRUE) = [data |-> D!PlusList(data, list, TRUE), ok |-> TRUE]
    /\ merged.ok <=> merged.data = data \o list
    /\ merged.ok => D!PlusList(data, list, FALSE) = merged.data
    /\ IsPrefix(data, merged.data) /\ IsPrefix(merged.data, data \o list)
    /\ IsPrefix(visited, data) /\ (ToSet(data) \subseteq {item} => visited = data)
    /\ visited # data => Last(visited) # item /\ ToSet(Front(visited)) \subseteq {item}

\* DataList.cpp: Sort() leaves the items in order, those that are equal in order
\* as they came; Insert() keeps a list in order and puts an item behind its
\* equals, wherever its search in halving steps goes; the exchanges of Reverse()
\* turn the list round; what += added -= takes away again.  Recurse.cpp: the
\* files that are collected are those of the tree, once each and in an order that
\* is one; a directory is made with all it is in and nothing else.
ListsInOrder ==
  /\ F!FileListed(subject, given)
  /\ subject = "list" =>
      LET data == given.data  sorted == D!Sort[data]  inserted == D!Insert(sorted, given.item, TRUE) IN
      /\ InOrder(sorted) /\ \A key \in 0..1 : Among(sorted, key) = Among(data, key)
      /\ InOrder(inserted)
      /\ \A key \in 0..1 : Among(inserted, key) =
           Among(sorted, key) \o (IF given.item \div 2 = key THEN <<given.item>> ELSE <<>>)
      /\ D!ReverseList(data) = Reverse(data)
      /\ \A item \in 0..3 : Count(D!MinusList(D!PlusList(data, sorted, TRUE), sorted), item)
                             = Count(data, item)
      /\ IsInjective(D!PlusList(<<>>, data, FALSE))
      /\ PlacesRight(data, given.item) /\ ListsRight(data, given.item, <<given.item, 1>>)

\* SettingsHandler's values: a value survives being written to its line and
\* read back, and it cannot end that line, whatever quotes, spaces, backslashes
\* and line ends it is made of.  strsup.cpp: URLs, HTML, base64 and fields of a
\* text give back what was put into them.  XMLDecode.cpp: a document is read as
\* it was written, and refused where its tags do not fit.
RoundTrip ==
    /\ subject = "text" =>
         /\ T!Decode(T!Encode(given)) = given
         /\ ~ T!Has(T!Encode(given), "\n") /\ ~ T!Has(T!Encode(given), "\r")
         /\ \E part \in {T!Escapify(given) \o <<"/">>} :
              P!ParseRegexReplacement(<<"/">> \o part \o part) = <<given, given>>
    /\ subject = "plain" => S!Returns(given)
    /\ subject = "bytes" => S!BytesReturn(given)
    /\ subject = "document" => F!DocumentRight(given)

\* strsup.cpp: words, lines, characters, paths, brackets, matches, tabs and format
\* specifiers that a text is taken apart into make it up again, nothing lost or
\* counted twice.  StdUri.cpp: a stream's name is taken apart into the parts it
\* was put together from, and opened by the first that takes it.
TextsInParts ==
    /\ subject \in StringSubjects => S!TextRight(subject, given)
    /\ subject = "stream" => F!UriRight(given)
    /\ subject = "opening" => F!OpenRight(given)

\* The terms of a text: values with what follows them, and words.
Val(n, str) == [val |-> 2 * n, str |-> str, stamp |-> <<>>, four |-> FALSE]
Word(str) == [val |-> C!None, str |-> str, stamp |-> <<>>, four |-> FALSE]

DateTerms(date, form) ==
    LET y == date[1]  m == date[2]  d == date[3]  name == C!MonthNames[m] IN
    CASE form = "y-m-d" -> <<Val(y, "-"), Val(m, "-"), Val(d, "")>>
      [] form = "d/m/y" -> <<Val(d, "/"), Val(m, "/"), Val(y, "")>>
      [] form = "y:m:d" -> <<Val(y, ":"), Val(m, ":"), Val(d, ":"), Val(1, ":"), Val(2, ":"), Val(3, "")>>
      [] form = "stamp" -> <<[Val(0, "") EXCEPT !.stamp = <<y, m, d, 1, 2, 3>>]>>
      [] form = "m/d/y" -> <<Word("us"), Word(","), Val(m, "/"), Val(d, "/"), Val(y, "")>>
      [] form = "d-mon-y" -> <<Val(d, "-"), Word(name), Word("-"), Val(y, "")>>
      [] form = "y-mon-d" -> <<Val(y, "-"), Word(name), Word("-"), Val(d, "")>>

Read(terms, existing) == C!StrToDate(terms, C!Start("existing", existing, FALSE))

IsDate(s, d) == s.ok /\ s.dt.days = d.days
IsRead == IsDate(Read(DateTerms(given.date, given.form), given.existing),
                 C!Set(given.date[3], given.date[2], given.date[1], 0, 0, 0))

\* "date specified as [[YYYY-]MM-]DD or DD[-MM[-YYYY]] or ...": the date that is
\* written is the date that is read, whatever the date was before.
DatesAsWritten == subject = "date" => IsRead

\* A date written with the day or the month first is the same date, and the time
\* behind it is that of the day.
Written(uk, us, time, dt) ==
    LET n(k) == uk[k][3] IN
    /\ C!Set(n(3), n(5), n(7), n(9), n(11), n(13)) = C!Moment(dt.days, dt.ms - (dt.ms % 1000))
    /\ us = [uk EXCEPT ![3] = uk[5], ![5] = uk[3]]
    /\ time = SubSeq(uk, 9, 13) /\ n(1) = C!WeekDay(dt)

\* The day after, by the lengths of the months.
DayAfter(d) ==
    LET last == d.day + 1 = C!MonthLength(d.month, d.year) IN
    [weekday |-> (d.weekday + 1) % 7,
     day |-> IF last THEN 0 ELSE d.day + 1,
     month |-> IF last THEN (d.month + 1) % 12 ELSE d.month,
     year |-> IF last /\ d.month = 11 THEN d.year + 1 ELSE d.year]

NameLeads(on, dt) ==
    C!DateTimeToDMY(on).weekday = given.day /\ on.days \in dt.days..(dt.days + 6)
TakenAway(moved, dt) == moved.ok /\ moved.dt = dt /\ moved.specified = {"date"}
MonthsLater(d, e) ==
    d.day < 28 => e.day = d.day /\ (e.year * 12 + e.month = d.year * 12 + d.month + given.n)
WeekOf2005(week) ==
    /\ week.ok /\ C!DateTimeToDMY(week.dt).weekday = given.day
    /\ week.dt.days = C!Set(27, 12, 2004, 0, 0, 0).days + 7 * (given.week - 1) + given.day

\* What is read in which phrase, from which date.
Phrase(terms, from) == [terms |-> terms, from |-> from]
Phrases(dt) ==
    LET name == Word(C!DayNames[given.day + 1]) IN
    <<Phrase(<<name>>, dt),
      Phrase(<<Word("next"), Word(" "), name>>, dt),
      Phrase(<<name>>, C!Moment(dt.days + 7, dt.ms)),
      Phrase(<<Word("+"), Val(given.n, "d"), Word("-"), Val(given.n, "d")>>, dt),
      Phrase(<<Word("+"), Val(given.n, "M")>>, dt),
      Phrase(<<Val(2005, "-"), Word("w"), Val(given.week, "-"), Val(given.day + 1, "")>>, dt),
      Phrase(<<Word("yesterday"), Word("+"), Val(1, "d")>>, dt),
      Phrase(<<Word("today")>>, dt),
      Phrase(<<Val(1, ":"), Val(40, "pm")>>, dt)>>

PhrasesRight(dt, read) ==
    /\ NameLeads(read[1].dt, dt)
    /\ read[2].dt = C!Moment(read[3].dt.days, dt.ms)
    /\ TakenAway(read[4], dt)
    /\ MonthsLater(C!DateTimeToDMY(dt), C!DateTimeToDMY(read[5].dt))
    /\ WeekOf2005(read[6])
    /\ read[7].dt = read[8].dt
    /\ read[9].dt = C!Moment(dt.days, 49200000)

\* DateTime.cpp: the calendar goes from day to day without a gap, from a Tuesday
\* in 1980, and back; dates are numbers with a sum and a difference; a date
\* that is written is read, if the day fits the months it passes through; a
\* weekday's name leads to the next such day, weeks count from the Monday on or
\* before 1 January, and what is added can be taken away.
DatesExact ==
    /\ subject = "day" =>
         LET dt == C!Moment(given.d, 1)  d == C!DateTimeToDMY(dt) IN
         /\ C!DateTimeToDMY(C!Moment(given.d + 1, 0)) = DayAfter(d)
         /\ given.d = 0 => d = [weekday |-> 1, day |-> 0, month |-> 0, year |-> 1980]
         /\ C!DMYToDateTime(d).days = given.d
         /\ C!FromTimeStamp(C!ToTimeStamp(dt), 1, FALSE, 0) = dt
         /\ C!FromTime([mday |-> C!Day(dt), mon |-> d.month, year |-> d.year - 1900, hour |-> 1, min |-> 2, sec |-> 3])
              = C!Set(C!Day(dt), C!Month(dt), C!Year(dt), 1, 2, 3)
         /\ C!MonthFirstDay(d.month + 2, d.year) = C!MonthFirstDay(d.month + 1, d.year) + C!MonthDays(d.month + 1, d.year)
         /\ C!DateTimeToDMY(C!NextWeekDay(dt, 3)).weekday = 3
         /\ C!NextWeekDay(dt, 3).days \in given.d..(given.d + 6)
         /\ given.d > 6 =>
              LET last == C!PrevWeekDay(dt, 3) IN
              /\ last.days \in (given.d - 6)..given.d /\ C!WeekDay(last) = 3
              /\ C!NextWeekDay(last, d.weekday) = dt
    /\ subject = "span" =>
         LET a == given[1]  b == given[2]  sum == C!Plus(a, b)
             span == C!SpanStr(a, TRUE)  stamp == C!ToTimeStamp(a) IN
         /\ Cardinality({k \in 1..3 : <<C!Before(a, b), C!SameMoment(a, b), C!After(a, b)>>[k]}) = 1
         /\ C!SameMoment(a, b) <=> a = b
         /\ Written(C!DateToStr(a, FALSE), C!DateToStr(a, TRUE), C!TimeStr(a), a)
         /\ C!Minus(sum, b) = a /\ C!CompareDates(sum, a) = (IF b = C!Moment(0, 0) THEN 0 ELSE 1)
         /\ C!AddDateTime(a, b.days, b.ms) = sum
         /\ C!SubDateTime(sum, b.days, b.ms) = a
         /\ C!ToUTC(C!ToLocal(a)) = a
         /\ ((span[2] * 60 + span[3]) * 60 + span[4]) * 1000 + span[5] = a.ms /\ span[1] = a.days
         /\ C!FromTimeStamp(stamp, a.ms % 1000, TRUE, 130) = C!SubDateTime(a, 0, 90 * 60000) \/ a.days = 0
    /\ subject = "date" =>
         LET old == C!DateTimeToDMY(given.existing)
             passes == CASE given.form = "m/d/y" -> given.date[3]
                         [] given.form \in {"d-mon-y", "y-mon-d"} -> old.day + 1
                         [] OTHER -> 1
         IN passes <= 28 => IsRead
    /\ subject = "phrase" =>
         PhrasesRight(given.existing, [k \in 1..9 |->
           LET phrase == Phrases(given.existing)[k] IN Read(phrase.terms, phrase.from)])

Matched(t, w, casesens, regions) ==
    P!MatchGlob([str |-> t, casesens |-> casesens, regions |-> regions, classes |-> <<>>], w, "\\")

CutInTwo(t, r, p, q) ==
    LET cut == r.regs[1].len
        first == SubSeq(t, 1, cut)
        second == SubSeq(t, cut + 1, Len(t))
    IN /\ r.is = "match" <=> t \in L!Joined(p.is, q.is)
       /\ r.is = "match" =>
            /\ r.regs[1].pos = 0 /\ r.regs[2].pos = cut /\ r.regs[2].len = Len(second)
            /\ first \in p.is /\ second \in q.is
            /\ P!ExpandGlobRegions(t, <<"\\", "1", "-", "\\", "2">>, r.regs, "\\")
                 = first \o <<"-">> \o second

MatchedRight(t, r) ==
    /\ subject = "pattern" => (r.is = "match" <=> t \in given.pattern.is)
    /\ subject = "regions" => CutInTwo(t, r, given.p, given.q)

Wanted == IF subject = "pattern" THEN given.pattern.w ELSE L!Then(L!Region(given.p), L!Region(given.q)).w

\* Regex.cpp: a pattern matches the texts it is a way of writing and no others,
\* with choices, repetitions, nests and exclusions, through all the patterns that
\* match() writes for itself; two regions that follow each other cut the text in
\* two, each part one of its region's, and the parts can be written out again.
PatternsMatch ==
    subject \in {"pattern", "regions"} =>
      \A t \in L!Texts : MatchedRight(t, Matched(t, Wanted, given.casesens, subject = "regions"))
=============================================================================
