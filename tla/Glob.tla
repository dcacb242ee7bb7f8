---------------------------------- MODULE Glob ----------------------------------
(***************************************************************************)
(* The patterns of Regex.cpp.  A pattern is a text that ParseGlob() checks *)
(* and copies with tokens in it: TOKEN_ESCAPE for the escape character and *)
(* TOKEN_OR for each "|" outside brackets.  match() goes through text and  *)
(* pattern together and recurses for every choice; for repetitions, groups *)
(* and regions it writes a new pattern and matches that.                   *)
(*                                                                         *)
(* The caches of split() and getclass() are of what they compute; that of  *)
(* getclass() forgets the case (see Class).  Regions inside exclusions are *)
(* left out: the code keeps them in its list though the match has failed.  *)
(***************************************************************************)
EXTENDS Characters

TOKEN_REGEX == "regex"
TOKEN_OR == "or"
TOKEN_ESCAPE == "escape"

RecursionLimit == 2000

\* IsWordChar of this file.
IsWordChar(c) == IsAlphaChar(c) \/ IsNumeralChar(c) \/ IsNegativeChar(c) \/ c = "'"

\* The file's own copy of the function.
deescape(s, i) == Deescaped(s, i)

-----------------------------------------------------------------------------
(* Finding the end of things. *)

\* What follows a "$": the position behind it, and whether it is legal.
check_dollar_str(s, i) ==
    LET number == IF IsNegativeChar(At(s, i + 1)) THEN i + 2 ELSE i + 1
        bracket == FirstNotIn(s, number, Numerals)
        operator1 == IF At(s, i) = "^" THEN i + 1 ELSE i
        operator == IF At(s, operator1) \in {"u", "l"} THEN operator1 + 1 ELSE operator1
        Checked(k, legal) == [pos |-> k + 1, ok |-> At(s, k) \in legal]
    IN CASE At(s, i) = "r" -> Checked(i + 1, {")", "]", "}"})
         [] At(s, i) = "c" -> Checked(bracket, {")", "]", "}"})
         [] At(s, i) \in {"<", ">", "*"} -> [pos |-> i + 1, ok |-> TRUE]
         [] OTHER -> Checked(operator, {"d", "w", "l", "u", "p", "q", "s", "b", "e", "a"})

\* The end of a class: the first term that is not escaped.
RECURSIVE find_simple(_, _, _, _)
find_simple(s, i, term, escchar) ==
    IF At(s, i) \in {NUL, term} THEN i
    ELSE IF At(s, i) = escchar THEN find_simple(s, deescape(s, i + 1).pos, term, escchar)
    ELSE find_simple(s, i + 1, term, escchar)

Closing == [c \in {"(", "[", "{", "<"} |->
              CASE c = "(" -> ")" [] c = "[" -> "]" [] c = "{" -> "}" [] c = "<" -> ">"]
Closers == {")", "]", "}", ">"}

\* The first term outside brackets from i on.  A bracket that is not closed, or
\* not opened, and an illegal "$" are errors.
RECURSIVE find(_, _, _, _)
find(s, i, term, escchar) ==
    LET c == At(s, i)
        Failed == [pos |-> i, ok |-> FALSE]
        inner == IF c = "[" THEN [pos |-> find_simple(s, i + 1, "]", escchar), ok |-> TRUE]
                 ELSE find(s, i + 1, Closing[c], escchar)
        dollar == check_dollar_str(s, i + 1)
    IN CASE c \in {NUL, term} -> [pos |-> i, ok |-> TRUE]
         [] c \in DOMAIN Closing \ {term} ->
              IF inner.ok /\ At(s, inner.pos) = Closing[c] THEN find(s, inner.pos + 1, term, escchar)
              ELSE Failed
         [] c \in Closers \ {term} -> Failed
         [] c = "$" /\ c # term ->
              IF dollar.ok THEN find(s, dollar.pos, term, escchar) ELSE Failed
         [] c = escchar /\ c # term -> find(s, deescape(s, i + 1).pos, term, escchar)
         [] OTHER -> find(s, i + 1, term, escchar)

\* TOKEN_ESCAPE in place of each escape character.
RECURSIVE Tokenised(_, _, _)
Tokenised(s, i, escchar) ==
    LET k == FirstIn(s, i, {escchar}) IN
    IF k = Len(s) THEN s
    ELSE LET t == [s EXCEPT ![k + 1] = TOKEN_ESCAPE] IN Tokenised(t, deescape(t, k + 1).pos, escchar)

\* TOKEN_OR in place of each "|" (and each "Z", character 90) outside brackets.
RECURSIVE SplitFrom(_, _)
SplitFrom(s, i) ==
    LET c == At(s, i)
        closing == IF c = "[" THEN find_simple(s, i + 1, "]", TOKEN_ESCAPE)
                   ELSE find(s, i + 1, Closing[c], TOKEN_ESCAPE).pos
    IN CASE c = NUL -> s
         [] c \in DOMAIN Closing ->
              SplitFrom(s, IF At(s, closing) = Closing[c] THEN closing + 1 ELSE closing)
         [] c \in {"|", "Z"} -> SplitFrom([s EXCEPT ![i + 1] = TOKEN_OR], i + 1)
         [] c = "$" -> SplitFrom(s, check_dollar_str(s, i + 1).pos)
         [] c = TOKEN_ESCAPE -> SplitFrom(s, deescape(s, i + 1).pos)
         [] OTHER -> SplitFrom(s, i + 1)

split(s) == IF "|" \in ToSet(s) THEN SplitFrom(s, 0) ELSE s

ParseGlob(s, escchar) ==
    LET end == find(s, 0, NUL, escchar) IN
    IF end.ok /\ end.pos >= Len(s) THEN <<TOKEN_REGEX>> \o split(Tokenised(s, 0, escchar)) ELSE <<>>

-----------------------------------------------------------------------------
(* Pieces of patterns. *)

\* The marker ":name:" at the start of a region, and the rest, split.
RECURSIVE Unescaped(_, _)
Unescaped(s, i) ==
    IF At(s, i) \in {NUL, ":"} THEN [text |-> <<>>, pos |-> i]
    ELSE LET d == deescape(s, i + 1)
             escaped == At(s, i) = TOKEN_ESCAPE
             rest == Unescaped(s, IF escaped THEN d.pos ELSE i + 1)
         IN [rest EXCEPT !.text = <<IF escaped THEN d.c ELSE At(s, i)>> \o @]

getmarker(pat) ==
    LET named == At(pat, 0) = ":" /\ FirstIn(pat, 1, {":"}) < Len(pat)
        name == Unescaped(pat, 1)
    IN IF ~named THEN [marker |-> <<>>, pat |-> split(pat)]
       ELSE [marker |-> name.text,
             pat |-> split(IF At(pat, name.pos) = ":" THEN From(pat, name.pos + 1) ELSE pat)]

CharsBetween(a, b) ==
    {c \in Character : Code[c] \in Least(Code[a], Code[b])..Greatest(Code[a], Code[b])}

Cases(c, casesens) == IF casesens THEN {c} ELSE {ToLowerChar(c), ToUpperChar(c)}

\* The end of a range is read again as a character, or a start, of its own.
RECURSIVE ClassItems(_, _, _, _, _)
ClassItems(s, i, flag, casesens, flags) ==
    LET d == deescape(s, i + 1)
        escaped == At(s, i) = TOKEN_ESCAPE
        c == IF escaped THEN d.c ELSE At(s, i)
        next == IF escaped THEN d.pos ELSE i + 1
        c1 == At(s, next + 1)
        range == At(s, next) = "-"
        chars == IF ~range THEN Cases(c, casesens)
                 ELSE IF casesens THEN CharsBetween(c, c1)
                 ELSE CharsBetween(ToLowerChar(c), ToLowerChar(c1))
                      \cup CharsBetween(ToUpperChar(c), ToUpperChar(c1))
    IN IF At(s, i) \in {NUL, "]"} THEN [flags |-> flags \ {NUL}, pos |-> i]
       ELSE ClassItems(s, IF range THEN next + 1 ELSE next, flag, casesens,
                       IF flag THEN flags \cup chars ELSE flags \ chars)

\* The characters of the class whose text starts at i, and the position behind
\* it.  classes is what the cache has from earlier matches: it has no case.
ClassRead(classes, s, i, items) ==
    LET text == Mid(s, i, items.pos + 1 - i) IN
    IF text \in DOMAIN classes THEN [flags |-> classes[text], pos |-> i + Len(text), ok |-> TRUE]
    ELSE [flags |-> items.flags, pos |-> items.pos + 1, ok |-> At(s, items.pos) = "]"]

Class(classes, s, i, casesens) ==
    LET inverse == At(s, i) = "^" IN
    ClassRead(classes, s, i, ClassItems(s, IF inverse THEN i + 1 ELSE i, ~inverse, casesens,
                                        IF inverse THEN Character ELSE {}))

\* The piece a repetition repeats ends before SubEnd.
SubEnd(s, i) ==
    LET Behind(k, closing) == IF At(s, k) = closing THEN k + 1 ELSE k IN
    CASE At(s, i) = "(" -> Behind(find(s, i + 1, ")", TOKEN_ESCAPE).pos, ")")
      [] At(s, i) = "[" -> Behind(find_simple(s, i + 1, "]", TOKEN_ESCAPE), "]")
      [] At(s, i) = "{" -> Behind(find(s, i + 1, "}", TOKEN_ESCAPE).pos, "}")
      [] At(s, i) = TOKEN_ESCAPE -> deescape(s, i + 1).pos
      [] At(s, i) = "$" -> check_dollar_str(s, i + 1).pos
      [] OTHER -> i + 1

Unlimited == 2147483647

\* A number, or "*", between blanks.  (Numbers are decimal here.)
Bound(s, i) ==
    LET start == FirstNotIn(s, i, {" ", "\t"})
        end == IF At(s, start) = "*" THEN start + 1 ELSE FirstNotIn(s, start, Numerals)
    IN [n |-> IF At(s, start) = "*" THEN Unlimited ELSE NumberOf(Mid(s, start, end - start), 10),
        given |-> end > start, pos |-> FirstNotIn(s, end, {" ", "\t"})]

\* "<n>" is n or more, "<n-m>" from n to m in either order.
LimitsOf(s, low, high) ==
    LET n1 == IF low.given THEN low.n ELSE 0
        n2 == IF high.given THEN high.n ELSE Unlimited
    IN [n1 |-> Least(n1, n2), n2 |-> Greatest(n1, n2), pos |-> high.pos + 1,
        ok |-> At(s, high.pos) = ">"]

LimitsFrom(s, low) ==
    LimitsOf(s, low, IF At(s, low.pos) \in {":", "-", ","} THEN Bound(s, low.pos + 1)
                     ELSE [n |-> 0, given |-> FALSE, pos |-> low.pos])

Limits(s, i) == LimitsFrom(s, Bound(s, i))

\* What a repetition at i says: how often, and where what it repeats starts.
Preferred(s, r) ==
    LET greedy == At(s, r.pos) = "*" IN
    [n1 |-> r.n1, n2 |-> r.n2, greedy |-> greedy, ok |-> r.ok, pos |-> IF greedy THEN r.pos + 1 ELSE r.pos]

Repetition(s, i) ==
    Preferred(s, CASE At(s, i) = "#" -> [n1 |-> 0, n2 |-> Unlimited, pos |-> i + 1, ok |-> TRUE]
                   [] At(s, i) = "@" -> [n1 |-> 1, n2 |-> Unlimited, pos |-> i + 1, ok |-> TRUE]
                   [] At(s, i) = "<" -> Limits(s, i + 1))

Counted(brackets, c) ==
    CASE c = "(" -> [brackets EXCEPT !.paren = @ + 1]
      [] c = ")" -> [brackets EXCEPT !.paren = @ - 1]
      [] c = "[" -> [brackets EXCEPT !.brackets = @ + 1]
      [] c = "]" -> [brackets EXCEPT !.brackets = @ - 1]
      [] c = "{" -> [brackets EXCEPT !.braces = @ + 1]
      [] c = "}" -> [brackets EXCEPT !.braces = @ - 1]
      [] OTHER -> brackets

Depth(brackets, c) ==
    CASE c = ")" -> brackets.paren [] c = "]" -> brackets.brackets [] c = "}" -> brackets.braces
      [] OTHER -> 0

\* The predefined class op at strpos of a text.
OfClass(str, strpos, op) ==
    LET c == At(str, strpos)
        alnum == IsAlphaChar(c) \/ IsNumeralChar(c)
    IN CASE op = "d" -> IsNumeralChar(c)
         [] op = "w" -> IsWordChar(c)
         [] op = "a" -> alnum
         [] op = "s" -> c \in {"\r", "\n", "\t", " "}
         [] op = "p" -> c \in {".", ",", ";", ":", "!", "?", "-", "~", " ", "'", "\""}
         [] op = "q" -> IsQuoteChar(c)
         [] op = "b" -> alnum /\ ~ IsWordChar(At(str, strpos - 1))
         [] op = "e" -> (alnum \/ c = "'") /\ ~ IsWordChar(At(str, strpos + 1))
         [] OTHER -> FALSE

-----------------------------------------------------------------------------
(***************************************************************************)
(* Matching.  m is what a match keeps throughout: the text (str), the case *)
(* (casesens), whether it has a list of regions (regions) and the classes  *)
(* in the cache (classes).  st is where it stands: the regions so far      *)
(* (regs), the brackets gone through (brackets) and the depth of the       *)
(* recursion (level).  A result is an outcome and the regions; an error    *)
(* ends every loop.                                                        *)
(***************************************************************************)

Won(regs) == [is |-> "match", regs |-> regs]
Lost(outcome) == [is |-> outcome, regs |-> <<>>]
Else(r, other) == IF r.is = "fail" THEN other ELSE r

\* The address of the k-th region, which its closing brace is followed by.
Addresses == <<"@1", "@2", "@3", "@4", "@5", "@6", "@7", "@8", "@9">>

\* The text's character at strpos counts among the brackets.
Passed(m, strpos, st) == [st EXCEPT !.brackets = Counted(@, At(m.str, strpos))]

SameChar(m, c, c1) == c # NUL /\ (c = c1 \/ (~m.casesens /\ ToLowerChar(c) = ToLowerChar(c1)))

\* The alternatives of a pattern: what the TOKEN_OR separate.
RECURSIVE Alternatives(_)
Alternatives(pat) ==
    LET k == FirstIn(pat, 0, {TOKEN_OR}) IN
    IF k = Len(pat) THEN <<pat>> ELSE <<Mid(pat, 0, k)>> \o Alternatives(From(pat, k + 1))

RECURSIVE match(_, _, _, _, _), FirstOf(_, _, _, _, _), AnyOf(_, _, _, _)

\* The first of some starts in pat from which it matches.
FirstOf(m, pat, starts, strpos, st) ==
    IF starts = <<>> THEN Lost("fail")
    ELSE Else(match(m, pat, strpos, Head(starts), st), FirstOf(m, pat, Tail(starts), strpos, st))

\* The patterns in turn: the first that matches decides, an exclusion against
\* the match.
Decided(r, exclude) == IF r.is = "match" /\ exclude THEN Lost("excluded") ELSE r

AnyOf(m, pats, strpos, st) ==
    IF pats = <<>> THEN Lost("fail")
    ELSE LET exclude == At(Head(pats), 0) = "~" IN
         Else(Decided(match(m, Head(pats), strpos, IF exclude THEN 1 ELSE 0, st), exclude),
              AnyOf(m, Tail(pats), strpos, st))

\* The alternatives of pat, each with what follows them all.  If all of them are
\* exclusions and none applies, that is a match, whatever follows.
OrOutcome(r, allexclude, st) ==
    IF r.is = "excluded" THEN Lost("fail")
    ELSE Else(r, IF allexclude THEN Won(st.regs) ELSE r)

match_or(m, pat, follow, strpos, st) ==
    LET pats == [k \in DOMAIN Alternatives(pat) |-> Alternatives(pat)[k] \o follow] IN
    OrOutcome(AnyOf(m, pats, strpos, st),
              pat # <<>> /\ \A k \in DOMAIN pats : At(pats[k], 0) = "~", st)

\* "?" is any character, "*" any number of them, as few as will do.
match_any(m, pat, strpos, patpos, st) ==
    IF At(m.str, strpos) = NUL THEN Lost("fail")
    ELSE match(m, pat, strpos + 1, patpos + 1, Passed(m, strpos, st))

match_all(m, pat, strpos, patpos, st) ==
    Else(match(m, pat, strpos, patpos + 1, st),
         IF At(m.str, strpos) = NUL THEN Lost("fail")
         ELSE match(m, pat, strpos + 1, patpos, Passed(m, strpos, st)))

\* Mutant: a piece may be repeated once too often.
LimitPlus(n2, n1, left) == IF n2 = Unlimited THEN Greatest(n1, left) ELSE n2 + 1

\* No more repetitions than there are characters left.
LimitTo(n2, n1, left) == IF n2 = Unlimited THEN Greatest(n1, left) ELSE n2

\* A piece repeated n1 to n2 times: n2 copies of it and the rest make a pattern,
\* to be started at a copy, from the fewest or (greedily) from the most.
Repeat(m, strpos, st, r, piece, rest, n1, n2) ==
    LET pat2 == Copies(piece, n2) \o rest
        starts == [k \in 1..(n2 - n1 + 1) |->
                     Len(piece) * (IF r.greedy THEN k - 1 ELSE n2 - n1 + 1 - k)]
    IN FirstOf(m, pat2, starts, strpos, st)

RepeatLimited(m, pat, strpos, st, r, end, n1) ==
    Repeat(m, strpos, st, r, Mid(pat, r.pos, end - r.pos), From(pat, end), n1,
           LimitTo(r.n2, n1, Len(m.str) - strpos))

RepeatFound(m, pat, strpos, st, r) ==
    IF r.ok THEN RepeatLimited(m, pat, strpos, st, r, SubEnd(pat, r.pos), LimitTo(r.n1, 0, Len(m.str) - strpos))
    ELSE Lost("error")

match_repeat(m, pat, strpos, patpos, st) == RepeatFound(m, pat, strpos, st, Repetition(pat, patpos))

\* "&opening:centre:closing:" is n openings, a centre and n closings.
RECURSIVE Nested(_, _, _, _, _)
Nested(m, pats, n, strpos, st) ==
    IF n > Len(pats) THEN Lost("fail")
    ELSE Else(match(m, pats[n], strpos, 0, st), Nested(m, pats, n + 1, strpos, st))

EndedBy(pat, end) == end.ok /\ At(pat, end.pos) = ":"

\* one, two, three: the ends of the parts that start at start.
NestedIn(m, pat, strpos, st, greedy, start, one, two, three) ==
    LET n == (Len(m.str) - strpos + 1) \div 2
        Pattern(k) == Copies(Mid(pat, start, one.pos - start), k)
                        \o Mid(pat, one.pos + 1, two.pos - one.pos - 1)
                        \o Copies(Mid(pat, two.pos + 1, three.pos - two.pos - 1), k)
                        \o From(pat, three.pos + 1)
    IN IF EndedBy(pat, one) /\ EndedBy(pat, two) /\ EndedBy(pat, three)
       THEN Nested(m, [k \in 1..n |-> Pattern(IF greedy THEN n + 1 - k ELSE k)], 1, strpos, st)
       ELSE Lost("error")

match_nested(m, pat, strpos, patpos, st) ==
    LET greedy == At(pat, patpos + 1) = "*"
        start == IF greedy THEN patpos + 2 ELSE patpos + 1
        one == find(pat, start, ":", TOKEN_ESCAPE)
        two == find(pat, one.pos + 1, ":", TOKEN_ESCAPE)
        three == find(pat, two.pos + 1, ":", TOKEN_ESCAPE)
    IN NestedIn(m, pat, strpos, st, greedy, start, one, two, three)

ClassMatched(m, pat, strpos, st, class) ==
    IF ~class.ok THEN Lost("error")
    ELSE IF At(m.str, strpos) \notin class.flags THEN Lost("fail")
    ELSE match(m, pat, strpos + 1, class.pos, st)

match_class(m, pat, strpos, patpos, st) ==
    ClassMatched(m, pat, strpos, st, Class(m.classes, pat, patpos + 1, m.casesens))

RegionIn(m, inner, follow, strpos, st) ==
    LET region == [marker |-> inner.marker, pos |-> strpos, len |-> 0] IN
    match_or(m, inner.pat, follow, strpos, IF m.regions THEN [st EXCEPT !.regs = Append(@, region)] ELSE st)

\* A region is opened here and closed by the "}" put behind its contents.
match_region(m, pat, strpos, patpos, st) ==
    LET end == find(pat, patpos + 1, "}", TOKEN_ESCAPE)
        close == IF m.regions THEN <<"}", Addresses[Len(st.regs) + 1], ":">> ELSE <<"}", ":">>
    IN IF ~end.ok \/ At(pat, end.pos) # "}" THEN Lost("error")
       ELSE RegionIn(m, getmarker(Mid(pat, patpos + 1, end.pos - patpos - 1)),
                     close \o From(pat, end.pos + 1), strpos, st)

match_group(m, pat, strpos, patpos, st) ==
    LET end == find(pat, patpos + 1, ")", TOKEN_ESCAPE)
        rest == IF At(pat, end.pos) = ")" THEN end.pos + 1 ELSE end.pos
    IN IF ~end.ok THEN Lost("error")
       ELSE match_or(m, split(Mid(pat, patpos + 1, end.pos - patpos - 1)), From(pat, rest), strpos, st)

\* The end of a region; with a list of regions a ":" of the pattern itself that
\* comes next is stepped over too.
match_close(m, pat, strpos, patpos, st) ==
    LET real == At(pat, patpos + 1) # ":"
        k == CHOOSE j \in DOMAIN Addresses : Addresses[j] = At(pat, patpos + 1)
        next == IF real THEN FirstIn(pat, patpos + 1, {":"}) + 1 ELSE patpos + 1
        rest == IF At(pat, next) = ":" THEN next + 1 ELSE next
    IN match(m, pat, strpos, rest,
             IF real THEN [st EXCEPT !.regs[k].len = strpos - st.regs[k].pos] ELSE st)

\* "$r" starts counting a bracket, "$c" wants one at a depth, "$<" and "$>" are
\* the ends, "$*" is satisfied with what there is, and the others are classes.
match_reset(m, pat, strpos, patpos, st) ==
    LET c == At(pat, patpos + 2)
        b == st.brackets
        reset == CASE c = ")" -> [b EXCEPT !.paren = 0]
                   [] c = "]" -> [b EXCEPT !.brackets = 0]
                   [] c = "}" -> [b EXCEPT !.braces = 0]
                   [] OTHER -> b
    IN match(m, pat, strpos, IF c \in {")", "]", "}"} THEN patpos + 3 ELSE patpos + 2,
             [st EXCEPT !.brackets = reset])

match_count(m, pat, strpos, patpos, st) ==
    LET neg == IsNegativeChar(At(pat, patpos + 2))
        start == IF neg THEN patpos + 3 ELSE patpos + 2
        end == FirstNotIn(pat, start, Numerals)
        number == NumberOf(Mid(pat, start, end - start), 10)
        passed == Passed(m, strpos, st)
    IN IF At(m.str, strpos) = At(pat, end)
          /\ Depth(passed.brackets, At(pat, end)) = (IF neg THEN -number ELSE number)
       THEN match(m, pat, strpos + 1, end + 1, passed) ELSE Lost("fail")

match_predefined(m, pat, strpos, patpos, st) ==
    LET invert == At(pat, patpos + 1) = "^"
        modifier == IF invert THEN patpos + 2 ELSE patpos + 1
        just == At(pat, modifier)
        op == IF just \in {"u", "l"} THEN modifier + 1 ELSE modifier
        c == At(m.str, strpos)
        matched == /\ OfClass(m.str, strpos, At(pat, op))
                   /\ just = "u" => ~ IsLowerChar(c)
                   /\ just = "l" => ~ IsUpperChar(c)
    IN IF c # NUL /\ matched # invert THEN match(m, pat, strpos + 1, op + 1, Passed(m, strpos, st))
       ELSE Lost("fail")

match_dollar(m, pat, strpos, patpos, st) ==
    LET c == At(pat, patpos + 1) IN
    CASE c = "r" -> match_reset(m, pat, strpos, patpos, st)
      [] c = "c" -> match_count(m, pat, strpos, patpos, st)
      [] c = "<" -> IF strpos = 0 THEN match(m, pat, strpos, patpos + 2, st) ELSE Lost("fail")
      [] c = ">" -> IF At(m.str, strpos) = NUL THEN match(m, pat, strpos, patpos + 2, st)
                    ELSE Lost("fail")
      [] c = "*" -> Won(st.regs)
      [] OTHER -> match_predefined(m, pat, strpos, patpos, st)

\* A character that stands for itself, escaped or not.
match_char(m, pat, strpos, patpos, st) ==
    LET escaped == At(pat, patpos) = TOKEN_ESCAPE
        d == IF escaped THEN deescape(pat, patpos + 1) ELSE [c |-> At(pat, patpos), pos |-> patpos + 1]
    IN IF SameChar(m, At(m.str, strpos), d.c) THEN match(m, pat, strpos + 1, d.pos, Passed(m, strpos, st))
       ELSE Lost("fail")

match(m, pat, strpos, patpos, st) ==
    LET c == At(pat, patpos)
        in == [st EXCEPT !.level = @ + 1]
    IN CASE st.level >= RecursionLimit -> Lost("fail")
         [] st.level < RecursionLimit /\ c = NUL ->
              IF At(m.str, strpos) = NUL THEN Won(st.regs) ELSE Lost("fail")
         [] OTHER ->
              CASE c = "?" -> match_any(m, pat, strpos, patpos, in)
                [] c = "*" -> match_all(m, pat, strpos, patpos, in)
                [] c \in {"#", "@", "<"} -> match_repeat(m, pat, strpos, patpos, in)
                [] c = "&" -> match_nested(m, pat, strpos, patpos, in)
                [] c = "[" -> match_class(m, pat, strpos, patpos, in)
                [] c = "{" -> match_region(m, pat, strpos, patpos, in)
                [] c = "(" -> match_group(m, pat, strpos, patpos, in)
                [] c = "}" -> match_close(m, pat, strpos, patpos, in)
                [] c = "$" -> match_dollar(m, pat, strpos, patpos, in)
                [] OTHER -> match_char(m, pat, strpos, patpos, in)

-----------------------------------------------------------------------------
IsGlobPattern(pat) == At(pat, 0) = TOKEN_REGEX
IsExclusionPattern(pat) == IsGlobPattern(pat) /\ At(pat, 1) = "~"
IsGlobAnyPattern(pat) == pat \in {<<TOKEN_REGEX, "#", "?">>, <<TOKEN_REGEX, "*">>, <<"#", "?">>, <<"*">>}

matchex(m, pat) ==
    match_or(m, IF IsGlobPattern(pat) THEN Tail(pat) ELSE pat, <<>>, 0,
             [regs |-> <<>>, brackets |-> [paren |-> 0, brackets |-> 0, braces |-> 0], level |-> 0])

\* MatchGlob() without a list of regions and with one: whether the text matches,
\* and the regions.  A pattern that matches anything has none.
MatchParsed(m, pat) ==
    IF pat = <<>> THEN Lost("fail") ELSE IF IsGlobAnyPattern(pat) THEN Won(<<>>) ELSE matchex(m, pat)

MatchGlob(m, pat, escchar) == MatchParsed(m, IF IsGlobPattern(pat) THEN pat ELSE ParseGlob(pat, escchar))

-----------------------------------------------------------------------------
(* ExpandGlobRegions(): a text with references to regions. *)

\* What is asked of a region: its marker, its text, both or (dflt) as usual.
Wanted(how, marker, text, dflt) ==
    CASE how = "m" -> marker [] how = "t" -> text [] how = "b" -> marker \o text [] OTHER -> dflt

\* The reference at i, by number or by marker, and the position behind it.  One
\* to a region that does not exist is nothing.
ReferredTo(str, expandstr, regs, k, how, dflt) ==
    LET marker == IF k = 0 THEN <<>> ELSE regs[k].marker
        text == IF k = 0 THEN str ELSE Mid(str, regs[k].pos, regs[k].len)
        end == IF At(expandstr, how) \in {"m", "t", "b"} THEN how + 1 ELSE how
    IN [text |-> IF k > Len(regs) THEN <<>>
                 ELSE Wanted(At(expandstr, how), marker, text, IF dflt = "b" THEN marker \o text ELSE text),
        pos |-> IF At(expandstr, end) = ":" THEN end + 1 ELSE end]

RegionNumbered(str, expandstr, i, regs, digits) ==
    ReferredTo(str, expandstr, regs, NumberOf(Mid(expandstr, i, digits - i), 10), digits, "b")

RegionNamed(str, expandstr, regs, name) ==
    LET named == {k \in DOMAIN regs : regs[k].marker = name.text} IN
    ReferredTo(str, expandstr, regs, IF named = {} THEN Len(regs) + 1 ELSE Min(named),
               IF At(expandstr, name.pos) = ":" THEN name.pos + 1 ELSE name.pos, "t")

GetGlobRegion(str, expandstr, i, regs) ==
    IF IsNumeralChar(At(expandstr, i))
    THEN RegionNumbered(str, expandstr, i, regs, FirstNotIn(expandstr, i, Numerals))
    ELSE RegionNamed(str, expandstr, regs,
                     Unescaped([k \in DOMAIN expandstr |->
                                  IF expandstr[k] = "\\" THEN TOKEN_ESCAPE ELSE expandstr[k]], i + 1))

RECURSIVE ExpandFrom(_, _, _, _, _)
Piece(str, expandstr, i, regs, expandchar) ==
    LET c == At(expandstr, i)
        c1 == At(expandstr, i + 1)
        Escape(d) == [text |-> <<d.c>>, pos |-> d.pos]
    IN CASE c = expandchar /\ (IsNumeralChar(c1) \/ c1 = "m") -> GetGlobRegion(str, expandstr, i + 1, regs)
         [] c = "\\" /\ ~(c = expandchar /\ (IsNumeralChar(c1) \/ c1 = "m")) -> Escape(deescape(expandstr, i + 1))
         [] c = expandchar /\ c # "\\" /\ ~(IsNumeralChar(c1) \/ c1 = "m") -> [text |-> <<c1>>, pos |-> i + 2]
         [] OTHER -> [text |-> <<c>>, pos |-> i + 1]

Expanded(str, expandstr, piece, regs, expandchar) ==
    piece.text \o ExpandFrom(str, expandstr, piece.pos, regs, expandchar)

ExpandFrom(str, expandstr, i, regs, expandchar) ==
    IF At(expandstr, i) = NUL THEN <<>>
    ELSE Expanded(str, expandstr, Piece(str, expandstr, i, regs, expandchar), regs, expandchar)

ExpandGlobRegions(str, expandstr, regs, expandchar) == ExpandFrom(str, expandstr, 0, regs, expandchar)

-----------------------------------------------------------------------------
(* ParseRegexReplacement(): "/expression/replacement/", with any separator. *)

\* One character: mode says whether it is the separator's, escaped or plain.
ReplacementStep(acc, c) ==
    CASE acc.sep = NUL -> [acc EXCEPT !.sep = c]
      [] acc.sep # NUL /\ acc.escaped ->
           [acc EXCEPT !.escaped = FALSE,
                       !.text = Append(@, CASE c = "n" -> "\n" [] c = "r" -> "\r" [] c = "t" -> "\t"
                                            [] OTHER -> c)]
      [] acc.sep # NUL /\ ~acc.escaped /\ Len(acc.parts) < 2 ->
           CASE c = "\\" -> [acc EXCEPT !.escaped = TRUE]
             [] c = acc.sep /\ c # "\\" -> [acc EXCEPT !.parts = Append(@, acc.text), !.text = <<>>]
             [] OTHER -> [acc EXCEPT !.text = Append(@, c)]
      [] OTHER -> acc

ParseRegexReplacement(str) ==
    FoldLeft(ReplacementStep, [sep |-> NUL, escaped |-> FALSE, parts |-> <<>>, text |-> <<>>], str).parts
=============================================================================
