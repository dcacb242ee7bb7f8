----------------------------- MODULE PatternLanguage -----------------------------
(***************************************************************************)
(* What the patterns of Glob promise: a pattern is a way of writing a set  *)
(* of texts.  A pattern is a record of the text it is written as (w) and   *)
(* of the texts it stands for (is), as far as those are in Texts.          *)
(***************************************************************************)
EXTENDS Sequences, Integers, FiniteSets

CONSTANTS Letters,  \* the characters of the texts
          MaxText   \* bound: their length

Texts == UNION {[1..k -> Letters] : k \in 0..MaxText}

Single(c) == {t \in Texts : Len(t) = 1 /\ t[1] \in c}

Pattern(w, is) == [w |-> w, is |-> is]

\* A letter in a pattern stands for its cases in a text, unless the case matters.
Fold(c, casesens) == IF casesens THEN {c} ELSE IF c \in {"a", "A"} THEN {"a", "A"} ELSE {c}

Letter(c, casesens) == Pattern(<<c>>, Single(Fold(c, casesens)))
Escaped(c, casesens) == Pattern(<<"\\", c>>, Single(Fold(c, casesens)))
AnyChar == Pattern(<<"?">>, Single(Letters))
AnyText == Pattern(<<"*">>, Texts)
OneOf(c, casesens) == Pattern(<<"[", c, "]">>, Single(Fold(c, casesens)))
NoneOf(c, casesens) == Pattern(<<"[", "^", c, "]">>, Single(Letters \ Fold(c, casesens)))
Upper == Pattern(<<"$", "u", "a">>, Single(Letters \cap {"A"}))

Joined(p, q) == {t \in Texts : \E k \in 0..Len(t) : SubSeq(t, 1, k) \in p /\ SubSeq(t, k + 1, Len(t)) \in q}

Then(p, q) == Pattern(p.w \o q.w, Joined(p.is, q.is))
Either(p, q) == Pattern(<<"(">> \o p.w \o <<"|">> \o q.w \o <<")">>, p.is \cup q.is)
Group(p) == Pattern(<<"(">> \o p.w \o <<")">>, p.is)
Region(p) == Pattern(<<"{">> \o p.w \o <<"}">>, p.is)

\* n times the texts of p.
Power(p, n) == LET power[k \in 0..n] == IF k = 0 THEN {<<>>} ELSE Joined(p, power[k - 1]) IN power[n]

\* n to m times; more than MaxText + 1 makes no difference.
Repeated(p, n, m) == UNION {Power(p, k) : k \in n..m}

Repetitions == {
    [w |-> <<"#">>, n |-> 0, m |-> MaxText], [w |-> <<"@", "*">>, n |-> 1, m |-> MaxText],
    [w |-> <<"<", "2", ">">>, n |-> 2, m |-> MaxText + 1], [w |-> <<"<", "2", ",", "1", ">", "*">>, n |-> 1, m |-> 2],
    [w |-> <<"<", " ", "0", "-", "1", ">">>, n |-> 0, m |-> 1], [w |-> <<"<", "*", ":", "1", ">">>, n |-> 1, m |-> MaxText]}

Repeat(r, p) == Pattern(r.w \o p.w, Repeated(p.is, r.n, r.m))

\* Exclusions: a text of p is not one of the pattern, others are if q has them.
Unless(p, q) == Pattern(<<"~">> \o p.w \o <<"|">> \o q.w, q.is \ p.is)
Neither(p, q) == Pattern(<<"~">> \o p.w \o <<"|", "~">> \o q.w, Texts \ (p.is \cup q.is))

Nest(p, q, r) ==
    Pattern(<<"&">> \o p.w \o <<":">> \o q.w \o <<":">> \o r.w \o <<":">>,
            UNION {Joined(Power(p.is, k), Joined(q.is, Power(r.is, k))) : k \in 1..MaxText})
=============================================================================
