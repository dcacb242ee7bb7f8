-------------------------------- MODULE SimpleEval --------------------------------
(***************************************************************************)
(* AValue (src/src/EvalNumber.cpp), a number that knows its type, and      *)
(* Evaluate() of src/src/simpleeval.cpp: expressions with variables and    *)
(* functions.  Operators are applied from left to right, all alike.        *)
(*                                                                         *)
(* All integers are kept in a word of Width bits (64 in the code), as u,   *)
(* the number read without a sign; uint64_t is unsigned long.  A           *)
(* floating-point value is a fraction, and exact: there are no rounding,   *)
(* no infinities and no negative zero.                                     *)
(***************************************************************************)
EXTENDS Strings, Bitwise

\* Bits: the widths of the integer types.  DoubleOf: the number that the bits of
\* a word are as a double.
CONSTANTS Width, Bits, DoubleOf(_)

Word == 2^Width

Fraction(num, den) == IF den < 0 THEN [num |-> -num, den |-> -den] ELSE [num |-> num, den |-> den]
Whole(n) == Fraction(n, 1)
Truncated(f) == Quotient(f.num, f.den)
TimesPower(f, base, n) == IF n < 0 THEN Fraction(f.num, f.den * base^(-n)) ELSE Fraction(f.num * base^n, f.den)
Over(f, g) == Fraction(f.num * g.den, f.den * g.num)
Below(f, g) == f.num * g.den < g.num * f.den
SameNumber(f, g) == f.num * g.den = g.num * f.den

\* A type is a kind and the name of a width.
Type(kind, bits) == [kind |-> kind, bits |-> bits]
Types == [kind : {"signed", "unsigned"}, bits : DOMAIN Bits]
           \cup {Type("pointer", "long"), Type("float", "float"), Type("float", "double")}

\* u is for integers, f for floating-point values.
Value(kind, n) == [type |-> Type(kind, "long"), u |-> n % Word, f |-> Whole(0)]
Double(f) == [type |-> Type("float", "double"), u |-> 0, f |-> f]
Invalid == [type |-> Type("invalid", "none"), u |-> 0, f |-> Whole(0)]

IsValid(v) == v.type.kind # "invalid"
IsInteger(v) == v.type.kind \in {"signed", "unsigned", "pointer"}
IsPointer(v) == v.type.kind = "pointer"
IsSigned(v) == v.type.kind = "signed"
IsFloat(v) == v.type.kind = "float"
IsZero(v) == IF IsFloat(v) THEN v.f.num = 0 ELSE v.u = 0

\* The three readings: as words without and with a sign, and as a number.  (A
\* fraction has to fit.)  Integers of any type become numbers with a sign.
Unsigned(v) == IF IsFloat(v) THEN Truncated(v.f) % Word ELSE v.u
Signed(v) == IF Unsigned(v) >= 2^(Width - 1) THEN Unsigned(v) - Word ELSE Unsigned(v)
Real(v) == IF IsFloat(v) THEN v.f ELSE Whole(Signed(v))

Truth(b) == [Value("unsigned", IF b THEN 1 ELSE 0) EXCEPT !.type.bits = "int8"]
TruthInt(b) == [Value("signed", IF b THEN 1 ELSE 0) EXCEPT !.type.bits = "int"]

\* A number of a type is widened into the word, with its sign if it has one.
Widened(raw, type) ==
    LET span == 2^Bits[type.bits] IN
    IF type.kind = "signed" /\ raw >= span \div 2 THEN raw - span ELSE raw

Assign(raw, type) ==
    CASE type.kind = "float" -> [Double(raw) EXCEPT !.type = type]
      [] type.kind = "pointer" -> Value("pointer", raw)
      [] OTHER -> [Value(type.kind, Widened(raw, type)) EXCEPT !.type = type]

\* raw: what stands at the address as the type has it, but the address itself for
\* a pointer.  A type that is none leaves the value as it was.
Set(v, raw, type) ==
    IF type \in Types THEN [success |-> TRUE, val |-> Assign(raw, type)] ELSE [success |-> FALSE, val |-> v]

\* A value cut down to a type; a pointer is made of integers only.
Get(v, type) ==
    [success |-> IsValid(v) /\ type \in Types,
     raw |-> CASE type.kind \in {"signed", "unsigned"} -> Unsigned(v) % 2^Bits[type.bits]
               [] type.kind = "pointer" -> v.u
               [] OTHER -> Real(v)]

\* The kind a result of two values has.
Joint(a, b) ==
    IF IsPointer(a) \/ IsPointer(b) THEN "pointer"
    ELSE IF IsFloat(a) \/ IsFloat(b) THEN "float"
    ELSE IF IsSigned(a) \/ IsSigned(b) THEN "signed"
    ELSE IF IsInteger(a) \/ IsInteger(b) THEN "unsigned"
    ELSE "invalid"

\* n: the result for integers, f: the one for numbers.
Joined(kind, n, f) ==
    CASE kind = "invalid" -> Invalid [] kind = "float" -> Double(f) [] OTHER -> Value(kind, n)

Plus(a, b) ==
    LET f == Real(a)  g == Real(b) IN
    Joined(Joint(a, b), Unsigned(a) + Unsigned(b), Fraction(f.num * g.den + g.num * f.den, f.den * g.den))
Minus(a, b) ==
    LET f == Real(a)  g == Real(b) IN
    Joined(Joint(a, b), Unsigned(a) - Unsigned(b), Fraction(f.num * g.den - g.num * f.den, f.den * g.den))
Times(a, b) ==
    LET f == Real(a)  g == Real(b) IN
    Joined(Joint(a, b), Unsigned(a) * Unsigned(b), Fraction(f.num * g.num, f.den * g.den))

\* Mutant: quotients of signed values as if they had no sign.
DivideAlike(a, b) == Joined(Joint(a, b), Unsigned(a) \div Unsigned(b), Over(Real(a), Real(b)))

\* b is not 0, and the quotient fits.
Divide(a, b) ==
    Joined(Joint(a, b),
           IF Joint(a, b) = "signed" THEN Quotient(Signed(a), Signed(b)) ELSE Unsigned(a) \div Unsigned(b),
           Over(Real(a), Real(b)))

\* fmod(): what is left has the sign of f.
Remainder(f, g) ==
    Fraction(f.num * g.den - Truncated(Over(f, g)) * g.num * f.den, f.den * g.den)
Modulo(a, b) ==
    Joined(Joint(a, b),
           IF Joint(a, b) = "signed" THEN Signed(a) - Quotient(Signed(a), Signed(b)) * Signed(b)
           ELSE Unsigned(a) % Unsigned(b),
           Remainder(Real(a), Real(b)))

BitXor(a, b) == Value("unsigned", Unsigned(a) ^^ Unsigned(b))
BitAnd(a, b) == Value("unsigned", Unsigned(a) & Unsigned(b))
BitOr(a, b) == Value("unsigned", Unsigned(a) | Unsigned(b))
BothTrue(a, b) == TruthInt(Unsigned(a) # 0 /\ Unsigned(b) # 0)
EitherTrue(a, b) == TruthInt(Unsigned(a) # 0 \/ Unsigned(b) # 0)

\* To shift and to compare, pointers are numbers, and one sign is enough.
SharedKind(a, b) ==
    IF IsFloat(a) \/ IsFloat(b) THEN "float" ELSE IF IsSigned(a) \/ IsSigned(b) THEN "signed" ELSE "unsigned"

\* Integers by less than Width, and numbers by a whole number; a signed value is
\* filled up with its sign.
ShiftLeft(a, b) ==
    Joined(SharedKind(a, b), Unsigned(a) * 2^Unsigned(b), TimesPower(Real(a), 2, Truncated(Real(b))))
ShiftRight(a, b) ==
    Joined(SharedKind(a, b),
           (IF SharedKind(a, b) = "signed" THEN Signed(a) ELSE Unsigned(a)) \div 2^Unsigned(b),
           TimesPower(Real(a), 2, -Truncated(Real(b))))

Reading(v, kind) ==
    CASE kind = "float" -> Real(v) [] kind = "signed" -> Whole(Signed(v)) [] OTHER -> Whole(Unsigned(v))
Equal(a, b) == SameNumber(Reading(a, SharedKind(a, b)), Reading(b, SharedKind(a, b)))
Less(a, b) == Below(Reading(a, SharedKind(a, b)), Reading(b, SharedKind(a, b)))

Negated(v) ==
    CASE ~IsValid(v) -> v
      [] IsFloat(v) -> Double(Fraction(-v.f.num, v.f.den))
      [] IsInteger(v) -> Value("signed", -v.u)
Inverted(v) ==
    CASE ~IsValid(v) -> v
      [] IsFloat(v) -> Double(Whole(Word - 1 - Unsigned(v)))
      [] IsInteger(v) -> Value("unsigned", Word - 1 - v.u)
\* Of a fraction, what is behind the point does not count.
NotTrue(v) ==
    CASE ~IsValid(v) -> v
      [] IsFloat(v) -> Double(Whole(IF Unsigned(v) = 0 THEN 1 ELSE 0))
      [] IsInteger(v) -> Truth(v.u = 0)

-----------------------------------------------------------------------------
(* Numbers in texts *)

Modifiers == {"+", "-", "/", "~", "!"}

\* Unlike the operators, these make integers of fractions, and know 0.5 from 0.
ApplyModifier(v, modifier) ==
    CASE ~IsValid(v) \/ modifier = "+" -> v
      [] IsValid(v) /\ modifier = "-" -> Negated(v)
      [] IsValid(v) /\ modifier = "~" -> [Value("unsigned", Word - 1 - Unsigned(v)) EXCEPT !.type.bits = "llong"]
      [] IsValid(v) /\ modifier = "!" -> Truth(IsZero(v))
      [] IsValid(v) /\ modifier = "/" -> IF IsZero(v) THEN Invalid ELSE Double(Over(Whole(1), Real(v)))
      [] OTHER -> Invalid

\* From the last to the first, as long as there is a value.
ApplyModifiers(v, modifiers) == FoldRight(LAMBDA m, w : ApplyModifier(w, m), modifiers, v)

\* stops: characters that end a number (or its modifiers) wherever they stand.
FindEndOfModifiers(s, p, stops) == FirstNotIn(s, p, Modifiers \ stops)

IsPair(s, p, letters) == At(s, p) = "0" /\ At(s, p + 1) \in letters
IsHexString(s, p) == IsPair(s, p, {"x", "X"})
IsOctString(s, p) == IsPair(s, p, {"o", "O"})
IsBinString(s, p) == IsPair(s, p, {"b", "B"})

\* The radix, and how long the mark of it is.
RadixAt(s, p) ==
    CASE At(s, p) = "$" -> [radix |-> 16, len |-> 1]
      [] At(s, p) = "@" -> [radix |-> 8, len |-> 1]
      [] IsHexString(s, p) -> [radix |-> 16, len |-> 2]
      [] IsOctString(s, p) -> [radix |-> 8, len |-> 2]
      [] IsBinString(s, p) -> [radix |-> 2, len |-> 2]
      [] OTHER -> [radix |-> 10, len |-> 0]

IsNumberString(s, at, allowModifiers) ==
    LET p == IF allowModifiers THEN FindEndOfModifiers(s, at, {}) ELSE at
        r == RadixAt(s, p)
    IN \/ IsNumeralChar(At(s, p))
       \/ At(s, p) = "." /\ IsNumeralChar(At(s, p + 1))
       \/ At(s, p) = "#" /\ At(s, p + 1) \in HexDigits
       \/ r.len > 0 /\ At(s, p + r.len) \in DigitsOf(r.radix)

\* An exponent follows, and the number is not an integer.
Signs == {"+", "-"}
BehindSign(s, p) == IF At(s, p) \in Signs THEN p + 1 ELSE p
ExponentAt(s, p, stops) ==
    LET q == BehindSign(s, p + 1) IN
    /\ At(s, p) \in {"e", "E", "p", "P"} \ stops
    /\ At(s, q) \in Numerals \cup {"$"} \/ IsHexString(s, q)

\* The digits at p, and the position behind them.
DigitsAt(s, p, radix, stops) ==
    LET end == FirstNotIn(s, p, DigitsOf(radix) \ stops) IN
    [n |-> NumberOf(Mid(s, p, end - p), radix), pos |-> end, count |-> end - p]

\* The exponent is written in a radix of its own, and is one of the radix of the
\* number.
Scaled(s, f, p, radix, stops) ==
    IF ~ExponentAt(s, p, stops) THEN [val |-> Double(f), pos |-> p]
    ELSE LET q == BehindSign(s, p + 1)
             r == RadixAt(s, q)
             expo == DigitsAt(s, q + r.len, r.radix, stops)
         IN [val |-> Double(TimesPower(f, radix, IF At(s, p + 1) = "-" THEN -expo.n ELSE expo.n)), pos |-> expo.pos]

\* The digits from p on have one point or none.
FractionAt(s, p, radix, stops) ==
    LET whole == DigitsAt(s, p, radix, stops)
        part == DigitsAt(s, whole.pos + 1, radix, stops)
    IN IF At(s, whole.pos) \notin {"."} \ stops THEN Scaled(s, Whole(whole.n), whole.pos, radix, stops)
       ELSE Scaled(s, Fraction(whole.n * radix^part.count + part.n, radix^part.count), part.pos, radix, stops)

\* A double by its bits, an integer or a fraction.
NumberAt(s, p, stops) ==
    LET r == RadixAt(s, p)
        bits == DigitsAt(s, p + 1, 16, stops)
        integer == DigitsAt(s, p + r.len, r.radix, stops)
    IN IF At(s, p) = "#" THEN [val |-> Double(DoubleOf(bits.n % Word)), pos |-> bits.pos]
       ELSE IF At(s, integer.pos) \in {"."} \ stops \/ ExponentAt(s, integer.pos, stops)
       THEN FractionAt(s, p + r.len, r.radix, stops)
       ELSE [val |-> Value("unsigned", integer.n), pos |-> integer.pos]

Modify(number, modifiers) == [number EXCEPT !.val = ApplyModifiers(@, modifiers)]

\* The value of the number at p and the position behind it; at if there is none.
EvalNumber(s, at, allowModifiers, stops) ==
    LET p == IF allowModifiers THEN FindEndOfModifiers(s, at, stops) ELSE at IN
    IF At(s, p) \in Numerals \cup {"$", "@", "#", "."} THEN Modify(NumberAt(s, p, stops), Mid(s, at, p - at))
    ELSE [val |-> Invalid, pos |-> at]

-----------------------------------------------------------------------------
(* ToString(): the printf() format a value is written in.  Its own format is  *)
(* shorter than 15 characters, and longs have 64 bits.                      *)

\* A conversion that does not fit the type is replaced by its own.
Conversion(v, c) ==
    IF ToLowerChar(c) \in (IF IsInteger(v) THEN {"u", "d", "x", "z", "p"} ELSE {"f", "e", "g"}) THEN c
    ELSE CASE IsSigned(v) -> "d" [] IsPointer(v) -> "x" [] IsFloat(v) -> "f" [] OTHER -> "u"

LengthModifier(v) == IF v.type.bits = "llong" THEN <<"l", "l">> ELSE <<"l">>

FormatOf(v, format) ==
    LET field == <<"%">> \o format
        given == IsAlphaChar(LastChar(field)) /\ LastChar(field) # "l"
        kept == IF given THEN Left(field, Len(field) - 1) ELSE field
    IN IF ~IsValid(v) THEN <<>>
       ELSE (IF IsPointer(v) /\ kept = <<"%">> THEN <<"0", "x", "%", "0", "1", "6">> ELSE kept)
              \o LengthModifier(v) \o <<Conversion(v, IF given THEN LastChar(field) ELSE NUL)>>

-----------------------------------------------------------------------------
(* Evaluate() *)

\* Functions that were added, by name (a text), and what they return.
CONSTANTS FunctionNames, Call(_, _)

Opening == <<"(", "[", "{">>
Closing == <<")", "]", "}">>
OperatorChars == {"~", "+", "-", "*", "/", "%", "^", "&", "|", "=", "!", "<", ">"}

RECURSIVE findendquote(_, _, _)
findendquote(s, p, c) ==
    IF At(s, p) \in {NUL, c} THEN p
    ELSE findendquote(s, IF At(s, p) = "\\" /\ At(s, p + 1) # NUL THEN p + 2 ELSE p + 1, c)

\* Behind the line a comment ends on.
EndOfComment(s, p) == Least(FirstIn(s, p + 2, {"\n"}) + 1, Len(s))

\* The closing character c, outside brackets, quotes and comments.
RECURSIVE findend(_, _, _)
findend(s, p, c) ==
    LET at == At(s, p)
        k == SelectInSeq(Opening, LAMBDA o : o = at)
        closing == IF k > 0 THEN Closing[k] ELSE at
        end == IF k > 0 THEN findend(s, p + 1, closing) ELSE findendquote(s, p + 1, at)
    IN IF at \in {NUL, c} \cup ToSet(Closing) THEN p
       ELSE IF k > 0 \/ IsQuoteChar(at)
       THEN (IF At(s, end) = closing THEN findend(s, end + 1, c) ELSE end)
       ELSE findend(s, IF Mid(s, p, 2) = <<";", ";">> THEN EndOfComment(s, p) ELSE p + 1, c)

Spaces == {" ", "\t", "\n", "\r"}

\* Over white space and one comment.
skipwhitespace(s, p) ==
    LET q == FirstNotIn(s, p, Spaces) IN
    IF Mid(s, q, 2) = <<";", ";">> THEN FirstNotIn(s, EndOfComment(s, q), Spaces) ELSE q

\* An operand is a text in brackets, a name or a number.  (Signs in a number are
\* part of it, and so is what follows them.)
EndOfArg(s, p) ==
    LET c == At(s, p)
        close == findend(s, p + 1, ")")
        mark == RadixAt(s, p).len
    IN CASE c = "(" -> IF At(s, close) = ")" THEN close + 1 ELSE close
         [] IsAlphaChar(c) \/ c = "_" -> Min({q \in p..Len(s) : ~IsSymbolChar(At(s, q))})
         [] c \in {"$", "#"} \/ IsHexString(s, p) -> FirstNotIn(s, p + Greatest(mark, 1), HexDigits)
         [] c = "@" \/ IsOctString(s, p) -> FirstNotIn(s, p + mark, DigitsOf(8))
         [] OTHER -> FirstNotIn(s, p, Numerals \cup {"+", "-", "."})

Cut(s, p, end) == [arg |-> Mid(s, p, end - p), pos |-> skipwhitespace(s, end)]
ArgFrom(s, p) == Cut(s, p, EndOfArg(s, p))
getarg(s, at) == ArgFrom(s, skipwhitespace(s, at))

\* strchr() finds the NUL at the end too: an operator at the end of the text runs
\* past it.
getoper(s, at) ==
    LET p == skipwhitespace(s, at)  end == FirstNotIn(s, p, OperatorChars) IN
    [oper |-> Mid(s, p, end - p), pos |-> skipwhitespace(s, end), overrun |-> end >= Len(s)]

Zero == Value("signed", 0)

Modified(v, premod) ==
    CASE premod = <<"-">> -> Negated(v) [] premod = <<"~">> -> Inverted(v)
      [] premod = <<"!">> -> NotTrue(v) [] OTHER -> v

\* An operator that is none of these changes nothing.
Applied(a, oper, b) ==
    CASE oper = <<"+">> -> Plus(a, b) [] oper = <<"-">> -> Minus(a, b) [] oper = <<"*">> -> Times(a, b)
      [] oper = <<"^">> -> BitXor(a, b) [] oper = <<"&">> -> BitAnd(a, b) [] oper = <<"|">> -> BitOr(a, b)
      [] oper = <<"&", "&">> -> BothTrue(a, b) [] oper = <<"|", "|">> -> EitherTrue(a, b)
      [] oper \in {<<"=", "=">>, <<"=">>} -> Truth(Equal(a, b))
      [] oper \in {<<"!", "=">>, <<"<", ">">>} -> Truth(~Equal(a, b))
      [] oper = <<"<", "=">> -> Truth(~Less(b, a)) [] oper = <<">", "=">> -> Truth(~Less(a, b))
      [] oper = <<"<">> -> Truth(Less(a, b)) [] oper = <<">">> -> Truth(Less(b, a))
      [] oper = <<"<", "<">> -> ShiftLeft(a, b) [] oper = <<">", ">">> -> ShiftRight(a, b)
      [] oper = <<"%">> /\ ~IsZero(b) -> Modulo(a, b) [] oper = <<"/">> /\ ~IsZero(b) -> Divide(a, b)
      [] OTHER -> a

ByZero(oper, b) == oper \in {<<"%">>, <<"/">>} /\ IsZero(b)

Fail(e) == [e EXCEPT !.error = TRUE]

\* What an inner evaluation leaves behind: variables, errors, a value for val1.
Inner(e, r) == [e EXCEPT !.vars = r.vars, !.error = r.error, !.overrun = r.overrun, !.val1 = r.val]

\* e: the state of an evaluation of the text s.
RECURSIVE Loop(_, _), Arguments(_, _, _, _)

Started(p, val, vars) ==
    [pos |-> p, state |-> "modifier", first |-> TRUE, val |-> val, val1 |-> Zero, premod |-> <<>>,
     oper |-> <<>>, vars |-> vars, error |-> FALSE, overrun |-> FALSE]

EvaluateAt(s, p, val, vars) == Loop(s, Started(p, val, vars))

\* Brackets: one without anything in it counts as failed.
Bracketing(e, r) == IF r.pos = 0 THEN Fail(Inner(e, r)) ELSE Inner(e, r)
Bracketed(e, arg) == Bracketing(e, EvaluateAt(MidOf(arg, 1, Len(arg) - 2), 0, e.val1, e.vars))

\* The arguments are the columns of the text, brackets or not, up to one that fails.
ArgumentIs(e, args, i, values, column, r) ==
    LET done == [e EXCEPT !.vars = r.vars, !.overrun = r.overrun] IN
    IF r.error \/ r.overrun \/ r.pos < Len(column) THEN [e |-> Fail(done), values |-> values]
    ELSE Arguments(done, args, i + 1, Append(values, r.val))

Argument(e, args, i, values, column) ==
    ArgumentIs(e, args, i, values, column, EvaluateAt(column, 0, Zero, e.vars))

Arguments(e, args, i, values) ==
    IF i >= CountLines(args, <<",">>, DefaultFlags) THEN [e |-> e, values |-> values]
    ELSE Argument(e, args, i, values, Line(args, i, <<",">>, DefaultFlags))

Called(name, r) == IF r.e.error THEN r.e ELSE [r.e EXCEPT !.val1 = Call(name, r.values)]

Assigned(name, e) ==
    IF e.error THEN e
    ELSE [e EXCEPT !.vars = [n \in DOMAIN @ \cup {name} |-> IF n = name THEN e.val1 ELSE @[n]]]

Assigning(e, r) == [Inner(e, r) EXCEPT !.pos = r.pos]

\* A function, an assignment or a variable; a: the text in brackets behind it.
SymbolAt(s, e, name, a) ==
    IF At(s, e.pos) = "("
    THEN IF name \notin FunctionNames \/ LastChar(a.arg) # ")" THEN Fail([e EXCEPT !.pos = a.pos])
         ELSE Called(name, Arguments([e EXCEPT !.pos = skipwhitespace(s, a.pos)],
                                     MidOf(a.arg, 1, Len(a.arg) - 2), 0, <<>>))
    ELSE IF Mid(s, e.pos, 2) = <<":", "=">>
    THEN Assigned(name, Assigning(e, EvaluateAt(s, e.pos + 2, e.val1, e.vars)))
    ELSE IF name \in DOMAIN e.vars THEN [e EXCEPT !.val1 = e.vars[name]] ELSE Fail(e)

SymbolFrom(s, e, name) == SymbolAt(s, e, name, getarg(s, e.pos))
Symbol(s, e, name) == SymbolFrom(s, [e EXCEPT !.pos = skipwhitespace(s, @)], name)

\* r: e with the value of its operand.
Applying(e, r, val1) ==
    [r EXCEPT !.val1 = val1, !.state = "operator", !.first = FALSE,
              !.val = IF e.first THEN val1 ELSE Applied(e.val, e.oper, val1),
              !.error = @ \/ (~e.first /\ ByZero(e.oper, val1))]
Finished(e, r) == Applying(e, r, Modified(r.val1, e.premod))

OperandIs(s, e, a) ==
    LET c == At(a.arg, 0)
        behind == [e EXCEPT !.pos = a.pos]
    IN Finished(e, CASE c = "(" -> Bracketed(behind, a.arg)
                     [] IsAlphaChar(c) \/ c = "_" -> Symbol(s, behind, a.arg)
                     [] OTHER -> [behind EXCEPT !.val1 = EvalNumber(a.arg, 0, TRUE, {}).val])

Operand(s, e) == OperandIs(s, e, getarg(s, e.pos))

Step(s, e) ==
    LET o == getoper(s, e.pos)
        behind == [e EXCEPT !.pos = o.pos, !.overrun = o.overrun]
    IN CASE e.state = "modifier" -> [behind EXCEPT !.premod = o.oper, !.state = "operand"]
         [] e.state = "operand" -> Operand(s, e)
         [] e.state = "operator" -> [behind EXCEPT !.oper = o.oper, !.state = "modifier", !.error = o.oper = <<>>]

\* A comma starts again; a closing bracket ends.
Continue(s, next) ==
    IF next.error \/ next.overrun THEN next ELSE Loop(s, [next EXCEPT !.pos = skipwhitespace(s, @)])

Loop(s, e) ==
    LET p == skipwhitespace(s, e.pos)
        e1 == IF At(s, p) = "," THEN [e EXCEPT !.pos = p + 1, !.val1 = Zero, !.state = "modifier", !.first = TRUE]
              ELSE [e EXCEPT !.pos = p]
    IN IF At(s, e.pos) = NUL THEN e
       ELSE IF At(s, p) = ")" THEN [e EXCEPT !.pos = p]
       ELSE Continue(s, Step(s, e1))

Outcome(s, r) ==
    [val |-> r.val, vars |-> r.vars, overrun |-> r.overrun, success |-> ~r.error /\ r.pos >= Len(s)]

Evaluate(s, val, vars) == Outcome(s, EvaluateAt(s, 0, val, vars))
=============================================================================
