------------------------------- MODULE Arithmetic -------------------------------
(***************************************************************************)
(* The integer helpers of src/src/misc.cpp: scaled products, saturating    *)
(* sums, bytes swapped in place, the growth of an array, and samples read  *)
(* between those of a buffer.                                              *)
(***************************************************************************)
EXTENDS Integers, SequencesExt

Least(a, b) == IF a < b THEN a ELSE b
Greatest(a, b) == IF a > b THEN a ELSE b
Clamp(a, low, high) == Least(Greatest(a, low), high)
Magnitude(a) == IF a < 0 THEN -a ELSE a

\* C's division truncates towards 0.
Quotient(a, b) ==
    LET q == Magnitude(a) \div Magnitude(b) IN IF (a < 0) = (b < 0) THEN q ELSE -q

\* A 64-bit product cannot overflow; the quotient is assumed to fit in 32 bits.
muldivs(a, b, c) == Quotient(a * b, c)

\* Mutant: the bias has one sign.
muldivsrUp(a, b, c) == Quotient(a * b + Magnitude(c) \div 2, c)

muldivsr(a, b, c) ==
    LET bias == Magnitude(c) \div 2 IN Quotient(a * b + (IF a * b < 0 THEN -bias ELSE bias), c)

muldivur(a, b, c) == (a * b + c \div 2) \div c

\* l - a is unsigned and wraps around below 0: nothing is capped when a > l.
addmu(a, b, l) == IF a > l \/ l - a >= b THEN a + b ELSE l
addms(a, b, l) == IF l - a >= b THEN a + b ELSE l

\* subzs and subzu.
subz(a, b) == IF a >= b THEN a - b ELSE 0

muldivb(a, b) == Clamp(Quotient(a * b, 255), 0, 255)

\* LimitAngle() of a whole number of degrees.
LimitAngle(angle) ==
    CHOOSE a \in -180..179 : (a - angle) % 360 = 0

-----------------------------------------------------------------------------
(* muldivu() of a number of two words: the product word by word, then the   *)
(* division from the top word down.  W is the number of values of a word.   *)

Parts(val, W) == <<val % W, val \div W>>

Product(parts, mul, W) ==
    LET low == mul * parts[1]
        high == mul * parts[2] + low \div W IN
    <<low % W, high % W, high \div W>>

\* Mutant: the remainder is not carried down to the next word.
DividedAfresh(acc, word, div, W) == [rem |-> word % div, out |-> <<word \div div>> \o acc.out]

DivideWord(acc, word, div, W) ==
    LET carry == acc.rem * W + word IN
    [rem |-> carry % div, out |-> <<(carry \div div) % W>> \o acc.out]

muldivu(val, mul, div, W) ==
    LET res == FoldRight(LAMBDA word, acc : DivideWord(acc, word, div, W),
                         Product(Parts(val, W), mul, W), [rem |-> 0, out |-> <<>>]).out IN
    res[1] + res[2] * W

-----------------------------------------------------------------------------
(* Bytes and arrays *)

\* The exchanges of __swap_bytes_n: byte k, from 0, with the one n-1-2k after it.
SwapPartner(n) == [k \in 0..(n - 1) |-> IF k < n \div 2 THEN k + (n - 1 - 2 * k)
                                        ELSE k - (2 * k - n + 1)]

SwapBytes(buf, itemsize, nitems) ==
    IF itemsize < 2 THEN buf
    ELSE [p \in DOMAIN buf |->
            LET k == (p - 1) % itemsize IN
            IF p > itemsize * nitems THEN buf[p] ELSE buf[p - k + SwapPartner(itemsize)[k]]]

\* The bytes of one number turned round: of 2, 4 or 8 of them.
SwappedNumber(bytes) == [k \in DOMAIN bytes |-> bytes[Len(bytes) + 1 - k]]

\* The number of items allocated: a multiple of Inc, none given back.
AllocatedItems(nItems, MaxItems, Inc) ==
    LET wanted == Greatest(nItems, MaxItems) + Inc - 1 IN Greatest(wanted - (wanted % Inc), Inc)

\* Allocate(): array is <<>> for NULL; new items are 0, the old are copied.
Allocate(array, nItems, Inc) ==
    IF array # <<>> /\ nItems <= Len(array) THEN array
    ELSE array \o [k \in 1..(AllocatedItems(nItems, Len(array), Inc) - Len(array)) |-> 0]

-----------------------------------------------------------------------------
(* Samples between those of a circular buffer, whose length is a power of   *)
(* two.  Positions count in parts of a sample, S to each, and what is read   *)
(* is S times the value.                                                    *)

Sample(buffer, p) == buffer[(p % Len(buffer)) + 1]

InterpRead(buffer, pos, S) ==
    (S - (pos % S)) * Sample(buffer, pos \div S) + (pos % S) * Sample(buffer, pos \div S + 1)

InterpReadStereo(left, right, pos, S) == <<InterpRead(left, pos, S), InterpRead(right, pos, S)>>

\* Mutant: the sum over whole samples starts one early.
SumFromFirst(buffer, p1, p2) ==
    FoldSet(LAMBDA p, sum : sum + Sample(buffer, p) + Sample(buffer, p + 1), 0, p1..(p2 - 1))

\* Twice the area over the whole samples in between.
SumBetween(buffer, p1, p2) ==
    FoldSet(LAMBDA p, sum : sum + Sample(buffer, p) + Sample(buffer, p + 1), 0, (p1 + 1)..(p2 - 1))

\* InterpSum() for doubles, a mean as a fraction, for pos1 < pos2.  Within one
\* sample what divides the sum of the ends is not the distance; for floats
\* nothing divides it.
InterpSum(buffer, pos1, pos2, S) ==
    LET p1 == pos1 \div S  p2 == pos2 \div S
        a == S - (pos1 % S)  b == pos2 % S
        ends == a * (a * Sample(buffer, p1) + (2 * S - a) * Sample(buffer, p1 + 1))
                + b * (b * Sample(buffer, p2 + 1) + (2 * S - b) * Sample(buffer, p2))
    IN IF p1 = p2
       THEN [num |-> S * (InterpRead(buffer, pos1, S) + InterpRead(buffer, pos2, S)),
             den |-> 2 * (pos2 - pos1) * (b - a)]
       ELSE [num |-> ends + S * S * SumBetween(buffer, p1, p2), den |-> 2 * S * (pos2 - pos1)]

InterpSumFloat(buffer, pos1, pos2, S) ==
    IF pos1 \div S # pos2 \div S THEN InterpSum(buffer, pos1, pos2, S)
    ELSE [num |-> InterpRead(buffer, pos1, S) + InterpRead(buffer, pos2, S), den |-> 2 * (pos2 - pos1)]
=============================================================================
