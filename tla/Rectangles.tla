------------------------------- MODULE Rectangles -------------------------------
(***************************************************************************)
(* The points, sizes, rectangles and colours of PointSizeRect.h.  A point  *)
(* or size is a pair <<x, y>>; a rectangle is a pair of spans, one for     *)
(* each axis, since all its operations treat the axes alike.               *)
(***************************************************************************)
EXTENDS Arithmetic

Span(at, size) == [at |-> at, size |-> size]
End(s) == s.at + s.size

\* The operators +, -, * and / of points, their assigning forms, and those of
\* sizes work on both axes.
PointPlus(p, q) == <<p[1] + q[1], p[2] + q[2]>>
PointMinus(p, q) == <<p[1] - q[1], p[2] - q[2]>>
PointTimes(p, q) == <<p[1] * q[1], p[2] * q[2]>>
PointOver(p, q) == <<Quotient(p[1], q[1]), Quotient(p[2], q[2])>>
SizeScale(sz, n) == <<sz[1] * n, sz[2] * n>>

\* The comparisons of points and sizes: both coordinates compare so.
PointBelow(p, q) == p[1] < q[1] /\ p[2] < q[2]
PointAtMost(p, q) == p[1] <= q[1] /\ p[2] <= q[2]

\* The constructors, SetRect and assignment: a negative size is turned round.
Normal(s) == Span(Least(s.at, End(s)), Greatest(s.at, End(s)) - Least(s.at, End(s)))
Rect(pt, sz) == <<Normal(Span(pt[1], sz[1])), Normal(Span(pt[2], sz[2]))>>

\* The assigning operators move the corner or change the size, unchecked; the
\* others build a rectangle.
Moved(r, pt) == <<Span(r[1].at + pt[1], r[1].size), Span(r[2].at + pt[2], r[2].size)>>
Resized(r, sz) == <<Span(r[1].at, r[1].size + sz[1]), Span(r[2].at, r[2].size + sz[2])>>
RectPlus(r, pt, sz) == <<Normal(Moved(Resized(r, sz), pt)[1]), Normal(Moved(Resized(r, sz), pt)[2])>>

RectEqual(r, q) == r[1].at = q[1].at /\ r[2].at = q[2].at /\ r[1].size = q[1].size /\ r[2].size = q[2].size

\* Min() is the hull of two rectangles; Max() is what they share, empty at worst.
HullSpan(s, t) ==
    LET low == Least(s.at, t.at) IN Normal(Span(low, Greatest(low, Greatest(End(s), End(t))) - low))

SharedSpan(s, t) ==
    LET low == Greatest(s.at, t.at) IN
    Normal(Span(low, Greatest(low, Least(End(s), End(t))) - low))

MinRect(r, q) == <<HullSpan(r[1], q[1]), HullSpan(r[2], q[2])>>
MaxRect(r, q) == <<SharedSpan(r[1], q[1]), SharedSpan(r[2], q[2])>>

Inflate(r, sz) == Resized(Moved(r, <<-sz[1], -sz[2]>>), SizeScale(sz, 2))
Deflate(r, sz) == Resized(Moved(r, sz), SizeScale(sz, -2))

\* MoveLeft and MoveTop, MoveRight and MoveBottom: one edge.
MoveStart(s, n) == Span(s.at + n, s.size - n)
MoveEnd(s, n) == Span(s.at, s.size + n)

Corners(r) == {<<x, y>> : x \in {r[1].at, End(r[1])}, y \in {r[2].at, End(r[2])}}
CornersIncl(r) == {<<x, y>> : x \in {r[1].at, End(r[1]) - 1}, y \in {r[2].at, End(r[2]) - 1}}
centre(r) == <<r[1].at + Quotient(r[1].size, 2), r[2].at + Quotient(r[2].size, 2)>>

\* The bottom edge counts as inside, the right one does not.
PointInRect(r, pt) ==
    pt[1] >= r[1].at /\ pt[1] < End(r[1]) /\ pt[2] >= r[2].at /\ pt[2] <= End(r[2])

\* Limit(rect): first pushed in from the left, then made to fit, then pushed in
\* from the right; the corrections that follow find nothing to do.
LimitSpan(s, t, ShrinkSize) ==
    LET size == Least(s.size, t.size)
        at == Least(Greatest(s.at, t.at) + size, End(t)) - size IN
    IF at + size <= End(t) THEN Span(at, size)
    ELSE IF ShrinkSize THEN Span(at, End(t) - at) ELSE Span(End(t) - size, size)

Limit(r, q, ShrinkSize) ==
    <<LimitSpan(r[1], q[1], ShrinkSize), LimitSpan(r[2], q[2], ShrinkSize)>>

\* Limit(size): at least that large, about the same centre.
GrowSpan(s, least) ==
    IF s.size >= least THEN s ELSE Span(s.at - (least - s.size) \div 2, least)
LimitSize(r, sz) == <<GrowSpan(r[1], sz[1]), GrowSpan(r[2], sz[2])>>

\* A rectangle that ends where the other starts overlaps it, not the reverse.
Overlap(r, q) == \A a \in 1..2 : End(r[a]) >= q[a].at /\ r[a].at < End(q[a])

InsideRect(r, q) == \A a \in 1..2 : r[a].at >= q[a].at /\ End(r[a]) <= End(q[a])
InsidePoint(r, pt) == \A a \in 1..2 : pt[a] >= r[a].at /\ pt[a] < End(r[a])

CentreSpan(s, size) == Span(s.at + Quotient(s.size - size, 2), size)
Centre(r, sz) == <<Normal(CentreSpan(r[1], sz[1])), Normal(CentreSpan(r[2], sz[2]))>>
Centralise(r, sz) == <<CentreSpan(r[1], sz[1]), CentreSpan(r[2], sz[2])>>

IncludeSpan(s, t) ==
    LET low == Least(s.at, t.at)  high == Greatest(End(s), End(t)) IN
    Span(Least(low, high), Greatest(low, high) - Least(low, high))
Include(r, q) == <<IncludeSpan(r[1], q[1]), IncludeSpan(r[2], q[2])>>

\* How far into w2 something w1 wide starts: a percentage, or a side.
Justify(w1, w2, just) ==
    CASE just \in 0..100 -> Quotient(just * (w2 - w1), 100)
      [] just \in 101..103 -> Quotient((just - 101) * (w2 - w1), 2)
      [] OTHER -> 0

JUSTIFY_FULLY == 104

JustifySpan(s, size, just) ==
    LET t == Normal(Span(s.at, size)) IN
    IF just = JUSTIFY_FULLY THEN Span(t.at, s.size)
    ELSE Span(t.at + Justify(t.size, s.size, just), t.size)

-----------------------------------------------------------------------------
(* Colours: four channels of a byte, red, green, blue and alpha. *)

Channels == 1..4

\* The number of 32 bits of a colour, as its four bytes from the top, and back.
FromNumber(bytes) == <<bytes[2], bytes[3], bytes[4], bytes[1]>>
ToNumber(col) == <<col[4], col[1], col[2], col[3]>>

\* A pixel type keeps the channels in its order; one with padding, or none at
\* all, has no alpha.
FromPixel(pixel, order) == [k \in Channels |-> IF k \in DOMAIN order THEN pixel[order[k]] ELSE 0]
SwapColour(bytes) == <<0, bytes[4], bytes[3], bytes[2]>>

ColourSum(c, d) == [k \in Channels |-> addmu(c[k], d[k], 255)]
ColourDifference(c, d) == [k \in Channels |-> subz(c[k], d[k])]
ColourProduct(c, d) == [k \in Channels |-> muldivb(c[k], d[k])]
ColourScale(c, n) == [k \in Channels |-> muldivb(c[k], n)]

SetColour(c, scale) == IF scale = 255 THEN c ELSE ColourScale(c, scale)

\* The brightest channel is scaled up to 255, or nearly.
Maximize(c) ==
    LET col == Greatest(Greatest(c[1], c[2]), Greatest(c[3], c[4])) IN
    IF col = 0 THEN c ELSE ColourScale(c, (255 * 255) \div col)

\* The weighted sum is not divided by the weights' scale before it is capped.
Mix(c, d, scale1, scale2) == [k \in Channels |-> Clamp(c[k] * scale1 + d[k] * scale2, 0, 255)]
=============================================================================
