-------------------------------- MODULE XMLDecode --------------------------------
(***************************************************************************)
(* DecodeXML() (src/src/XMLDecode.cpp) and the nodes it makes              *)
(* (src/src/StructuredNode.cpp).  Positions are those of the code.  A node *)
(* that is not closed yet is on the stack, the root at its bottom; it goes *)
(* to its parent's children when it leaves the stack.  HasQuit(), which    *)
(* would end the decoding, stays false.                                    *)
(***************************************************************************)
EXTENDS Strings

XMLSpaces == {" ", "\t", "\n", "\r"}

IsXMLNameChar(c) == IsSymbolChar(c) \/ c \in {":", "-"}
SkipXMLSpaces(s, p) == FirstNotIn(s, p, XMLSpaces)

\* Behind the name at p, which may be empty.
RECURSIVE NameChars(_, _)
NameChars(s, p) == IF IsXMLNameChar(At(s, p)) THEN NameChars(s, p + 1) ELSE p

Node(type) == [type |-> type, key |-> <<>>, value |-> <<>>, attributes |-> <<>>, children |-> <<>>]
Root == Node(NUL)

AddAttribute(node, key, value) == [node EXCEPT !.attributes = Append(@, [key |-> key, value |-> value])]
AddChild(node, child) == [node EXCEPT !.children = Append(@, child)]

\* The first of a sequence of pairs, behind the kth of them, with a key.
FindKey(pairs, key, k) ==
    LET found == {i \in (k + 1)..Len(pairs) : pairs[i].key = key} IN
    IF found = {} THEN 0 ELSE Min(found)

FindAttribute(node, key, k) == FindKey(node.attributes, key, k)
FindChild(node, key, k) == FindKey(node.children, key, k)
GetAttribute(node, key, k) ==
    LET i == FindAttribute(node, key, k) IN IF i > 0 THEN node.attributes[i].value ELSE <<>>
GetChildValue(node, key, k) ==
    LET i == FindChild(node, key, k) IN IF i > 0 THEN node.children[i].value ELSE <<>>

\* The ">" that is not in quotes, or 0.
RECURSIVE MarkerFrom(_, _, _)
MarkerFrom(s, p, quote) ==
    LET c == At(s, p) IN
    CASE c = NUL -> 0
      [] c # NUL /\ quote = NUL /\ c = ">" -> p
      [] c # NUL /\ quote = NUL /\ IsQuoteChar(c) -> MarkerFrom(s, p + 1, c)
      [] OTHER -> MarkerFrom(s, p + 1, IF c = quote THEN NUL ELSE quote)

FindXMLMarker(s, p) == MarkerFrom(s, p, NUL)

\* A value in quotes or up to white space: without quotes it takes the end of
\* the tag, and what follows it, too.
AttributeEnd(s, p, quote) ==
    FirstIn(s, p, IF quote = NUL THEN XMLSpaces ELSE {quote})

\* Attributes from p to the end of the tag at end; one without a name ends them.
RECURSIVE Attributes(_, _, _, _)
Attributes(s, p, end, node) ==
    LET p5 == NameChars(s, p)
        p1 == SkipXMLSpaces(s, p5)
        p2 == SkipXMLSpaces(s, IF At(s, p1) = "=" THEN p1 + 1 ELSE p1)
        quote == IF IsQuoteChar(At(s, p2)) THEN At(s, p2) ELSE NUL
        p6 == IF quote = NUL THEN p2 ELSE p2 + 1
        p7 == AttributeEnd(s, p6, quote)
        behind == SkipXMLSpaces(s, IF quote # NUL /\ At(s, p7) = quote THEN p7 + 1 ELSE p7)
    IN IF p >= end \/ p5 = p THEN node
       ELSE Attributes(s, behind, end,
                       AddAttribute(node, DeHTMLify(Mid(s, p, p5 - p)), DeHTMLify(Mid(s, p6, p7 - p6))))

\* The text from p up to the next tag, without white space round it.
ValueAt(s, p) ==
    LET end == FirstIn(s, p, {"<"})
        chars == {i \in p..(end - 1) : At(s, i) \notin XMLSpaces}
    IN DeHTMLify(Mid(s, p, IF chars = {} THEN 0 ELSE Max(chars) + 1 - p))

Top(stack) == stack[Len(stack)]

Pop(d) == LET n == Len(d.stack) IN
          [d EXCEPT !.stack = [SubSeq(@, 1, n - 1) EXCEPT ![n - 1] = AddChild(@, d.stack[n])]]

\* The node on top has no content if it is complete.
Completed(d, complete) == IF complete THEN Pop(d) ELSE d

Break(d, p) == [d EXCEPT !.p = p, !.done = TRUE]

\* Mutant: any closing tag closes the node.
CloseAnyTag(s, d, p) ==
    LET end == FindXMLMarker(s, p) IN
    IF Len(d.stack) = 1 \/ end <= p THEN Break(d, p) ELSE Pop([d EXCEPT !.p = end + 1])

\* A closing tag at p, behind its "/".
CloseTag(s, d, p) ==
    LET end == FindXMLMarker(s, p)
        name == NameChars(s, p)
    IN IF Len(d.stack) = 1 \/ end <= p THEN Break(d, p)
       ELSE IF Mid(s, p, name - p) = Top(d.stack).key THEN Pop([d EXCEPT !.p = end + 1])
       ELSE Break(d, name)

\* A comment.  Of one that does not end, the position of its end is -1, as an
\* unsigned number larger than any position: decoding goes on at position 2.
Comment(s, d, p) == [d EXCEPT !.p = Pos(s, <<"-", "-", ">">>, p + 3) + 3]

\* A tag that opens a node, from p to its ">" at end.
OpenTag(s, d, p, end) ==
    LET instruction == At(s, p) = "?" /\ At(s, end - 1) = "?"
        cut == At(s, end - 1) = "/" \/ instruction
        complete == cut \/ At(s, p) = "!"
        typed == At(s, p) \in {"?", "!"}
        p4 == SkipXMLSpaces(s, IF typed THEN p + 1 ELSE p)
        p5 == NameChars(s, p4)
        named == [Node(IF typed THEN At(s, p) ELSE NUL) EXCEPT !.key = DeHTMLify(Mid(s, p4, p5 - p4))]
        node == Attributes(s, SkipXMLSpaces(s, p5), IF cut THEN end - 1 ELSE end, named)
        behind == SkipXMLSpaces(s, end + 1)
        pushed == [d EXCEPT !.stack = Append(@, [node EXCEPT !.value = ValueAt(s, behind)]),
                            !.p = FirstIn(s, behind, {"<"})]
    IN Completed(pushed, complete)

\* One pass of the loop, with a "<" at d.p.
Decode(s, d) ==
    LET p == d.p + 1  end == FindXMLMarker(s, p) IN
    CASE At(s, p) = "/" -> CloseTag(s, d, p + 1)
      [] Mid(s, p, 3) = <<"!", "-", "-">> -> Comment(s, d, p)
      [] OTHER -> IF end > p THEN OpenTag(s, d, p, end) ELSE [d EXCEPT !.p = p]

\* Only Comment goes back, to the same position.  From there the same tags are
\* opened and closed every time: what is gone through more often than nodes can
\* be on the stack is gone through for ever.
RECURSIVE DecodeLoop(_, _)
DecodeNext(s, d, next) ==
    LET p == IF next.done THEN next.p ELSE SkipXMLSpaces(s, next.p)
        back == IF next.p < d.p THEN d.back + 1 ELSE d.back
    IN DecodeLoop(s, [next EXCEPT !.p = p, !.back = back, !.done = @ \/ back > Len(s)])

DecodeLoop(s, d) ==
    IF d.done \/ At(s, d.p) # "<" THEN d ELSE DecodeNext(s, d, Decode(s, d))

RECURSIVE Collapse(_)
Collapse(d) == IF Len(d.stack) = 1 THEN Top(d.stack) ELSE Collapse(Pop(d))

Decoded(s, d) ==
    LET endless == d.back > Len(s) IN
    [root |-> Collapse(d), endless |-> endless,
     success |-> ~endless /\ At(s, d.p) = NUL /\ Len(d.stack) = 1]

DecodeXML(s) ==
    Decoded(s, DecodeLoop(s, [p |-> SkipXMLSpaces(s, 0), stack |-> <<Root>>, done |-> FALSE, back |-> 0]))
=============================================================================
