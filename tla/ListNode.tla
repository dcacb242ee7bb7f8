-------------------------------- MODULE ListNode --------------------------------
(***************************************************************************)
(* AListNode and AList (src/src/ListNode.cpp): an intrusive doubly linked  *)
(* list.  A node carries its own links; the list carries its two ends and  *)
(* a count, and every operation works on the nodes and then recomputes     *)
(* them.  Compare() orders nodes by an integer key.                        *)
(*                                                                         *)
(* Callers insert nodes that are in no list, as everywhere in src/.        *)
(***************************************************************************)
EXTENDS ListLinks

vars == <<links, pFirst, pLast, nNodes, op>>

-----------------------------------------------------------------------------
(* AListNode *)

\* The end of the chain from n in one direction ("prev" or "next"): as many
\* steps as there are nodes are enough, and a cycle does not hold them up.
EndOf(h, n, dir) ==
    LET walk[k \in 0..Cardinality(Nodes)] ==
            IF k = 0 THEN n
            ELSE LET m == walk[k - 1] IN IF h[dir][m] = Null THEN m ELSE h[dir][m]
    IN walk[Cardinality(Nodes)]

FirstOf(h, n) == EndOf(h, n, "prev")
LastOf(h, n) == EndOf(h, n, "next")

\* Writes a link of a node, unless the pointer to the node is NULL.
SetLink(h, dir, n, to) == IF n = Null THEN h ELSE [h EXCEPT ![dir][n] = to]

DetachEx(h, n) ==
    LET g == SetLink(SetLink(h, "prev", h.next[n], h.prev[n]), "next", h.prev[n], h.next[n])
    IN [g EXCEPT !.prev[n] = Null, !.next[n] = Null]

\* Detach() returns the first node of what is left of its chain.
AfterDetach(h, n) ==
    LET neighbour == IF h.next[n] # Null THEN h.next[n] ELSE h.prev[n]
    IN IF neighbour = Null THEN Null ELSE FirstOf(DetachEx(h, n), neighbour)

\* Insert(pNode1, pNode2)
Insert(h, n, before, after) ==
    LET g == SetLink(SetLink(h, "next", before, n), "prev", after, n)
    IN [g EXCEPT !.prev[n] = before, !.next[n] = after]

\* Both start with DetachEx().
InsertBeforeNode(h, n, m) ==
    LET g == DetachEx(h, n) IN IF m = Null THEN g ELSE Insert(g, n, g.prev[m], m)

InsertAfterNode(h, n, m) ==
    LET g == DetachEx(h, n) IN IF m = Null THEN g ELSE Insert(g, n, m, g.next[m])

\* Mutant: the search only goes back, past equal keys too.
GapBackOnly(h, n, start) ==
    LET back[k \in 0..Cardinality(Nodes)] ==
            IF k = 0 THEN <<start, IF start = Null THEN Null ELSE h.next[start]>>
            ELSE LET p == back[k - 1]
                 IN IF p[1] # Null /\ Key[n] <= Key[p[1]] THEN <<h.prev[p[1]], p[1]>> ELSE p
    IN back[Cardinality(Nodes)]

\* The two nodes n goes between: back over the nodes above it, then forward
\* over those that are not.
Gap(h, n, start) ==
    LET back[k \in 0..Cardinality(Nodes)] ==
            IF k = 0 THEN <<start, IF start = Null THEN Null ELSE h.next[start]>>
            ELSE LET p == back[k - 1]
                 IN IF p[1] # Null /\ Key[n] < Key[p[1]] THEN <<h.prev[p[1]], p[1]>> ELSE p
        forward[k \in 0..Cardinality(Nodes)] ==
            IF k = 0 THEN back[Cardinality(Nodes)]
            ELSE LET p == forward[k - 1]
                 IN IF p[2] # Null /\ Key[n] >= Key[p[2]] THEN <<p[2], h.next[p[2]]>> ELSE p
    IN forward[Cardinality(Nodes)]

\* AttachEx(first, start): the links and the first node after it.
AttachEx(h, n, first, start) ==
    LET g == [h EXCEPT !.prev[n] = Null, !.next[n] = Null]
        gap == Gap(g, n, start)
    IN [links |-> Insert(g, n, gap[1], gap[2]),
        first |-> IF gap[1] = Null THEN n ELSE first]

\* Attach(m), with or without a comparison function: the search starts at m.
Attach(h, n, m) ==
    LET g == DetachEx(h, n) IN
    IF m = Null THEN [links |-> g, first |-> n] ELSE AttachEx(g, n, FirstOf(g, m), m)

\* Sort() and MergeList(): every node from here on leaves its chain and is
\* attached to a new one, which is searched from its first node.
SortFrom(h, start) ==
    LET step[k \in 0..Cardinality(Nodes)] ==
            IF k = 0 THEN [links |-> h, first |-> Null, todo |-> start]
            ELSE LET s == step[k - 1]
                     a == AttachEx(DetachEx(s.links, s.todo), s.todo, s.first, s.first)
                 IN IF s.todo = Null THEN s
                    ELSE [links |-> a.links, first |-> a.first, todo |-> s.links.next[s.todo]]
    IN step[Cardinality(Nodes)]

-----------------------------------------------------------------------------
(* AList *)

\* Mutant: every node passes for a member.
IsMemberAlways(m) == TRUE

IsMember(m) == FirstOf(links, m) = pFirst

Init ==
    /\ links = [dir \in {"prev", "next"} |-> [n \in Nodes |-> Null]]
    /\ pFirst = Null /\ pLast = Null /\ nNodes = 0
    /\ op = <<"none">>

\* The end of every insertion: pLast = pNode->Last(); nNodes++.
Inserted(h, n, first) ==
    /\ links' = h /\ pFirst' = first /\ pLast' = LastOf(h, n)
    /\ nNodes' = nNodes + 1

\* AList::Add(): the search starts at the last node.
Add(n) ==
    LET r == Attach(DetachEx(links, n), n, pLast)
    IN Inserted(r.links, n, r.first) /\ op' = <<"Add", n>>

\* InsertAfter(pLast) and InsertBefore(pFirst), each with First() of the result.
Push(n) ==
    LET h == InsertAfterNode(DetachEx(links, n), n, pLast)
    IN Inserted(h, n, FirstOf(h, n)) /\ op' = <<"Push", n>>

StartPush(n) ==
    LET h == InsertBeforeNode(DetachEx(links, n), n, pFirst)
    IN Inserted(h, n, FirstOf(h, n)) /\ op' = <<"StartPush", n>>

Refused(call) == op' = call /\ UNCHANGED <<links, pFirst, pLast, nNodes>>

InsertBefore(n, m) ==
    LET h == InsertBeforeNode(DetachEx(links, n), n, m) IN
    \/ IsMember(m) /\ Inserted(h, n, FirstOf(h, n)) /\ op' = <<"InsertBefore", n, m, TRUE>>
    \/ ~IsMember(m) /\ Refused(<<"InsertBefore", n, m, FALSE>>)

InsertAfter(n, m) ==
    LET h == InsertAfterNode(DetachEx(links, n), n, m) IN
    \/ IsMember(m) /\ Inserted(h, n, FirstOf(h, n)) /\ op' = <<"InsertAfter", n, m, TRUE>>
    \/ ~IsMember(m) /\ Refused(<<"InsertAfter", n, m, FALSE>>)

\* Insert after the old node, then detach the old node.
Replace(n, m) ==
    LET g == InsertAfterNode(DetachEx(links, n), n, m)
        h == DetachEx(g, m)
    IN \/ /\ IsMember(m)
          /\ links' = h /\ pFirst' = AfterDetach(g, m) /\ pLast' = LastOf(h, n)
          /\ op' = <<"Replace", n, m, TRUE>>
          /\ UNCHANGED nNodes
       \/ ~IsMember(m) /\ Refused(<<"Replace", n, m, FALSE>>)

\* pFirst = pNode->Detach(); pLast = its Last(); nNodes--.
Removed(n) ==
    LET first == AfterDetach(links, n) IN
    /\ links' = DetachEx(links, n)
    /\ pFirst' = first
    /\ pLast' = IF first = Null THEN Null ELSE LastOf(links', first)
    /\ nNodes' = nNodes - 1

\* Remove() and Delete().
RemoveNode(n) ==
    \/ IsMember(n) /\ Removed(n) /\ op' = <<"Remove", n, TRUE>>
    \/ ~IsMember(n) /\ Refused(<<"Remove", n, FALSE>>)

\* RemoveAll(), DeleteAll() and Delete(): each node of the chain is detached.
RemoveAll ==
    /\ links' = [dir \in {"prev", "next"} |->
                   [n \in Nodes |-> IF n \in ToSet(Chain) THEN Null ELSE links[dir][n]]]
    /\ pFirst' = Null /\ pLast' = Null /\ nNodes' = 0
    /\ op' = <<"RemoveAll">>

\* Mutant: the last node is forgotten with the first.
PopForgetsLast(first) == Null

\* Pop() keeps pLast while anything is left.
PopLastKept(first) == IF first = Null THEN Null ELSE pLast

Pop ==
    LET first == AfterDetach(links, pFirst) IN
    \/ /\ pFirst # Null
       /\ links' = DetachEx(links, pFirst)
       /\ pFirst' = first
       /\ pLast' = PopLastKept(first)
       /\ nNodes' = nNodes - 1
       /\ op' = <<"Pop", pFirst>>
    \/ pFirst = Null /\ Refused(<<"Pop", Null>>)

EndPop ==
    \/ pLast # Null /\ Removed(pLast) /\ op' = <<"EndPop", pLast>>
    \/ pLast = Null /\ Refused(<<"EndPop", Null>>)

Sort ==
    /\ op' = <<"Sort">>
    /\ IF pFirst = Null
       THEN UNCHANGED <<links, pFirst, pLast>>
       ELSE LET s == SortFrom(links, FirstOf(links, pFirst))
            IN links' = s.links /\ pFirst' = s.first /\ pLast' = LastOf(s.links, s.first)
    /\ UNCHANGED nNodes

\* Mutant: one node too many stays.
TooManyByOne(h, count) == h.nNodes > count + 1

TooMany(h, count) == h.nNodes > count

\* Limit(): Remove() and delete the node at one end until few enough are left.
Limit(count, fromEnd) ==
    LET end(s) == IF fromEnd THEN s.pLast ELSE s.pFirst
        cut[k \in 0..Cardinality(Nodes)] ==
            IF k = 0 THEN [links |-> links, pFirst |-> pFirst, pLast |-> pLast,
                           nNodes |-> nNodes, n |-> 0]
            ELSE LET s == cut[k - 1]
                     h == DetachEx(s.links, end(s))
                     first == AfterDetach(s.links, end(s))
                 IN IF end(s) = Null \/ ~TooMany(s, count) THEN s
                    ELSE [links |-> h, pFirst |-> first,
                          pLast |-> IF first = Null THEN Null ELSE LastOf(h, first),
                          nNodes |-> s.nNodes - 1, n |-> s.n + 1]
        r == cut[Cardinality(Nodes)]
    IN /\ links' = r.links /\ pFirst' = r.pFirst /\ pLast' = r.pLast /\ nNodes' = r.nNodes
       /\ op' = <<"Limit", count, fromEnd, r.n>>

-----------------------------------------------------------------------------

Next ==
    \/ \E n \in Free :
         \/ Add(n) \/ Push(n) \/ StartPush(n)
         \/ \E m \in Nodes \ {n} : InsertBefore(n, m) \/ InsertAfter(n, m) \/ Replace(n, m)
    \/ \E n \in Nodes : RemoveNode(n)
    \/ RemoveAll \/ Pop \/ EndPop \/ Sort
    \/ \E count \in 0..Cardinality(Nodes), fromEnd \in BOOLEAN : Limit(count, fromEnd)

Spec == Init /\ [][Next]_vars

-----------------------------------------------------------------------------
(* Properties *)

TypeOK ==
    /\ links \in [{"prev", "next"} -> [Nodes -> Pointer]]
    /\ pFirst \in Pointer /\ pLast \in Pointer
    /\ nNodes \in Nat
=============================================================================
