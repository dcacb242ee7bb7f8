----------------------------- MODULE ListNodeProofs -----------------------------
(***************************************************************************)
(* The list of nodes does what a sequence does, for any nodes and keys.    *)
(* The links of a well formed list are determined by its chain: every      *)
(* operation on the links is shown to be one on the chain, and the loops   *)
(* (to an end, to the place of a key, through Sort() and Limit()) by       *)
(* induction over their steps.                                             *)
(***************************************************************************)
EXTENDS ListNode, ListFacts

-----------------------------------------------------------------------------
(* Links *)

Links == [{"prev", "next"} -> [Nodes -> Pointer]]

LEMMA LinksFacts ==
    ASSUME NEW h \in Links
    PROVE  /\ h.next \in [Nodes -> Pointer] /\ h.prev \in [Nodes -> Pointer]
           /\ \A m \in Nodes : h.next[m] \in Pointer /\ h.prev[m] \in Pointer
           /\ \A g \in Links :
                (\A m \in Nodes : g.next[m] = h.next[m] /\ g.prev[m] = h.prev[m]) => g = h
<1>1. h.next \in [Nodes -> Pointer] /\ h.prev \in [Nodes -> Pointer]
  BY DEF Links
<1>2. ASSUME NEW g \in Links, \A m \in Nodes : g.next[m] = h.next[m] /\ g.prev[m] = h.prev[m]
      PROVE  g = h
  <2>1. g.next \in [Nodes -> Pointer] /\ g.prev \in [Nodes -> Pointer]
    BY DEF Links
  <2>2. g.next = h.next /\ g.prev = h.prev
    BY <1>1, <1>2, <2>1
  <2>3. QED BY <2>2 DEF Links
<1>3. QED BY <1>1, <1>2

LEMMA SetLinkFacts ==
    ASSUME NEW h \in Links, NEW n \in Pointer, NEW to \in Pointer, NodesAssumption
    PROVE  /\ SetLink(h, "next", n, to) \in Links /\ SetLink(h, "prev", n, to) \in Links
           /\ \A m \in Nodes :
                /\ SetLink(h, "next", n, to).next[m] = IF m = n THEN to ELSE h.next[m]
                /\ SetLink(h, "next", n, to).prev[m] = h.prev[m]
                /\ SetLink(h, "prev", n, to).prev[m] = IF m = n THEN to ELSE h.prev[m]
                /\ SetLink(h, "prev", n, to).next[m] = h.next[m]
<1>1. CASE n = Null
  <2>1. SetLink(h, "next", n, to) = h /\ SetLink(h, "prev", n, to) = h
    BY <1>1 DEF SetLink
  <2>2. \A m \in Nodes : m # n
    BY <1>1 DEF NodesAssumption
  <2>3. QED BY <2>1, <2>2
<1>2. CASE n # Null
  <2>1. n \in Nodes
    BY <1>2 DEF Pointer
  <2>2. SetLink(h, "next", n, to) = [h EXCEPT !["next"] = [@ EXCEPT ![n] = to]]
    BY <1>2 DEF SetLink
  <2>3. SetLink(h, "prev", n, to) = [h EXCEPT !["prev"] = [@ EXCEPT ![n] = to]]
    BY <1>2 DEF SetLink
  <2>4. QED BY <2>1, <2>2, <2>3 DEF Links
<1>3. QED BY <1>1, <1>2

\* Both links of a node at once.
Both(h, n, p, q) == [h EXCEPT !.prev[n] = p, !.next[n] = q]

LEMMA BothFacts ==
    ASSUME NEW h \in Links, NEW n \in Nodes, NEW p \in Pointer, NEW q \in Pointer
    PROVE  /\ Both(h, n, p, q) \in Links
           /\ \A m \in Nodes : /\ Both(h, n, p, q).next[m] = IF m = n THEN q ELSE h.next[m]
                               /\ Both(h, n, p, q).prev[m] = IF m = n THEN p ELSE h.prev[m]
BY DEF Links, Both

LEMMA DetachFacts ==
    ASSUME NEW h \in Links, NEW n \in Nodes, NodesAssumption
    PROVE  /\ DetachEx(h, n) \in Links
           /\ \A m \in Nodes :
                /\ DetachEx(h, n).next[m] = IF m = n THEN Null
                                            ELSE IF m = h.prev[n] THEN h.next[n] ELSE h.next[m]
                /\ DetachEx(h, n).prev[m] = IF m = n THEN Null
                                            ELSE IF m = h.next[n] THEN h.prev[n] ELSE h.prev[m]
<1> DEFINE x == h.next[n]
           p == h.prev[n]
           f == SetLink(h, "prev", x, p)
           g == SetLink(f, "next", p, x)
<1>1. x \in Pointer /\ p \in Pointer /\ Null \in Pointer
  BY LinksFacts DEF Pointer
<1>2. DetachEx(h, n) = Both(g, n, Null, Null)
  BY Zenon DEF DetachEx, Both
<1> HIDE DEF x, p
<1>3. /\ f \in Links
      /\ \A m \in Nodes : /\ f.prev[m] = IF m = x THEN p ELSE h.prev[m]
                          /\ f.next[m] = h.next[m]
  BY <1>1, SetLinkFacts
<1> HIDE DEF f
<1>4. /\ g \in Links
      /\ \A m \in Nodes : /\ g.next[m] = IF m = p THEN x ELSE f.next[m]
                          /\ g.prev[m] = f.prev[m]
  BY <1>1, <1>3, SetLinkFacts
<1> HIDE DEF g
<1>5. /\ Both(g, n, Null, Null) \in Links
      /\ \A m \in Nodes : /\ Both(g, n, Null, Null).next[m] = IF m = n THEN Null ELSE g.next[m]
                          /\ Both(g, n, Null, Null).prev[m] = IF m = n THEN Null ELSE g.prev[m]
  BY <1>1, <1>4, BothFacts
<1>6. QED BY <1>2, <1>3, <1>4, <1>5 DEF x, p

LEMMA InsertFacts ==
    ASSUME NEW h \in Links, NEW n \in Nodes, NEW b \in Pointer, NEW a \in Pointer, NodesAssumption
    PROVE  /\ Insert(h, n, b, a) \in Links
           /\ \A m \in Nodes :
                /\ Insert(h, n, b, a).next[m] = IF m = n THEN a ELSE IF m = b THEN n ELSE h.next[m]
                /\ Insert(h, n, b, a).prev[m] = IF m = n THEN b ELSE IF m = a THEN n ELSE h.prev[m]
<1> DEFINE f == SetLink(h, "next", b, n)
           g == SetLink(f, "prev", a, n)
<1>1. n \in Pointer
  BY DEF Pointer
<1>2. /\ f \in Links
      /\ \A m \in Nodes : /\ f.next[m] = IF m = b THEN n ELSE h.next[m]
                          /\ f.prev[m] = h.prev[m]
  BY <1>1, SetLinkFacts
<1> HIDE DEF f
<1>3. /\ g \in Links
      /\ \A m \in Nodes : /\ g.prev[m] = IF m = a THEN n ELSE f.prev[m]
                          /\ g.next[m] = f.next[m]
  BY <1>1, <1>2, SetLinkFacts
<1>4. Insert(h, n, b, a) = Both(g, n, b, a)
  BY Zenon DEF Insert, Both, f
<1> HIDE DEF g
<1>5. /\ Both(g, n, b, a) \in Links
      /\ \A m \in Nodes : /\ Both(g, n, b, a).next[m] = IF m = n THEN a ELSE g.next[m]
                          /\ Both(g, n, b, a).prev[m] = IF m = n THEN b ELSE g.prev[m]
  BY <1>3, BothFacts
<1>6. QED BY <1>2, <1>3, <1>4, <1>5

-----------------------------------------------------------------------------
(* Chains *)

NodeList(s) == s \in Seq(Nodes) /\ NoDup(s)

Chained(h, s) ==
    \A k \in 1..Len(s) : /\ h.next[s[k]] = IF k = Len(s) THEN Null ELSE s[k + 1]
                         /\ h.prev[s[k]] = IF k = 1 THEN Null ELSE s[k - 1]

Alone(h, n) == h.next[n] = Null /\ h.prev[n] = Null

FirstIn(s) == IF s = <<>> THEN Null ELSE s[1]
LastIn(s) == IF s = <<>> THEN Null ELSE s[Len(s)]

\* Detaching a node that is alone changes nothing.
LEMMA DetachAlone ==
    ASSUME NEW h \in Links, NEW n \in Nodes, Alone(h, n), NodesAssumption
    PROVE  DetachEx(h, n) = h
<1>1. Null \notin Nodes
  BY Zenon DEF NodesAssumption
<1>2. \A m \in Nodes : /\ DetachEx(h, n).next[m] = h.next[m]
                       /\ DetachEx(h, n).prev[m] = h.prev[m]
  BY <1>1, DetachFacts DEF Alone
<1>3. QED BY <1>2, DetachFacts, LinksFacts

LEMMA NodeListFacts ==
    ASSUME NEW s, NodeList(s)
    PROVE  /\ Len(s) \in Nat /\ \A k \in 1..Len(s) : s[k] \in Nodes /\ s[k] \in ToSet(s)
           /\ \A k, l \in 1..Len(s) : s[k] = s[l] => k = l
           /\ \A m \in ToSet(s) : \E k \in 1..Len(s) : s[k] = m
           /\ ToSet(s) \subseteq Nodes
BY ToSetFacts DEF NodeList, NoDup

\* A chain without one of its nodes.
LEMMA DetachChained ==
    ASSUME NEW h \in Links, NEW s, NodeList(s), Chained(h, s), NEW k \in 1..Len(s), NodesAssumption
    PROVE  /\ NodeList(RemoveAt(s, k)) /\ ToSet(RemoveAt(s, k)) = ToSet(s) \ {s[k]}
           /\ Len(RemoveAt(s, k)) = Len(s) - 1
           /\ Chained(DetachEx(h, s[k]), RemoveAt(s, k))
           /\ Alone(DetachEx(h, s[k]), s[k])
           /\ \A m \in Nodes \ ToSet(s) : /\ DetachEx(h, s[k]).next[m] = h.next[m]
                                          /\ DetachEx(h, s[k]).prev[m] = h.prev[m]
<1> DEFINE n == s[k]
           r == RemoveAt(s, k)
           g == DetachEx(h, n)
           Old(j) == IF j < k THEN j ELSE j + 1
<1>1. /\ Len(s) \in Nat /\ n \in Nodes /\ s \in Seq(Nodes)
      /\ \A i \in 1..Len(s) : s[i] \in Nodes /\ s[i] \in ToSet(s)
      /\ \A i, j \in 1..Len(s) : s[i] = s[j] => i = j
  BY NodeListFacts DEF NodeList
<1>2. /\ r \in Seq(Nodes) /\ Len(r) = Len(s) - 1
      /\ \A i \in 1..(k - 1) : r[i] = s[i]
      /\ \A i \in k..(Len(s) - 1) : r[i] = s[i + 1]
  BY <1>1, RemoveAtFacts
<1> HIDE DEF r
<1>3. ASSUME NEW j \in 1..Len(r)
      PROVE  r[j] = s[Old(j)] /\ Old(j) \in 1..Len(s) /\ Old(j) # k
  <2>1. CASE j < k
    <3>1. j \in 1..(k - 1) /\ j \in 1..Len(s)
      BY <1>1, <1>2, <2>1
    <3>2. QED BY <1>2, <2>1, <3>1
  <2>2. CASE ~(j < k)
    <3>1. j \in k..(Len(s) - 1) /\ j + 1 \in 1..Len(s) /\ j + 1 # k
      BY <1>1, <1>2, <2>2
    <3>2. QED BY <1>2, <2>2, <3>1
  <2>3. QED BY <2>1, <2>2
<1>4. \A i, j \in 1..Len(r) : r[i] = r[j] => i = j
  <2>1. ASSUME NEW i \in 1..Len(r), NEW j \in 1..Len(r), r[i] = r[j] PROVE i = j
    <3>1. Old(i) = Old(j)
      <4> HIDE DEF Old
      <4>1. QED BY <1>1, <1>3, <2>1
    <3>2. QED BY <1>1, <1>2, <3>1
  <2>2. QED BY <2>1
<1>5. NodeList(r)
  BY <1>2, <1>4 DEF NodeList, NoDup
<1>6. ToSet(r) = ToSet(s) \ {n}
  <2>1. ASSUME NEW m \in ToSet(r) PROVE m \in ToSet(s) \ {n}
    <3>1. PICK j \in 1..Len(r) : r[j] = m
      BY <1>5, NodeListFacts
    <3>2. m = s[Old(j)] /\ Old(j) \in 1..Len(s) /\ Old(j) # k
      BY <1>3, <3>1
    <3> HIDE DEF Old
    <3>3. QED BY <1>1, <3>2
  <2>2. ASSUME NEW m \in ToSet(s) \ {n} PROVE m \in ToSet(r)
    <3>1. PICK i \in 1..Len(s) : s[i] = m
      BY NodeListFacts
    <3> DEFINE j == IF i < k THEN i ELSE i - 1
    <3>2. i # k
      BY <3>1
    <3>3. j \in 1..Len(r) /\ Old(j) = i
      BY <1>1, <1>2, <3>2
    <3>4. r[j] = m
      BY <1>3, <3>1, <3>3
    <3> HIDE DEF j
    <3>5. QED BY <1>5, <3>3, <3>4, NodeListFacts
  <2>3. QED BY <2>1, <2>2
<1>7. h.next[n] = (IF k = Len(s) THEN Null ELSE s[k + 1]) /\ h.prev[n] = IF k = 1 THEN Null ELSE s[k - 1]
  BY DEF Chained
<1>8. Null \notin Nodes
  BY Zenon DEF NodesAssumption
<1>9. /\ g \in Links
      /\ \A m \in Nodes :
           /\ g.next[m] = IF m = n THEN Null ELSE IF m = h.prev[n] THEN h.next[n] ELSE h.next[m]
           /\ g.prev[m] = IF m = n THEN Null ELSE IF m = h.next[n] THEN h.prev[n] ELSE h.prev[m]
  BY ZenonT(60), <1>1, DetachFacts
<1> HIDE DEF g
<1>10. ASSUME NEW j \in 1..Len(r)
       PROVE  g.next[r[j]] = IF j = Len(r) THEN Null ELSE r[j + 1]
  <2> DEFINE i == Old(j)
  <2>1. r[j] = s[i] /\ i \in 1..Len(s) /\ i # k /\ s[i] # n /\ s[i] \in Nodes
    <3>1. r[j] = s[i] /\ i \in 1..Len(s) /\ i # k
      BY <1>3
    <3> HIDE DEF i
    <3>2. QED BY <1>1, <3>1
  <2>2. h.next[s[i]] = IF i = Len(s) THEN Null ELSE s[i + 1]
    <3> HIDE DEF i
    <3>1. QED BY <2>1 DEF Chained
  <2>3. CASE i = k - 1
    <3>1. k # 1 /\ h.prev[n] = s[i]
      BY <1>7, <2>1, <2>3
    <3>2. g.next[s[i]] = h.next[n]
      BY <1>9, <2>1, <3>1
    <3>3. j = k - 1 /\ (j = Len(r) <=> k = Len(s))
      BY SMTT(30), <1>1, <1>2, <2>3
    <3>4. k # Len(s) => r[j + 1] = s[k + 1]
      <4>1. k # Len(s) => k \in k..(Len(s) - 1) /\ j + 1 = k
        BY <1>1, <3>3
      <4>2. QED BY <1>2, <4>1
    <3>5. QED BY <1>7, <2>1, <3>2, <3>3, <3>4
  <2>4. CASE i # k - 1
    <3>1. s[i] # h.prev[n]
      <4>1. k # 1 => k - 1 \in 1..Len(s)
        BY <1>1
      <4>2. QED BY <1>1, <1>7, <1>8, <2>1, <2>4, <4>1
    <3>2. g.next[s[i]] = IF i = Len(s) THEN Null ELSE s[i + 1]
      BY <1>9, <2>1, <2>2, <3>1
    <3>3. j = Len(r) <=> i = Len(s)
      BY SMTT(30), <1>1, <1>2, <2>4
    <3>4. j # Len(r) => r[j + 1] = s[i + 1]
      <4>1. ASSUME j # Len(r) PROVE j + 1 \in 1..Len(r) /\ Old(j + 1) = i + 1
        BY <1>1, <1>2, <2>4, <4>1
      <4>2. QED BY <1>3, <4>1
    <3>5. QED BY <2>1, <3>2, <3>3, <3>4
  <2>5. QED BY <2>3, <2>4
<1>11. ASSUME NEW j \in 1..Len(r)
       PROVE  g.prev[r[j]] = IF j = 1 THEN Null ELSE r[j - 1]
  <2> DEFINE i == Old(j)
  <2>1. r[j] = s[i] /\ i \in 1..Len(s) /\ i # k /\ s[i] # n /\ s[i] \in Nodes
    <3>1. r[j] = s[i] /\ i \in 1..Len(s) /\ i # k
      BY <1>3
    <3> HIDE DEF i
    <3>2. QED BY <1>1, <3>1
  <2>2. h.prev[s[i]] = IF i = 1 THEN Null ELSE s[i - 1]
    <3> HIDE DEF i
    <3>1. QED BY <2>1 DEF Chained
  <2>3. CASE i = k + 1
    <3>1. k # Len(s) /\ h.next[n] = s[i]
      BY <1>1, <1>7, <2>1, <2>3
    <3>2. g.prev[s[i]] = h.prev[n]
      BY <1>9, <2>1, <3>1
    <3>3. j = k
      BY SMTT(30), <1>1, <1>2, <2>3
    <3>4. k # 1 => r[j - 1] = s[k - 1]
      BY <1>1, <1>2, <3>3
    <3>5. QED BY <1>7, <2>1, <3>2, <3>3, <3>4
  <2>4. CASE i # k + 1
    <3>1. s[i] # h.next[n]
      <4>1. k # Len(s) => k + 1 \in 1..Len(s)
        BY <1>1
      <4>2. QED BY <1>1, <1>7, <1>8, <2>1, <2>4, <4>1
    <3>2. g.prev[s[i]] = IF i = 1 THEN Null ELSE s[i - 1]
      BY <1>9, <2>1, <2>2, <3>1
    <3>3. j = 1 <=> i = 1
      <4>1. j \in Nat /\ k \in Nat /\ 1 <= j /\ 1 <= k
        BY <1>1, <1>2
      <4>2. QED BY <2>4, <4>1
    <3>4. j # 1 => r[j - 1] = s[i - 1]
      <4>1. ASSUME j # 1 PROVE j - 1 \in 1..Len(r) /\ Old(j - 1) = i - 1
        BY <1>1, <1>2, <2>4, <4>1
      <4>2. QED BY <1>3, <4>1
    <3>5. QED BY <2>1, <3>2, <3>3, <3>4
  <2>5. QED BY <2>3, <2>4
<1>12. Chained(g, r)
  BY <1>10, <1>11 DEF Chained
<1>13. Alone(g, n)
  BY <1>1, <1>9 DEF Alone
<1>14. ASSUME NEW m \in Nodes \ ToSet(s) PROVE g.next[m] = h.next[m] /\ g.prev[m] = h.prev[m]
  <2>1. m # n /\ m # h.next[n] /\ m # h.prev[n]
    <3>1. k # 1 => k - 1 \in 1..Len(s)
      BY <1>1
    <3>2. k # Len(s) => k + 1 \in 1..Len(s)
      BY <1>1
    <3>3. QED BY <1>1, <1>7, <1>8, <3>1, <3>2
  <2>2. QED BY <1>9, <2>1
<1>15. QED BY <1>2, <1>5, <1>6, <1>12, <1>13, <1>14 DEF r, g

\* The kth node of a list, if there is one.
NodeAt(s, k) == IF k = 0 \/ k = Len(s) + 1 THEN Null ELSE s[k]

\* What a list and its links are with n linked in before the kth node.
Gains(h, s, k, n) ==
    /\ NodeList(InsertAt(s, k, n)) /\ ToSet(InsertAt(s, k, n)) = ToSet(s) \cup {n}
    /\ Len(InsertAt(s, k, n)) = Len(s) + 1
    /\ Insert(h, n, NodeAt(s, k - 1), NodeAt(s, k)) \in Links
    /\ Chained(Insert(h, n, NodeAt(s, k - 1), NodeAt(s, k)), InsertAt(s, k, n))
    /\ \A m \in Nodes \ (ToSet(s) \cup {n}) :
         /\ Insert(h, n, NodeAt(s, k - 1), NodeAt(s, k)).next[m] = h.next[m]
         /\ Insert(h, n, NodeAt(s, k - 1), NodeAt(s, k)).prev[m] = h.prev[m]

\* A chain with a node more, between its neighbours there.
LEMMA InsertChained ==
    ASSUME NEW h \in Links, NEW s, NodeList(s), Chained(h, s), NEW k \in 1..(Len(s) + 1),
           NEW n \in Nodes, n \notin ToSet(s), NodesAssumption
    PROVE  Gains(h, s, k, n)
<1> DEFINE r == InsertAt(s, k, n)
           b == NodeAt(s, k - 1)
           a == NodeAt(s, k)
           g == Insert(h, n, b, a)
<1>1. /\ Len(s) \in Nat /\ s \in Seq(Nodes)
      /\ \A i \in 1..Len(s) : s[i] \in Nodes /\ s[i] \in ToSet(s)
      /\ \A i, j \in 1..Len(s) : s[i] = s[j] => i = j
      /\ \A m \in ToSet(s) : \E i \in 1..Len(s) : s[i] = m
  BY NodeListFacts DEF NodeList
<1>2. Null \notin Nodes
  BY Zenon DEF NodesAssumption
<1>3. /\ b = IF k = 1 THEN Null ELSE s[k - 1]
      /\ a = IF k = Len(s) + 1 THEN Null ELSE s[k]
      /\ b \in Pointer /\ a \in Pointer
  <2>1. k \in Nat /\ k >= 1 /\ k <= Len(s) + 1
    BY <1>1
  <2>2. b = IF k = 1 THEN Null ELSE s[k - 1]
    BY <1>1, <2>1 DEF NodeAt
  <2>3. a = IF k = Len(s) + 1 THEN Null ELSE s[k]
    BY <1>1, <2>1 DEF NodeAt
  <2>4. (k # 1 => k - 1 \in 1..Len(s)) /\ (k # Len(s) + 1 => k \in 1..Len(s))
    BY <1>1, <2>1
  <2>5. b \in Pointer
    BY <1>1, <2>2, <2>4 DEF Pointer
  <2>6. a \in Pointer
    BY <1>1, <2>3, <2>4 DEF Pointer
  <2>7. QED BY <2>2, <2>3, <2>5, <2>6
<1> HIDE DEF a, b
<1>4. /\ r \in Seq(Nodes) /\ Len(r) = Len(s) + 1 /\ r[k] = n
      /\ \A i \in 1..(k - 1) : r[i] = s[i]
      /\ \A i \in (k + 1)..(Len(s) + 1) : r[i] = s[i - 1]
  BY <1>1, InsertAtFacts
<1> HIDE DEF r
<1>5. /\ g \in Links
      /\ \A m \in Nodes :
           /\ g.next[m] = IF m = n THEN a ELSE IF m = b THEN n ELSE h.next[m]
           /\ g.prev[m] = IF m = n THEN b ELSE IF m = a THEN n ELSE h.prev[m]
  BY <1>3, InsertFacts
<1> HIDE DEF g
<1> DEFINE New(i) == IF i < k THEN i ELSE i + 1
           Old(j) == IF j < k THEN j ELSE j - 1
<1>6. ASSUME NEW j \in 1..Len(r), j # k
      PROVE  /\ Old(j) \in 1..Len(s) /\ r[j] = s[Old(j)] /\ New(Old(j)) = j
             /\ s[Old(j)] # n /\ s[Old(j)] \in Nodes
  <2>1. CASE j < k
    <3>1. j \in 1..(k - 1) /\ j \in 1..Len(s)
      BY <1>1, <1>4, <2>1
    <3>2. s[j] # n /\ s[j] \in Nodes
      BY <1>1, <3>1
    <3>3. QED BY <1>4, <2>1, <3>1, <3>2
  <2>2. CASE j > k
    <3>1. j \in (k + 1)..(Len(s) + 1) /\ j - 1 \in 1..Len(s) /\ ~(j < k) /\ ~(j - 1 < k) /\ (j - 1) + 1 = j
      BY SMTT(30), <1>1, <1>4, <2>2
    <3>2. s[j - 1] # n /\ s[j - 1] \in Nodes
      BY <1>1, <3>1
    <3>3. QED BY <1>4, <3>1, <3>2
  <2>3. j < k \/ j > k
    BY <1>4, <1>6
  <2>4. QED BY <2>1, <2>2, <2>3
<1>7. \A i \in 1..Len(s) : New(i) \in 1..Len(r) /\ New(i) # k /\ Old(New(i)) = i
  BY <1>1, <1>4
<1>8. ASSUME NEW i \in 1..Len(r), NEW j \in 1..Len(r), r[i] = r[j] PROVE i = j
  <2>1. CASE i = k \/ j = k
    <3> HIDE DEF Old, New
    <3>1. QED BY <1>4, <1>6, <1>8, <2>1
  <2>2. CASE i # k /\ j # k
    <3> HIDE DEF Old, New
    <3>1. /\ r[i] = s[Old(i)] /\ Old(i) \in 1..Len(s)
          /\ r[j] = s[Old(j)] /\ Old(j) \in 1..Len(s)
      BY <1>6, <2>2
    <3>3. Old(i) = Old(j)
      BY <1>1, <1>8, <3>1
    <3>4. New(Old(i)) = i /\ New(Old(j)) = j
      BY <1>6, <2>2
    <3>2. QED BY <3>3, <3>4
  <2>3. QED BY <2>1, <2>2
<1>9. NodeList(r)
  BY <1>4, <1>8 DEF NodeList, NoDup
<1>10. ToSet(r) = ToSet(s) \cup {n}
  <2>1. ASSUME NEW m \in ToSet(r) PROVE m \in ToSet(s) \cup {n}
    <3>1. PICK j \in 1..Len(r) : r[j] = m
      BY <1>9, NodeListFacts
    <3> HIDE DEF Old, New
    <3>2. j # k => m \in ToSet(s)
      BY <1>1, <1>6, <3>1
    <3>3. QED BY <1>4, <3>1, <3>2
  <2>2. ASSUME NEW m \in ToSet(s) PROVE m \in ToSet(r)
    <3>1. PICK i \in 1..Len(s) : s[i] = m
      BY <1>1
    <3> HIDE DEF Old, New
    <3>2. New(i) \in 1..Len(r) /\ r[New(i)] = m
      BY <1>6, <1>7, <3>1
    <3>3. QED BY <1>9, <3>2, NodeListFacts
  <2>3. n \in ToSet(r)
    <3>1. k \in 1..Len(r)
      BY <1>1, <1>4
    <3>2. QED BY <1>4, <1>9, <3>1, NodeListFacts
  <2>4. QED BY <2>1, <2>2, <2>3
<1>11. ASSUME NEW j \in 1..Len(r)
       PROVE  /\ g.next[r[j]] = IF j = Len(r) THEN Null ELSE r[j + 1]
              /\ g.prev[r[j]] = IF j = 1 THEN Null ELSE r[j - 1]
  <2>0. j \in Nat /\ k \in Nat /\ 1 <= j /\ 1 <= k /\ j <= Len(s) + 1 /\ k <= Len(s) + 1
    BY <1>1, <1>4
  <2>1. CASE j = k
    <3>1. g.next[n] = a /\ g.prev[n] = b
      BY <1>5
    <3>2. j # Len(r) => r[j + 1] = s[k]
      <4>1. ASSUME j # Len(r) PROVE j + 1 \in (k + 1)..(Len(s) + 1) /\ (j + 1) - 1 = k
        BY <1>1, <1>4, <2>0, <2>1, <4>1
      <4>2. QED BY <1>4, <4>1
    <3>3. j # 1 => r[j - 1] = s[k - 1]
      <4>1. ASSUME j # 1 PROVE j - 1 \in 1..(k - 1) /\ j - 1 = k - 1
        BY <2>0, <2>1, <4>1
      <4>2. QED BY <1>4, <4>1
    <3>4. QED BY <1>3, <1>4, <2>1, <3>1, <3>2, <3>3
  <2>2. CASE j # k
    <3> DEFINE i == Old(j)
    <3>1. /\ i \in 1..Len(s) /\ r[j] = s[i] /\ New(i) = j /\ s[i] # n /\ s[i] \in Nodes
      BY <1>6, <2>2
    <3>2. i = IF j < k THEN j ELSE j - 1
      OBVIOUS
    <3> HIDE DEF i, Old
    <3>3. /\ h.next[s[i]] = IF i = Len(s) THEN Null ELSE s[i + 1]
          /\ h.prev[s[i]] = IF i = 1 THEN Null ELSE s[i - 1]
      BY <3>1 DEF Chained
    <3>4. g.next[s[i]] = IF j = Len(r) THEN Null ELSE r[j + 1]
      <4>1. CASE j + 1 = k
        <5>1. b = s[i] /\ j # Len(r) /\ r[j + 1] = n
          BY <1>3, <1>4, <2>0, <3>2, <4>1
        <5>2. QED BY <1>5, <3>1, <5>1
      <4>2. CASE j + 1 # k
        <5>1. s[i] # b
          <6>1. k # 1 => k - 1 \in 1..Len(s) /\ k - 1 # i
            BY <1>1, <2>0, <2>2, <3>2, <4>2
          <6>2. QED BY <1>1, <1>2, <1>3, <3>1, <6>1
        <5>2. g.next[s[i]] = h.next[s[i]]
          BY <1>5, <3>1, <5>1
        <5>3. j = Len(r) <=> i = Len(s)
          BY <1>1, <1>4, <2>0, <2>2, <3>2, <4>2
        <5>4. j # Len(r) => r[j + 1] = s[i + 1]
          <6>1. CASE j < k
            <7>1. j + 1 \in 1..(k - 1) /\ i = j
              BY <2>0, <3>2, <4>2, <6>1
            <7>2. QED BY <1>4, <7>1
          <6>2. CASE ~(j < k)
            <7>1. ASSUME j # Len(r)
                  PROVE  j + 1 \in (k + 1)..(Len(s) + 1) /\ (j + 1) - 1 = i + 1
              <8>1. j # Len(s) + 1 /\ j > k /\ i = j - 1 /\ Len(s) \in Nat
                BY <1>1, <1>4, <2>0, <2>2, <3>2, <6>2, <7>1
              <8>2. QED BY <2>0, <8>1
            <7>2. QED BY <1>4, <7>1
          <6>3. QED BY <6>1, <6>2
        <5>5. QED BY <3>3, <5>2, <5>3, <5>4
      <4>3. QED BY <4>1, <4>2
    <3>5. g.prev[s[i]] = IF j = 1 THEN Null ELSE r[j - 1]
      <4>1. CASE j = k + 1
        <5>1. a = s[i] /\ j # 1 /\ r[j - 1] = n
          BY <1>3, <1>4, <2>0, <3>2, <4>1
        <5>2. QED BY <1>5, <3>1, <5>1
      <4>2. CASE j # k + 1
        <5>1. s[i] # a
          <6>1. k # Len(s) + 1 => k \in 1..Len(s) /\ k # i
            BY <1>1, <2>0, <2>2, <3>2, <4>2
          <6>2. QED BY <1>1, <1>2, <1>3, <3>1, <6>1
        <5>2. g.prev[s[i]] = h.prev[s[i]]
          BY <1>5, <3>1, <5>1
        <5>3. j = 1 <=> i = 1
          BY <2>0, <2>2, <3>2, <4>2
        <5>4. j # 1 => r[j - 1] = s[i - 1]
          <6>1. CASE j < k
            <7>1. ASSUME j # 1 PROVE j - 1 \in 1..(k - 1) /\ i = j
              BY <2>0, <3>2, <6>1, <7>1
            <7>2. QED BY <1>4, <7>1
          <6>2. CASE ~(j < k)
            <7>1. j - 1 \in (k + 1)..(Len(s) + 1) /\ (j - 1) - 1 = i - 1
              BY <1>4, <2>0, <2>2, <3>2, <4>2, <6>2
            <7>2. QED BY <1>4, <7>1
          <6>3. QED BY <6>1, <6>2
        <5>5. QED BY <3>3, <5>2, <5>3, <5>4
      <4>3. QED BY <4>1, <4>2
    <3>6. QED BY <3>1, <3>4, <3>5
  <2>3. QED BY <2>1, <2>2
<1>12. Chained(g, r)
  BY <1>11 DEF Chained
<1>13. ASSUME NEW m \in Nodes \ (ToSet(s) \cup {n}) PROVE g.next[m] = h.next[m] /\ g.prev[m] = h.prev[m]
  <2>1. m # n /\ m # a /\ m # b
    <3>1. (k # 1 => k - 1 \in 1..Len(s)) /\ (k # Len(s) + 1 => k \in 1..Len(s))
      BY <1>1
    <3>2. QED BY <1>1, <1>2, <1>3, <3>1
  <2>2. QED BY <1>5, <2>1
<1>14. QED BY <1>4, <1>5, <1>9, <1>10, <1>12, <1>13 DEF Gains, r, g, a, b

\* A list of nodes is no longer than there are nodes.
LEMMA NodeListCard ==
    ASSUME NEW s, NodeList(s), NodesAssumption
    PROVE  /\ Cardinality(Nodes) \in Nat /\ Len(s) <= Cardinality(Nodes)
           /\ Cardinality(ToSet(s)) = Len(s)
<1>1. IsFiniteSet(Nodes)
  BY Zenon DEF NodesAssumption
<1>2. Cardinality(Nodes) \in Nat
  BY <1>1, FS_CardinalityType
<1>3. s \in [1..Len(s) -> ToSet(s)] /\ Len(s) \in Nat
  BY NodeListFacts DEF NodeList
<1>4. s \in Bijection(1..Len(s), ToSet(s))
  <2>1. IsInjective(s)
    BY <1>3, NodeListFacts DEF IsInjective
  <2>2. \A m \in ToSet(s) : \E k \in 1..Len(s) : s[k] = m
    BY NodeListFacts
  <2>3. QED BY <1>3, <2>1, <2>2 DEF Bijection, Injection, Surjection
<1>5. ExistsBijection(1..Len(s), ToSet(s))
  BY <1>4 DEF ExistsBijection
<1>6. Cardinality(ToSet(s)) = Len(s)
  BY <1>3, <1>5, FS_CountingElements
<1>7. ToSet(s) \in SUBSET Nodes
  BY NodeListFacts
<1>8. QED BY <1>1, <1>2, <1>6, <1>7, FS_Subset
-----------------------------------------------------------------------------
(* Walks along a chain *)

\* A path to a node with no link onwards ends there, however much longer the
\* walk goes on.
LEMMA EndOfPath ==
    ASSUME NEW h \in Links, NEW dir \in {"prev", "next"}, NodesAssumption,
           NEW m \in Nat, m <= Cardinality(Nodes), NEW p \in [0..m -> Nodes],
           \A i \in 1..m : h[dir][p[i - 1]] = p[i], h[dir][p[m]] = Null
    PROVE  EndOf(h, p[0], dir) = p[m]
<1> DEFINE N == Cardinality(Nodes)
           n == p[0]
           step == [x \in Nodes |-> IF h[dir][x] = Null THEN x ELSE h[dir][x]]
           Walks(f) == f = [k \in 0..N |-> IF k = 0 THEN n
                                           ELSE LET x == f[k - 1]
                                                IN IF h[dir][x] = Null THEN x ELSE h[dir][x]]
           walk == CHOOSE f : Walks(f)
<1>1. /\ N \in Nat /\ Null \notin Nodes /\ n \in Nodes /\ m <= N
      /\ \A x \in Nodes : h[dir][x] \in Pointer
  <2>1. IsFiniteSet(Nodes) /\ Null \notin Nodes
    BY Zenon DEF NodesAssumption
  <2>2. N \in Nat
    BY <2>1, FS_CardinalityType
  <2>3. \A x \in Nodes : h[dir][x] \in Pointer
    BY DEF Links
  <2>4. n \in Nodes
    OBVIOUS
  <2>5. QED BY <2>1, <2>2, <2>3, <2>4
<1>2. step \in [Nodes -> Nodes]
  BY <1>1 DEF Pointer
<1>3. EndOf(h, p[0], dir) = walk[N]
  BY DEF EndOf
<1> HIDE DEF N, n
<1>4. PICK f \in [0..N -> Nodes] : Iterates(f, n, step, N)
  <2> HIDE DEF step
  <2>1. N \in Nat /\ n \in Nodes
    BY <1>1
  <2>2. QED BY <1>2, <2>1, Iteration
<1>5. Walks(f)
  <2> DEFINE g == [k \in 0..N |-> IF k = 0 THEN n
                                  ELSE LET x == f[k - 1]
                                       IN IF h[dir][x] = Null THEN x ELSE h[dir][x]]
  <2>1. ASSUME NEW k \in 0..N PROVE f[k] = g[k]
    <3>1. CASE k = 0
      BY <1>4, <3>1 DEF Iterates
    <3>2. CASE k # 0
      <4>1. k \in 1..N /\ k - 1 \in 0..N
        BY <1>1, <3>2
      <4>2. f[k] = step[f[k - 1]] /\ f[k - 1] \in Nodes
        BY <1>4, <4>1 DEF Iterates
      <4>3. QED BY <3>2, <4>2
    <3>3. QED BY <3>1, <3>2
  <2>2. DOMAIN f = 0..N /\ f = [k \in 0..N |-> f[k]]
    OBVIOUS
  <2>3. g = [k \in 0..N |-> g[k]]
    OBVIOUS
  <2> HIDE DEF g
  <2>4. f = g
    BY <2>1, <2>2, <2>3
  <2>5. QED BY <2>4 DEF g
<1>6. Walks(walk)
  <2> HIDE DEF Walks
  <2>1. QED BY <1>5
<1> HIDE DEF walk, step
<1>7. /\ walk[0] = n
      /\ \A k \in 1..N : walk[k] = IF h[dir][walk[k - 1]] = Null THEN walk[k - 1]
                                   ELSE h[dir][walk[k - 1]]
  <2>1. \A k \in 0..N : walk[k] = IF k = 0 THEN n
                                  ELSE IF h[dir][walk[k - 1]] = Null THEN walk[k - 1]
                                       ELSE h[dir][walk[k - 1]]
    BY <1>6
  <2>2. 0 \in 0..N /\ \A k \in 1..N : k \in 0..N /\ k # 0
    BY <1>1
  <2>3. QED BY <2>1, <2>2
<1> HIDE DEF Walks
<1> DEFINE T == {k \in Nat : k <= N => walk[k] = p[IF k <= m THEN k ELSE m]}
<1>8. 0 \in T
  BY <1>7 DEF n
<1>9. ASSUME NEW k \in Nat, k \in T PROVE k + 1 \in T
  <2>1. SUFFICES ASSUME k + 1 <= N PROVE walk[k + 1] = p[IF k + 1 <= m THEN k + 1 ELSE m]
    OBVIOUS
  <2>2. k + 1 \in 1..N /\ (k + 1) - 1 = k /\ walk[k] = p[IF k <= m THEN k ELSE m]
    BY <1>1, <1>9, <2>1
  <2>3. walk[k + 1] = IF h[dir][walk[k]] = Null THEN walk[k] ELSE h[dir][walk[k]]
    BY <1>7, <2>2
  <2>4. CASE k < m
    <3>1. k + 1 \in 1..m /\ (k + 1) - 1 = k /\ k <= m /\ k + 1 <= m
      BY <2>4
    <3>2. h[dir][p[k]] = p[k + 1] /\ p[k + 1] \in Nodes
      BY <3>1
    <3>3. QED BY <1>1, <2>2, <2>3, <3>1, <3>2
  <2>5. CASE ~(k < m)
    <3>1. walk[k] = p[m] /\ ~(k + 1 <= m)
      BY <2>2, <2>5
    <3>2. QED BY <2>3, <3>1
  <2>6. QED BY <2>4, <2>5
<1>10. Nat \subseteq T
  <2> HIDE DEF T
  <2>1. QED BY <1>8, <1>9, NatIn
<1>11. walk[N] = p[m]
  <2>1. walk[N] = p[IF N <= m THEN N ELSE m]
    BY <1>1, <1>10
  <2>2. N <= m => N = m
    BY <1>1
  <2>3. QED BY <2>1, <2>2
<1>12. QED BY <1>3, <1>11

LEMMA EndsOf ==
    ASSUME NEW h \in Links, NEW s, NodeList(s), Chained(h, s), NEW k \in 1..Len(s), NodesAssumption
    PROVE  FirstOf(h, s[k]) = FirstIn(s) /\ LastOf(h, s[k]) = LastIn(s)
<1>1. /\ Len(s) \in Nat /\ Len(s) <= Cardinality(Nodes) /\ Cardinality(Nodes) \in Nat
      /\ \A i \in 1..Len(s) : s[i] \in Nodes
  BY NodeListCard, NodeListFacts
<1>2. k \in Nat /\ 1 <= k /\ k <= Len(s) /\ s # <<>>
  BY <1>1
<1>3. FirstOf(h, s[k]) = s[1]
  <2> DEFINE m == k - 1
             p == [i \in 0..m |-> s[k - i]]
  <2>1. m \in Nat /\ m <= Cardinality(Nodes)
    BY <1>1, <1>2
  <2>2. p \in [0..m -> Nodes]
    <3>1. \A i \in 0..m : k - i \in 1..Len(s)
      BY <1>1, <1>2
    <3>2. QED BY <1>1, <3>1
  <2>3. p[0] = s[k] /\ p[m] = s[1]
    BY <1>2
  <2>4. ASSUME NEW i \in 1..m PROVE h["prev"][p[i - 1]] = p[i]
    <3> DEFINE j == k - (i - 1)
    <3>1. /\ j \in 1..Len(s) /\ j # 1 /\ j - 1 = k - i /\ i - 1 \in 0..m /\ i \in 0..m
      BY <1>1, <1>2
    <3>2. p[i - 1] = s[j] /\ p[i] = s[j - 1]
      BY <3>1
    <3> HIDE DEF j, p, m
    <3>3. h.prev[s[j]] = s[j - 1]
      BY <3>1 DEF Chained
    <3>4. QED BY <3>2, <3>3
  <2>5. h["prev"][p[m]] = Null
    <3>1. 1 \in 1..Len(s)
      BY <1>1, <1>2
    <3>2. h.prev[s[1]] = Null
      BY <3>1 DEF Chained
    <3> HIDE DEF p, m
    <3>3. QED BY <2>3, <3>2
  <2> HIDE DEF m, p
  <2>6. EndOf(h, p[0], "prev") = p[m]
    BY <2>1, <2>2, <2>4, <2>5, EndOfPath
  <2>7. QED BY <2>3, <2>6 DEF FirstOf
<1>4. LastOf(h, s[k]) = s[Len(s)]
  <2> DEFINE m == Len(s) - k
             p == [i \in 0..m |-> s[k + i]]
  <2>1. m \in Nat /\ m <= Cardinality(Nodes)
    BY <1>1, <1>2
  <2>2. p \in [0..m -> Nodes]
    <3>1. \A i \in 0..m : k + i \in 1..Len(s)
      BY <1>1, <1>2
    <3>2. QED BY <1>1, <3>1
  <2>3. p[0] = s[k] /\ p[m] = s[Len(s)]
    BY <1>1, <1>2
  <2>4. ASSUME NEW i \in 1..m PROVE h["next"][p[i - 1]] = p[i]
    <3> DEFINE j == k + (i - 1)
    <3>1. /\ j \in 1..Len(s) /\ j # Len(s) /\ j + 1 = k + i /\ i - 1 \in 0..m /\ i \in 0..m
      BY <1>1, <1>2
    <3>2. p[i - 1] = s[j] /\ p[i] = s[j + 1]
      BY <3>1
    <3> HIDE DEF j, p, m
    <3>3. h.next[s[j]] = s[j + 1]
      BY <3>1 DEF Chained
    <3>4. QED BY <3>2, <3>3
  <2>5. h["next"][p[m]] = Null
    <3>1. Len(s) \in 1..Len(s)
      BY <1>1, <1>2
    <3>2. h.next[s[Len(s)]] = Null
      BY <3>1 DEF Chained
    <3> HIDE DEF p, m
    <3>3. QED BY <2>3, <3>2
  <2> HIDE DEF m, p
  <2>6. EndOf(h, p[0], "next") = p[m]
    BY <2>1, <2>2, <2>4, <2>5, EndOfPath
  <2>7. QED BY <2>3, <2>6 DEF LastOf
<1>5. QED BY <1>2, <1>3, <1>4 DEF FirstIn, LastIn
\* The beginning of a list.
Prefix(s, k) == IF k <= Len(s) THEN SubSeq(s, 1, k) ELSE s

LEMMA PrefixFacts ==
    ASSUME NEW s \in Seq(Nodes), NEW k \in Nat
    PROVE  /\ Prefix(s, 0) = <<>>
           /\ k >= Len(s) => Prefix(s, k) = s
           /\ k < Len(s) => Prefix(s, k + 1) = Append(Prefix(s, k), s[k + 1])
           /\ k < Len(s) /\ k > 0 => Prefix(s, k) # <<>> /\ Last(Prefix(s, k)) = s[k]
<1>1. Len(s) \in Nat
  OBVIOUS
<1>2. SubSeq(s, 1, Len(s)) = s
  BY SubSeqFull
<1>3. Prefix(s, 0) = <<>>
  BY <1>1 DEF Prefix
<1>4. ASSUME k >= Len(s) PROVE Prefix(s, k) = s
  <2>1. k <= Len(s) => k = Len(s)
    BY <1>1, <1>4
  <2>2. QED BY <1>2, <2>1 DEF Prefix
<1>5. ASSUME k < Len(s) PROVE Prefix(s, k + 1) = Append(Prefix(s, k), s[k + 1])
  <2> DEFINE l == SubSeq(s, 1, k + 1)
             r == Append(SubSeq(s, 1, k), s[k + 1])
  <2>1. /\ l \in Seq(Nodes) /\ Len(l) = k + 1
        /\ \A i \in 1..(k + 1) : l[i] = s[i]
    BY <1>1, <1>5
  <2>2. /\ r \in Seq(Nodes) /\ Len(r) = k + 1
        /\ \A i \in 1..(k + 1) : r[i] = s[i]
    BY <1>1, <1>5
  <2>3. l = r
    <3> HIDE DEF l, r
    <3>1. QED BY <2>1, <2>2, SeqEqual
  <2>4. QED BY <1>1, <1>5, <2>3 DEF Prefix
<1>6. ASSUME k < Len(s), k > 0 PROVE Prefix(s, k) # <<>> /\ Last(Prefix(s, k)) = s[k]
  <2>1. Prefix(s, k) = SubSeq(s, 1, k)
    BY <1>1, <1>6 DEF Prefix
  <2>2. Len(SubSeq(s, 1, k)) = k /\ SubSeq(s, 1, k)[k] = s[k] /\ SubSeq(s, 1, k) \in Seq(Nodes)
    BY <1>1, <1>6
  <2>3. QED BY <1>6, <2>1, <2>2 DEF Last
<1>7. QED BY <1>3, <1>4, <1>5, <1>6

\* The walk from the first node finds the chain.
LEMMA ChainIs ==
    ASSUME NEW h, NEW s, NodeList(s), Chained(h, s), NodesAssumption
    PROVE  ChainFrom(h, FirstIn(s)) = s
<1> DEFINE N == Cardinality(Nodes)
           first == FirstIn(s)
           Onto(t) == LET n == IF t = <<>> THEN first ELSE h.next[Last(t)]
                      IN IF n = Null THEN t ELSE Append(t, n)
           Walks(f) == f = [k \in 0..N |->
                              IF k = 0 THEN <<>>
                              ELSE LET t == f[k - 1]
                                       n == IF t = <<>> THEN first ELSE h.next[Last(t)]
                                   IN IF n = Null THEN t ELSE Append(t, n)]
           walk == CHOOSE f : Walks(f)
           steps == [k \in 0..N |-> Prefix(s, k)]
<1>1. /\ N \in Nat /\ Len(s) <= N /\ Len(s) \in Nat /\ s \in Seq(Nodes)
      /\ \A k \in 1..Len(s) : s[k] \in Nodes
  BY NodeListCard, NodeListFacts DEF NodeList
<1>2. Null \notin Nodes
  BY Zenon DEF NodesAssumption
<1>3. ChainFrom(h, first) = walk[N]
  BY DEF ChainFrom
<1> HIDE DEF N, first
<1>4. ASSUME NEW k \in Nat PROVE Onto(Prefix(s, k)) = Prefix(s, k + 1)
  <2> DEFINE t == Prefix(s, k)
             n == IF t = <<>> THEN first ELSE h.next[Last(t)]
  <2>1. CASE k < Len(s)
    <3>1. n = s[k + 1]
      <4>1. CASE k = 0
        BY <1>1, <2>1, <4>1, PrefixFacts DEF first, FirstIn
      <4>2. CASE k > 0
        <5>1. t # <<>> /\ Last(t) = s[k]
          BY <1>1, <2>1, <4>2, PrefixFacts
        <5>2. k \in 1..Len(s) /\ k # Len(s)
          BY <1>1, <2>1, <4>2
        <5>3. h.next[s[k]] = s[k + 1]
          BY <5>2 DEF Chained
        <5> HIDE DEF t
        <5>4. QED BY <5>1, <5>3
      <4>3. QED BY <4>1, <4>2
    <3>2. s[k + 1] # Null
      <4>1. k + 1 \in 1..Len(s)
        BY <1>1, <2>1
      <4>2. QED BY <1>1, <1>2, <4>1
    <3>3. Prefix(s, k + 1) = Append(t, s[k + 1])
      BY <1>1, <2>1, PrefixFacts
    <3> HIDE DEF n, t
    <3>4. Onto(t) = Append(t, s[k + 1])
      BY <3>1, <3>2 DEF n
    <3>5. QED BY <3>3, <3>4 DEF t
  <2>2. CASE ~(k < Len(s))
    <3>1. t = s /\ Prefix(s, k + 1) = s
      BY <1>1, <2>2, PrefixFacts, k + 1 \in Nat
    <3>2. n = Null
      <4>1. CASE s = <<>>
        BY <3>1, <4>1 DEF first, FirstIn
      <4>2. CASE s # <<>>
        <5>1. Len(s) \in 1..Len(s) /\ Last(s) = s[Len(s)]
          BY <1>1, <4>2 DEF Last
        <5>2. h.next[s[Len(s)]] = Null
          BY <5>1 DEF Chained
        <5> HIDE DEF t
        <5>3. QED BY <3>1, <4>2, <5>1, <5>2
      <4>3. QED BY <4>1, <4>2
    <3> HIDE DEF n, t
    <3>3. Onto(t) = t
      BY <3>2 DEF n
    <3>4. QED BY <3>1, <3>3 DEF t
  <2>3. QED BY <2>1, <2>2
<1>5. Walks(steps)
  <2>1. ASSUME NEW k \in 0..N PROVE steps[k] = IF k = 0 THEN <<>> ELSE Onto(steps[k - 1])
    <3> HIDE DEF Onto
    <3>1. CASE k = 0
      BY <1>1, <3>1, PrefixFacts
    <3>2. CASE k # 0
      <4>1. k - 1 \in Nat /\ k - 1 \in 0..N /\ (k - 1) + 1 = k
        BY <1>1, <3>2
      <4>2. Onto(Prefix(s, k - 1)) = Prefix(s, k)
        BY <1>4, <4>1
      <4>3. QED BY <3>2, <4>1, <4>2
    <3>3. QED BY <3>1, <3>2
  <2>2. steps = [k \in 0..N |-> steps[k]]
    OBVIOUS
  <2> HIDE DEF steps
  <2>3. steps = [k \in 0..N |-> IF k = 0 THEN <<>> ELSE Onto(steps[k - 1])]
    <3> HIDE DEF Onto
    <3>1. QED BY <2>1, <2>2
  <2>4. QED BY Zenon, <2>3
<1>6. Walks(walk)
  <2> HIDE DEF Walks
  <2>1. QED BY <1>5
<1> HIDE DEF walk
<1>7. /\ walk[0] = <<>>
      /\ \A k \in 1..N : walk[k] = Onto(walk[k - 1])
  <2>1. \A k \in 0..N : walk[k] = IF k = 0 THEN <<>> ELSE Onto(walk[k - 1])
    BY <1>6
  <2> HIDE DEF Onto, Walks
  <2>2. 0 \in 0..N /\ \A k \in 1..N : k \in 0..N /\ k # 0
    BY <1>1
  <2>3. QED BY <2>1, <2>2
<1> HIDE DEF Walks, Onto
<1> DEFINE T == {k \in Nat : k <= N => walk[k] = Prefix(s, k)}
<1>8. 0 \in T
  BY <1>1, <1>7, PrefixFacts
<1>9. ASSUME NEW k \in Nat, k \in T PROVE k + 1 \in T
  <2>1. SUFFICES ASSUME k + 1 <= N PROVE walk[k + 1] = Prefix(s, k + 1)
    OBVIOUS
  <2>2. k + 1 \in 1..N /\ (k + 1) - 1 = k /\ walk[k] = Prefix(s, k)
    BY <1>1, <1>9, <2>1
  <2>3. walk[k + 1] = Onto(walk[k])
    BY <1>7, <2>2
  <2>4. QED BY <1>4, <2>2, <2>3
<1>10. Nat \subseteq T
  <2> HIDE DEF T
  <2>1. QED BY <1>8, <1>9, NatIn
<1>11. walk[N] = Prefix(s, N)
  BY <1>1, <1>10
<1>12. Prefix(s, N) = s
  BY <1>1, PrefixFacts
<1>13. QED BY <1>3, <1>11, <1>12 DEF first
-----------------------------------------------------------------------------
(* The place of a key *)

\* The gap behind the first c nodes.
GapAt(s, c) == <<NodeAt(s, c), NodeAt(s, c + 1)>>

LEMMA NodeAtFacts ==
    ASSUME NEW h \in Links, NEW s, NodeList(s), Chained(h, s), NodesAssumption
    PROVE  /\ Len(s) \in Nat /\ Len(s) <= Cardinality(Nodes) /\ Cardinality(Nodes) \in Nat
           /\ Null \notin Nodes
           /\ \A c \in 0..(Len(s) + 1) : NodeAt(s, c) \in Pointer
           /\ \A c \in 1..Len(s) : /\ NodeAt(s, c) = s[c] /\ s[c] \in Nodes /\ Key[s[c]] \in Int
                                   /\ h.next[s[c]] = NodeAt(s, c + 1)
                                   /\ h.prev[s[c]] = NodeAt(s, c - 1)
           /\ NodeAt(s, 0) = Null /\ NodeAt(s, Len(s) + 1) = Null
           /\ \A c \in 0..(Len(s) + 1) : NodeAt(s, c) = Null => c = 0 \/ c = Len(s) + 1
<1>1. /\ Len(s) \in Nat /\ Len(s) <= Cardinality(Nodes) /\ Cardinality(Nodes) \in Nat
      /\ \A i \in 1..Len(s) : s[i] \in Nodes
  BY NodeListCard, NodeListFacts
<1>2. Null \notin Nodes /\ Key \in [Nodes -> Int]
  BY Zenon DEF NodesAssumption
<1>3. ASSUME NEW c \in 1..Len(s)
      PROVE  /\ NodeAt(s, c) = s[c] /\ s[c] \in Nodes /\ Key[s[c]] \in Int
             /\ h.next[s[c]] = NodeAt(s, c + 1) /\ h.prev[s[c]] = NodeAt(s, c - 1)
  <2>1. /\ c # 0 /\ c # Len(s) + 1 /\ c + 1 # 0 /\ c - 1 # Len(s) + 1
        /\ (c + 1 = Len(s) + 1 <=> c = Len(s)) /\ (c - 1 = 0 <=> c = 1)
    BY <1>1
  <2>2. NodeAt(s, c) = s[c] /\ s[c] \in Nodes /\ Key[s[c]] \in Int
    BY <1>1, <1>2, <2>1 DEF NodeAt
  <2>3. /\ h.next[s[c]] = IF c = Len(s) THEN Null ELSE s[c + 1]
        /\ h.prev[s[c]] = IF c = 1 THEN Null ELSE s[c - 1]
    BY DEF Chained
  <2>4. QED BY <2>1, <2>2, <2>3 DEF NodeAt
<1>4. NodeAt(s, 0) = Null /\ NodeAt(s, Len(s) + 1) = Null
  BY DEF NodeAt
<1>5. \A c \in 0..(Len(s) + 1) : c \in 1..Len(s) \/ c = 0 \/ c = Len(s) + 1
  BY <1>1
<1>6. QED BY <1>1, <1>2, <1>3, <1>4, <1>5 DEF Pointer

\* Both loops stop: the first with no node above n in front of it that it has
\* not passed, the second with none that is not above n behind it.
LEMMA GapFacts ==
    ASSUME NEW h \in Links, NEW s, NodeList(s), Chained(h, s), NodesAssumption, NEW n \in Nodes,
           NEW j \in 0..Len(s), j = 0 => s = <<>>
    PROVE  \E c \in 0..Len(s) :
             /\ Gap(h, n, NodeAt(s, j)) = GapAt(s, c)
             /\ c # 0 => Key[s[c]] <= Key[n]
             /\ c # Len(s) => Key[s[c + 1]] > Key[n]
             /\ \A x \in (c + 1)..j : Key[s[x]] > Key[n]
<1> DEFINE N == Cardinality(Nodes)
           start == NodeAt(s, j)
           D == Pointer \X Pointer
           BackOf(p) == IF p[1] # Null /\ Key[n] < Key[p[1]] THEN <<h.prev[p[1]], p[1]>> ELSE p
           ForthOf(p) == IF p[2] # Null /\ Key[n] >= Key[p[2]] THEN <<p[2], h.next[p[2]]>> ELSE p
           base == <<start, IF start = Null THEN Null ELSE h.next[start]>>
           Backs(f) == f = [k \in 0..N |->
                              IF k = 0 THEN <<start, IF start = Null THEN Null ELSE h.next[start]>>
                              ELSE LET p == f[k - 1]
                                   IN IF p[1] # Null /\ Key[n] < Key[p[1]]
                                      THEN <<h.prev[p[1]], p[1]>> ELSE p]
           back == CHOOSE f : Backs(f)
           Forwards(f) == f = [k \in 0..N |->
                                 IF k = 0 THEN back[N]
                                 ELSE LET p == f[k - 1]
                                      IN IF p[2] # Null /\ Key[n] >= Key[p[2]]
                                         THEN <<p[2], h.next[p[2]]>> ELSE p]
           forward == CHOOSE f : Forwards(f)
           backStep == [p \in D |-> BackOf(p)]
           forthStep == [p \in D |-> ForthOf(p)]
<1>1. /\ Len(s) \in Nat /\ Len(s) <= N /\ N \in Nat /\ Null \notin Nodes /\ Key[n] \in Int
      /\ \A c \in 0..(Len(s) + 1) : NodeAt(s, c) \in Pointer
      /\ \A c \in 1..Len(s) : /\ NodeAt(s, c) = s[c] /\ s[c] \in Nodes /\ Key[s[c]] \in Int
                              /\ h.next[s[c]] = NodeAt(s, c + 1)
                              /\ h.prev[s[c]] = NodeAt(s, c - 1)
      /\ NodeAt(s, 0) = Null /\ NodeAt(s, Len(s) + 1) = Null
      /\ \A c \in 0..(Len(s) + 1) : NodeAt(s, c) = Null => c = 0 \/ c = Len(s) + 1
  <2>1. Key[n] \in Int
    BY DEF NodesAssumption
  <2>2. QED BY <2>1, NodeAtFacts
<1>2. Gap(h, n, NodeAt(s, j)) = forward[N]
  BY DEF Gap
<1> HIDE DEF N
<1>3. \A m \in Nodes : h.next[m] \in Pointer /\ h.prev[m] \in Pointer
  BY LinksFacts
<1>4. base = GapAt(s, j)
  <2>1. CASE j = 0
    <3>1. Len(s) = 0 /\ start = Null /\ NodeAt(s, 0 + 1) = Null
      BY <1>1, <2>1
    <3>2. QED BY <2>1, <3>1 DEF GapAt
  <2>2. CASE j # 0
    <3>1. j \in 1..Len(s)
      BY <1>1, <2>2
    <3>2. start = s[j] /\ start # Null /\ h.next[start] = NodeAt(s, j + 1)
      BY <1>1, <3>1
    <3>3. QED BY <3>2 DEF GapAt
  <2>3. QED BY <2>1, <2>2
<1>5. \A c \in 0..Len(s) : GapAt(s, c) \in D
  BY <1>1 DEF GapAt
<1>6. \A p \in D : BackOf(p) \in D /\ ForthOf(p) \in D
  BY <1>3 DEF Pointer
<1>7. ASSUME NEW b \in 1..Len(s), Key[n] < Key[s[b]]
      PROVE  BackOf(GapAt(s, b)) = GapAt(s, b - 1)
  <2>1. (b - 1) + 1 = b /\ b \in 0..(Len(s) + 1)
    BY <1>1
  <2>2. NodeAt(s, b) = s[b] /\ s[b] # Null /\ h.prev[s[b]] = NodeAt(s, b - 1)
    BY <1>1
  <2>3. QED BY <1>7, <2>1, <2>2 DEF GapAt
<1>8. ASSUME NEW b \in 0..Len(s), b = 0 \/ ~(Key[n] < Key[s[b]])
      PROVE  BackOf(GapAt(s, b)) = GapAt(s, b)
  <2>1. CASE b = 0
    BY <1>1, <2>1 DEF GapAt
  <2>2. CASE b # 0
    <3>1. b \in 1..Len(s)
      BY <1>1, <2>2
    <3>2. NodeAt(s, b) = s[b]
      BY <1>1, <3>1
    <3>3. QED BY <1>8, <2>2, <3>2 DEF GapAt
  <2>3. QED BY <2>1, <2>2
<1>9. ASSUME NEW c \in 0..(Len(s) - 1), Key[n] >= Key[s[c + 1]]
      PROVE  ForthOf(GapAt(s, c)) = GapAt(s, c + 1)
  <2>1. c + 1 \in 1..Len(s)
    BY <1>1
  <2>2. NodeAt(s, c + 1) = s[c + 1] /\ s[c + 1] # Null /\ h.next[s[c + 1]] = NodeAt(s, (c + 1) + 1)
    BY <1>1, <2>1
  <2>3. QED BY <1>9, <2>2 DEF GapAt
<1>10. ASSUME NEW c \in 0..Len(s), c = Len(s) \/ ~(Key[n] >= Key[s[c + 1]])
       PROVE  ForthOf(GapAt(s, c)) = GapAt(s, c)
  <2>1. CASE c = Len(s)
    BY <1>1, <2>1 DEF GapAt
  <2>2. CASE c # Len(s)
    <3>1. c + 1 \in 1..Len(s)
      BY <1>1, <2>2
    <3>2. NodeAt(s, c + 1) = s[c + 1]
      BY <1>1, <3>1
    <3>3. QED BY <1>10, <2>2, <3>2 DEF GapAt
  <2>3. QED BY <2>1, <2>2
<1>11. /\ backStep \in [D -> D] /\ forthStep \in [D -> D]
       /\ \A p \in D : backStep[p] = BackOf(p) /\ forthStep[p] = ForthOf(p)
  <2> HIDE DEF BackOf, ForthOf, D
  <2>1. QED BY <1>6
<1>12. base \in D
  BY <1>4, <1>5
<1> HIDE DEF backStep, forthStep
<1>13. PICK f \in [0..N -> D] : Iterates(f, base, backStep, N)
  <2> HIDE DEF base, D
  <2>1. N \in Nat /\ backStep \in [D -> D]
    BY <1>1, <1>11
  <2>2. QED BY <1>12, <2>1, Iteration
<1>14. Backs(f)
  <2> DEFINE g == [k \in 0..N |-> IF k = 0 THEN base ELSE BackOf(f[k - 1])]
  <2>1. ASSUME NEW k \in 0..N PROVE f[k] = g[k]
    <3> HIDE DEF base, BackOf
    <3>1. CASE k = 0
      BY <1>13, <3>1 DEF Iterates
    <3>2. CASE k # 0
      <4>1. k \in 1..N /\ k - 1 \in 0..N
        BY <1>1, <3>2
      <4>2. f[k] = backStep[f[k - 1]] /\ f[k - 1] \in D
        BY <1>13, <4>1 DEF Iterates
      <4> HIDE DEF D
      <4>3. QED BY <1>11, <3>2, <4>2
    <3>3. QED BY <3>1, <3>2
  <2>2. f = [k \in 0..N |-> f[k]] /\ g = [k \in 0..N |-> g[k]]
    <3>1. g = [k \in 0..N |-> g[k]]
      OBVIOUS
    <3> HIDE DEF D
    <3>2. QED BY <3>1
  <2> HIDE DEF g
  <2>3. f = g
    BY <2>1, <2>2
  <2>4. QED BY Zenon, <2>3 DEF g
<1>15. Backs(back)
  <2> HIDE DEF Backs
  <2>1. QED BY <1>14
<1> HIDE DEF back
<1>16. back[0] = base /\ \A k \in 1..N : back[k] = BackOf(back[k - 1])
  <2>1. \A k \in 0..N : back[k] = IF k = 0 THEN base ELSE BackOf(back[k - 1])
    BY <1>15
  <2> HIDE DEF base, BackOf, Backs
  <2>2. 0 \in 0..N /\ \A k \in 1..N : k \in 0..N /\ k # 0
    BY <1>1
  <2>3. QED BY <2>1, <2>2
<1> HIDE DEF Backs, BackOf
\* After k steps.
<1> DEFINE Went(k, b) == /\ back[k] = GapAt(s, b)
                         /\ \A x \in (b + 1)..j : Key[s[x]] > Key[n]
                         /\ b = 0 \/ ~(Key[n] < Key[s[b]]) \/ b <= j - k
           T == {k \in Nat : k <= N => \E b \in 0..j : Went(k, b)}
<1>17. 0 \in T
  <2>1. back[0] = GapAt(s, j)
    BY <1>4, <1>16
  <2>2. Went(0, j)
    BY <1>1, <2>1
  <2> HIDE DEF Went
  <2>3. j \in 0..j
    BY <1>1
  <2>4. QED BY <2>2, <2>3
<1>18. ASSUME NEW k \in Nat, k \in T PROVE k + 1 \in T
  <2>1. SUFFICES ASSUME k + 1 <= N PROVE \E b \in 0..j : Went(k + 1, b)
    OBVIOUS
  <2>2. PICK b \in 0..j : Went(k, b)
    <3>1. k <= N
      BY <1>1, <2>1
    <3> HIDE DEF Went
    <3>2. QED BY <1>18, <3>1
  <2>3. k + 1 \in 1..N /\ (k + 1) - 1 = k /\ b \in 0..Len(s)
    BY <1>1, <2>1
  <2>4. back[k + 1] = BackOf(GapAt(s, b))
    BY <1>16, <2>2, <2>3
  <2>5. CASE b = 0 \/ ~(Key[n] < Key[s[b]])
    <3>1. back[k + 1] = GapAt(s, b)
      BY <1>8, <2>3, <2>4, <2>5
    <3>2. Went(k + 1, b)
      BY <2>2, <2>5, <3>1
    <3> HIDE DEF Went
    <3>3. QED BY <3>2
  <2>6. CASE b # 0 /\ Key[n] < Key[s[b]]
    <3>1. b \in 1..Len(s) /\ b - 1 \in 0..j
      BY <1>1, <2>3, <2>6
    <3>2. back[k + 1] = GapAt(s, b - 1)
      BY <1>7, <2>4, <2>6, <3>1
    <3>3. b <= j - k
      BY <2>2, <2>6
    <3>4. b - 1 <= j - (k + 1)
      BY <1>1, <3>1, <3>3
    <3>5. ASSUME NEW x \in ((b - 1) + 1)..j PROVE Key[s[x]] > Key[n]
      <4>1. CASE x = b
        <5>1. Key[s[b]] \in Int
          BY <1>1, <3>1
        <5>2. QED BY <1>1, <2>6, <4>1, <5>1
      <4>2. CASE x # b
        <5>1. x \in (b + 1)..j
          BY <1>1, <3>1, <4>2
        <5>2. QED BY <2>2, <5>1
      <4>3. QED BY <4>1, <4>2
    <3>6. Went(k + 1, b - 1)
      BY <3>2, <3>4, <3>5
    <3> HIDE DEF Went
    <3>7. QED BY <3>1, <3>6
  <2>7. QED BY <2>5, <2>6
<1>19. PICK b \in 0..j : Went(N, b)
  <2>1. Nat \subseteq T
    <3> HIDE DEF T
    <3>1. QED BY <1>17, <1>18, NatIn
  <2> HIDE DEF Went
  <2>2. QED BY <1>1, <2>1
<1>20. /\ b \in 0..Len(s) /\ back[N] = GapAt(s, b)
       /\ \A x \in (b + 1)..j : Key[s[x]] > Key[n]
       /\ b # 0 => ~(Key[n] < Key[s[b]])
  <2>1. b \in 0..Len(s)
    BY <1>1
  <2>2. b # 0 => ~(b <= j - N)
    BY <1>1
  <2>3. QED BY <1>19, <2>1, <2>2
<1> HIDE DEF Went, T
<1>21. PICK e \in [0..N -> D] : Iterates(e, back[N], forthStep, N)
  <2>1. N \in Nat /\ forthStep \in [D -> D] /\ back[N] \in D
    BY <1>1, <1>5, <1>11, <1>20
  <2> HIDE DEF D
  <2>2. QED BY <2>1, Iteration
<1>22. Forwards(e)
  <2> DEFINE g == [k \in 0..N |-> IF k = 0 THEN back[N] ELSE ForthOf(e[k - 1])]
  <2>1. ASSUME NEW k \in 0..N PROVE e[k] = g[k]
    <3> HIDE DEF ForthOf
    <3>1. CASE k = 0
      BY <1>21, <3>1 DEF Iterates
    <3>2. CASE k # 0
      <4>1. k \in 1..N /\ k - 1 \in 0..N
        BY <1>1, <3>2
      <4>2. e[k] = forthStep[e[k - 1]] /\ e[k - 1] \in D
        BY <1>21, <4>1 DEF Iterates
      <4> HIDE DEF D
      <4>3. QED BY <1>11, <3>2, <4>2
    <3>3. QED BY <3>1, <3>2
  <2>2. e = [k \in 0..N |-> e[k]] /\ g = [k \in 0..N |-> g[k]]
    <3>1. g = [k \in 0..N |-> g[k]]
      OBVIOUS
    <3> HIDE DEF D
    <3>2. QED BY <3>1
  <2> HIDE DEF g
  <2>3. e = g
    BY <2>1, <2>2
  <2>4. QED BY Zenon, <2>3 DEF g
<1>23. Forwards(forward)
  <2> HIDE DEF Forwards
  <2>1. QED BY <1>22
<1> HIDE DEF forward
<1>24. forward[0] = back[N] /\ \A k \in 1..N : forward[k] = ForthOf(forward[k - 1])
  <2>1. \A k \in 0..N : forward[k] = IF k = 0 THEN back[N] ELSE ForthOf(forward[k - 1])
    BY <1>23
  <2> HIDE DEF ForthOf, Forwards
  <2>2. 0 \in 0..N /\ \A k \in 1..N : k \in 0..N /\ k # 0
    BY <1>1
  <2>3. QED BY <2>1, <2>2
<1> HIDE DEF Forwards, ForthOf
<1> DEFINE Came(k, c) == /\ forward[k] = GapAt(s, c)
                         /\ c = b \/ Key[n] >= Key[s[c]]
                         /\ c = Len(s) \/ ~(Key[n] >= Key[s[c + 1]]) \/ c >= b + k
           U == {k \in Nat : k <= N => \E c \in b..Len(s) : Came(k, c)}
<1>25. 0 \in U
  <2>1. b \in b..Len(s) /\ b >= b + 0
    BY <1>20
  <2>2. Came(0, b)
    BY <1>20, <1>24, <2>1
  <2> HIDE DEF Came
  <2>3. QED BY <2>1, <2>2
<1>26. ASSUME NEW k \in Nat, k \in U PROVE k + 1 \in U
  <2>1. SUFFICES ASSUME k + 1 <= N PROVE \E c \in b..Len(s) : Came(k + 1, c)
    OBVIOUS
  <2>2. PICK c \in b..Len(s) : Came(k, c)
    <3>1. k <= N
      BY <1>1, <2>1
    <3> HIDE DEF Came
    <3>2. QED BY <1>26, <3>1
  <2>3. k + 1 \in 1..N /\ (k + 1) - 1 = k /\ c \in 0..Len(s)
    BY <1>1, <1>20, <2>1
  <2>4. forward[k + 1] = ForthOf(GapAt(s, c))
    BY <1>24, <2>2, <2>3
  <2>5. CASE c = Len(s) \/ ~(Key[n] >= Key[s[c + 1]])
    <3>1. forward[k + 1] = GapAt(s, c)
      BY <1>10, <2>3, <2>4, <2>5
    <3>2. Came(k + 1, c)
      BY <2>2, <2>5, <3>1
    <3> HIDE DEF Came
    <3>3. QED BY <3>2
  <2>6. CASE c # Len(s) /\ Key[n] >= Key[s[c + 1]]
    <3>1. c \in 0..(Len(s) - 1) /\ c + 1 \in b..Len(s)
      BY <1>1, <1>20, <2>3, <2>6
    <3>2. forward[k + 1] = GapAt(s, c + 1)
      BY <1>9, <2>4, <2>6, <3>1
    <3>3. c >= b + k
      BY <2>2, <2>6
    <3>4. c + 1 >= b + (k + 1)
      BY <1>20, <2>3, <3>3
    <3>5. Came(k + 1, c + 1)
      BY <2>6, <3>2, <3>4
    <3> HIDE DEF Came
    <3>6. QED BY <3>1, <3>5
  <2>7. QED BY <2>5, <2>6
<1>27. PICK c \in b..Len(s) : Came(N, c)
  <2>1. Nat \subseteq U
    <3> HIDE DEF U
    <3>1. QED BY <1>25, <1>26, NatIn
  <2> HIDE DEF Came
  <2>2. QED BY <1>1, <2>1
<1>28. c \in 0..Len(s) /\ forward[N] = GapAt(s, c)
  BY <1>20, <1>27
<1>29. c # 0 => Key[s[c]] <= Key[n]
  <2>1. SUFFICES ASSUME c # 0 PROVE Key[s[c]] <= Key[n]
    OBVIOUS
  <2>2. c \in 1..Len(s)
    BY <1>28, <2>1
  <2>3. Key[s[c]] \in Int
    BY <1>1, <2>2
  <2>4. ~(Key[n] < Key[s[c]])
    BY <1>1, <1>20, <1>27, <2>1, <2>3
  <2>5. QED BY <1>1, <2>3, <2>4
<1>30. c # Len(s) => Key[s[c + 1]] > Key[n]
  <2>1. SUFFICES ASSUME c # Len(s) PROVE Key[s[c + 1]] > Key[n]
    OBVIOUS
  <2>2. c + 1 \in 1..Len(s)
    BY <1>28, <2>1
  <2>3. Key[s[c + 1]] \in Int
    BY <1>1, <2>2
  <2>4. ~(c >= b + N)
    BY <1>1, <1>20, <1>28, <2>1
  <2>5. ~(Key[n] >= Key[s[c + 1]])
    BY <1>27, <2>1, <2>4
  <2>6. QED BY <1>1, <2>3, <2>5
<1>31. \A x \in (c + 1)..j : Key[s[x]] > Key[n]
  <2>1. \A x \in (c + 1)..j : x \in (b + 1)..j
    BY <1>20, <1>27
  <2>2. QED BY <1>20, <2>1
<1>32. QED BY <1>2, <1>28, <1>29, <1>30, <1>31
-----------------------------------------------------------------------------
(* Lists *)

\* h holds the list s and nothing else.
Holds(h, s) ==
    /\ h \in Links /\ NodeList(s) /\ Chained(h, s)
    /\ \A n \in Nodes \ ToSet(s) : Alone(h, n)

Represents(h, first, last, count, s) ==
    Holds(h, s) /\ first = FirstIn(s) /\ last = LastIn(s) /\ count = Len(s)

IInv == Represents(links, pFirst, pLast, nNodes, Chain)

LEMMA RepresentsChain ==
    ASSUME NEW s, Represents(links, pFirst, pLast, nNodes, s), NodesAssumption
    PROVE  Chain = s /\ IInv
<1>1. NodeList(s) /\ Chained(links, s) /\ pFirst = FirstIn(s)
  BY DEF Represents, Holds
<1>2. Chain = s
  BY <1>1, ChainIs DEF Chain
<1>3. QED BY <1>2 DEF IInv

\* A node in no list is a chain of its own, and detaching it does nothing.
LEMMA Lone ==
    ASSUME NEW h \in Links, NEW n \in Nodes, Alone(h, n), NodesAssumption
    PROVE  /\ FirstOf(h, n) = n /\ LastOf(h, n) = n
           /\ DetachEx(h, n) = h /\ Both(h, n, Null, Null) = h
<1>1. h \in Links /\ Alone(h, n)
  OBVIOUS
<1>2. DetachEx(h, n) = h
  BY <1>1, DetachAlone
<1>3. Both(h, n, Null, Null) = h
  <2>1. Null \in Pointer
    BY DEF Pointer
  <2>2. /\ Both(h, n, Null, Null) \in Links
        /\ \A m \in Nodes : /\ Both(h, n, Null, Null).next[m] = h.next[m]
                            /\ Both(h, n, Null, Null).prev[m] = h.prev[m]
    BY <1>1, <2>1, BothFacts DEF Alone
  <2>3. QED BY <1>1, <2>2, LinksFacts
<1> DEFINE t == <<n>>
<1>4. t \in Seq(Nodes) /\ Len(t) = 1 /\ t[1] = n /\ t # <<>>
  OBVIOUS
<1> HIDE DEF t
<1>5. NodeList(t)
  BY <1>4 DEF NodeList, NoDup
<1>6. Chained(h, t)
  BY <1>1, <1>4 DEF Chained, Alone
<1>7. 1 \in 1..Len(t) /\ FirstIn(t) = n /\ LastIn(t) = n
  BY <1>4 DEF FirstIn, LastIn
<1>8. FirstOf(h, t[1]) = FirstIn(t) /\ LastOf(h, t[1]) = LastIn(t)
  BY <1>1, <1>5, <1>6, <1>7, EndsOf
<1>9. QED BY <1>1, <1>2, <1>3, <1>4, <1>7, <1>8

LEMMA Loose ==
    ASSUME NEW h, NEW s, Holds(h, s), NEW n \in Nodes \ ToSet(s), NodesAssumption
    PROVE  /\ FirstOf(h, n) = n /\ LastOf(h, n) = n
           /\ DetachEx(h, n) = h /\ Both(h, n, Null, Null) = h
           /\ h \in Links /\ Alone(h, n)
<1>1. h \in Links /\ Alone(h, n)
  BY DEF Holds
<1>2. QED BY <1>1, Lone

\* IsMember() tells the members.
LEMMA MemberFacts ==
    ASSUME IInv, NEW m \in Nodes, NodesAssumption
    PROVE  IsMember(m) <=> m \in ToSet(Chain)
<1> DEFINE s == Chain
<1>1. Holds(links, s) /\ NodeList(s) /\ Chained(links, s) /\ links \in Links /\ pFirst = FirstIn(s)
  BY DEF IInv, Represents, Holds
<1> HIDE DEF s
<1>2. ASSUME m \in ToSet(s) PROVE FirstOf(links, m) = pFirst
  <2>1. PICK k \in 1..Len(s) : s[k] = m
    BY <1>1, <1>2, NodeListFacts
  <2>2. FirstOf(links, s[k]) = FirstIn(s)
    BY <1>1, EndsOf
  <2>3. QED BY <1>1, <2>1, <2>2
<1>3. ASSUME m \notin ToSet(s) PROVE FirstOf(links, m) # pFirst
  <2>1. FirstOf(links, m) = m
    BY <1>1, <1>3, Loose
  <2>2. Null \notin Nodes
    BY Zenon DEF NodesAssumption
  <2>3. s # <<>> => s[1] \in ToSet(s)
    <3>1. s # <<>> => 1 \in 1..Len(s)
      BY <1>1 DEF NodeList
    <3>2. QED BY <1>1, <3>1, NodeListFacts
  <2>4. QED BY <1>1, <1>3, <2>1, <2>2, <2>3 DEF FirstIn
<1>4. QED BY <1>2, <1>3 DEF IsMember, s

\* A list with a node more, linked in where the list has a gap.
LEMMA Linked ==
    ASSUME NEW h, NEW s, Holds(h, s), NEW n \in Nodes \ ToSet(s), NEW k \in 1..(Len(s) + 1),
           NodesAssumption
    PROVE  \E g :
             /\ g = Insert(h, n, NodeAt(s, k - 1), NodeAt(s, k))
             /\ Represents(g, FirstOf(g, n), LastOf(g, n), Len(s) + 1, InsertAt(s, k, n))
             /\ FirstOf(g, n) = IF k = 1 THEN n ELSE FirstIn(s)
<1> DEFINE g == Insert(h, n, NodeAt(s, k - 1), NodeAt(s, k))
           r == InsertAt(s, k, n)
<1>1. /\ h \in Links /\ NodeList(s) /\ Chained(h, s) /\ Len(s) \in Nat /\ s \in Seq(Nodes)
      /\ n \in Nodes /\ n \notin ToSet(s)
  BY NodeListFacts DEF Holds, NodeList
<1>2. /\ NodeList(r) /\ ToSet(r) = ToSet(s) \cup {n} /\ Len(r) = Len(s) + 1
      /\ g \in Links /\ Chained(g, r)
      /\ \A m \in Nodes \ (ToSet(s) \cup {n}) : g.next[m] = h.next[m] /\ g.prev[m] = h.prev[m]
  <2>1. Gains(h, s, k, n)
    BY <1>1, InsertChained
  <2>2. QED BY Zenon, <2>1 DEF Gains
<1>3. /\ r[k] = n /\ k \in 1..Len(r)
      /\ k # 1 => r[1] = s[1] /\ s # <<>>
  <2>1. k # 1 => 1 \in 1..(k - 1)
    OBVIOUS
  <2>2. s \in Seq(Nodes) /\ n \in Nodes
    BY <1>1
  <2>3. /\ r \in Seq(Nodes) /\ Len(r) = Len(s) + 1 /\ r[k] = n
        /\ \A i \in 1..(k - 1) : r[i] = s[i]
        /\ \A i \in (k + 1)..(Len(s) + 1) : r[i] = s[i - 1]
    <3>1. InsertedAt(Nodes, s, k, n)
      BY <2>2, InsertAtHolds
    <3>2. QED BY Zenon, <3>1 DEF InsertedAt
  <2> HIDE DEF r
  <2>4. QED BY <1>1, <1>2, <2>1, <2>3
<1> HIDE DEF g, r
<1>4. \A m \in Nodes \ ToSet(r) : Alone(g, m)
  BY <1>2 DEF Holds, Alone
<1>5. FirstOf(g, n) = FirstIn(r) /\ LastOf(g, n) = LastIn(r)
  <2>1. FirstOf(g, r[k]) = FirstIn(r) /\ LastOf(g, r[k]) = LastIn(r)
    BY <1>2, <1>3, EndsOf
  <2>2. QED BY <1>3, <2>1
<1>6. Represents(g, FirstOf(g, n), LastOf(g, n), Len(s) + 1, r)
  BY <1>2, <1>4, <1>5 DEF Represents, Holds
<1>7. FirstIn(r) = IF k = 1 THEN n ELSE FirstIn(s)
  <2>1. r # <<>>
    BY <1>1, <1>2
  <2>2. QED BY <1>3, <2>1 DEF FirstIn
<1>8. QED BY <1>5, <1>6, <1>7 DEF g, r

\* A list with a node less.
LEMMA Unlinked ==
    ASSUME NEW h, NEW s, Holds(h, s), NEW k \in 1..Len(s), NodesAssumption
    PROVE  /\ Holds(DetachEx(h, s[k]), RemoveAt(s, k))
           /\ AfterDetach(h, s[k]) = FirstIn(RemoveAt(s, k))
           /\ Len(RemoveAt(s, k)) = Len(s) - 1
           /\ ToSet(RemoveAt(s, k)) = ToSet(s) \ {s[k]}
<1> DEFINE n == s[k]
           g == DetachEx(h, n)
           r == RemoveAt(s, k)
<1>1. /\ h \in Links /\ NodeList(s) /\ Chained(h, s) /\ Len(s) \in Nat /\ s \in Seq(Nodes)
      /\ n \in Nodes /\ Null \notin Nodes
      /\ \A i \in 1..Len(s) : s[i] \in Nodes
      /\ \A m \in Nodes \ ToSet(s) : Alone(h, m)
  <2>1. Null \notin Nodes
    BY Zenon DEF NodesAssumption
  <2>2. QED BY <2>1, NodeListFacts DEF Holds, NodeList
<1>2. /\ NodeList(r) /\ ToSet(r) = ToSet(s) \ {n} /\ Len(r) = Len(s) - 1
      /\ Chained(g, r) /\ Alone(g, n)
      /\ \A m \in Nodes \ ToSet(s) : g.next[m] = h.next[m] /\ g.prev[m] = h.prev[m]
  BY <1>1, DetachChained
<1>3. g \in Links
  BY <1>1, DetachFacts
<1>4. /\ \A i \in 1..(k - 1) : r[i] = s[i]
      /\ \A i \in k..(Len(s) - 1) : r[i] = s[i + 1]
  BY <1>1, RemoveAtFacts
<1>5. /\ h.next[n] = IF k = Len(s) THEN Null ELSE s[k + 1]
      /\ h.prev[n] = IF k = 1 THEN Null ELSE s[k - 1]
  BY <1>1 DEF Chained
<1> DEFINE nb == IF h.next[n] # Null THEN h.next[n] ELSE h.prev[n]
<1>6. AfterDetach(h, n) = IF nb = Null THEN Null ELSE FirstOf(g, nb)
  BY DEF AfterDetach
<1> HIDE DEF g, r, n
<1>7. \A m \in Nodes \ ToSet(r) : Alone(g, m)
  BY <1>1, <1>2 DEF Alone
<1>8. Holds(g, r)
  BY <1>2, <1>3, <1>7 DEF Holds
<1>9. AfterDetach(h, n) = FirstIn(r)
  <2>1. CASE k # Len(s)
    <3>1. k \in 1..Len(r) /\ k \in k..(Len(s) - 1) /\ k + 1 \in 1..Len(s)
      BY <1>1, <1>2, <2>1
    <3>2. nb = s[k + 1] /\ nb # Null /\ r[k] = nb
      BY <1>1, <1>4, <1>5, <2>1, <3>1
    <3> HIDE DEF nb
    <3>3. FirstOf(g, r[k]) = FirstIn(r)
      BY <1>2, <1>3, <3>1, EndsOf
    <3>4. QED BY <1>6, <3>2, <3>3
  <2>2. CASE k = Len(s) /\ k # 1
    <3>1. k - 1 \in 1..Len(r) /\ k - 1 \in 1..(k - 1) /\ k - 1 \in 1..Len(s)
      BY <1>1, <1>2, <2>2
    <3>2. nb = s[k - 1] /\ nb # Null /\ r[k - 1] = nb
      BY <1>1, <1>4, <1>5, <2>2, <3>1
    <3> HIDE DEF nb
    <3>3. FirstOf(g, r[k - 1]) = FirstIn(r)
      BY <1>2, <1>3, <3>1, EndsOf
    <3>4. QED BY <1>6, <3>2, <3>3
  <2>3. CASE k = Len(s) /\ k = 1
    <3>1. nb = Null
      BY <1>5, <2>3
    <3>2. r = <<>>
      BY <1>2, <2>3 DEF NodeList
    <3>3. QED BY <1>6, <3>1, <3>2 DEF FirstIn
  <2>4. QED BY <2>1, <2>2, <2>3
<1>10. QED BY <1>2, <1>8, <1>9 DEF g, r, n

LEMMA HoldsFacts ==
    ASSUME NEW h, NEW s, Holds(h, s), NodesAssumption
    PROVE  /\ h \in Links /\ NodeList(s) /\ Chained(h, s) /\ Len(s) \in Nat /\ s \in Seq(Nodes)
           /\ Null \notin Nodes /\ ToSet(s) \subseteq Nodes
           /\ \A k \in 1..Len(s) : s[k] \in Nodes /\ s[k] \in ToSet(s)
           /\ \A k, l \in 1..Len(s) : s[k] = s[l] => k = l
           /\ \A m \in ToSet(s) : \E k \in 1..Len(s) : s[k] = m
           /\ (s = <<>> <=> Len(s) = 0)
<1>1. Null \notin Nodes
  BY Zenon DEF NodesAssumption
<1>2. NodeList(s) /\ s \in Seq(Nodes) /\ h \in Links /\ Chained(h, s)
  BY DEF Holds, NodeList
<1>3. s = <<>> <=> Len(s) = 0
  BY <1>2
<1>4. QED BY <1>1, <1>2, <1>3, NodeListFacts

\* What the insertions make of a node next to m, or next to nothing.
LEMMA BesideFacts ==
    ASSUME NEW h, NEW s, Holds(h, s), NEW n \in Nodes \ ToSet(s), NodesAssumption
    PROVE  /\ \A c \in 0..Len(s) : (c = 0 => s = <<>>) =>
                InsertAfterNode(h, n, NodeAt(s, c)) = Insert(h, n, NodeAt(s, c), NodeAt(s, c + 1))
           /\ \A c \in 1..(Len(s) + 1) : (c = Len(s) + 1 => s = <<>>) =>
                InsertBeforeNode(h, n, NodeAt(s, c)) = Insert(h, n, NodeAt(s, c - 1), NodeAt(s, c))
           /\ Insert(h, n, Null, Null) = h
<1>1. DetachEx(h, n) = h /\ h \in Links /\ Alone(h, n) /\ n \in Nodes
  BY Loose
<1>2. /\ NodeList(s) /\ Chained(h, s) /\ Len(s) \in Nat /\ Null \notin Nodes
      /\ (s = <<>> <=> Len(s) = 0) /\ NodeAt(s, 0) = Null /\ NodeAt(s, Len(s) + 1) = Null
      /\ \A c \in 1..Len(s) : /\ NodeAt(s, c) = s[c] /\ s[c] \in Nodes
                              /\ h.next[s[c]] = NodeAt(s, c + 1)
                              /\ h.prev[s[c]] = NodeAt(s, c - 1)
  <2>1. NodeList(s) /\ Chained(h, s) /\ (s = <<>> <=> Len(s) = 0)
    BY HoldsFacts
  <2>2. QED BY <1>1, <2>1, NodeAtFacts
<1>3. Insert(h, n, Null, Null) = h
  <2>1. Null \in Pointer
    BY DEF Pointer
  <2>2. /\ Insert(h, n, Null, Null) \in Links
        /\ \A m \in Nodes :
             /\ Insert(h, n, Null, Null).next[m] = IF m = n THEN Null ELSE IF m = Null THEN n ELSE h.next[m]
             /\ Insert(h, n, Null, Null).prev[m] = IF m = n THEN Null ELSE IF m = Null THEN n ELSE h.prev[m]
    BY <1>1, <2>1, InsertFacts
  <2>3. \A m \in Nodes : /\ Insert(h, n, Null, Null).next[m] = h.next[m]
                         /\ Insert(h, n, Null, Null).prev[m] = h.prev[m]
    BY <1>1, <1>2, <2>2 DEF Alone
  <2>4. QED BY <1>1, <2>2, <2>3, LinksFacts
<1>4. ASSUME NEW c \in 0..Len(s), c = 0 => s = <<>>
      PROVE  InsertAfterNode(h, n, NodeAt(s, c)) = Insert(h, n, NodeAt(s, c), NodeAt(s, c + 1))
  <2>1. CASE c = 0
    <3>1. NodeAt(s, c) = Null /\ NodeAt(s, c + 1) = Null
      BY <1>2, <1>4, <2>1
    <3>2. QED BY <1>1, <1>3, <3>1 DEF InsertAfterNode
  <2>2. CASE c # 0
    <3>1. c \in 1..Len(s)
      BY <1>2, <2>2
    <3>2. NodeAt(s, c) # Null /\ h.next[NodeAt(s, c)] = NodeAt(s, c + 1)
      BY <1>2, <3>1
    <3>3. QED BY <1>1, <3>2 DEF InsertAfterNode
  <2>3. QED BY <2>1, <2>2
<1>5. ASSUME NEW c \in 1..(Len(s) + 1), c = Len(s) + 1 => s = <<>>
      PROVE  InsertBeforeNode(h, n, NodeAt(s, c)) = Insert(h, n, NodeAt(s, c - 1), NodeAt(s, c))
  <2>1. CASE c = Len(s) + 1
    <3>1. Len(s) = 0 /\ c - 1 = 0
      BY <1>2, <1>5, <2>1
    <3>2. NodeAt(s, c) = Null /\ NodeAt(s, c - 1) = Null
      BY <1>2, <2>1, <3>1
    <3>3. QED BY <1>1, <1>3, <3>2 DEF InsertBeforeNode
  <2>2. CASE c # Len(s) + 1
    <3>1. c \in 1..Len(s)
      BY <1>2, <2>2
    <3>2. NodeAt(s, c) # Null /\ h.prev[NodeAt(s, c)] = NodeAt(s, c - 1)
      BY <1>2, <3>1
    <3>3. QED BY <1>1, <3>2 DEF InsertBeforeNode
  <2>3. QED BY <2>1, <2>2
<1>6. QED BY <1>3, <1>4, <1>5

\* Behind the last node that is not above n, as far as the search has looked.
Fits(s, n, j, c) ==
    /\ c # 0 => Key[s[c]] <= Key[n]
    /\ c # Len(s) => Key[s[c + 1]] > Key[n]
    /\ \A x \in (c + 1)..j : Key[s[x]] > Key[n]

AttachesAt(h, s, n, j, c) ==
    /\ Fits(s, n, j, c)
    /\ AttachEx(h, n, FirstIn(s), NodeAt(s, j)) =
         [links |-> Insert(h, n, NodeAt(s, c), NodeAt(s, c + 1)),
          first |-> IF c = 0 THEN n ELSE FirstIn(s)]

LEMMA AttachFacts ==
    ASSUME NEW h \in Links, NEW s, NodeList(s), Chained(h, s), NEW n \in Nodes, Alone(h, n),
           NEW j \in 0..Len(s), j = 0 => s = <<>>, NodesAssumption
    PROVE  \E c \in 0..Len(s) : AttachesAt(h, s, n, j, c)
<1>1. h \in Links /\ NodeList(s) /\ Chained(h, s) /\ n \in Nodes
  OBVIOUS
<1>2. PICK c \in 0..Len(s) : /\ Gap(h, n, NodeAt(s, j)) = GapAt(s, c)
                             /\ Fits(s, n, j, c)
  BY <1>1, GapFacts DEF Fits
<1>3. [h EXCEPT !.prev[n] = Null, !.next[n] = Null] = h
  BY Lone DEF Both
<1>4. NodeAt(s, c) = Null <=> c = 0
  <2>1. NodeAt(s, 0) = Null /\ Null \notin Nodes /\ Len(s) \in Nat
    BY <1>1, NodeAtFacts
  <2>2. \A i \in 1..Len(s) : NodeAt(s, i) = s[i] /\ s[i] \in Nodes
    BY <1>1, NodeAtFacts
  <2>3. c # 0 => c \in 1..Len(s)
    BY <2>1
  <2>4. QED BY <2>1, <2>2, <2>3
<1> DEFINE a == NodeAt(s, c)
           b == NodeAt(s, c + 1)
           gap == Gap(h, n, NodeAt(s, j))
<1>5. gap[1] = a /\ gap[2] = b
  BY <1>2 DEF GapAt
<1>6. AttachEx(h, n, FirstIn(s), NodeAt(s, j)) =
        [links |-> Insert(h, n, gap[1], gap[2]),
         first |-> IF gap[1] = Null THEN n ELSE FirstIn(s)]
  BY <1>3 DEF AttachEx
<1> HIDE DEF a, b, gap
<1>7. (IF gap[1] = Null THEN n ELSE FirstIn(s)) = IF c = 0 THEN n ELSE FirstIn(s)
  BY <1>4, <1>5 DEF a
<1>8. AttachEx(h, n, FirstIn(s), NodeAt(s, j)) =
        [links |-> Insert(h, n, a, b), first |-> IF c = 0 THEN n ELSE FirstIn(s)]
  BY <1>5, <1>6, <1>7
<1>9. QED BY <1>2, <1>8 DEF a, b, AttachesAt

-----------------------------------------------------------------------------
(* Insertions *)

LEMMA Becomes ==
    ASSUME NEW s, Represents(links', pFirst', pLast', nNodes', s), NodesAssumption
    PROVE  Chain' = s /\ IInv'
<1>1. NodeList(s) /\ Chained(links', s) /\ pFirst' = FirstIn(s)
  BY DEF Represents, Holds
<1>2. ChainFrom(links', FirstIn(s)) = s
  BY <1>1, ChainIs
<1>3. Chain' = s
  BY <1>1, <1>2 DEF Chain
<1>4. QED BY <1>3 DEF IInv

LEMMA Standing ==
    ASSUME IInv, NodesAssumption
    PROVE  /\ Holds(links, Chain) /\ Len(Chain) \in Nat /\ Chain \in Seq(Nodes)
           /\ pFirst = FirstIn(Chain) /\ pLast = LastIn(Chain) /\ nNodes = Len(Chain)
           /\ pFirst = NodeAt(Chain, 1) /\ pLast = NodeAt(Chain, Len(Chain))
           /\ (Chain = <<>> <=> Len(Chain) = 0)
           /\ Null \notin Nodes
<1>1. /\ Holds(links, Chain) /\ pFirst = FirstIn(Chain) /\ pLast = LastIn(Chain)
      /\ nNodes = Len(Chain)
  BY DEF IInv, Represents
<1>2. /\ Len(Chain) \in Nat /\ Chain \in Seq(Nodes) /\ Null \notin Nodes
      /\ (Chain = <<>> <=> Len(Chain) = 0)
  BY <1>1, HoldsFacts
<1>3. NodeAt(Chain, 1) = FirstIn(Chain) /\ NodeAt(Chain, Len(Chain)) = LastIn(Chain)
  <2>1. 1 # 0 /\ (1 = Len(Chain) + 1 <=> Len(Chain) = 0) /\ Len(Chain) # Len(Chain) + 1
    BY <1>2
  <2>2. QED BY <1>2, <2>1 DEF NodeAt, FirstIn, LastIn
<1>4. QED BY <1>1, <1>2, <1>3

LEMMA InsertedFacts ==
    ASSUME IInv, NodesAssumption, NEW n \in Free, NEW k \in 1..(Len(Chain) + 1), NEW first,
           first = FirstOf(Insert(links, n, NodeAt(Chain, k - 1), NodeAt(Chain, k)), n)
             \/ first = IF k = 1 THEN n ELSE FirstIn(Chain),
           Inserted(Insert(links, n, NodeAt(Chain, k - 1), NodeAt(Chain, k)), n, first)
    PROVE  IInv' /\ Chain' = InsertAt(Chain, k, n)
<1>1. Holds(links, Chain) /\ n \in Nodes \ ToSet(Chain) /\ nNodes = Len(Chain)
  BY Standing DEF Free
<1>2. PICK g : /\ g = Insert(links, n, NodeAt(Chain, k - 1), NodeAt(Chain, k))
               /\ Represents(g, FirstOf(g, n), LastOf(g, n), Len(Chain) + 1, InsertAt(Chain, k, n))
               /\ FirstOf(g, n) = IF k = 1 THEN n ELSE FirstIn(Chain)
  BY <1>1, Linked
<1>3. links' = g /\ pFirst' = FirstOf(g, n) /\ pLast' = LastOf(g, n) /\ nNodes' = Len(Chain) + 1
  BY <1>1, <1>2 DEF Inserted
<1>4. PICK r : r = InsertAt(Chain, k, n)
  OBVIOUS
<1>5. Represents(links', pFirst', pLast', nNodes', r)
  BY <1>2, <1>3, <1>4
<1>6. QED BY <1>4, <1>5, Becomes

\* The operators on sequences are the same ones under the promise's name.
LEMMA SameOperators ==
    ASSUME NEW s, NEW k, NEW n
    PROVE  /\ Promise!ToSet(s) = ToSet(s)
           /\ Promise!InsertAt(s, k, n) = InsertAt(s, k, n)
           /\ Promise!RemoveAt(s, k) = RemoveAt(s, k)
           /\ Promise!ReplaceAt(s, k, n) = ReplaceAt(s, k, n)
           /\ Promise!Front(s) = Front(s) /\ Promise!Last(s) = Last(s)
BY Zenon DEF ToSet, InsertAt, RemoveAt, ReplaceAt, Front, Last, Promise!ToSet, Promise!InsertAt,
             Promise!RemoveAt, Promise!ReplaceAt, Promise!Front, Promise!Last

LEMMA SameCardinality == Promise!Cardinality(Nodes) = Cardinality(Nodes)
BY Zenon DEF Cardinality, Promise!Cardinality

LEMMA SameMembers == Promise!Members = ToSet(Chain) /\ Promise!Free = Free
BY Zenon, SameOperators DEF Promise!Members, Promise!Free, Free

LEMMA AtFacts ==
    ASSUME IInv, NodesAssumption, NEW m \in ToSet(Chain)
    PROVE  /\ Promise!At(m) \in 1..Len(Chain) /\ Chain[Promise!At(m)] = m
           /\ NodeAt(Chain, Promise!At(m)) = m
<1>1. Holds(links, Chain)
  BY Standing
<1>2. \E k \in 1..Len(Chain) : Chain[k] = m
  BY <1>1, HoldsFacts
<1>3. Promise!At(m) \in 1..Len(Chain) /\ Chain[Promise!At(m)] = m
  BY <1>2 DEF Promise!At
<1>4. \A k \in 1..Len(Chain) : NodeAt(Chain, k) = Chain[k]
  BY SMTT(30), <1>1, HoldsFacts, NodeAtFacts
<1>5. QED BY <1>3, <1>4

LEMMA Ends ==
    ASSUME NEW s \in Seq(Nodes), NEW n \in Nodes
    PROVE  InsertAt(s, Len(s) + 1, n) = Append(s, n) /\ InsertAt(s, 1, n) = <<n>> \o s
<1>1. Len(s) \in Nat
  OBVIOUS
<1>2. InsertAt(s, Len(s) + 1, n) = Append(s, n)
  <2>1. PICK k \in 1..(Len(s) + 1) : k = Len(s) + 1
    BY <1>1
  <2> DEFINE l == InsertAt(s, k, n)
             r == Append(s, n)
  <2>2. /\ l \in Seq(Nodes) /\ Len(l) = Len(s) + 1 /\ l[k] = n
        /\ \A i \in 1..(k - 1) : l[i] = s[i]
        /\ \A i \in (k + 1)..(Len(s) + 1) : l[i] = s[i - 1]
    BY InsertAtFacts
  <2>3. r \in Seq(Nodes) /\ Len(r) = Len(s) + 1 /\ r[k] = n /\ \A i \in 1..Len(s) : r[i] = s[i]
    BY <1>1, <2>1
  <2> HIDE DEF l, r
  <2>4. \A i \in 1..Len(l) : l[i] = r[i]
    BY <1>1, <2>1, <2>2, <2>3
  <2>5. l = r
    BY <2>2, <2>3, <2>4, SeqEqual
  <2>6. QED BY <2>1, <2>5 DEF l, r
<1>3. InsertAt(s, 1, n) = <<n>> \o s
  <2> DEFINE l == InsertAt(s, 1, n)
             r == <<n>> \o s
  <2>1. 1 \in 1..(Len(s) + 1)
    BY <1>1
  <2>2. /\ l \in Seq(Nodes) /\ Len(l) = Len(s) + 1 /\ l[1] = n
        /\ \A i \in 1..(1 - 1) : l[i] = s[i]
        /\ \A i \in (1 + 1)..(Len(s) + 1) : l[i] = s[i - 1]
    BY <2>1, InsertAtFacts
  <2>3. <<n>> \in Seq(Nodes) /\ Len(<<n>>) = 1 /\ <<n>>[1] = n
    OBVIOUS
  <2>4. /\ r \in Seq(Nodes) /\ Len(r) = 1 + Len(s)
        /\ \A i \in 1..(1 + Len(s)) : r[i] = IF i <= 1 THEN <<n>>[i] ELSE s[i - 1]
    BY <2>3, ConcatProperties
  <2> HIDE DEF l, r
  <2>5. ASSUME NEW i \in 1..Len(l) PROVE l[i] = r[i]
    <3>1. CASE i = 1
      BY <1>1, <2>2, <2>3, <2>4, <3>1
    <3>2. CASE i # 1
      <4>1. i \in (1 + 1)..(Len(s) + 1) /\ i \in 1..(1 + Len(s)) /\ ~(i <= 1)
        BY <1>1, <2>2, <3>2
      <4>2. QED BY <2>2, <2>4, <4>1
    <3>3. QED BY <3>1, <3>2
  <2>6. l = r
    BY <1>1, <2>2, <2>4, <2>5, SeqEqual
  <2>7. QED BY <2>6 DEF l, r
<1>4. QED BY <1>2, <1>3

LEMMA FreeFacts ==
    ASSUME IInv, NodesAssumption, NEW n \in Free
    PROVE  /\ n \in Nodes /\ n \notin ToSet(Chain) /\ n \in Promise!Free
           /\ DetachEx(links, n) = links
<1>1. n \in Nodes \ ToSet(Chain) /\ n \in Promise!Free
  BY SameMembers DEF Free
<1>2. QED BY <1>1, Standing, Loose

LEMMA PushStep ==
    ASSUME IInv, NodesAssumption, NEW n \in Free, Push(n)
    PROVE  IInv' /\ Promise!Next
<1> DEFINE s == Chain
           k == Len(s) + 1
           g == Insert(links, n, NodeAt(s, k - 1), NodeAt(s, k))
<1>1. /\ Holds(links, s) /\ Len(s) \in Nat /\ pLast = NodeAt(s, Len(s)) /\ s \in Seq(Nodes)
      /\ (s = <<>> <=> Len(s) = 0) /\ n \in Nodes \ ToSet(s)
  BY Standing, FreeFacts
<1>2. k \in 1..(Len(s) + 1) /\ k - 1 = Len(s) /\ Len(s) \in 0..Len(s) /\ (Len(s) = 0 => s = <<>>)
  BY <1>1
<1>3. InsertAfterNode(links, n, pLast) = g
  BY <1>1, <1>2, BesideFacts
<1> HIDE DEF g
<1>4. Inserted(g, n, FirstOf(g, n)) /\ op' = <<"Push", n>>
  BY <1>3, FreeFacts DEF Push
<1>5. IInv' /\ Chain' = InsertAt(Chain, k, n)
  <2> HIDE DEF k
  <2>1. QED BY <1>2, <1>4, InsertedFacts DEF g
<1>6. Chain' = Append(Chain, n)
  BY <1>1, <1>5, Ends
<1>7. Promise!Insertions(n)
  BY <1>4, <1>6 DEF Promise!Insertions
<1>8. QED BY <1>5, <1>7, FreeFacts DEF Promise!Next

LEMMA StartPushStep ==
    ASSUME IInv, NodesAssumption, NEW n \in Free, StartPush(n)
    PROVE  IInv' /\ Promise!Next
<1> DEFINE s == Chain
           k == 1
           g == Insert(links, n, NodeAt(s, k - 1), NodeAt(s, k))
<1>1. /\ Holds(links, s) /\ Len(s) \in Nat /\ pFirst = NodeAt(s, 1) /\ s \in Seq(Nodes)
      /\ (s = <<>> <=> Len(s) = 0) /\ n \in Nodes \ ToSet(s)
  BY Standing, FreeFacts
<1>2. k \in 1..(Len(s) + 1) /\ (k = Len(s) + 1 => s = <<>>)
  BY <1>1
<1>3. InsertBeforeNode(links, n, pFirst) = g
  BY <1>1, <1>2, BesideFacts
<1> HIDE DEF g
<1>4. Inserted(g, n, FirstOf(g, n)) /\ op' = <<"StartPush", n>>
  BY <1>3, FreeFacts DEF StartPush
<1>5. IInv' /\ Chain' = InsertAt(Chain, k, n)
  <2> HIDE DEF k
  <2>1. QED BY <1>2, <1>4, InsertedFacts DEF g
<1>6. Chain' = <<n>> \o Chain
  BY <1>1, <1>5, Ends
<1>7. Promise!Insertions(n)
  BY <1>4, <1>6 DEF Promise!Insertions
<1>8. QED BY <1>5, <1>7, FreeFacts DEF Promise!Next

LEMMA RefusedFacts ==
    ASSUME IInv, NEW call, Refused(call)
    PROVE  IInv' /\ Chain' = Chain /\ op' = call
BY DEF Refused, IInv, Chain

LEMMA InsertBeforeStep ==
    ASSUME IInv, NodesAssumption, NEW n \in Free, NEW m \in Nodes \ {n}, InsertBefore(n, m)
    PROVE  IInv' /\ Promise!Next
<1>1. n \in Nodes \ ToSet(Chain) /\ m \in Nodes /\ DetachEx(links, n) = links /\ n \in Promise!Free
  BY FreeFacts
<1>2. IsMember(m) <=> m \in Promise!Members
  BY MemberFacts, SameMembers
<1>3. CASE IsMember(m)
  <2> DEFINE k == Promise!At(m)
             g == Insert(links, n, NodeAt(Chain, k - 1), NodeAt(Chain, k))
  <2>1. k \in 1..Len(Chain) /\ NodeAt(Chain, k) = m
    BY <1>2, <1>3, AtFacts, SameMembers
  <2>2. Holds(links, Chain) /\ Len(Chain) \in Nat
    BY Standing
  <2>3. k \in 1..(Len(Chain) + 1) /\ (k = Len(Chain) + 1 => Chain = <<>>)
    BY <2>1, <2>2
  <2> HIDE DEF k
  <2>4. InsertBeforeNode(links, n, m) = g
    BY <1>1, <2>1, <2>2, <2>3, BesideFacts
  <2> HIDE DEF g
  <2>5. Inserted(g, n, FirstOf(g, n)) /\ op' = <<"InsertBefore", n, m, TRUE>>
    BY <1>1, <1>3, <2>4 DEF InsertBefore
  <2>6. IInv' /\ Chain' = InsertAt(Chain, k, n)
    BY <2>3, <2>5, InsertedFacts DEF g
  <2>7. Promise!Beside("InsertBefore", n, m, Promise!InsertAt(Chain, Promise!At(m), n))
    BY <1>2, <1>3, <2>5, <2>6, SameOperators DEF Promise!Beside, k
  <2>8. Promise!Insertions(n)
    BY <2>7 DEF Promise!Insertions
  <2>9. QED BY <1>1, <2>6, <2>8 DEF Promise!Next
<1>4. CASE ~IsMember(m)
  <2>1. IInv' /\ Chain' = Chain /\ op' = <<"InsertBefore", n, m, FALSE>>
    BY <1>4, RefusedFacts DEF InsertBefore
  <2>2. Promise!Beside("InsertBefore", n, m, Promise!InsertAt(Chain, Promise!At(m), n))
    BY <1>2, <1>4, <2>1 DEF Promise!Beside
  <2>3. Promise!Insertions(n)
    BY <2>2 DEF Promise!Insertions
  <2>4. QED BY <1>1, <2>1, <2>3 DEF Promise!Next
<1>5. QED BY <1>3, <1>4

LEMMA InsertAfterStep ==
    ASSUME IInv, NodesAssumption, NEW n \in Free, NEW m \in Nodes \ {n}, InsertAfter(n, m)
    PROVE  IInv' /\ Promise!Next
<1>1. n \in Nodes \ ToSet(Chain) /\ m \in Nodes /\ DetachEx(links, n) = links /\ n \in Promise!Free
  BY FreeFacts
<1>2. IsMember(m) <=> m \in Promise!Members
  BY MemberFacts, SameMembers
<1>3. CASE IsMember(m)
  <2> DEFINE c == Promise!At(m)
             k == c + 1
             g == Insert(links, n, NodeAt(Chain, k - 1), NodeAt(Chain, k))
  <2>1. c \in 1..Len(Chain) /\ NodeAt(Chain, c) = m
    BY <1>2, <1>3, AtFacts, SameMembers
  <2>2. Holds(links, Chain) /\ Len(Chain) \in Nat
    BY Standing
  <2>3. k \in 1..(Len(Chain) + 1) /\ k - 1 = c /\ c \in 0..Len(Chain) /\ (c = 0 => Chain = <<>>)
    BY <2>1, <2>2
  <2> HIDE DEF c
  <2>4. InsertAfterNode(links, n, m) = g
    BY <1>1, <2>1, <2>2, <2>3, BesideFacts
  <2> HIDE DEF g
  <2>5. Inserted(g, n, FirstOf(g, n)) /\ op' = <<"InsertAfter", n, m, TRUE>>
    BY <1>1, <1>3, <2>4 DEF InsertAfter
  <2> HIDE DEF k
  <2>6. IInv' /\ Chain' = InsertAt(Chain, k, n)
    BY <2>3, <2>5, InsertedFacts DEF g
  <2>7. Promise!Beside("InsertAfter", n, m, Promise!InsertAt(Chain, Promise!At(m) + 1, n))
    BY <1>2, <1>3, <2>5, <2>6, SameOperators DEF Promise!Beside, k, c
  <2>8. Promise!Insertions(n)
    BY <2>7 DEF Promise!Insertions
  <2>9. QED BY <1>1, <2>6, <2>8 DEF Promise!Next
<1>4. CASE ~IsMember(m)
  <2>1. IInv' /\ Chain' = Chain /\ op' = <<"InsertAfter", n, m, FALSE>>
    BY <1>4, RefusedFacts DEF InsertAfter
  <2>2. Promise!Beside("InsertAfter", n, m, Promise!InsertAt(Chain, Promise!At(m) + 1, n))
    BY <1>2, <1>4, <2>1 DEF Promise!Beside
  <2>3. Promise!Insertions(n)
    BY <2>2 DEF Promise!Insertions
  <2>4. QED BY <1>1, <2>1, <2>3 DEF Promise!Next
<1>5. QED BY <1>3, <1>4

\* Where every key behind is greater is where the promise puts a node.
LEMMA OrderedPlaceIs ==
    ASSUME IInv, NodesAssumption, NEW n \in Nodes, NEW c \in 0..Len(Chain),
           Fits(Chain, n, Len(Chain), c)
    PROVE  Promise!OrderedPlace(n) = c + 1
<1> DEFINE s == Chain
           S == {0} \cup {k \in 1..Len(s) : Key[s[k]] <= Key[n]}
<1>1. /\ Len(s) \in Nat /\ Key[n] \in Int
      /\ \A k \in 1..Len(s) : Key[s[k]] \in Int
  <2>1. Key \in [Nodes -> Int]
    BY Zenon DEF NodesAssumption
  <2>2. Holds(links, s)
    BY Standing
  <2>3. QED BY <2>1, <2>2, HoldsFacts
<1>2. c \in S
  BY <1>1 DEF Fits
<1>3. ASSUME NEW k \in S PROVE c >= k
  <2>1. k # 0 /\ ~(c >= k) => k \in (c + 1)..Len(s) /\ k \in 1..Len(s)
    BY <1>1
  <2>2. \A x \in (c + 1)..Len(s) : Key[s[x]] > Key[n]
    BY DEF Fits
  <2>3. k = 0 \/ Key[s[k]] <= Key[n]
    OBVIOUS
  <2> HIDE DEF S
  <2>4. CASE k # 0 /\ ~(c >= k)
    <3>1. Key[s[k]] > Key[n] /\ Key[s[k]] <= Key[n] /\ Key[s[k]] \in Int
      BY <1>1, <2>1, <2>2, <2>3, <2>4
    <3>2. QED BY <1>1, <3>1
  <2>5. QED BY <1>1, <2>4
<1>4. S \subseteq Int
  BY <1>1
<1>5. Promise!OrderedPlace(n) = 1 + Promise!Max(S)
  BY DEF Promise!OrderedPlace
<1> HIDE DEF S
<1>6. Promise!Max(S) \in S /\ \A k \in S : Promise!Max(S) >= k
  BY <1>2, <1>3 DEF Promise!Max
<1>7. Promise!Max(S) = c
  <2>1. Promise!Max(S) >= c /\ c >= Promise!Max(S) /\ Promise!Max(S) \in Int
    BY <1>2, <1>3, <1>4, <1>6
  <2>2. QED BY <2>1
<1>8. QED BY <1>5, <1>7

LEMMA AddStep ==
    ASSUME IInv, NodesAssumption, NEW n \in Free, Add(n)
    PROVE  IInv' /\ Promise!Insertions(n)
<1> DEFINE s == Chain
           j == Len(s)
           r == Attach(DetachEx(links, n), n, pLast)
           Joined(c) == Insert(links, n, NodeAt(s, c), NodeAt(s, c + 1))
<1>1. /\ Holds(links, s) /\ Len(s) \in Nat /\ pLast = NodeAt(s, j) /\ pLast = LastIn(s)
      /\ (s = <<>> <=> Len(s) = 0) /\ n \in Nodes \ ToSet(s) /\ Null \notin Nodes
      /\ DetachEx(links, n) = links
  BY Standing, FreeFacts
<1>2. j \in 0..Len(s) /\ (j = 0 => s = <<>>)
  BY <1>1
<1>3. PICK c \in 0..Len(s) :
        Fits(s, n, j, c) /\ r.links = Joined(c) /\ r.first = IF c = 0 THEN n ELSE FirstIn(s)
  <2>1. CASE s = <<>>
    <3>1. pLast = Null /\ NodeAt(s, 0) = Null /\ NodeAt(s, 0 + 1) = Null /\ Len(s) = 0
      BY <1>1, <2>1 DEF LastIn, NodeAt
    <3>2. Insert(links, n, Null, Null) = links
      BY <1>1, BesideFacts
    <3>3. r = [links |-> links, first |-> n]
      BY <1>1, <3>1 DEF Attach
    <3>4. Fits(s, n, j, 0)
      BY <3>1 DEF Fits
    <3>5. 0 \in 0..Len(s) /\ r.links = Joined(0) /\ r.first = n
      BY <3>1, <3>2, <3>3
    <3> HIDE DEF r, Joined
    <3>6. QED BY <3>4, <3>5
  <2>2. CASE s # <<>>
    <3>1. Len(s) \in 1..Len(s) /\ pLast = s[Len(s)] /\ pLast \in Nodes
      BY <1>1, <2>2, HoldsFacts DEF LastIn
    <3>2. FirstOf(links, pLast) = FirstIn(s)
      BY <1>1, <3>1, HoldsFacts, EndsOf
    <3>3. r = AttachEx(links, n, FirstIn(s), NodeAt(s, j))
      BY <1>1, <3>1, <3>2 DEF Attach
    <3>4. PICK c \in 0..Len(s) :
            /\ Fits(s, n, j, c)
            /\ AttachEx(links, n, FirstIn(s), NodeAt(s, j)) =
                 [links |-> Joined(c), first |-> IF c = 0 THEN n ELSE FirstIn(s)]
      <4>1. /\ j \in 0..Len(s) /\ (j = 0 => s = <<>>) /\ links \in Links /\ NodeList(s)
            /\ Chained(links, s) /\ n \in Nodes /\ Alone(links, n)
        BY <1>1, <1>2, HoldsFacts, Loose
      <4>2. \E c \in 0..Len(s) : AttachesAt(links, s, n, j, c)
        BY <4>1, AttachFacts
      <4>3. QED BY <4>2 DEF AttachesAt
    <3>5. r.links = Joined(c) /\ r.first = IF c = 0 THEN n ELSE FirstIn(s)
      BY <3>3, <3>4
    <3>6. QED BY <3>4, <3>5
  <2>3. QED BY <2>1, <2>2
<1>4. Inserted(r.links, n, r.first) /\ op' = <<"Add", n>>
  BY DEF Add
<1>5. PICK k \in 1..(Len(s) + 1) : k = c + 1 /\ k - 1 = c
  BY <1>1
<1>6. /\ Inserted(Insert(links, n, NodeAt(s, k - 1), NodeAt(s, k)), n, r.first)
      /\ r.first = IF k = 1 THEN n ELSE FirstIn(s)
  <2> HIDE DEF r
  <2>1. k = 1 <=> c = 0
    BY <1>5
  <2>2. QED BY <1>3, <1>4, <1>5, <2>1
<1> HIDE DEF r
<1>7. IInv' /\ Chain' = InsertAt(Chain, k, n)
  BY <1>6, InsertedFacts
<1>8. Promise!OrderedPlace(n) = k
  BY <1>1, <1>3, <1>5, OrderedPlaceIs
<1>9. Chain' = Promise!InsertAt(Chain, Promise!OrderedPlace(n), n)
  BY <1>7, <1>8, SameOperators
<1>10. QED BY <1>4, <1>7, <1>9 DEF Promise!Insertions

\* r is s with n at k.
Longer(r, s, k, n) ==
    /\ r \in Seq(Nodes) /\ Len(r) = Len(s) + 1 /\ r[k] = n
    /\ \A i \in 1..(k - 1) : r[i] = s[i]
    /\ \A i \in (k + 1)..(Len(s) + 1) : r[i] = s[i - 1]

LEMMA LongerIs ==
    ASSUME NEW s \in Seq(Nodes), NEW k \in 1..(Len(s) + 1), NEW n \in Nodes
    PROVE  Longer(InsertAt(s, k, n), s, k, n)
BY InsertAtFacts DEF Longer

\* A node put in behind another one that then goes takes its place.
LEMMA Replaced ==
    ASSUME NEW s \in Seq(Nodes), NEW c \in 1..Len(s), NEW n \in Nodes
    PROVE  RemoveAt(InsertAt(s, c + 1, n), c) = ReplaceAt(s, c, n)
<1>1. PICK k \in 1..(Len(s) + 1) : k = c + 1 /\ k - 1 = c
  OBVIOUS
<1> DEFINE r == InsertAt(s, k, n)
           t == RemoveAt(r, c)
           u == ReplaceAt(s, c, n)
<1>2. /\ r \in Seq(Nodes) /\ Len(r) = Len(s) + 1 /\ r[k] = n
      /\ \A i \in 1..(k - 1) : r[i] = s[i]
      /\ \A i \in (k + 1)..(Len(s) + 1) : r[i] = s[i - 1]
  <2>2. Longer(r, s, k, n)
    BY LongerIs
  <2> HIDE DEF r
  <2>3. QED BY <2>2 DEF Longer
<1>3. u \in Seq(Nodes) /\ Len(u) = Len(s) /\ \A i \in 1..Len(s) : u[i] = IF i = c THEN n ELSE s[i]
  BY DEF ReplaceAt
<1> HIDE DEF r, u
<1>4. c \in 1..Len(r)
  BY <1>2
<1>5. /\ t \in Seq(Nodes) /\ Len(t) = Len(r) - 1
      /\ \A i \in 1..(c - 1) : t[i] = r[i]
      /\ \A i \in c..(Len(r) - 1) : t[i] = r[i + 1]
  BY <1>2, <1>4, RemoveAtFacts
<1> HIDE DEF t
<1>6. Len(s) \in Nat /\ c \in Nat /\ 1 <= c /\ c <= Len(s)
  OBVIOUS
<1>7. ASSUME NEW i \in 1..Len(s) PROVE t[i] = u[i]
  <2>1. CASE i < c
    <3>1. i \in 1..(c - 1) /\ i \in 1..(k - 1)
      BY <1>1, <1>6, <2>1
    <3>2. QED BY <1>2, <1>3, <1>5, <2>1, <3>1
  <2>2. CASE i = c
    <3>1. c \in c..(Len(r) - 1)
      BY <1>2, <1>6
    <3>2. QED BY <1>1, <1>2, <1>3, <1>5, <2>2, <3>1
  <2>3. CASE i > c
    <3>1. i \in c..(Len(r) - 1) /\ i + 1 \in (k + 1)..(Len(s) + 1) /\ (i + 1) - 1 = i /\ i # c
      BY <1>1, <1>2, <1>6, <2>3
    <3>2. t[i] = r[i + 1] /\ r[i + 1] = s[(i + 1) - 1]
      BY <1>2, <1>5, <3>1
    <3>3. QED BY <1>3, <3>1, <3>2
  <2>4. QED BY <1>6, <2>1, <2>2, <2>3
<1>8. t = u
  <2>1. Len(t) = Len(u)
    BY <1>2, <1>3, <1>5, <1>6
  <2>2. \A i \in 1..Len(t) : t[i] = u[i]
    BY <1>3, <1>7, <2>1
  <2>3. QED BY <1>3, <1>5, <2>1, <2>2, SeqEqual
<1>9. QED BY <1>1, <1>8 DEF t, u, r

LEMMA ReplaceStep ==
    ASSUME IInv, NodesAssumption, NEW n \in Free, NEW m \in Nodes \ {n}, Replace(n, m)
    PROVE  IInv' /\ Promise!Next
<1>1. n \in Nodes \ ToSet(Chain) /\ m \in Nodes /\ DetachEx(links, n) = links /\ n \in Promise!Free
  BY FreeFacts
<1>2. IsMember(m) <=> m \in Promise!Members
  BY MemberFacts, SameMembers
<1>3. CASE IsMember(m)
  <2> DEFINE s == Chain
  <2>1. PICK c : c \in 1..Len(s) /\ c = Promise!At(m) /\ s[c] = m /\ NodeAt(s, c) = m
    BY <1>2, <1>3, AtFacts, SameMembers
  <2>2. Holds(links, s) /\ Len(s) \in Nat /\ s \in Seq(Nodes) /\ nNodes = Len(s)
    BY Standing
  <2>3. c \in 0..Len(s) /\ (c = 0 => s = <<>>)
    BY <2>1, <2>2
  <2>4. PICK k \in 1..(Len(s) + 1) : k = c + 1 /\ k - 1 = c
    BY SMTT(30), <2>1, <2>2
  <2>5. PICK g : /\ g = Insert(links, n, NodeAt(s, k - 1), NodeAt(s, k))
                 /\ Represents(g, FirstOf(g, n), LastOf(g, n), Len(s) + 1, InsertAt(s, k, n))
    BY <1>1, <2>2, Linked
  <2>6. InsertAfterNode(links, n, m) = g
    BY <1>1, <2>1, <2>2, <2>3, <2>4, <2>5, BesideFacts
  <2> DEFINE r == InsertAt(s, k, n)
             t == RemoveAt(r, c)
  <2>7. Holds(g, r) /\ c \in 1..Len(r) /\ r[c] = m /\ r[k] = n /\ Len(r) = Len(s) + 1
    <3>1. /\ r \in Seq(Nodes) /\ Len(r) = Len(s) + 1 /\ r[k] = n
          /\ \A i \in 1..(k - 1) : r[i] = s[i]
          /\ \A i \in (k + 1)..(Len(s) + 1) : r[i] = s[i - 1]
      <4>1. s \in Seq(Nodes) /\ n \in Nodes /\ k \in 1..(Len(s) + 1)
        BY <1>1, <2>2
      <4>2. Longer(r, s, k, n)
        BY <4>1, LongerIs
      <4> HIDE DEF r
      <4>3. QED BY <4>2 DEF Longer
    <3> HIDE DEF r
    <3>2. c \in 1..(k - 1) /\ c \in 1..Len(r)
      BY <2>1, <2>2, <2>4, <3>1
    <3>3. Holds(g, r)
      BY <2>5 DEF Represents, r
    <3>4. QED BY <2>1, <3>1, <3>2, <3>3
  <2>8. t = ReplaceAt(s, c, n)
    BY <1>1, <2>1, <2>2, <2>4, Replaced
  <2> HIDE DEF r
  <2>9. Holds(DetachEx(g, m), t) /\ AfterDetach(g, m) = FirstIn(t) /\ Len(t) = Len(s)
    <3>1. /\ Holds(DetachEx(g, r[c]), RemoveAt(r, c))
          /\ AfterDetach(g, r[c]) = FirstIn(RemoveAt(r, c))
          /\ Len(RemoveAt(r, c)) = Len(r) - 1
      BY <2>7, Unlinked
    <3>2. QED BY <2>2, <2>7, <3>1
  <2> HIDE DEF t
  <2>10. t[c] = n /\ c \in 1..Len(t)
    BY <2>1, <2>2, <2>8, <2>9 DEF ReplaceAt
  <2>11. LastOf(DetachEx(g, m), n) = LastIn(t)
    <3>1. DetachEx(g, m) \in Links /\ NodeList(t) /\ Chained(DetachEx(g, m), t)
      BY <2>9 DEF Holds
    <3>2. LastOf(DetachEx(g, m), t[c]) = LastIn(t)
      BY <2>10, <3>1, EndsOf
    <3>3. QED BY <2>10, <3>2
  <2>12. /\ links' = DetachEx(g, m) /\ pFirst' = AfterDetach(g, m)
         /\ pLast' = LastOf(DetachEx(g, m), n) /\ nNodes' = nNodes
         /\ op' = <<"Replace", n, m, TRUE>>
    BY <1>1, <1>3, <2>6 DEF Replace
  <2>13. Represents(links', pFirst', pLast', nNodes', t)
    BY <2>2, <2>9, <2>11, <2>12 DEF Represents
  <2>14. IInv' /\ Chain' = t
    BY <2>13, Becomes
  <2>15. Promise!Beside("Replace", n, m, Promise!ReplaceAt(Chain, Promise!At(m), n))
    BY <1>2, <1>3, <2>1, <2>8, <2>12, <2>14, SameOperators DEF Promise!Beside
  <2>16. Promise!Insertions(n)
    BY <2>15 DEF Promise!Insertions
  <2>17. QED BY <1>1, <2>14, <2>16 DEF Promise!Next
<1>4. CASE ~IsMember(m)
  <2>1. IInv' /\ Chain' = Chain /\ op' = <<"Replace", n, m, FALSE>>
    BY <1>4, RefusedFacts DEF Replace
  <2>2. Promise!Beside("Replace", n, m, Promise!ReplaceAt(Chain, Promise!At(m), n))
    BY <1>2, <1>4, <2>1 DEF Promise!Beside
  <2>3. Promise!Insertions(n)
    BY <2>2 DEF Promise!Insertions
  <2>4. QED BY <1>1, <2>1, <2>3 DEF Promise!Next
<1>5. QED BY <1>3, <1>4

-----------------------------------------------------------------------------
(* Removals *)

\* pLast as Remove() computes it.
LEMMA LastAfter ==
    ASSUME NEW h, NEW s, Holds(h, s), NodesAssumption
    PROVE  /\ (IF FirstIn(s) = Null THEN Null ELSE LastOf(h, FirstIn(s))) = LastIn(s)
           /\ FirstIn(s) = Null <=> s = <<>>
<1>1. /\ h \in Links /\ NodeList(s) /\ Chained(h, s) /\ Null \notin Nodes /\ Len(s) \in Nat
      /\ (s = <<>> <=> Len(s) = 0)
      /\ \A k \in 1..Len(s) : s[k] \in Nodes
  BY HoldsFacts
<1>2. CASE s = <<>>
  BY <1>2 DEF FirstIn, LastIn
<1>3. CASE s # <<>>
  <2>1. 1 \in 1..Len(s)
    BY <1>1, <1>3
  <2>2. LastOf(h, s[1]) = LastIn(s) /\ s[1] # Null
    BY <1>1, <2>1, EndsOf
  <2>3. QED BY <1>3, <2>2 DEF FirstIn
<1>4. QED BY <1>2, <1>3

LEMMA AtTheEnds ==
    ASSUME NEW s \in Seq(Nodes), s # <<>>
    PROVE  RemoveAt(s, 1) = Tail(s) /\ RemoveAt(s, Len(s)) = Front(s)
<1>1. Len(s) \in Nat /\ Len(s) # 0
  OBVIOUS
<1>2. RemoveAt(s, 1) = Tail(s)
  <2> DEFINE l == RemoveAt(s, 1)
             r == Tail(s)
  <2>1. 1 \in 1..Len(s)
    BY <1>1
  <2>2. /\ l \in Seq(Nodes) /\ Len(l) = Len(s) - 1
        /\ \A i \in 1..(Len(s) - 1) : l[i] = s[i + 1]
    BY <2>1, RemoveAtFacts
  <2>3. /\ r \in Seq(Nodes) /\ Len(r) = Len(s) - 1
        /\ \A i \in 1..(Len(s) - 1) : r[i] = s[i + 1]
    BY <1>1
  <2> HIDE DEF l, r
  <2>4. l = r
    BY <2>2, <2>3, SeqEqual
  <2>5. QED BY <2>4 DEF l, r
<1>3. RemoveAt(s, Len(s)) = Front(s)
  <2>1. PICK k \in 1..Len(s) : k = Len(s)
    BY <1>1
  <2> DEFINE l == RemoveAt(s, k)
             r == Front(s)
  <2>2. /\ l \in Seq(Nodes) /\ Len(l) = Len(s) - 1
        /\ \A i \in 1..(k - 1) : l[i] = s[i]
    BY RemoveAtFacts
  <2>3. /\ r \in Seq(Nodes) /\ Len(r) = Len(s) - 1
        /\ \A i \in 1..(Len(s) - 1) : r[i] = s[i]
    <3>1. r = SubSeq(s, 1, Len(s) - 1)
      BY DEF Front
    <3>2. /\ SubSeq(s, 1, Len(s) - 1) \in Seq(Nodes) /\ Len(SubSeq(s, 1, Len(s) - 1)) = Len(s) - 1
          /\ \A i \in 1..(Len(s) - 1) : SubSeq(s, 1, Len(s) - 1)[i] = s[i]
      <4>1. PICK m \in 0..Len(s) : m = Len(s) - 1
        <5>1. Len(s) - 1 \in 0..Len(s)
          BY <1>1
        <5>2. QED BY <5>1
      <4>2. SubSeq(s, 1, m) \in Seq(Nodes) /\ Len(SubSeq(s, 1, m)) = m
        BY <1>1
      <4>3. \A i \in 1..m : SubSeq(s, 1, m)[i] = s[i]
        BY <1>1
      <4>4. QED BY <4>1, <4>2, <4>3
    <3>3. QED BY <3>1, <3>2
  <2> HIDE DEF l, r
  <2>4. l = r
    BY <2>1, <2>2, <2>3, SeqEqual
  <2>5. QED BY <2>1, <2>4 DEF l, r
<1>4. QED BY <1>2, <1>3

LEMMA RemovedFacts ==
    ASSUME IInv, NodesAssumption, NEW k \in 1..Len(Chain), Removed(Chain[k])
    PROVE  IInv' /\ Chain' = RemoveAt(Chain, k)
<1> DEFINE h == DetachEx(links, Chain[k])
<1>1. PICK r : r = RemoveAt(Chain, k)
  OBVIOUS
<1>2. Holds(links, Chain) /\ nNodes = Len(Chain)
  BY Standing
<1>3. Holds(h, r) /\ AfterDetach(links, Chain[k]) = FirstIn(r) /\ Len(r) = Len(Chain) - 1
  BY <1>1, <1>2, Unlinked
<1>4. /\ links' = h /\ pFirst' = FirstIn(r) /\ nNodes' = Len(Chain) - 1
      /\ pLast' = IF FirstIn(r) = Null THEN Null ELSE LastOf(h, FirstIn(r))
  BY <1>2, <1>3 DEF Removed
<1> HIDE DEF h
<1>5. pLast' = LastIn(r)
  BY <1>3, <1>4, LastAfter
<1>6. Represents(links', pFirst', pLast', nNodes', r)
  BY <1>3, <1>4, <1>5 DEF Represents
<1>7. QED BY <1>1, <1>6, Becomes

LEMMA RemoveNodeStep ==
    ASSUME IInv, NodesAssumption, NEW m \in Nodes, RemoveNode(m)
    PROVE  IInv' /\ Promise!Removals
<1>1. IsMember(m) <=> m \in Promise!Members
  BY MemberFacts, SameMembers
<1>2. CASE IsMember(m)
  <2>1. PICK c \in 1..Len(Chain) : c = Promise!At(m) /\ Chain[c] = m
    BY <1>1, <1>2, AtFacts, SameMembers
  <2>2. Removed(Chain[c]) /\ op' = <<"Remove", m, TRUE>>
    BY <1>2, <2>1 DEF RemoveNode
  <2>3. IInv' /\ Chain' = RemoveAt(Chain, c)
    BY <2>2, RemovedFacts
  <2>4. Chain' = Promise!RemoveAt(Chain, Promise!At(m))
    BY <2>1, <2>3, SameOperators
  <2>5. QED BY <1>1, <1>2, <2>2, <2>3, <2>4 DEF Promise!Removals
<1>3. CASE ~IsMember(m)
  <2>1. IInv' /\ Chain' = Chain /\ op' = <<"Remove", m, FALSE>>
    BY <1>3, RefusedFacts DEF RemoveNode
  <2>2. QED BY <1>1, <1>3, <2>1 DEF Promise!Removals
<1>4. QED BY <1>2, <1>3

LEMMA EndPopStep ==
    ASSUME IInv, NodesAssumption, EndPop
    PROVE  IInv' /\ Promise!Removals
<1>1. /\ Holds(links, Chain) /\ Len(Chain) \in Nat /\ Chain \in Seq(Nodes)
      /\ pLast = LastIn(Chain) /\ Null \notin Nodes /\ (Chain = <<>> <=> Len(Chain) = 0)
      /\ \A i \in 1..Len(Chain) : Chain[i] \in Nodes
  BY Standing, HoldsFacts
<1>2. CASE Chain = <<>>
  <2>1. pLast = Null
    BY <1>1, <1>2 DEF LastIn
  <2>2. IInv' /\ Chain' = Chain /\ op' = <<"EndPop", Null>>
    BY <2>1, RefusedFacts DEF EndPop
  <2>3. QED BY <1>2, <2>2 DEF Promise!Removals
<1>3. CASE Chain # <<>>
  <2>1. PICK k \in 1..Len(Chain) : k = Len(Chain)
    BY <1>1, <1>3
  <2>2. pLast = Chain[k] /\ pLast # Null
    BY <1>1, <1>3, <2>1 DEF LastIn
  <2>3. Removed(Chain[k]) /\ op' = <<"EndPop", Chain[k]>>
    BY <2>2 DEF EndPop
  <2>4. IInv' /\ Chain' = RemoveAt(Chain, k)
    BY <2>3, RemovedFacts
  <2>5. Chain' = Promise!Front(Chain)
    BY <1>1, <1>3, <2>1, <2>4, AtTheEnds, SameOperators
  <2>6. op' = <<"EndPop", Promise!Last(Chain)>>
    BY <2>1, <2>3 DEF Promise!Last
  <2>7. QED BY <1>3, <2>4, <2>5, <2>6 DEF Promise!Removals
<1>4. QED BY <1>2, <1>3

LEMMA PopStep ==
    ASSUME IInv, NodesAssumption, Pop
    PROVE  IInv' /\ Promise!Removals
<1>1. /\ Holds(links, Chain) /\ Len(Chain) \in Nat /\ Chain \in Seq(Nodes)
      /\ pFirst = FirstIn(Chain) /\ pLast = LastIn(Chain) /\ nNodes = Len(Chain)
      /\ Null \notin Nodes /\ (Chain = <<>> <=> Len(Chain) = 0)
      /\ \A i \in 1..Len(Chain) : Chain[i] \in Nodes
  BY Standing, HoldsFacts
<1>2. CASE Chain = <<>>
  <2>1. pFirst = Null
    BY <1>1, <1>2 DEF FirstIn
  <2>2. IInv' /\ Chain' = Chain /\ op' = <<"Pop", Null>>
    BY <2>1, RefusedFacts DEF Pop
  <2>3. QED BY <1>2, <2>2 DEF Promise!Removals
<1>3. CASE Chain # <<>>
  <2>1. PICK k \in 1..Len(Chain) : k = 1
    BY <1>1, <1>3
  <2>2. pFirst = Chain[k] /\ pFirst # Null
    BY <1>1, <1>3, <2>1 DEF FirstIn
  <2>3. PICK r : r = RemoveAt(Chain, k)
    OBVIOUS
  <2>4. /\ Holds(DetachEx(links, Chain[k]), r) /\ Len(r) = Len(Chain) - 1
        /\ AfterDetach(links, Chain[k]) = FirstIn(r)
    <3>1. Holds(links, Chain)
      BY <1>1
    <3>2. QED BY <2>3, <3>1, Unlinked
  <2>5. /\ links' = DetachEx(links, Chain[k]) /\ pFirst' = FirstIn(r)
        /\ pLast' = IF FirstIn(r) = Null THEN Null ELSE pLast
        /\ nNodes' = Len(Chain) - 1 /\ op' = <<"Pop", Chain[k]>>
    BY <1>1, <2>2, <2>4 DEF Pop, PopLastKept
  <2>6. r = Tail(Chain)
    BY <1>1, <1>3, <2>1, <2>3, AtTheEnds
  <2>7. pLast' = LastIn(r)
    <3>1. FirstIn(r) = Null <=> r = <<>>
      BY <2>4, LastAfter
    <3>2. CASE r = <<>>
      BY <2>5, <3>1, <3>2 DEF LastIn
    <3>3. CASE r # <<>>
      <4>1. r \in Seq(Nodes) /\ Len(r) # 0 /\ Len(r) \in Nat
        BY <2>4, <3>3, HoldsFacts
      <4>2. Len(r) \in 1..(Len(Chain) - 1) /\ Len(r) + 1 = Len(Chain)
        BY <1>1, <2>4, <4>1
      <4>3. \A i \in 1..(Len(Chain) - 1) : r[i] = Chain[i + 1]
        BY <1>1, <1>3, <2>6
      <4>4. r[Len(r)] = Chain[Len(Chain)]
        BY <4>2, <4>3
      <4>5. QED BY <1>1, <1>3, <2>5, <3>1, <3>3, <4>4 DEF LastIn
    <3>4. QED BY <3>2, <3>3
  <2>8. Represents(links', pFirst', pLast', nNodes', r)
    BY <2>4, <2>5, <2>7 DEF Represents
  <2>9. IInv' /\ Chain' = Tail(Chain)
    BY <2>6, <2>8, Becomes
  <2>10. op' = <<"Pop", Head(Chain)>>
    BY <1>1, <1>3, <2>1, <2>5
  <2>11. QED BY <1>3, <2>9, <2>10 DEF Promise!Removals
<1>4. QED BY <1>2, <1>3

LEMMA RemoveAllStep ==
    ASSUME IInv, NodesAssumption, RemoveAll
    PROVE  IInv' /\ Promise!Removals
<1> DEFINE h == [dir \in {"prev", "next"} |->
                   [n \in Nodes |-> IF n \in ToSet(Chain) THEN Null ELSE links[dir][n]]]
<1>1. Holds(links, Chain) /\ links \in Links
  BY Standing, HoldsFacts
<1>2. \A n \in Nodes \ ToSet(Chain) : links.next[n] = Null /\ links.prev[n] = Null
  BY <1>1 DEF Holds, Alone
<1>3. \A n \in Nodes : h.next[n] = Null /\ h.prev[n] = Null
  BY <1>2
<1>4. h \in Links
  <2>1. \A n \in Nodes : links["next"][n] \in Pointer /\ links["prev"][n] \in Pointer
    BY <1>1 DEF Links
  <2>2. QED BY <2>1 DEF Links, Pointer
<1>5. /\ links' = h /\ pFirst' = Null /\ pLast' = Null /\ nNodes' = 0
      /\ op' = <<"RemoveAll">>
  BY DEF RemoveAll
<1> HIDE DEF h
<1>6. PICK t : t = <<>>
  OBVIOUS
<1>7. t \in Seq(Nodes) /\ Len(t) = 0
  BY <1>6
<1>8. Holds(h, t)
  <2>1. NodeList(t)
    BY <1>7 DEF NodeList, NoDup
  <2>2. Chained(h, t)
    BY <1>7 DEF Chained
  <2>3. QED BY <1>3, <1>4, <2>1, <2>2 DEF Holds, Alone
<1>9. Represents(links', pFirst', pLast', nNodes', t)
  BY <1>5, <1>6, <1>7, <1>8 DEF Represents, FirstIn, LastIn
<1>10. IInv' /\ Chain' = <<>>
  BY <1>6, <1>9, Becomes
<1>11. QED BY <1>5, <1>10 DEF Promise!Removals

-----------------------------------------------------------------------------
(* Limit() *)

\* A round of its loop, on a state of it.
CutOnce(d, count, fromEnd) ==
    LET end == IF fromEnd THEN d.pLast ELSE d.pFirst
        h == DetachEx(d.links, end)
        first == AfterDetach(d.links, end)
    IN IF end = Null \/ ~TooMany(d, count) THEN d
       ELSE [links |-> h, pFirst |-> first,
             pLast |-> IF first = Null THEN Null ELSE LastOf(h, first),
             nNodes |-> d.nNodes - 1, n |-> d.n + 1]

CutState(d) == d = [links |-> d.links, pFirst |-> d.pFirst, pLast |-> d.pLast,
                    nNodes |-> d.nNodes, n |-> d.n]

Stands(d, u) == Represents(d.links, d.pFirst, d.pLast, d.nNodes, u) /\ d.n \in Nat

LEMMA CutOnceFacts ==
    ASSUME NEW d, NEW u, Stands(d, u), NEW count \in Nat, NEW fromEnd \in BOOLEAN, NodesAssumption
    PROVE  /\ Len(u) <= count => CutOnce(d, count, fromEnd) = d
           /\ Len(u) > count =>
                LET k == IF fromEnd THEN Len(u) ELSE 1 IN
                /\ k \in 1..Len(u)
                /\ Stands(CutOnce(d, count, fromEnd), RemoveAt(u, k))
                /\ CutOnce(d, count, fromEnd).n = d.n + 1
<1>1. /\ Holds(d.links, u) /\ d.pFirst = FirstIn(u) /\ d.pLast = LastIn(u) /\ d.nNodes = Len(u)
      /\ d.n \in Nat
  BY DEF Stands, Represents
<1>2. /\ Len(u) \in Nat /\ (u = <<>> <=> Len(u) = 0) /\ Null \notin Nodes
      /\ \A i \in 1..Len(u) : u[i] \in Nodes
  BY <1>1, HoldsFacts
<1>3. ASSUME Len(u) <= count PROVE CutOnce(d, count, fromEnd) = d
  <2>1. ~TooMany(d, count)
    BY <1>1, <1>2, <1>3 DEF TooMany
  <2>2. QED BY <2>1 DEF CutOnce
<1>4. ASSUME Len(u) > count
      PROVE  LET k == IF fromEnd THEN Len(u) ELSE 1 IN
             /\ k \in 1..Len(u)
             /\ Stands(CutOnce(d, count, fromEnd), RemoveAt(u, k))
             /\ CutOnce(d, count, fromEnd).n = d.n + 1
  <2>1. PICK k \in 1..Len(u) : k = IF fromEnd THEN Len(u) ELSE 1
    <3>1. Len(u) \in 1..Len(u) /\ 1 \in 1..Len(u)
      BY <1>2, <1>4
    <3>2. QED BY <3>1
  <2> DEFINE end == IF fromEnd THEN d.pLast ELSE d.pFirst
             e == CutOnce(d, count, fromEnd)
  <2>2. end = u[k] /\ end # Null /\ TooMany(d, count)
    <3>1. u # <<>>
      BY <1>2, <1>4
    <3>2. TooMany(d, count)
      BY <1>1, <1>4 DEF TooMany
    <3>3. end = u[k]
      BY <1>1, <2>1, <3>1 DEF FirstIn, LastIn
    <3>4. QED BY <1>2, <3>2, <3>3
  <2>3. PICK r : r = RemoveAt(u, k)
    OBVIOUS
  <2>4. Holds(DetachEx(d.links, end), r) /\ AfterDetach(d.links, end) = FirstIn(r) /\ Len(r) = Len(u) - 1
    <3> HIDE DEF end
    <3>1. QED BY <1>1, <2>2, <2>3, Unlinked
  <2> DEFINE h == DetachEx(d.links, end)
  <2>5. e = [links |-> h, pFirst |-> FirstIn(r),
             pLast |-> IF FirstIn(r) = Null THEN Null ELSE LastOf(h, FirstIn(r)),
             nNodes |-> d.nNodes - 1, n |-> d.n + 1]
    BY <2>2, <2>4 DEF CutOnce
  <2> HIDE DEF h, e, end
  <2>6. /\ e.links = h /\ e.pFirst = FirstIn(r) /\ e.nNodes = Len(u) - 1 /\ e.n = d.n + 1
        /\ e.pLast = IF FirstIn(r) = Null THEN Null ELSE LastOf(h, FirstIn(r))
    BY <1>1, <2>5
  <2>7. e.pLast = LastIn(r)
    BY <2>4, <2>6, LastAfter DEF h
  <2>8. Represents(e.links, e.pFirst, e.pLast, e.nNodes, r)
    BY <2>4, <2>6, <2>7 DEF Represents, h
  <2>9. Stands(e, r) /\ e.n = d.n + 1
    BY <1>1, <2>6, <2>8 DEF Stands
  <2>10. QED BY <2>1, <2>3, <2>9 DEF e
<1>5. QED BY <1>3, <1>4

LEMMA CutGoes ==
    ASSUME NEW d, NEW u, Stands(d, u), NEW count \in Nat, NEW fromEnd \in BOOLEAN, NodesAssumption,
           Len(u) > count
    PROVE  /\ Stands(CutOnce(d, count, fromEnd), RemoveAt(u, IF fromEnd THEN Len(u) ELSE 1))
           /\ CutOnce(d, count, fromEnd).n = d.n + 1
BY CutOnceFacts

\* What is left of a list when i of its nodes are gone.
CutList(s, fromEnd, i) ==
    IF fromEnd THEN SubSeq(s, 1, Len(s) - i) ELSE SubSeq(s, i + 1, Len(s))

LEMMA CutListFacts ==
    ASSUME NEW s \in Seq(Nodes), NEW fromEnd \in BOOLEAN, NEW i \in 0..Len(s)
    PROVE  /\ CutList(s, fromEnd, i) \in Seq(Nodes)
           /\ Len(CutList(s, fromEnd, i)) = Len(s) - i
           /\ \A k \in 1..(Len(s) - i) :
                CutList(s, fromEnd, i)[k] = IF fromEnd THEN s[k] ELSE s[k + i]
<1>1. Len(s) \in Nat
  OBVIOUS
<1>2. PICK m \in 0..Len(s) : m = Len(s) - i
  <2>1. Len(s) - i \in 0..Len(s)
    BY <1>1
  <2>2. QED BY <2>1
<1>3. /\ SubSeq(s, 1, m) \in Seq(Nodes) /\ Len(SubSeq(s, 1, m)) = m
      /\ \A k \in 1..m : SubSeq(s, 1, m)[k] = s[k]
  BY <1>1
<1>4. PICK j \in 1..(Len(s) + 1) : j = i + 1
  <2>1. i + 1 \in 1..(Len(s) + 1)
    BY <1>1
  <2>2. QED BY <2>1
<1>5. /\ SubSeq(s, j, Len(s)) \in Seq(Nodes) /\ Len(SubSeq(s, j, Len(s))) = (Len(s) - j) + 1
      /\ \A k \in 1..((Len(s) - j) + 1) : SubSeq(s, j, Len(s))[k] = s[j + k - 1]
  BY <1>1
<1>6. (Len(s) - j) + 1 = m /\ \A k \in 1..m : j + k - 1 = k + i
  BY <1>1, <1>2, <1>4
<1>7. CASE fromEnd = TRUE
  BY <1>2, <1>3, <1>7 DEF CutList
<1>8. CASE fromEnd = FALSE
  BY <1>2, <1>4, <1>5, <1>6, <1>8 DEF CutList
<1>9. QED BY <1>7, <1>8

LEMMA CutMore ==
    ASSUME NEW s \in Seq(Nodes), NEW fromEnd \in BOOLEAN, NEW i \in 0..(Len(s) - 1)
    PROVE  RemoveAt(CutList(s, fromEnd, i),
                    IF fromEnd THEN Len(CutList(s, fromEnd, i)) ELSE 1) = CutList(s, fromEnd, i + 1)
<1> DEFINE u == CutList(s, fromEnd, i)
           v == CutList(s, fromEnd, i + 1)
           r(k) == RemoveAt(u, k)
<1>1. Len(s) \in Nat /\ i \in 0..Len(s) /\ i + 1 \in 0..Len(s)
  OBVIOUS
<1>2. /\ u \in Seq(Nodes) /\ Len(u) = Len(s) - i
      /\ \A k \in 1..(Len(s) - i) : u[k] = IF fromEnd THEN s[k] ELSE s[k + i]
  BY <1>1, CutListFacts
<1>3. PICK j \in 0..Len(s) : j = i + 1
  BY <1>1
<1>4. /\ v \in Seq(Nodes) /\ Len(v) = Len(s) - j
      /\ \A k \in 1..(Len(s) - j) : v[k] = IF fromEnd THEN s[k] ELSE s[k + j]
  BY <1>3, CutListFacts
<1> HIDE DEF u, v
<1>5. PICK k \in 1..Len(u) : k = IF fromEnd THEN Len(u) ELSE 1
  <2>1. Len(u) \in 1..Len(u) /\ 1 \in 1..Len(u)
    BY <1>1, <1>2
  <2>2. QED BY <2>1
<1>6. /\ r(k) \in Seq(Nodes) /\ Len(r(k)) = Len(u) - 1
      /\ \A x \in 1..(k - 1) : r(k)[x] = u[x]
      /\ \A x \in k..(Len(u) - 1) : r(k)[x] = u[x + 1]
  BY <1>2, RemoveAtFacts
<1> HIDE DEF r
<1>7. Len(r(k)) = Len(v)
  BY <1>1, <1>2, <1>3, <1>4, <1>6
<1>8. ASSUME NEW x \in 1..Len(v) PROVE r(k)[x] = v[x]
  <2>1. /\ x \in Nat /\ 1 <= x /\ x <= Len(s) - j /\ Len(u) = Len(s) - i /\ j = i + 1
        /\ x \in 1..(Len(s) - j) /\ i \in Nat
    BY <1>1, <1>2, <1>3, <1>4
  <2>2. CASE fromEnd = TRUE
    <3>1. x \in 1..(k - 1) /\ x \in 1..(Len(s) - i)
      BY <1>1, <1>5, <2>1, <2>2
    <3>2. r(k)[x] = u[x] /\ u[x] = s[x] /\ v[x] = s[x]
      BY <1>2, <1>4, <1>6, <2>1, <2>2, <3>1
    <3>3. QED BY <3>2
  <2>3. CASE fromEnd = FALSE
    <3>1. x \in k..(Len(u) - 1) /\ x + 1 \in 1..(Len(s) - i) /\ (x + 1) + i = x + j
      BY <1>1, <1>5, <2>1, <2>3
    <3>2. r(k)[x] = u[x + 1] /\ u[x + 1] = s[(x + 1) + i] /\ v[x] = s[x + j]
      BY <1>2, <1>4, <1>6, <2>1, <2>3, <3>1
    <3>3. QED BY <3>1, <3>2
  <2>4. QED BY <2>2, <2>3
<1>9. r(k) = v
  BY <1>4, <1>6, <1>7, <1>8, SeqEqual
<1>10. QED BY <1>3, <1>5, <1>9 DEF r, u, v

CutStates == {d \in [links: Links, pFirst: Pointer, pLast: Pointer, nNodes: Nat, n: Nat] :
                \E u \in Seq(Nodes) : Stands(d, u)}

LEMMA CutStatesFacts ==
    ASSUME NodesAssumption
    PROVE  /\ \A d, u : CutState(d) /\ Stands(d, u) => d \in CutStates
           /\ \A d \in CutStates : CutState(d) /\ \E u : Stands(d, u)
           /\ \A d, count, fromEnd : CutState(d) => CutState(CutOnce(d, count, fromEnd))
<1>1. ASSUME NEW d, NEW u, CutState(d), Stands(d, u) PROVE d \in CutStates
  <2>1. /\ Holds(d.links, u) /\ d.pFirst = FirstIn(u) /\ d.pLast = LastIn(u)
        /\ d.nNodes = Len(u) /\ d.n \in Nat
    BY <1>1 DEF Stands, Represents
  <2>2. /\ d.links \in Links /\ Len(u) \in Nat /\ u \in Seq(Nodes) /\ (u = <<>> <=> Len(u) = 0)
        /\ \A k \in 1..Len(u) : u[k] \in Nodes
    BY <2>1, HoldsFacts
  <2>3. FirstIn(u) \in Pointer /\ LastIn(u) \in Pointer
    <3>1. u # <<>> => 1 \in 1..Len(u) /\ Len(u) \in 1..Len(u)
      BY <2>2
    <3>2. QED BY <2>2, <3>1 DEF FirstIn, LastIn, Pointer
  <2>4. d \in [links: Links, pFirst: Pointer, pLast: Pointer, nNodes: Nat, n: Nat]
    <3>1. PICK a, b, c, e, f : /\ a = d.links /\ b = d.pFirst /\ c = d.pLast
                               /\ e = d.nNodes /\ f = d.n
      OBVIOUS
    <3>2. a \in Links /\ b \in Pointer /\ c \in Pointer /\ e \in Nat /\ f \in Nat
      BY <2>1, <2>2, <2>3, <3>1
    <3>3. d = [links |-> a, pFirst |-> b, pLast |-> c, nNodes |-> e, n |-> f]
      BY <1>1, <3>1 DEF CutState
    <3> HIDE DEF Links
    <3>4. QED BY <3>2, <3>3
  <2>5. QED BY <1>1, <2>2, <2>4 DEF CutStates
<1>2. ASSUME NEW d \in CutStates PROVE CutState(d) /\ \E u : Stands(d, u)
  BY DEF CutStates, CutState
<1>3. ASSUME NEW d, NEW count, NEW fromEnd, CutState(d) PROVE CutState(CutOnce(d, count, fromEnd))
  <2> DEFINE end == IF fromEnd THEN d.pLast ELSE d.pFirst
             h == DetachEx(d.links, end)
             first == AfterDetach(d.links, end)
             e == [links |-> h, pFirst |-> first,
                   pLast |-> IF first = Null THEN Null ELSE LastOf(h, first),
                   nNodes |-> d.nNodes - 1, n |-> d.n + 1]
  <2>1. CutOnce(d, count, fromEnd) = IF end = Null \/ ~TooMany(d, count) THEN d ELSE e
    BY DEF CutOnce
  <2>2. CutState(e)
    <3> HIDE DEF h, first
    <3>1. QED BY DEF CutState
  <2> HIDE DEF e, end
  <2>3. QED BY <1>3, <2>1, <2>2
<1>4. QED BY <1>1, <1>2, <1>3

LEMMA CutNone ==
    ASSUME NEW s \in Seq(Nodes), NEW fromEnd \in BOOLEAN
    PROVE  CutList(s, fromEnd, 0) = s
<1>1. Len(s) \in Nat /\ 0 \in 0..Len(s) /\ Len(s) - 0 = Len(s) /\ 0 + 1 = 1
  OBVIOUS
<1>2. SubSeq(s, 1, Len(s)) = s
  BY SubSeqFull
<1>3. QED BY <1>1, <1>2 DEF CutList

LEMMA LimitStep ==
    ASSUME IInv, NodesAssumption, NEW count \in 0..Cardinality(Nodes), NEW fromEnd \in BOOLEAN,
           Limit(count, fromEnd)
    PROVE  IInv' /\ Promise!Removals
<1> DEFINE N == Cardinality(Nodes)
           s == Chain
           base == [links |-> links, pFirst |-> pFirst, pLast |-> pLast, nNodes |-> nNodes, n |-> 0]
           Cuts(f) == f = [k \in 0..N |-> IF k = 0 THEN base ELSE CutOnce(f[k - 1], count, fromEnd)]
           cut == CHOOSE f : Cuts(f)
           step == [d \in CutStates |-> CutOnce(d, count, fromEnd)]
           Excess == IF Len(s) > count THEN Len(s) - count ELSE 0
           Gone(k) == IF k <= Excess THEN k ELSE Excess
<1>1. /\ IInv /\ Holds(links, s) /\ Len(s) \in Nat /\ s \in Seq(Nodes)
      /\ pFirst = FirstIn(s) /\ pLast = LastIn(s) /\ nNodes = Len(s)
      /\ N \in Nat /\ Len(s) <= N /\ count \in Nat
  <2>1. Holds(links, s) /\ NodeList(s)
    BY Standing, HoldsFacts
  <2>2. N \in Nat /\ Len(s) <= N
    BY <2>1, NodeListCard
  <2>3. QED BY <2>2, Standing
<1>2. /\ links' = cut[N].links /\ pFirst' = cut[N].pFirst /\ pLast' = cut[N].pLast
      /\ nNodes' = cut[N].nNodes /\ op' = <<"Limit", count, fromEnd, cut[N].n>>
  BY Zenon DEF Limit, CutOnce
<1> HIDE DEF N, s
<1>3. CutState(base) /\ Stands(base, s)
  BY <1>1 DEF CutState, Stands, Represents
<1> HIDE DEF base
<1>4. step \in [CutStates -> CutStates] /\ base \in CutStates
  <2>1. ASSUME NEW d \in CutStates PROVE CutOnce(d, count, fromEnd) \in CutStates
    <3>1. PICK u : CutState(d) /\ Stands(d, u)
      BY CutStatesFacts
    <3>2. CutState(CutOnce(d, count, fromEnd))
      BY <3>1, CutStatesFacts
    <3>3. \E v : Stands(CutOnce(d, count, fromEnd), v)
      <4>1. Len(u) \in Nat
        BY <3>1, HoldsFacts DEF Stands, Represents
      <4>2. CASE Len(u) <= count
        BY <1>1, <3>1, <4>2, CutOnceFacts
      <4>3. CASE Len(u) > count
        BY <1>1, <3>1, <4>3, CutOnceFacts
      <4>4. QED BY <1>1, <4>1, <4>2, <4>3
    <3>4. QED BY <3>2, <3>3, CutStatesFacts
  <2>2. base \in CutStates
    BY <1>3, CutStatesFacts
  <2>3. QED BY <2>1, <2>2
<1> HIDE DEF step
<1>5. PICK f \in [0..N -> CutStates] : Iterates(f, base, step, N)
  <2>1. N \in Nat
    BY <1>1
  <2>2. QED BY <1>4, <2>1, Iteration
<1>6. Cuts(f)
  <2> DEFINE g == [k \in 0..N |-> IF k = 0 THEN base ELSE CutOnce(f[k - 1], count, fromEnd)]
  <2>1. ASSUME NEW k \in 0..N PROVE f[k] = g[k]
    <3>1. CASE k = 0
      BY <1>5, <3>1 DEF Iterates
    <3>2. CASE k # 0
      <4>1. k \in 1..N /\ k - 1 \in 0..N
        BY <1>1, <3>2
      <4>2. f[k] = step[f[k - 1]] /\ f[k - 1] \in CutStates
        BY <1>5, <4>1 DEF Iterates
      <4>3. QED BY <3>2, <4>2 DEF step
    <3>3. QED BY <3>1, <3>2
  <2>2. f = [k \in 0..N |-> f[k]] /\ g = [k \in 0..N |-> g[k]]
    OBVIOUS
  <2> HIDE DEF g
  <2>3. f = g
    BY <2>1, <2>2
  <2>4. QED BY <2>3 DEF g
<1>7. Cuts(cut)
  <2> HIDE DEF Cuts
  <2>1. QED BY <1>6
<1> HIDE DEF cut
<1>8. cut[0] = base /\ \A k \in 1..N : cut[k] = CutOnce(cut[k - 1], count, fromEnd)
  <2>1. \A k \in 0..N : cut[k] = IF k = 0 THEN base ELSE CutOnce(cut[k - 1], count, fromEnd)
    BY <1>7
  <2> HIDE DEF Cuts
  <2>2. 0 \in 0..N /\ \A k \in 1..N : k \in 0..N /\ k # 0
    BY <1>1
  <2>3. QED BY <2>1, <2>2
<1> HIDE DEF Cuts
<1>9. Excess \in 0..Len(s) /\ Len(s) - Excess <= count /\ (Excess # 0 => Len(s) - Excess = count)
  BY <1>1
<1> HIDE DEF Excess
<1> DEFINE Done(k) == Stands(cut[k], CutList(s, fromEnd, Gone(k))) /\ cut[k].n = Gone(k)
           T == {k \in Nat : k <= N => Done(k)}
<1>10. 0 \in T
  <2>1. Gone(0) = 0
    BY <1>1, <1>9
  <2>2. cut[0].n = 0
    BY <1>8 DEF base
  <2> HIDE DEF Gone
  <2>3. QED BY <1>1, <1>3, <1>8, <2>1, <2>2, CutNone
<1>11. ASSUME NEW k \in Nat, k \in T PROVE k + 1 \in T
  <2>1. SUFFICES ASSUME k + 1 <= N PROVE Done(k + 1)
    OBVIOUS
  <2>2. Done(k) /\ k + 1 \in 1..N /\ (k + 1) - 1 = k
    <3>1. k <= N /\ k + 1 \in 1..N /\ (k + 1) - 1 = k
      BY <1>1, <2>1
    <3> HIDE DEF Done
    <3>2. QED BY <1>11, <3>1
  <2>3. cut[k + 1] = CutOnce(cut[k], count, fromEnd)
    BY <1>8, <2>2
  <2>4. PICK i \in 0..Len(s) : i = Gone(k)
    BY <1>1, <1>9
  <2>5. PICK u : u = CutList(s, fromEnd, i)
    OBVIOUS
  <2>6. Stands(cut[k], u) /\ cut[k].n = i /\ Len(u) = Len(s) - i
    BY <1>1, <2>2, <2>4, <2>5, CutListFacts
  <2>7. CASE k < Excess
    <3>1. i = k /\ Gone(k + 1) = k + 1 /\ i \in 0..(Len(s) - 1)
      BY <1>1, <1>9, <2>4, <2>7
    <3>2. Len(u) > count
      <4>1. Excess # 0 /\ Len(s) - Excess = count
        BY <1>9, <2>7
      <4>2. QED BY <1>1, <1>9, <2>6, <2>7, <3>1, <4>1
    <3>3. /\ Stands(cut[k + 1], RemoveAt(u, IF fromEnd THEN Len(u) ELSE 1))
          /\ cut[k + 1].n = i + 1
      <4>1. PICK d : /\ cut[k + 1] = CutOnce(d, count, fromEnd) /\ Stands(d, u) /\ d.n = i
        BY <2>3, <2>6
      <4>2. count \in Nat
        BY <1>1
      <4>3. /\ Stands(CutOnce(d, count, fromEnd), RemoveAt(u, IF fromEnd THEN Len(u) ELSE 1))
            /\ CutOnce(d, count, fromEnd).n = d.n + 1
        BY <3>2, <4>1, <4>2, CutGoes
      <4>4. QED BY <4>1, <4>3
    <3>4. RemoveAt(u, IF fromEnd THEN Len(u) ELSE 1) = CutList(s, fromEnd, i + 1)
      BY <1>1, <2>5, <3>1, CutMore
    <3> HIDE DEF Gone
    <3>5. QED BY <3>1, <3>3, <3>4
  <2>8. CASE ~(k < Excess)
    <3>1. i = Excess /\ Gone(k + 1) = Excess
      BY <1>1, <1>9, <2>4, <2>8
    <3>2. Len(u) <= count
      BY <1>9, <2>6, <3>1
    <3>3. cut[k + 1] = cut[k]
      BY <1>1, <2>3, <2>6, <3>2, CutOnceFacts
    <3> HIDE DEF Gone
    <3>4. QED BY <2>5, <2>6, <3>1, <3>3
  <2>9. QED BY <2>7, <2>8
<1>12. Done(N)
  <2>1. Nat \subseteq T
    <3> HIDE DEF T
    <3>1. QED BY <1>10, <1>11, NatIn
  <2> HIDE DEF Done
  <2>2. QED BY <1>1, <2>1
<1>13. PICK t : t = CutList(s, fromEnd, Excess)
  OBVIOUS
<1>14. Stands(cut[N], t) /\ cut[N].n = Excess
  <2>1. Gone(N) = Excess
    BY <1>1, <1>9
  <2> HIDE DEF Gone
  <2>2. QED BY <1>12, <1>13, <2>1
<1>15. Represents(links', pFirst', pLast', nNodes', t)
  BY <1>2, <1>14 DEF Stands
<1>16. IInv' /\ Chain' = t
  BY <1>15, Becomes
<1>17. Len(s) - Len(t) = Excess
  <2>1. Len(t) = Len(s) - Excess
    BY <1>1, <1>9, <1>13, CutListFacts
  <2>2. QED BY <1>1, <1>9, <2>1
<1>18. t = IF Len(s) <= count THEN s
           ELSE IF fromEnd THEN SubSeq(s, 1, count) ELSE SubSeq(s, Len(s) - count + 1, Len(s))
  <2>1. CASE Len(s) <= count
    <3>1. Excess = 0
      BY <1>1, <2>1 DEF Excess
    <3>2. QED BY <1>1, <1>13, <2>1, <3>1, CutNone
  <2>2. CASE ~(Len(s) <= count)
    <3>1. Excess = Len(s) - count
      BY <1>1, <2>2 DEF Excess
    <3>2. Len(s) - Excess = count
      BY <1>1, <3>1
    <3>3. QED BY <1>13, <2>2, <3>1, <3>2 DEF CutList
  <2>3. QED BY <2>1, <2>2
<1>19. op' = <<"Limit", count, fromEnd, Len(Chain) - Len(Chain')>>
  BY <1>2, <1>14, <1>16, <1>17 DEF s
<1>20. Chain' = IF Len(Chain) <= count THEN Chain
                ELSE IF fromEnd THEN SubSeq(Chain, 1, count)
                ELSE SubSeq(Chain, Len(Chain) - count + 1, Len(Chain))
  BY <1>16, <1>18 DEF s
<1>21. \E c \in 0..Promise!Cardinality(Nodes), e \in BOOLEAN :
         /\ op' = <<"Limit", c, e, Len(Chain) - Len(Chain')>>
         /\ Chain' = IF Len(Chain) <= c THEN Chain
                     ELSE IF e THEN SubSeq(Chain, 1, c)
                     ELSE SubSeq(Chain, Len(Chain) - c + 1, Len(Chain))
  BY Zenon, <1>19, <1>20, SameCardinality
<1>22. Promise!Removals
  BY Zenon, <1>21 DEF Promise!Removals
<1>23. QED BY <1>16, <1>22

-----------------------------------------------------------------------------
(* Sort() *)

\* A round of its loop, on a state of it.
SortOnce(d) ==
    LET a == AttachEx(DetachEx(d.links, d.todo), d.todo, d.first, d.first)
    IN IF d.todo = Null THEN d
       ELSE [links |-> a.links, first |-> a.first, todo |-> d.links.next[d.todo]]

\* r has its keys in order, and equal keys in the order of s.
Stable(s, r) ==
    \A i, j \in 1..Len(r) : i < j =>
        \/ Key[r[i]] < Key[r[j]]
        \/ /\ Key[r[i]] = Key[r[j]]
           /\ \E a, b \in 1..Len(s) : a < b /\ s[a] = r[i] /\ s[b] = r[j]

\* What is still to do when k nodes have been sorted.
Rest(s, k) == CutList(s, FALSE, k)

\* Two chains: r, the first k nodes of s in order, and the rest of s.
Sorting(d, s, k, r) ==
    /\ d.links \in Links /\ NodeList(r) /\ Chained(d.links, r) /\ Len(r) = k
    /\ Chained(d.links, Rest(s, k))
    /\ ToSet(r) = {s[i] : i \in 1..k}
    /\ \A m \in Nodes \ ToSet(s) : Alone(d.links, m)
    /\ d.first = FirstIn(r) /\ d.todo = NodeAt(s, k + 1)
    /\ Stable(s, r)

LEMMA RestFacts ==
    ASSUME NEW s, NodeList(s), NEW k \in 0..Len(s)
    PROVE  /\ NodeList(Rest(s, k)) /\ Len(Rest(s, k)) = Len(s) - k
           /\ \A x \in 1..(Len(s) - k) : Rest(s, k)[x] = s[x + k]
           /\ ToSet(Rest(s, k)) = {s[i] : i \in (k + 1)..Len(s)}
<1> DEFINE t == Rest(s, k)
<1>1. /\ Len(s) \in Nat /\ s \in Seq(Nodes)
      /\ \A i, j \in 1..Len(s) : s[i] = s[j] => i = j
  BY NodeListFacts DEF NodeList
<1>2. /\ t \in Seq(Nodes) /\ Len(t) = Len(s) - k
      /\ \A x \in 1..(Len(s) - k) : t[x] = s[x + k]
  <2>1. FALSE \in BOOLEAN
    OBVIOUS
  <2>2. /\ CutList(s, FALSE, k) \in Seq(Nodes) /\ Len(CutList(s, FALSE, k)) = Len(s) - k
        /\ \A x \in 1..(Len(s) - k) : CutList(s, FALSE, k)[x] = IF FALSE THEN s[x] ELSE s[x + k]
    BY <1>1, <2>1, CutListFacts
  <2>3. QED BY <2>2 DEF Rest
<1> HIDE DEF t
<1>3. NodeList(t)
  <2>1. ASSUME NEW x \in 1..Len(t), NEW y \in 1..Len(t), t[x] = t[y] PROVE x = y
    <3>1. /\ x + k \in 1..Len(s) /\ y + k \in 1..Len(s) /\ x \in Nat /\ y \in Nat /\ k \in Nat
          /\ x \in 1..(Len(s) - k) /\ y \in 1..(Len(s) - k)
      BY <1>1, <1>2
    <3>2. s[x + k] = s[y + k]
      BY <1>2, <2>1, <3>1
    <3>3. x + k = y + k
      BY <1>1, <3>1, <3>2
    <3>4. QED BY <3>1, <3>3
  <2>2. QED BY <1>2, <2>1 DEF NodeList, NoDup
<1>4. ToSet(t) = {s[i] : i \in (k + 1)..Len(s)}
  <2>1. ASSUME NEW m \in ToSet(t) PROVE m \in {s[i] : i \in (k + 1)..Len(s)}
    <3>1. PICK x \in 1..Len(t) : t[x] = m
      BY <1>3, NodeListFacts
    <3>2. x + k \in (k + 1)..Len(s) /\ x \in 1..(Len(s) - k)
      BY <1>1, <1>2
    <3>3. m = s[x + k]
      BY <1>2, <3>1, <3>2
    <3>4. QED BY <3>2, <3>3
  <2>2. ASSUME NEW i \in (k + 1)..Len(s) PROVE s[i] \in ToSet(t)
    <3>1. i - k \in 1..Len(t) /\ i - k \in 1..(Len(s) - k) /\ (i - k) + k = i
      BY <1>1, <1>2
    <3>2. t[i - k] = s[i]
      BY <1>2, <3>1
    <3>3. t[i - k] \in ToSet(t)
      BY <1>3, <3>1, NodeListFacts
    <3>4. QED BY <3>2, <3>3
  <2>3. QED BY <2>1, <2>2
<1>5. QED BY <1>2, <1>3, <1>4 DEF t

LEMMA ChainedSame ==
    ASSUME NEW h, NEW g, NEW u, Chained(h, u),
           \A k \in 1..Len(u) : g.next[u[k]] = h.next[u[k]] /\ g.prev[u[k]] = h.prev[u[k]]
    PROVE  Chained(g, u)
BY DEF Chained

\* The node that comes next keeps the order where it is put.
LEMMA StableMore ==
    ASSUME NEW s, NodeList(s), NEW k \in 0..(Len(s) - 1), NEW r, NodeList(r),
           ToSet(r) = {s[i] : i \in 1..k}, Stable(s, r), NEW c \in 0..Len(r),
           c # 0 => Key[r[c]] <= Key[s[k + 1]],
           c # Len(r) => Key[r[c + 1]] > Key[s[k + 1]],
           NodesAssumption
    PROVE  Stable(s, InsertAt(r, c + 1, s[k + 1]))
<1> DEFINE n == s[k + 1]
<1>1. /\ Len(s) \in Nat /\ k + 1 \in 1..Len(s) /\ n \in Nodes /\ Len(r) \in Nat /\ r \in Seq(Nodes)
      /\ \A i \in 1..Len(s) : s[i] \in Nodes
      /\ \A i \in 1..Len(r) : r[i] \in Nodes /\ r[i] \in ToSet(r)
  <2>1. Len(s) \in Nat /\ \A i \in 1..Len(s) : s[i] \in Nodes
    BY NodeListFacts
  <2>2. k + 1 \in 1..Len(s)
    BY <2>1
  <2>3. QED BY <2>1, <2>2, NodeListFacts DEF NodeList
<1>2. /\ Key[n] \in Int /\ \A i \in 1..Len(r) : Key[r[i]] \in Int
  <2>1. Key \in [Nodes -> Int]
    BY Zenon DEF NodesAssumption
  <2> HIDE DEF n
  <2>2. QED BY <1>1, <2>1
<1>3. PICK p \in 1..(Len(r) + 1) : p = c + 1 /\ p - 1 = c
  <2>1. c + 1 \in 1..(Len(r) + 1) /\ (c + 1) - 1 = c
    BY <1>1
  <2>2. QED BY <2>1
<1> DEFINE q == InsertAt(r, p, n)
<1>4. /\ q \in Seq(Nodes) /\ Len(q) = Len(r) + 1 /\ q[p] = n
      /\ \A i \in 1..(p - 1) : q[i] = r[i]
      /\ \A i \in (p + 1)..(Len(r) + 1) : q[i] = r[i - 1]
  <2>1. Longer(q, r, p, n)
    BY <1>1, LongerIs
  <2> HIDE DEF q, n
  <2>2. QED BY <2>1 DEF Longer
<1> HIDE DEF q
\* In front of n.
<1>5. ASSUME NEW i \in 1..c
      PROVE  Key[r[i]] < Key[n] \/ (Key[r[i]] = Key[n] /\ \E a, b \in 1..Len(s) : a < b /\ s[a] = r[i] /\ s[b] = n)
  <2>1. i \in 1..Len(r) /\ c \in 1..Len(r) /\ c # 0
    BY <1>1
  <2>2. Key[r[c]] <= Key[n] /\ Key[r[i]] \in Int /\ Key[r[c]] \in Int
    BY <1>2, <2>1
  <2>3. Key[r[i]] <= Key[r[c]]
    <3>1. CASE i < c
      <4>1. Key[r[i]] < Key[r[c]] \/ Key[r[i]] = Key[r[c]]
        BY <2>1, <3>1 DEF Stable
      <4>2. QED BY <2>2, <4>1
    <3>2. CASE ~(i < c)
      <4>1. i = c
        BY <3>2
      <4>2. QED BY <2>2, <4>1
    <3>3. QED BY <3>1, <3>2
  <2>4. PICK a \in 1..k : s[a] = r[i]
    BY <1>1, <2>1
  <2>5. a \in 1..Len(s) /\ a < k + 1
    BY <1>1
  <2>6. \E x, y \in 1..Len(s) : x < y /\ s[x] = r[i] /\ s[y] = n
    BY <1>1, <2>4, <2>5
  <2> HIDE DEF n
  <2>7. Key[r[i]] < Key[n] \/ Key[r[i]] = Key[n]
    BY <1>2, <2>2, <2>3
  <2>8. QED BY <2>6, <2>7
\* Behind it.
<1>6. ASSUME NEW j \in (c + 1)..Len(r) PROVE Key[n] < Key[r[j]]
  <2>1. j \in 1..Len(r) /\ c + 1 \in 1..Len(r) /\ c # Len(r)
    BY <1>1
  <2>2. Key[r[c + 1]] > Key[n] /\ Key[r[j]] \in Int /\ Key[r[c + 1]] \in Int
    BY <1>2, <2>1
  <2>3. CASE c + 1 < j
    <3>1. Key[r[c + 1]] < Key[r[j]] \/ Key[r[c + 1]] = Key[r[j]]
      BY <2>1, <2>3 DEF Stable
    <3> HIDE DEF n
    <3>2. QED BY SMTT(30), <1>2, <2>2, <3>1
  <2>4. CASE ~(c + 1 < j)
    <3>1. j = c + 1
      BY <1>1, <2>4
    <3> HIDE DEF n
    <3>2. QED BY <1>2, <2>2, <3>1
  <2>5. QED BY <2>3, <2>4
<1> HIDE DEF n
<1> DEFINE Before(x, y) == \/ Key[x] < Key[y]
                           \/ /\ Key[x] = Key[y]
                              /\ \E a, b \in 1..Len(s) : a < b /\ s[a] = x /\ s[b] = y
<1>7. ASSUME NEW i \in 1..Len(q), NEW j \in 1..Len(q), i < j PROVE Before(q[i], q[j])
  <2>1. /\ i \in Nat /\ j \in Nat /\ 1 <= i /\ i < j /\ j <= Len(r) + 1 /\ c \in Nat /\ c <= Len(r)
        /\ p = c + 1 /\ Len(r) \in Nat
    BY <1>1, <1>3, <1>4, <1>7
  <2>2. CASE j < p
    <3>1. i \in 1..(p - 1) /\ j \in 1..(p - 1) /\ i \in 1..Len(r) /\ j \in 1..Len(r)
      BY <2>1, <2>2
    <3>2. q[i] = r[i] /\ q[j] = r[j]
      BY <1>4, <3>1
    <3>3. Before(r[i], r[j])
      BY <1>7, <3>1 DEF Stable
    <3>4. QED BY <3>2, <3>3
  <2>3. CASE j = p
    <3>1. i \in 1..(p - 1) /\ i \in 1..c
      BY <2>1, <2>3
    <3>2. q[i] = r[i] /\ q[j] = n
      BY <1>4, <2>3, <3>1
    <3>3. Before(r[i], n)
      BY <1>5, <3>1
    <3> HIDE DEF Before
    <3>4. QED BY <3>2, <3>3
  <2>4. CASE j > p
    <3>1. j \in (p + 1)..(Len(r) + 1) /\ j - 1 \in (c + 1)..Len(r) /\ j - 1 \in 1..Len(r)
      BY <2>1, <2>4
    <3>2. q[j] = r[j - 1]
      BY <1>4, <3>1
    <3>3. CASE i < p
      <4>1. i \in 1..(p - 1) /\ i \in 1..c /\ i \in 1..Len(r) /\ i < j - 1
        BY <2>1, <2>4, <3>3
      <4>2. q[i] = r[i]
        BY <1>4, <4>1
      <4>3. Before(r[i], r[j - 1])
        BY <3>1, <4>1 DEF Stable
      <4>4. QED BY <3>2, <4>2, <4>3
    <3>4. CASE i = p
      BY <1>4, <1>6, <3>1, <3>2, <3>4
    <3>5. CASE i > p
      <4>1. i \in (p + 1)..(Len(r) + 1) /\ i - 1 \in 1..Len(r) /\ i - 1 < j - 1
        BY <2>1, <3>5
      <4>2. q[i] = r[i - 1]
        BY <1>4, <4>1
      <4>3. Before(r[i - 1], r[j - 1])
        BY <3>1, <4>1 DEF Stable
      <4>4. QED BY <3>2, <4>2, <4>3
    <3>6. QED BY <2>1, <3>3, <3>4, <3>5
  <2>5. QED BY <2>1, <2>2, <2>3, <2>4
<1>8. Stable(s, q)
  BY <1>7 DEF Stable
<1>9. QED BY <1>3, <1>8 DEF q, n

\* A round of the loop.
LEMMA SortOnceFacts ==
    ASSUME NEW s, NodeList(s), NEW d, NEW k \in 0..Len(s), NEW r, Sorting(d, s, k, r),
           NodesAssumption
    PROVE  /\ k = Len(s) => SortOnce(d) = d
           /\ k < Len(s) => \E q : Sorting(SortOnce(d), s, k + 1, q)
<1>1. /\ Len(s) \in Nat /\ s \in Seq(Nodes) /\ Null \notin Nodes
      /\ \A i \in 1..Len(s) : s[i] \in Nodes
      /\ \A i, j \in 1..Len(s) : s[i] = s[j] => i = j
  <2>1. Null \notin Nodes
    BY Zenon DEF NodesAssumption
  <2>2. QED BY <2>1, NodeListFacts DEF NodeList
<1>2. /\ d.links \in Links /\ NodeList(r) /\ Chained(d.links, r) /\ Len(r) = k
      /\ Chained(d.links, Rest(s, k))
      /\ ToSet(r) = {s[i] : i \in 1..k}
      /\ \A m \in Nodes \ ToSet(s) : Alone(d.links, m)
      /\ d.first = FirstIn(r) /\ d.todo = NodeAt(s, k + 1) /\ Stable(s, r)
  BY DEF Sorting
<1>3. ASSUME k = Len(s) PROVE SortOnce(d) = d
  <2>1. d.todo = Null
    BY <1>2, <1>3 DEF NodeAt
  <2>2. QED BY <2>1 DEF SortOnce
<1>4. ASSUME k < Len(s) PROVE \E q : Sorting(SortOnce(d), s, k + 1, q)
  <2> DEFINE n == s[k + 1]
             t == Rest(s, k)
             u == Rest(s, k + 1)
             g == DetachEx(d.links, n)
  <2>1. /\ k + 1 \in 1..Len(s) /\ k + 1 \in 0..Len(s) /\ k \in 0..(Len(s) - 1) /\ k \in Nat
        /\ n \in Nodes /\ n # Null /\ d.todo = n
    <3>1. k + 1 \in 1..Len(s) /\ k + 1 \in 0..Len(s) /\ k \in 0..(Len(s) - 1) /\ k \in Nat
      BY <1>1, <1>4
    <3>2. k + 1 # 0 /\ k + 1 # Len(s) + 1
      BY <1>1, <1>4
    <3>3. QED BY <1>1, <1>2, <3>1, <3>2 DEF NodeAt
  <2>2. /\ NodeList(t) /\ Len(t) = Len(s) - k /\ ToSet(t) = {s[i] : i \in (k + 1)..Len(s)}
        /\ \A x \in 1..(Len(s) - k) : t[x] = s[x + k]
    <3>1. /\ NodeList(Rest(s, k)) /\ Len(Rest(s, k)) = Len(s) - k
          /\ ToSet(Rest(s, k)) = {s[i] : i \in (k + 1)..Len(s)}
      BY SMTT(30), RestFacts
    <3>2. \A x \in 1..(Len(s) - k) : Rest(s, k)[x] = s[x + k]
      BY RestFacts
    <3>3. QED BY <3>1, <3>2
  <2>3. /\ NodeList(u) /\ Len(u) = Len(s) - (k + 1) /\ ToSet(u) = {s[i] : i \in (k + 1 + 1)..Len(s)}
    BY <2>1, RestFacts
  <2>4. RemoveAt(t, 1) = u /\ t[1] = n /\ 1 \in 1..Len(t)
    <3>1. RemoveAt(CutList(s, FALSE, k), IF FALSE THEN Len(CutList(s, FALSE, k)) ELSE 1)
            = CutList(s, FALSE, k + 1)
      BY <1>1, <2>1, CutMore
    <3>2. RemoveAt(t, 1) = u
      BY <3>1 DEF Rest
    <3>3. 1 \in 1..Len(t) /\ 1 \in 1..(Len(s) - k) /\ 1 + k = k + 1
      BY <1>1, <2>1, <2>2
    <3>4. t[1] = n
      BY <2>2, <3>3
    <3>5. QED BY <3>2, <3>3, <3>4
  <2> HIDE DEF t, u
  <2>5. /\ g \in Links /\ Chained(g, u) /\ Alone(g, n)
        /\ \A m \in Nodes \ ToSet(t) : g.next[m] = d.links.next[m] /\ g.prev[m] = d.links.prev[m]
    <3>1. Chained(d.links, t)
      BY <1>2 DEF t
    <3>2. d.links \in Links /\ NodeList(t) /\ 1 \in 1..Len(t)
      BY <1>2, <2>2, <2>4
    <3>4. /\ NodeList(RemoveAt(t, 1)) /\ ToSet(RemoveAt(t, 1)) = ToSet(t) \ {t[1]}
          /\ Len(RemoveAt(t, 1)) = Len(t) - 1
          /\ Chained(DetachEx(d.links, t[1]), RemoveAt(t, 1))
          /\ Alone(DetachEx(d.links, t[1]), t[1])
          /\ \A m \in Nodes \ ToSet(t) : /\ DetachEx(d.links, t[1]).next[m] = d.links.next[m]
                                         /\ DetachEx(d.links, t[1]).prev[m] = d.links.prev[m]
      BY ZenonT(60), <3>1, <3>2, DetachChained
    <3>3. g \in Links
      BY <1>2, <2>1, DetachFacts
    <3>5. QED BY <2>4, <3>3, <3>4
  <2> HIDE DEF g
  <2>6. \A i \in 1..Len(r) : r[i] \in Nodes /\ r[i] \in ToSet(r) /\ r[i] \notin ToSet(t)
    <3>1. ASSUME NEW i \in 1..Len(r) PROVE r[i] \in Nodes /\ r[i] \in ToSet(r)
      BY <1>2, NodeListFacts
    <3>2. ASSUME NEW i \in 1..Len(r), r[i] \in ToSet(t) PROVE FALSE
      <4>1. PICK a \in 1..k : s[a] = r[i]
        BY <1>2, <3>1
      <4>2. PICK b \in (k + 1)..Len(s) : s[b] = r[i]
        BY <2>2, <3>2
      <4>3. a \in 1..Len(s) /\ b \in 1..Len(s) /\ a # b
        BY <1>1, <2>1
      <4>4. QED BY <1>1, <4>1, <4>2, <4>3
    <3>3. QED BY <3>1, <3>2
  <2>7. Chained(g, r)
    <3>1. Chained(d.links, r)
      BY <1>2
    <3>2. \A x \in 1..Len(r) : g.next[r[x]] = d.links.next[r[x]] /\ g.prev[r[x]] = d.links.prev[r[x]]
      BY <2>5, <2>6
    <3>3. QED BY Zenon, <3>1, <3>2, ChainedSame
  <2>8. n \notin ToSet(r)
    <3>1. ASSUME NEW a \in 1..k, s[a] = n PROVE FALSE
      <4>1. a \in 1..Len(s) /\ a # k + 1
        BY <1>1, <2>1
      <4>2. QED BY <1>1, <2>1, <3>1, <4>1
    <3>2. QED BY <1>2, <3>1
  <2> DEFINE j == IF Len(r) = 0 THEN 0 ELSE 1
  <2>9. j \in 0..Len(r) /\ (j = 0 => r = <<>>) /\ NodeAt(r, j) = FirstIn(r) /\ Len(r) \in Nat
    <3>1. Len(r) \in Nat /\ r \in Seq(Nodes) /\ (r = <<>> <=> Len(r) = 0)
      BY <1>2, <2>1 DEF NodeList
    <3>2. CASE Len(r) = 0
      BY <3>1, <3>2 DEF NodeAt, FirstIn
    <3>3. CASE Len(r) # 0
      <4>1. j = 1 /\ 1 # 0 /\ 1 # Len(r) + 1 /\ r # <<>> /\ 1 \in 0..Len(r)
        BY <3>1, <3>3
      <4>2. NodeAt(r, 1) = FirstIn(r)
        BY <4>1 DEF NodeAt, FirstIn
      <4> HIDE DEF j
      <4>3. QED BY <3>1, <4>1, <4>2
    <3>4. QED BY <3>2, <3>3
  <2> HIDE DEF j
  <2>10. PICK c \in 0..Len(r) : AttachesAt(g, r, n, j, c)
    <3> HIDE DEF n
    <3>1. QED BY <1>2, <2>1, <2>5, <2>7, <2>9, AttachFacts
  <2>11. PICK p \in 1..(Len(r) + 1) : p = c + 1 /\ p - 1 = c
    <3>1. c + 1 \in 1..(Len(r) + 1) /\ (c + 1) - 1 = c
      BY <2>9
    <3>2. QED BY <3>1
  <2> DEFINE f == Insert(g, n, NodeAt(r, p - 1), NodeAt(r, p))
  <2>12. AttachEx(g, n, d.first, d.first) =
           [links |-> f, first |-> IF c = 0 THEN n ELSE FirstIn(r)]
    <3> HIDE DEF n
    <3>1. QED BY <1>2, <2>9, <2>10, <2>11 DEF AttachesAt
  <2>13. PICK q : q = InsertAt(r, p, n)
    OBVIOUS
  <2>14. /\ NodeList(q) /\ ToSet(q) = ToSet(r) \cup {n} /\ Len(q) = Len(r) + 1
         /\ f \in Links /\ Chained(f, q)
         /\ \A m \in Nodes \ (ToSet(r) \cup {n}) : f.next[m] = g.next[m] /\ f.prev[m] = g.prev[m]
    <3> HIDE DEF n, f
    <3>1. /\ g \in Links /\ NodeList(r) /\ Chained(g, r) /\ n \in Nodes /\ n \notin ToSet(r)
          /\ p \in 1..(Len(r) + 1)
      BY <1>2, <2>1, <2>5, <2>7, <2>8, <2>11
    <3>2. /\ NodeList(InsertAt(r, p, n)) /\ ToSet(InsertAt(r, p, n)) = ToSet(r) \cup {n}
          /\ Len(InsertAt(r, p, n)) = Len(r) + 1
          /\ Insert(g, n, NodeAt(r, p - 1), NodeAt(r, p)) \in Links
          /\ Chained(Insert(g, n, NodeAt(r, p - 1), NodeAt(r, p)), InsertAt(r, p, n))
          /\ \A m \in Nodes \ (ToSet(r) \cup {n}) :
               /\ Insert(g, n, NodeAt(r, p - 1), NodeAt(r, p)).next[m] = g.next[m]
               /\ Insert(g, n, NodeAt(r, p - 1), NodeAt(r, p)).prev[m] = g.prev[m]
      <4>1. Gains(g, r, p, n)
        BY <3>1, InsertChained
      <4>2. QED BY Zenon, <4>1 DEF Gains
    <3>3. QED BY Zenon, <2>13, <3>2 DEF f
  <2> HIDE DEF f
  <2>15. ToSet(q) = {s[i] : i \in 1..(k + 1)}
    <3>1. {s[i] : i \in 1..(k + 1)} = {s[i] : i \in 1..k} \cup {s[k + 1]}
      BY <2>1
    <3>2. QED BY <1>2, <2>14, <3>1
  <2>16. Chained(f, u)
    <3>1. ASSUME NEW x \in 1..Len(u)
          PROVE  f.next[u[x]] = g.next[u[x]] /\ f.prev[u[x]] = g.prev[u[x]]
      <4>1. u[x] \in Nodes /\ u[x] \in ToSet(u)
        BY <2>3, NodeListFacts
      <4>2. PICK b \in (k + 1 + 1)..Len(s) : s[b] = u[x]
        BY <2>3, <4>1
      <4>3. b \in 1..Len(s) /\ b # k + 1 /\ \A a \in 1..k : a \in 1..Len(s) /\ a # b
        BY <1>1, <2>1
      <4>4. u[x] # n
        BY <1>1, <2>1, <4>2, <4>3
      <4>5. u[x] \notin ToSet(r)
        BY <1>1, <1>2, <4>2, <4>3
      <4> HIDE DEF n
      <4>6. QED BY <2>14, <4>1, <4>4, <4>5
    <3>2. QED BY <2>5, <3>1, ChainedSame
  <2>17. \A m \in Nodes \ ToSet(s) : Alone(f, m)
    <3>1. ASSUME NEW m \in Nodes \ ToSet(s) PROVE Alone(f, m)
      <4>1. m \notin ToSet(r) /\ m \notin ToSet(t) /\ m # n
        <5>1. \A i \in 1..Len(s) : s[i] \in ToSet(s)
          BY NodeListFacts
        <5>2. \A i \in 1..k : i \in 1..Len(s)
          BY <1>1, <2>1
        <5>3. \A i \in (k + 1)..Len(s) : i \in 1..Len(s)
          BY <1>1, <2>1
        <5>4. m \notin ToSet(r)
          BY <1>2, <5>1, <5>2
        <5>5. m \notin ToSet(t)
          BY <2>2, <5>1, <5>3
        <5>6. m # n
          BY <2>1, <5>1
        <5>7. QED BY <5>4, <5>5, <5>6
      <4>2. Alone(d.links, m)
        BY <1>2
      <4> HIDE DEF n
      <4>3. QED BY <2>5, <2>14, <4>1, <4>2 DEF Alone
    <3>2. QED BY <3>1
  <2>18. (IF c = 0 THEN n ELSE FirstIn(r)) = FirstIn(q)
    <3> HIDE DEF n
    <3>1. Longer(q, r, p, n)
      BY <1>2, <2>1, <2>13, LongerIs DEF NodeList
    <3>2. q # <<>>
      BY <2>9, <2>14
    <3>3. CASE c = 0
      BY <2>11, <3>1, <3>2, <3>3 DEF Longer, FirstIn
    <3>4. CASE c # 0
      <4>1. 1 \in 1..(p - 1) /\ r # <<>>
        BY <2>9, <2>11, <3>4
      <4>2. q[1] = r[1]
        BY <3>1, <4>1 DEF Longer
      <4>3. QED BY <3>2, <3>4, <4>1, <4>2 DEF FirstIn
    <3>5. QED BY <3>3, <3>4
  <2>19. d.links.next[d.todo] = NodeAt(s, (k + 1) + 1)
    <3>1. d.links.next[t[1]] = IF 1 = Len(t) THEN Null ELSE t[1 + 1]
      BY <1>2, <2>4 DEF Chained, t
    <3>2. CASE Len(t) = 1
      <4>0. Len(s) \in Nat /\ k \in Nat /\ Len(s) - k = 1
        BY <1>1, <2>1, <2>2, <3>2
      <4>1. (k + 1) + 1 = Len(s) + 1
        BY <4>0
      <4>2. QED BY <2>1, <2>4, <3>1, <3>2, <4>1 DEF NodeAt
    <3>3. CASE Len(t) # 1
      <4>1. /\ (k + 1) + 1 # Len(s) + 1 /\ (k + 1) + 1 # 0 /\ 1 + 1 \in 1..(Len(s) - k)
            /\ (1 + 1) + k = (k + 1) + 1
        BY <1>1, <2>1, <2>2, <3>3
      <4>2. t[1 + 1] = s[(k + 1) + 1]
        BY <2>2, <4>1
      <4>3. QED BY <2>1, <2>4, <3>1, <3>3, <4>1, <4>2 DEF NodeAt
    <3>4. QED BY <3>2, <3>3
  <2>20. Stable(s, q)
    <3>1. /\ c # 0 => Key[r[c]] <= Key[s[k + 1]]
          /\ c # Len(r) => Key[r[c + 1]] > Key[s[k + 1]]
      BY <2>10 DEF AttachesAt, Fits
    <3>2. Stable(s, InsertAt(r, c + 1, s[k + 1]))
      BY <1>2, <2>1, <3>1, StableMore
    <3>3. QED BY <2>11, <2>13, <3>2
  <2>21. SortOnce(d) = [links |-> f, first |-> FirstIn(q), todo |-> NodeAt(s, (k + 1) + 1)]
    <3> HIDE DEF n
    <3>1. SortOnce(d) = [links |-> AttachEx(g, n, d.first, d.first).links,
                         first |-> AttachEx(g, n, d.first, d.first).first,
                         todo |-> d.links.next[d.todo]]
      BY <2>1 DEF SortOnce, g
    <3>2. QED BY <2>12, <2>18, <2>19, <3>1
  <2>22. PICK e : /\ e = SortOnce(d) /\ e.links = f /\ e.first = FirstIn(q)
                  /\ e.todo = NodeAt(s, (k + 1) + 1)
    BY <2>21
  <2>23. Len(q) = k + 1
    BY <1>2, <2>14
  <2>24. Sorting(e, s, k + 1, q)
    BY <2>14, <2>15, <2>16, <2>17, <2>20, <2>22, <2>23 DEF Sorting, u
  <2>25. QED BY <2>22, <2>24
<1>5. QED BY <1>3, <1>4

\* The state of the loop has three fields, and the rounds keep it so.
SortState(d) == d = [links |-> d.links, first |-> d.first, todo |-> d.todo]

SortStates(s) == {d \in [links: Links, first: Pointer, todo: Pointer] :
                    \E k \in 0..Len(s), r \in Seq(Nodes) : Sorting(d, s, k, r)}

LEMMA EndsArePointers ==
    ASSUME NEW s, NodeList(s), NEW k \in 0..Len(s), NodesAssumption
    PROVE  FirstIn(s) \in Pointer /\ NodeAt(s, k + 1) \in Pointer
<1>1. /\ Len(s) \in Nat /\ s \in Seq(Nodes) /\ (s = <<>> <=> Len(s) = 0)
      /\ \A i \in 1..Len(s) : s[i] \in Nodes
  BY NodeListFacts DEF NodeList
<1>2. s # <<>> => 1 \in 1..Len(s)
  BY <1>1
<1>3. k + 1 # Len(s) + 1 => k + 1 \in 1..Len(s)
  BY <1>1
<1>4. FirstIn(s) \in Pointer
  BY <1>1, <1>2 DEF FirstIn, Pointer
<1>5. NodeAt(s, k + 1) \in Pointer
  BY <1>1, <1>3 DEF NodeAt, Pointer
<1>6. QED BY <1>4, <1>5

LEMMA SortStatesFacts ==
    ASSUME NEW s, NodeList(s), NodesAssumption
    PROVE  /\ \A d, r : \A k \in 0..Len(s) : SortState(d) /\ Sorting(d, s, k, r) => d \in SortStates(s)
           /\ \A d \in SortStates(s) : SortState(d) /\ \E k \in 0..Len(s) : \E r : Sorting(d, s, k, r)
           /\ \A d : SortState(d) => SortState(SortOnce(d))
<1>1. ASSUME NEW d, NEW r, NEW k \in 0..Len(s), SortState(d), Sorting(d, s, k, r)
      PROVE  d \in SortStates(s)
  <2>1. /\ d.links \in Links /\ NodeList(r) /\ r \in Seq(Nodes)
        /\ d.first = FirstIn(r) /\ d.todo = NodeAt(s, k + 1)
    BY <1>1 DEF Sorting, NodeList
  <2>2. d.first \in Pointer
    <3>1. Len(r) \in Nat /\ 0 \in 0..Len(r)
      BY <2>1
    <3>2. FirstIn(r) \in Pointer
      BY <2>1, <3>1, EndsArePointers
    <3>3. QED BY <2>1, <3>2
  <2>3. d.todo \in Pointer
    BY <2>1, EndsArePointers
  <2>4. d \in [links: Links, first: Pointer, todo: Pointer]
    <3>1. PICK a, b, c : a = d.links /\ b = d.first /\ c = d.todo
      OBVIOUS
    <3>2. a \in Links /\ b \in Pointer /\ c \in Pointer
      BY <2>1, <2>2, <2>3, <3>1
    <3>3. d = [links |-> a, first |-> b, todo |-> c]
      BY <1>1, <3>1 DEF SortState
    <3> HIDE DEF Links
    <3>4. QED BY <3>2, <3>3
  <2>5. QED BY <1>1, <2>1, <2>4 DEF SortStates
<1>2. ASSUME NEW d \in SortStates(s)
      PROVE  SortState(d) /\ \E k \in 0..Len(s) : \E r : Sorting(d, s, k, r)
  BY DEF SortStates, SortState
<1>3. ASSUME NEW d, SortState(d) PROVE SortState(SortOnce(d))
  <2> DEFINE a == AttachEx(DetachEx(d.links, d.todo), d.todo, d.first, d.first)
             e == [links |-> a.links, first |-> a.first, todo |-> d.links.next[d.todo]]
  <2>1. SortOnce(d) = IF d.todo = Null THEN d ELSE e
    BY DEF SortOnce
  <2>2. SortState(e)
    <3> HIDE DEF a
    <3>1. QED BY DEF SortState
  <2> HIDE DEF e
  <2>3. QED BY <1>3, <2>1, <2>2
<1>4. QED BY <1>1, <1>2, <1>3

\* Before the first round.
LEMMA SortStart ==
    ASSUME NEW h, NEW s, Holds(h, s), NEW d, NodesAssumption,
           d.links = h, d.first = Null, d.todo = NodeAt(s, 1)
    PROVE  Sorting(d, s, 0, <<>>)
<1>1. h \in Links /\ Chained(h, s) /\ s \in Seq(Nodes) /\ \A m \in Nodes \ ToSet(s) : Alone(h, m)
  BY HoldsFacts DEF Holds
<1>2. Rest(s, 0) = s
  BY <1>1, CutNone DEF Rest
<1>3. /\ NodeList(<<>>) /\ Chained(h, <<>>) /\ Len(<<>>) = 0 /\ ToSet(<<>>) = {s[i] : i \in 1..0}
      /\ Stable(s, <<>>) /\ FirstIn(<<>>) = Null
  <2>1. <<>> \in Seq(Nodes) /\ Len(<<>>) = 0 /\ 1..0 = {}
    OBVIOUS
  <2>2. NodeList(<<>>)
    BY <2>1 DEF NodeList, NoDup
  <2>3. Chained(h, <<>>)
    BY <2>1 DEF Chained
  <2>4. ToSet(<<>>) = {s[i] : i \in 1..0}
    BY <2>1 DEF ToSet
  <2>5. Stable(s, <<>>)
    BY <2>1 DEF Stable
  <2>6. QED BY <2>1, <2>2, <2>3, <2>4, <2>5 DEF FirstIn
<1>4. d.todo = NodeAt(s, 0 + 1)
  OBVIOUS
<1>5. Chained(d.links, Rest(s, 0)) /\ Chained(d.links, <<>>) /\ d.links \in Links
  BY <1>1, <1>2, <1>3
<1>6. QED BY <1>1, <1>3, <1>4, <1>5 DEF Sorting

\* After the last one.
LEMMA SortEnd ==
    ASSUME NEW s, NodeList(s), NEW d, NEW r, Sorting(d, s, Len(s), r), NodesAssumption
    PROVE  /\ Holds(d.links, r) /\ ToSet(r) = ToSet(s) /\ Len(r) = Len(s)
           /\ d.first = FirstIn(r) /\ Stable(s, r)
<1>1. /\ d.links \in Links /\ NodeList(r) /\ Chained(d.links, r) /\ Len(r) = Len(s)
      /\ ToSet(r) = {s[i] : i \in 1..Len(s)} /\ d.first = FirstIn(r) /\ Stable(s, r)
      /\ \A m \in Nodes \ ToSet(s) : Alone(d.links, m)
  BY DEF Sorting
<1>2. ToSet(r) = ToSet(s)
  BY <1>1, NodeListFacts
<1>3. Holds(d.links, r)
  BY <1>1, <1>2 DEF Holds
<1>4. QED BY <1>1, <1>2, <1>3

\* The loop has sorted every node when it ends: each round takes one.
LEMMA SortLoop ==
    ASSUME NEW h, NEW s, Holds(h, s), NodesAssumption
    PROVE  \E r : Sorting(SortFrom(h, NodeAt(s, 1)), s, Len(s), r)
<1> DEFINE N == Cardinality(Nodes)
           base == [links |-> h, first |-> Null, todo |-> NodeAt(s, 1)]
           Sorts(f) == f = [k \in 0..N |-> IF k = 0 THEN base ELSE SortOnce(f[k - 1])]
           sort == CHOOSE f : Sorts(f)
           D == SortStates(s)
           step == [d \in D |-> SortOnce(d)]
           Done(k) == IF k <= Len(s) THEN k ELSE Len(s)
<1>1. NodeList(s) /\ Len(s) \in Nat /\ N \in Nat /\ Len(s) <= N
  <2>1. NodeList(s) /\ Len(s) \in Nat
    BY HoldsFacts
  <2>2. QED BY <2>1, NodeListCard
<1>2. SortFrom(h, NodeAt(s, 1)) = sort[N]
  BY Zenon DEF SortFrom, SortOnce
<1> HIDE DEF N
<1>3. SortState(base) /\ Sorting(base, s, 0, <<>>)
  <2>1. SortState(base)
    BY DEF SortState
  <2>2. base.links = h /\ base.first = Null /\ base.todo = NodeAt(s, 1)
    OBVIOUS
  <2> HIDE DEF base
  <2>3. QED BY <2>1, <2>2, SortStart
<1> HIDE DEF base
<1>4. base \in D
  <2>1. 0 \in 0..Len(s)
    BY <1>1
  <2>2. QED BY <1>1, <1>3, <2>1, SortStatesFacts
<1>5. step \in [D -> D]
  <2>1. ASSUME NEW d \in D PROVE SortOnce(d) \in D
    <3>1. SortState(d) /\ \E k \in 0..Len(s) : \E r : Sorting(d, s, k, r)
      BY <1>1, SortStatesFacts
    <3>2. PICK k \in 0..Len(s) : \E r : Sorting(d, s, k, r)
      BY <3>1
    <3>3. PICK r : Sorting(d, s, k, r)
      BY <3>2
    <3>4. CASE k = Len(s)
      <4>1. SortOnce(d) = d
        BY <1>1, <3>3, <3>4, SortOnceFacts
      <4>2. QED BY <4>1
    <3>5. CASE k # Len(s)
      <4>1. k < Len(s) /\ k + 1 \in 0..Len(s)
        BY <1>1, <3>5
      <4>2. \E q : Sorting(SortOnce(d), s, k + 1, q)
        BY <1>1, <3>3, <4>1, SortOnceFacts
      <4>3. SortState(SortOnce(d))
        BY <1>1, <3>1, SortStatesFacts
      <4>4. PICK j \in 0..Len(s) : j = k + 1
        BY <4>1
      <4>5. PICK e, q : e = SortOnce(d) /\ Sorting(e, s, j, q)
        BY <4>2, <4>4
      <4>6. SortState(e)
        BY <4>3, <4>5
      <4>7. e \in D
        BY <1>1, <4>5, <4>6, SortStatesFacts
      <4>8. QED BY <4>5, <4>7
    <3>6. QED BY <3>4, <3>5
  <2>2. QED BY <2>1
<1> HIDE DEF step, D
<1>6. PICK f \in [0..N -> D] : Iterates(f, base, step, N)
  <2>1. N \in Nat
    BY <1>1
  <2>2. QED BY <1>4, <1>5, <2>1, Iteration
<1>7. Sorts(f)
  <2> DEFINE g == [k \in 0..N |-> IF k = 0 THEN base ELSE SortOnce(f[k - 1])]
  <2>1. ASSUME NEW k \in 0..N PROVE f[k] = g[k]
    <3>1. CASE k = 0
      BY <1>6, <3>1 DEF Iterates
    <3>2. CASE k # 0
      <4>1. k \in 1..N /\ k - 1 \in 0..N
        BY <1>1, <3>2
      <4>2. f[k] = step[f[k - 1]] /\ f[k - 1] \in D
        BY <1>6, <4>1 DEF Iterates
      <4>3. QED BY <3>2, <4>2 DEF step
    <3>3. QED BY <3>1, <3>2
  <2>2. f = [k \in 0..N |-> f[k]] /\ g = [k \in 0..N |-> g[k]]
    OBVIOUS
  <2> HIDE DEF g
  <2>3. f = g
    BY <2>1, <2>2
  <2>4. QED BY <2>3 DEF g
<1>8. Sorts(sort)
  <2> HIDE DEF Sorts
  <2>1. QED BY <1>7
<1> HIDE DEF sort
<1>9. sort[0] = base /\ \A k \in 1..N : sort[k] = SortOnce(sort[k - 1])
  <2>1. \A k \in 0..N : sort[k] = IF k = 0 THEN base ELSE SortOnce(sort[k - 1])
    BY <1>8
  <2> HIDE DEF Sorts
  <2>2. 0 \in 0..N /\ \A k \in 1..N : k \in 0..N /\ k # 0
    BY <1>1
  <2>3. QED BY <2>1, <2>2
<1> HIDE DEF Sorts
<1> DEFINE Sorted(k) == \E r : Sorting(sort[k], s, Done(k), r)
           T == {k \in Nat : k <= N => Sorted(k)}
<1>10. 0 \in T
  <2>1. Done(0) = 0
    BY <1>1
  <2> HIDE DEF Done
  <2>2. QED BY <1>3, <1>9, <2>1
<1>11. ASSUME NEW k \in Nat, k \in T PROVE k + 1 \in T
  <2>1. SUFFICES ASSUME k + 1 <= N PROVE Sorted(k + 1)
    OBVIOUS
  <2>2. Sorted(k) /\ k + 1 \in 1..N /\ (k + 1) - 1 = k
    <3>1. k <= N /\ k + 1 \in 1..N /\ (k + 1) - 1 = k
      BY <1>1, <2>1
    <3> HIDE DEF Sorted
    <3>2. QED BY <1>11, <3>1
  <2>3. sort[k + 1] = SortOnce(sort[k])
    BY <1>9, <2>2
  <2>4. PICK j \in 0..Len(s) : j = Done(k)
    BY <1>1
  <2>5. PICK r, d : d = sort[k] /\ Sorting(d, s, j, r)
    BY <2>2, <2>4
  <2>6. CASE k < Len(s)
    <3>1. j = k /\ Done(k + 1) = j + 1 /\ j < Len(s)
      BY <1>1, <2>4, <2>6
    <3>2. \E q : Sorting(SortOnce(d), s, j + 1, q)
      BY <1>1, <2>5, <3>1, SortOnceFacts
    <3> HIDE DEF Done
    <3>3. QED BY <2>3, <2>5, <3>1, <3>2
  <2>7. CASE ~(k < Len(s))
    <3>1. j = Len(s) /\ Done(k + 1) = j
      BY <1>1, <2>4, <2>7
    <3>2. SortOnce(d) = d
      BY <1>1, <2>5, <3>1, SortOnceFacts
    <3> HIDE DEF Done
    <3>3. QED BY <2>3, <2>5, <3>1, <3>2
  <2>8. QED BY <2>6, <2>7
<1>12. Sorted(N)
  <2>1. Nat \subseteq T
    <3> HIDE DEF T
    <3>1. QED BY <1>10, <1>11, NatIn
  <2> HIDE DEF Sorted
  <2>2. QED BY <1>1, <2>1
<1>13. Done(N) = Len(s)
  BY <1>1
<1> HIDE DEF Done
<1>14. QED BY <1>2, <1>12, <1>13

\* The promise's words for a sorted list.
LEMMA StableIs ==
    ASSUME NodeList(Chain), NEW r, NodeList(r), ToSet(r) = ToSet(Chain), Stable(Chain, r),
           NodesAssumption
    PROVE  Promise!StableSort(r)
<1> DEFINE s == Chain
           M == Promise!Members
           Before(l, a, b) == \E i, j \in 1..Len(l) : i < j /\ l[i] = a /\ l[j] = b
<1>1. /\ M = ToSet(r) /\ Cardinality(M) = Len(r) /\ Len(r) \in Nat
      /\ \A i \in 1..Len(r) : r[i] \in M /\ r[i] \in Nodes
      /\ \A i, j \in 1..Len(r) : r[i] = r[j] => i = j
      /\ r = [i \in 1..Len(r) |-> r[i]]
      /\ Key \in [Nodes -> Int]
  <2>1. M = ToSet(r)
    BY Zenon, SameMembers
  <2>2. Cardinality(ToSet(r)) = Len(r)
    BY NodeListCard
  <2>3. Key \in [Nodes -> Int]
    BY Zenon DEF NodesAssumption
  <2>4. r \in Seq(Nodes)
    BY DEF NodeList
  <2>5. r = [i \in 1..Len(r) |-> r[i]]
    BY <2>4
  <2> HIDE DEF M
  <2>6. QED BY <2>1, <2>2, <2>3, <2>5, NodeListFacts
<1>2. Promise!Cardinality(M) = Cardinality(M)
  BY Zenon DEF Cardinality, Promise!Cardinality
<1> HIDE DEF M
<1>3. r \in Promise!SetToSeqs(M)
  <2>1. r \in [1..Len(r) -> M]
    BY <1>1
  <2>2. Promise!SetToSeqs(M) = {f \in [1..Len(r) -> M] :
                                  \A i, j \in 1..Len(r) : i # j => f[i] # f[j]}
    BY Zenon, <1>1, <1>2 DEF Promise!SetToSeqs
  <2>3. QED BY <1>1, <2>1, <2>2
<1>4. ASSUME NEW a \in M, NEW b \in M, Before(r, a, b)
      PROVE  Key[a] <= Key[b] /\ (Key[a] = Key[b] => Before(s, a, b))
  <2>1. PICK i, j \in 1..Len(r) : i < j /\ r[i] = a /\ r[j] = b
    BY <1>4
  <2>2. \/ Key[r[i]] < Key[r[j]]
        \/ Key[r[i]] = Key[r[j]] /\ \E x, y \in 1..Len(s) : x < y /\ s[x] = r[i] /\ s[y] = r[j]
    BY <2>1 DEF Stable
  <2>3. Key[r[i]] \in Int /\ Key[r[j]] \in Int
    BY <1>1
  <2>4. CASE Key[r[i]] < Key[r[j]]
    BY <2>1, <2>3, <2>4
  <2>5. CASE /\ Key[r[i]] = Key[r[j]]
             /\ \E x, y \in 1..Len(s) : x < y /\ s[x] = r[i] /\ s[y] = r[j]
    BY <2>1, <2>3, <2>5
  <2>6. QED BY <2>2, <2>4, <2>5
<1> HIDE DEF s
<1>5. \A a, b \in M : Before(r, a, b) => Key[a] <= Key[b] /\ (Key[a] = Key[b] => Before(s, a, b))
  BY <1>4
<1>6. QED BY Zenon, <1>3, <1>5 DEF Promise!StableSort, M, s

LEMMA SortStep ==
    ASSUME IInv, NodesAssumption, Sort
    PROVE  IInv' /\ Promise!Sort
<1> DEFINE s == Chain
<1>1. /\ Holds(links, s) /\ NodeList(s) /\ Len(s) \in Nat /\ pFirst = NodeAt(s, 1)
      /\ pFirst = FirstIn(s) /\ nNodes = Len(s) /\ links \in Links /\ Chained(links, s)
      /\ (s = <<>> <=> Len(s) = 0) /\ pLast = LastIn(s)
  BY Standing, HoldsFacts
<1>2. FirstIn(s) = Null <=> s = <<>>
  BY <1>1, LastAfter
<1> HIDE DEF s
<1>3. \E r : /\ Represents(links', pFirst', pLast', nNodes', r) /\ NodeList(r)
             /\ ToSet(r) = ToSet(s) /\ Stable(s, r)
  <2>1. CASE pFirst = Null
    <3>1. UNCHANGED <<links, pFirst, pLast, nNodes>>
      BY <2>1 DEF Sort
    <3>2. Represents(links', pFirst', pLast', nNodes', s)
      BY <1>1, <3>1 DEF Represents
    <3>3. Len(s) = 0 /\ 1..0 = {}
      BY <1>1, <1>2, <2>1
    <3>4. Stable(s, s)
      BY <3>3 DEF Stable
    <3>5. QED BY <1>1, <3>2, <3>4
  <2>2. CASE pFirst # Null
    <3>1. PICK d : d = SortFrom(links, FirstOf(links, pFirst))
      OBVIOUS
    <3>2. links' = d.links /\ pFirst' = d.first /\ pLast' = LastOf(d.links, d.first) /\ nNodes' = nNodes
      BY <2>2, <3>1 DEF Sort
    <3>3. FirstOf(links, pFirst) = pFirst
      <4>1. s # <<>> /\ 1 \in 1..Len(s) /\ FirstIn(s) = s[1]
        BY <1>1, <1>2, <2>2 DEF FirstIn
      <4>2. FirstOf(links, s[1]) = FirstIn(s)
        BY <1>1, <4>1, EndsOf
      <4>3. QED BY <1>1, <4>1, <4>2
    <3>4. PICK r : Sorting(d, s, Len(s), r)
      <4>1. \E r : Sorting(SortFrom(links, NodeAt(s, 1)), s, Len(s), r)
        BY <1>1, SortLoop
      <4>2. QED BY <1>1, <3>1, <3>3, <4>1
    <3>5. /\ Holds(d.links, r) /\ ToSet(r) = ToSet(s) /\ Len(r) = Len(s)
          /\ d.first = FirstIn(r) /\ Stable(s, r)
      BY <1>1, <3>4, SortEnd
    <3>6. NodeList(r)
      BY <3>5, HoldsFacts
    <3>7. LastOf(d.links, FirstIn(r)) = LastIn(r)
      <4>1. FirstIn(r) # Null
        <5>1. (r = <<>> <=> Len(r) = 0) /\ (FirstIn(r) = Null <=> r = <<>>)
          BY <3>5, HoldsFacts, LastAfter
        <5>2. QED BY <1>1, <1>2, <2>2, <3>5, <5>1
      <4>2. QED BY <3>5, <4>1, LastAfter
    <3>8. Represents(links', pFirst', pLast', nNodes', r)
      BY <1>1, <3>2, <3>5, <3>7 DEF Represents
    <3>9. QED BY <3>5, <3>6, <3>8
  <2>3. QED BY <2>1, <2>2
<1>4. PICK r : /\ Represents(links', pFirst', pLast', nNodes', r) /\ NodeList(r)
               /\ ToSet(r) = ToSet(s) /\ Stable(s, r)
  BY <1>3
<1>5. IInv' /\ Chain' = r
  BY <1>4, Becomes
<1>6. Promise!StableSort(r)
  BY <1>1, <1>4, StableIs DEF s
<1>7. Promise!Sort
  <2>1. op' = <<"Sort">>
    BY DEF Sort
  <2>2. QED BY Zenon, <1>5, <1>6, <2>1 DEF Promise!Sort
<1>8. QED BY <1>5, <1>7

-----------------------------------------------------------------------------
(* The invariant *)

LEMMA Starts ==
    ASSUME NodesAssumption, Init
    PROVE  IInv /\ Promise!Init
<1>1. /\ links = [dir \in {"prev", "next"} |-> [n \in Nodes |-> Null]]
      /\ pFirst = Null /\ pLast = Null /\ nNodes = 0 /\ op = <<"none">>
  BY DEF Init
<1>2. links \in Links
  BY <1>1 DEF Links, Pointer
<1>3. \A n \in Nodes : Alone(links, n)
  BY <1>1 DEF Alone
<1>4. <<>> \in Seq(Nodes) /\ Len(<<>>) = 0 /\ 1..0 = {} /\ FirstIn(<<>>) = Null /\ LastIn(<<>>) = Null
  BY DEF FirstIn, LastIn
<1>5. NodeList(<<>>)
  BY <1>4 DEF NodeList, NoDup
<1>6. Chained(links, <<>>)
  BY <1>4 DEF Chained
<1>7. Holds(links, <<>>)
  BY <1>2, <1>3, <1>5, <1>6 DEF Holds
<1>8. Represents(links, pFirst, pLast, nNodes, <<>>)
  BY <1>1, <1>4, <1>7 DEF Represents
<1>9. Chain = <<>> /\ IInv
  BY <1>8, RepresentsChain
<1>10. QED BY Zenon, <1>1, <1>9 DEF Promise!Init

\* Every call keeps the list well formed, and is the call of the same name on
\* the sequence.
LEMMA Keeps ==
    ASSUME NodesAssumption, IInv, [Next]_vars
    PROVE  IInv' /\ Promised
<1>1. ASSUME NEW n \in Free, Promise!Insertions(n) PROVE Promise!Next
  <2>1. n \in Promise!Free
    BY FreeFacts
  <2>2. QED BY Zenon, <1>1, <2>1 DEF Promise!Next
<1>2. Promise!Removals => Promise!Next
  BY Zenon DEF Promise!Next
<1>3. Promise!Sort => Promise!Next
  BY Zenon DEF Promise!Next
<1>4. SUFFICES IInv' /\ (Promise!Next \/ UNCHANGED <<op, Chain>>)
  BY Zenon DEF Promised
<1>5. ASSUME NEW n \in Free, Add(n) PROVE IInv' /\ Promise!Next
  BY Zenon, <1>1, <1>5, AddStep
<1>6. ASSUME NEW n \in Free, Push(n) PROVE IInv' /\ Promise!Next
  BY Zenon, <1>6, PushStep
<1>7. ASSUME NEW n \in Free, StartPush(n) PROVE IInv' /\ Promise!Next
  BY Zenon, <1>7, StartPushStep
<1>8. ASSUME NEW n \in Free, NEW m \in Nodes \ {n}, InsertBefore(n, m) PROVE IInv' /\ Promise!Next
  BY Zenon, <1>8, InsertBeforeStep
<1>9. ASSUME NEW n \in Free, NEW m \in Nodes \ {n}, InsertAfter(n, m) PROVE IInv' /\ Promise!Next
  BY Zenon, <1>9, InsertAfterStep
<1>10. ASSUME NEW n \in Free, NEW m \in Nodes \ {n}, Replace(n, m) PROVE IInv' /\ Promise!Next
  BY Zenon, <1>10, ReplaceStep
<1>11. ASSUME NEW n \in Nodes, RemoveNode(n) PROVE IInv' /\ Promise!Next
  BY Zenon, <1>2, <1>11, RemoveNodeStep
<1>12. RemoveAll => IInv' /\ Promise!Next
  BY Zenon, <1>2, RemoveAllStep
<1>13. Pop => IInv' /\ Promise!Next
  BY Zenon, <1>2, PopStep
<1>14. EndPop => IInv' /\ Promise!Next
  BY Zenon, <1>2, EndPopStep
<1>15. Sort => IInv' /\ Promise!Next
  BY Zenon, <1>3, SortStep
<1>16. ASSUME NEW count \in 0..Cardinality(Nodes), NEW fromEnd \in BOOLEAN, Limit(count, fromEnd)
       PROVE  IInv' /\ Promise!Next
  BY Zenon, <1>2, <1>16, LimitStep
<1>17. ASSUME UNCHANGED vars PROVE IInv' /\ UNCHANGED <<op, Chain>>
  <2>1. UNCHANGED <<links, pFirst, pLast, nNodes, op>>
    BY <1>17 DEF vars
  <2>2. Chain' = Chain
    BY <2>1 DEF Chain, ChainFrom
  <2>3. IInv'
    BY <2>1, <2>2 DEF IInv
  <2>4. QED BY <2>1, <2>2, <2>3
<1>18. QED
  BY Zenon, <1>5, <1>6, <1>7, <1>8, <1>9, <1>10, <1>11, <1>12, <1>13, <1>14, <1>15, <1>16, <1>17
     DEF Next

\* What IInv says, in the words of the properties.
LEMMA IInvTypes ==
    ASSUME NodesAssumption, IInv
    PROVE  TypeOK
<1>1. /\ links \in Links /\ Len(Chain) \in Nat /\ pFirst = FirstIn(Chain) /\ pLast = LastIn(Chain)
      /\ nNodes = Len(Chain) /\ (Chain = <<>> <=> Len(Chain) = 0)
      /\ \A k \in 1..Len(Chain) : Chain[k] \in Nodes
  BY Standing, HoldsFacts
<1>2. Chain # <<>> => 1 \in 1..Len(Chain) /\ Len(Chain) \in 1..Len(Chain)
  BY <1>1
<1>3. FirstIn(Chain) \in Pointer /\ LastIn(Chain) \in Pointer
  BY <1>1, <1>2 DEF FirstIn, LastIn, Pointer
<1>4. QED BY Zenon, <1>1, <1>3 DEF TypeOK, Links

LEMMA IInvWellFormed ==
    ASSUME NodesAssumption, IInv
    PROVE  WellFormed
<1> DEFINE s == Chain
<1>1. /\ Holds(links, s) /\ Len(s) \in Nat /\ s \in Seq(Nodes) /\ Null \notin Nodes
      /\ pLast = LastIn(s) /\ nNodes = Len(s) /\ (s = <<>> <=> Len(s) = 0)
      /\ \A k \in 1..Len(s) : s[k] \in Nodes /\ s[k] \in ToSet(s)
      /\ \A k, l \in 1..Len(s) : s[k] = s[l] => k = l
      /\ \A m \in ToSet(s) : \E k \in 1..Len(s) : s[k] = m
  BY Standing, HoldsFacts
<1>2. /\ \A k \in 1..Len(s) : /\ links.next[s[k]] = IF k = Len(s) THEN Null ELSE s[k + 1]
                              /\ links.prev[s[k]] = IF k = 1 THEN Null ELSE s[k - 1]
      /\ \A n \in Nodes \ ToSet(s) : links.next[n] = Null /\ links.prev[n] = Null
  BY <1>1 DEF Holds, Chained, Alone
<1>3. Free = Nodes \ ToSet(s)
  BY DEF Free
<1> HIDE DEF s
<1>4. ASSUME NEW n \in Nodes, NEW m \in Nodes, links.next[n] = m PROVE links.prev[m] = n
  <2>1. n \in ToSet(s)
    BY <1>1, <1>2, <1>4
  <2>2. PICK k \in 1..Len(s) : s[k] = n
    BY <1>1, <2>1
  <2>3. k # Len(s) /\ m = s[k + 1]
    BY <1>1, <1>2, <1>4, <2>2
  <2>4. k + 1 \in 1..Len(s) /\ k + 1 # 1 /\ (k + 1) - 1 = k
    BY <1>1, <2>3
  <2>5. QED BY <1>2, <2>2, <2>3, <2>4
<1>5. ASSUME NEW n \in Nodes, NEW m \in Nodes, links.prev[m] = n PROVE links.next[n] = m
  <2>1. m \in ToSet(s)
    BY <1>1, <1>2, <1>5
  <2>2. PICK k \in 1..Len(s) : s[k] = m
    BY <1>1, <2>1
  <2>3. k # 1 /\ n = s[k - 1]
    BY <1>1, <1>2, <1>5, <2>2
  <2>4. k - 1 \in 1..Len(s) /\ k - 1 # Len(s) /\ (k - 1) + 1 = k
    BY <1>1, <2>3
  <2>5. QED BY <1>2, <2>2, <2>3, <2>4
<1>6. pLast = IF s = <<>> THEN Null ELSE Last(s)
  BY <1>1 DEF LastIn, Last
<1>7. IsInjective(s)
  <2>1. DOMAIN s = 1..Len(s)
    BY <1>1
  <2>2. QED BY <1>1, <2>1 DEF IsInjective
<1>8. pLast # Null => links.next[pLast] = Null
  <2>1. s # <<>> => Len(s) \in 1..Len(s)
    BY <1>1
  <2>2. QED BY <1>1, <1>2, <2>1 DEF LastIn
<1>9. \A n, m \in Nodes : links.next[n] = m <=> links.prev[m] = n
  BY <1>4, <1>5
<1>10. QED BY Zenon, <1>1, <1>2, <1>3, <1>6, <1>7, <1>8, <1>9 DEF WellFormed, s

\* The list is well formed before and after every call.
LEMMA Always == Spec => []IInv
<1>1. Init => IInv
  BY Starts, NodesAssumption
<1>2. IInv /\ [Next]_vars => IInv'
  BY Keeps, NodesAssumption
<1>3. QED BY <1>1, <1>2, PTL DEF Spec

-----------------------------------------------------------------------------
(* The theorems *)

\* The two links of every node are nodes or NULL, and so are the list's ends.
THEOREM TypeCorrect == Spec => []TypeOK
<1>1. IInv => TypeOK
  BY IInvTypes, NodesAssumption
<1>2. QED BY <1>1, Always, PTL

\* However nodes are added, inserted, replaced, removed, sorted and cut off, in
\* a list of any length: next and prev agree, pFirst, pLast and nNodes are those
\* of the chain, no node is in it twice, and a node outside it has no links.
THEOREM StaysWellFormed == Spec => []WellFormed
<1>1. IInv => WellFormed
  BY IInvWellFormed, NodesAssumption
<1>2. QED BY <1>1, Always, PTL

\* Each call of AList does to the chain, and returns, what the call of the same
\* name does to a sequence, with any nodes and any keys: the list implements the
\* sequence its users take it for.
THEOREM Implements == Spec => RefinesSequence
<1>1. Init => Promise!Init
  BY Starts, NodesAssumption
<1>2. IInv /\ [Next]_vars => Promised
  BY Keeps, NodesAssumption
<1>3. Spec => [][Promised]_<<Chain, op>>
  BY <1>2, Always, PTL DEF Spec
<1>4. QED BY <1>1, <1>3 DEF RefinesSequence, Spec

-----------------------------------------------------------------------------
(* The order Add() keeps *)

\* There is a place for every key: behind the last node that does not come after it.
LEMMA PlaceFor ==
    ASSUME NodesAssumption, NEW s, NodeList(s), NEW n \in Nodes
    PROVE  \E c \in 0..Len(s) : Fits(s, n, Len(s), c)
<1> DEFINE S == {0} \cup {k \in 1..Len(s) : Key[s[k]] <= Key[n]}
           T == {Len(s) - k : k \in S}
<1>1. Len(s) \in Nat /\ Key[n] \in Int /\ \A k \in 1..Len(s) : Key[s[k]] \in Int
  <2>1. Key \in [Nodes -> Int]
    BY Zenon DEF NodesAssumption
  <2>2. QED BY <2>1, NodeListFacts
<1>2. \A k \in S : k \in 0..Len(s) /\ Len(s) - k \in Nat /\ (k # 0 => Key[s[k]] <= Key[n])
  BY <1>1
<1>3. \A k \in 1..Len(s) : k \notin S => Key[s[k]] > Key[n]
  BY <1>1
<1>4. 0 \in S
  OBVIOUS
<1> HIDE DEF S
<1>5. T \in SUBSET Nat /\ T # {}
  BY <1>2, <1>4
<1>6. PICK m \in T : \A k \in T : m <= k
  BY <1>5, Least
<1>7. PICK c \in S : m = Len(s) - c
  BY <1>6
<1>8. ASSUME NEW x \in (c + 1)..Len(s) PROVE Key[s[x]] > Key[n]
  <2>1. x \in 1..Len(s) /\ Len(s) - x < Len(s) - c
    BY <1>1, <1>2
  <2>2. x \notin S
    <3>1. ASSUME x \in S PROVE FALSE
      <4>1. Len(s) - x \in T
        BY <3>1
      <4>2. m <= Len(s) - x
        BY <1>6, <4>1
      <4>3. QED BY <1>1, <1>2, <1>7, <2>1, <4>2
    <3>2. QED BY <3>1
  <2>3. QED BY <1>3, <2>1, <2>2
<1>9. c \in 0..Len(s) /\ (c # 0 => Key[s[c]] <= Key[n]) /\ (c # Len(s) => c + 1 \in (c + 1)..Len(s))
  BY <1>1, <1>2
<1>10. Fits(s, n, Len(s), c)
  BY <1>8, <1>9 DEF Fits
<1>11. QED BY <1>9, <1>10

\* A list in order stays so with one more node in its place.
LEMMA PlacedInOrder ==
    ASSUME NodesAssumption, NEW s, NodeList(s), InOrder(s), NEW n \in Nodes, n \notin ToSet(s),
           NEW c \in 0..Len(s), Fits(s, n, Len(s), c), NEW r, Longer(r, s, c + 1, n)
    PROVE  /\ InOrder(r)
           /\ \A k \in 1..Len(r) : r[k] = n => \A l \in (k + 1)..Len(r) : Key[r[l]] > Key[n]
<1>1. /\ Len(s) \in Nat /\ Key[n] \in Int
      /\ \A k \in 1..Len(s) : s[k] \in ToSet(s) /\ Key[s[k]] \in Int
  <2>1. Key \in [Nodes -> Int]
    BY Zenon DEF NodesAssumption
  <2>2. QED BY <2>1, NodeListFacts
<1>2. PICK p \in 1..(Len(s) + 1) : p = c + 1 /\ p - 1 = c
  <2>1. c + 1 \in 1..(Len(s) + 1) /\ (c + 1) - 1 = c
    BY <1>1
  <2>2. QED BY <2>1
<1>3. /\ Len(r) = Len(s) + 1 /\ r[p] = n
      /\ \A i \in 1..(p - 1) : r[i] = s[i]
      /\ \A i \in (p + 1)..(Len(s) + 1) : r[i] = s[i - 1]
  BY <1>2 DEF Longer
<1>4. ASSUME NEW i \in 1..c PROVE Key[s[i]] <= Key[n]
  <2>1. i \in 1..Len(s) /\ c \in 1..Len(s) /\ c # 0
    BY <1>1
  <2>2. Key[s[c]] <= Key[n]
    BY <2>1 DEF Fits
  <2>3. CASE i < c
    <3>1. Key[s[i]] <= Key[s[c]]
      BY <2>1, <2>3 DEF InOrder
    <3>2. QED BY <1>1, <2>1, <2>2, <3>1
  <2>4. CASE ~(i < c)
    <3>1. i = c
      BY <2>1, <2>4
    <3>2. QED BY <2>2, <3>1
  <2>5. QED BY <2>3, <2>4
<1>5. ASSUME NEW j \in (c + 1)..Len(s) PROVE Key[s[j]] > Key[n]
  BY DEF Fits
<1>6. ASSUME NEW i \in 1..Len(r), NEW j \in 1..Len(r), i < j PROVE Key[r[i]] <= Key[r[j]]
  <2>1. /\ i \in Nat /\ j \in Nat /\ 1 <= i /\ i < j /\ j <= Len(s) + 1 /\ c \in Nat /\ c <= Len(s)
        /\ p = c + 1 /\ Len(s) \in Nat
    BY <1>1, <1>2, <1>3, <1>6
  <2>2. CASE j < p
    <3>1. i \in 1..(p - 1) /\ j \in 1..(p - 1) /\ i \in 1..Len(s) /\ j \in 1..Len(s)
      BY <2>1, <2>2
    <3>2. r[i] = s[i] /\ r[j] = s[j]
      BY <1>3, <3>1
    <3>3. Key[s[i]] <= Key[s[j]]
      BY <2>1, <3>1 DEF InOrder
    <3>4. QED BY <3>2, <3>3
  <2>3. CASE j = p
    <3>1. i \in 1..(p - 1) /\ i \in 1..c
      BY <2>1, <2>3
    <3>2. r[i] = s[i] /\ r[j] = n
      BY <1>3, <2>3, <3>1
    <3>3. QED BY <1>4, <3>1, <3>2
  <2>4. CASE j > p
    <3>1. j \in (p + 1)..(Len(s) + 1) /\ j - 1 \in (c + 1)..Len(s) /\ j - 1 \in 1..Len(s)
      BY <2>1, <2>4
    <3>2. r[j] = s[j - 1]
      BY <1>3, <3>1
    <3>3. CASE i < p
      <4>1. i \in 1..(p - 1) /\ i \in 1..Len(s) /\ i < j - 1
        BY <2>1, <2>4, <3>3
      <4>2. r[i] = s[i]
        BY <1>3, <4>1
      <4>3. Key[s[i]] <= Key[s[j - 1]]
        BY <3>1, <4>1 DEF InOrder
      <4>4. QED BY <3>2, <4>2, <4>3
    <3>4. CASE i = p
      <4>1. r[i] = n /\ Key[s[j - 1]] > Key[n] /\ Key[s[j - 1]] \in Int
        BY <1>1, <1>3, <1>5, <3>1, <3>4
      <4>2. QED BY <1>1, <3>2, <4>1
    <3>5. CASE i > p
      <4>1. i \in (p + 1)..(Len(s) + 1) /\ i - 1 \in 1..Len(s) /\ i - 1 < j - 1
        BY <2>1, <3>5
      <4>2. r[i] = s[i - 1]
        BY <1>3, <4>1
      <4>3. Key[s[i - 1]] <= Key[s[j - 1]]
        BY <3>1, <4>1 DEF InOrder
      <4>4. QED BY <3>2, <4>2, <4>3
    <3>6. QED BY <2>1, <3>3, <3>4, <3>5
  <2>5. QED BY <2>1, <2>2, <2>3, <2>4
<1>7. ASSUME NEW k \in 1..Len(r), r[k] = n, NEW l \in (k + 1)..Len(r) PROVE Key[r[l]] > Key[n]
  <2>1. k = p
    <3>1. CASE k < p
      <4>1. k \in 1..(p - 1) /\ k \in 1..Len(s)
        BY <1>1, <1>2, <3>1
      <4>2. QED BY <1>1, <1>3, <1>7, <4>1
    <3>2. CASE k > p
      <4>1. k \in (p + 1)..(Len(s) + 1) /\ k - 1 \in 1..Len(s)
        BY <1>1, <1>2, <1>3, <3>2
      <4>2. r[k] = s[k - 1] /\ s[k - 1] \in ToSet(s)
        BY <1>1, <1>3, <4>1
      <4>3. QED BY <1>7, <4>2
    <3>3. QED BY <3>1, <3>2
  <2>2. l \in (p + 1)..(Len(s) + 1) /\ l - 1 \in (c + 1)..Len(s)
    BY <1>1, <1>2, <1>3, <2>1
  <2>3. r[l] = s[l - 1]
    BY <1>3, <2>2
  <2>4. QED BY <1>5, <2>2, <2>3
<1>8. InOrder(r)
  BY <1>6 DEF InOrder
<1>9. QED BY <1>7, <1>8

\* The calls have names of their own.
LEMMA OnlyAddAdds ==
    ASSUME Promise!Next, op'[1] = "Add"
    PROVE  \E n \in Promise!Free :
             Chain' = Promise!InsertAt(Chain, Promise!OrderedPlace(n), n) /\ op' = <<"Add", n>>
<1>1. ~Promise!Removals
  <2>1. Promise!Removals => \/ \E m, b : op' = <<"Remove", m, b>>
                            \/ \E m : op' = <<"Pop", m>> \/ op' = <<"EndPop", m>>
                            \/ op' = <<"RemoveAll">>
                            \/ \E a, b, c : op' = <<"Limit", a, b, c>>
    BY DEF Promise!Removals
  <2>2. /\ \A m, b : op' # <<"Remove", m, b>>
        /\ \A m : op' # <<"Pop", m>> /\ op' # <<"EndPop", m>>
        /\ op' # <<"RemoveAll">>
        /\ \A a, b, c : op' # <<"Limit", a, b, c>>
    OBVIOUS
  <2>3. QED BY Zenon, <2>1, <2>2
<1>2. ~Promise!Sort
  BY DEF Promise!Sort
<1>3. PICK n \in Promise!Free : Promise!Insertions(n)
  BY Zenon, <1>1, <1>2 DEF Promise!Next
<1>4. op' # <<"Push", n>> /\ op' # <<"StartPush", n>>
  OBVIOUS
<1>5. ASSUME NEW m, NEW result,
             \/ Promise!Beside("InsertBefore", n, m, result)
             \/ Promise!Beside("InsertAfter", n, m, result)
             \/ Promise!Beside("Replace", n, m, result)
      PROVE  FALSE
  <2>1. ASSUME NEW call, Promise!Beside(call, n, m, result) PROVE \E b : op' = <<call, n, m, b>>
    BY Zenon, <2>1 DEF Promise!Beside
  <2>2. /\ \A b : op' # <<"InsertBefore", n, m, b>> /\ op' # <<"InsertAfter", n, m, b>>
        /\ \A b : op' # <<"Replace", n, m, b>>
    OBVIOUS
  <2>3. QED BY Zenon, <1>5, <2>1, <2>2
<1>6. QED BY Zenon, <1>3, <1>4, <1>5 DEF Promise!Insertions

LEMMA AddKeeps ==
    ASSUME NodesAssumption, IInv, [Next]_vars
    PROVE  UNCHANGED <<Chain, op>> \/ OrderKept
<1>1. CASE UNCHANGED <<op, Chain>>
  BY <1>1
<1>2. CASE Promise!Next
  <2>1. SUFFICES ASSUME op'[1] = "Add", InOrder(Chain)
                 PROVE  /\ InOrder(Chain')
                        /\ \A k \in 1..Len(Chain') : Chain'[k] = op'[2] =>
                             \A l \in (k + 1)..Len(Chain') : Key[Chain'[l]] > Key[op'[2]]
    BY Zenon DEF OrderKept
  <2>2. PICK n \in Promise!Free :
          Chain' = Promise!InsertAt(Chain, Promise!OrderedPlace(n), n) /\ op' = <<"Add", n>>
    BY <1>2, <2>1, OnlyAddAdds
  <2>3. n \in Free /\ n \in Nodes /\ n \notin ToSet(Chain)
    <3>1. n \in Free
      BY Zenon, SameMembers
    <3>2. QED BY <3>1, FreeFacts
  <2>4. NodeList(Chain) /\ Chain \in Seq(Nodes) /\ Len(Chain) \in Nat
    BY Standing, HoldsFacts
  <2>5. PICK c \in 0..Len(Chain) : Fits(Chain, n, Len(Chain), c)
    BY <2>3, <2>4, PlaceFor
  <2>6. Promise!OrderedPlace(n) = c + 1
    BY <2>3, <2>5, OrderedPlaceIs
  <2>7. Chain' = InsertAt(Chain, c + 1, n)
    BY <2>2, <2>6, SameOperators
  <2>8. PICK r : r = InsertAt(Chain, c + 1, n)
    OBVIOUS
  <2>9. Longer(r, Chain, c + 1, n)
    <3>1. c + 1 \in 1..(Len(Chain) + 1)
      BY <2>4
    <3>2. Longer(InsertAt(Chain, c + 1, n), Chain, c + 1, n)
      BY <2>3, <2>4, <3>1, LongerIs
    <3>3. QED BY <2>8, <3>2
  <2>10. /\ InOrder(r)
         /\ \A k \in 1..Len(r) : r[k] = n => \A l \in (k + 1)..Len(r) : Key[r[l]] > Key[n]
    BY <2>1, <2>3, <2>4, <2>5, <2>9, PlacedInOrder
  <2>11. Chain' = r /\ op'[2] = n
    BY <2>2, <2>7, <2>8
  <2>12. QED BY Zenon, <2>10, <2>11 DEF InOrder
<1>3. QED BY Zenon, <1>1, <1>2, Keeps DEF Promised

\* A list that is in order, of any length and with any keys, stays so under
\* Add(), which puts the node behind all those with its key: Compare() is not
\* asked to tell equal keys apart.
THEOREM OrderStays == Spec => AddKeepsOrder
<1>1. IInv /\ [Next]_vars => [OrderKept]_<<Chain, op>>
  BY AddKeeps, NodesAssumption
<1>2. QED BY <1>1, Always, PTL DEF Spec, AddKeepsOrder
=============================================================================
