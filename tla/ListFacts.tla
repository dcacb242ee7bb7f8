------------------------------ MODULE ListFacts ------------------------------
(***************************************************************************)
(* Facts about the community modules' operators on sequences that the      *)
(* proofs of several components rest on: lists that hold an element once,  *)
(* removal, and left folds.  Induction is by the least counterexample, a   *)
(* set, because no prover here instantiates a predicate parameter.         *)
(***************************************************************************)
EXTENDS Integers, SequencesExt, SequenceTheorems, FiniteSetTheorems,
        NaturalsInduction, WellFoundedInduction, TLAPS

-----------------------------------------------------------------------------
(* Lists without duplicates *)

NoDup(s) == \A k, l \in 1..Len(s) : s[k] = s[l] => k = l

LEMMA ToSetFacts ==
    ASSUME NEW S, NEW s \in Seq(S)
    PROVE  /\ ToSet(s) \subseteq S
           /\ \A k \in 1..Len(s) : s[k] \in ToSet(s)
           /\ \A e \in ToSet(s) : \E k \in 1..Len(s) : s[k] = e
BY DEF ToSet

LEMMA AppendFacts ==
    ASSUME NEW S, NEW s \in Seq(S), NEW e \in S
    PROVE  /\ Append(s, e) \in Seq(S)
           /\ Len(Append(s, e)) = Len(s) + 1
           /\ \A k \in 1..Len(s) : Append(s, e)[k] = s[k]
           /\ ToSet(Append(s, e)) = ToSet(s) \cup {e}
           /\ NoDup(s) /\ e \notin ToSet(s) => NoDup(Append(s, e))
<1>1. /\ Append(s, e) \in Seq(S)
      /\ Len(Append(s, e)) = Len(s) + 1
      /\ \A k \in 1..Len(s) : Append(s, e)[k] = s[k]
      /\ Append(s, e)[Len(s) + 1] = e
  OBVIOUS
<1>2. Len(s) \in Nat
  OBVIOUS
<1>3. ToSet(Append(s, e)) = ToSet(s) \cup {e}
  <2>1. ASSUME NEW x \in ToSet(Append(s, e)) PROVE x \in ToSet(s) \cup {e}
    <3>1. PICK k \in 1..(Len(s) + 1) : Append(s, e)[k] = x
      BY <1>1, ToSetFacts
    <3>2. CASE k = Len(s) + 1
      BY <1>1, <3>1, <3>2
    <3>3. CASE k \in 1..Len(s)
      BY <1>1, <3>1, <3>3, ToSetFacts
    <3>4. QED BY <1>2, <3>2, <3>3
  <2>2. e \in ToSet(Append(s, e))
    <3>1. Len(s) + 1 \in 1..Len(Append(s, e))
      BY <1>1, <1>2
    <3>2. QED BY <1>1, <3>1 DEF ToSet
  <2>3. ASSUME NEW x \in ToSet(s) PROVE x \in ToSet(Append(s, e))
    <3>1. PICK k \in 1..Len(s) : s[k] = x
      BY ToSetFacts
    <3>2. k \in 1..Len(Append(s, e)) /\ Append(s, e)[k] = x
      BY <1>1, <1>2, <3>1
    <3>3. QED BY <1>1, <3>2, ToSetFacts
  <2>4. QED BY <2>1, <2>2, <2>3
<1>4. ASSUME NoDup(s), e \notin ToSet(s) PROVE NoDup(Append(s, e))
  <2>1. \A k \in 1..Len(s) : s[k] # e
    BY <1>4, ToSetFacts
  <2>2. QED BY <1>1, <1>2, <1>4, <2>1 DEF NoDup
<1>5. QED BY <1>1, <1>3, <1>4

\* Every element behind the removed one moves up.
LEMMA RemoveAtFacts ==
    ASSUME NEW S, NEW s \in Seq(S), NEW n \in 1..Len(s)
    PROVE  /\ RemoveAt(s, n) \in Seq(S)
           /\ Len(RemoveAt(s, n)) = Len(s) - 1
           /\ \A k \in 1..(n - 1) : RemoveAt(s, n)[k] = s[k]
           /\ \A k \in n..(Len(s) - 1) : RemoveAt(s, n)[k] = s[k + 1]
<1> DEFINE r == RemoveAt(s, n)
           left == SubSeq(s, 1, n - 1)
           right == SubSeq(s, n + 1, Len(s))
<1>1. /\ left \in Seq(S) /\ Len(left) = n - 1
      /\ \A k \in 1..(n - 1) : left[k] = s[k]
  OBVIOUS
<1>2. /\ right \in Seq(S) /\ Len(right) = Len(s) - n
      /\ \A k \in 1..(Len(s) - n) : right[k] = s[n + k]
  OBVIOUS
<1>3. r = left \o right
  BY DEF RemoveAt
<1> HIDE DEF left, right, r
<1>4. /\ r \in Seq(S) /\ Len(r) = Len(left) + Len(right)
      /\ \A k \in 1..Len(r) :
           r[k] = IF k <= Len(left) THEN left[k] ELSE right[k - Len(left)]
  <2>1. /\ left \o right \in Seq(S)
        /\ Len(left \o right) = Len(left) + Len(right)
        /\ \A k \in 1..Len(left) + Len(right) :
             (left \o right)[k] = IF k <= Len(left) THEN left[k] ELSE right[k - Len(left)]
    BY <1>1, <1>2, ConcatProperties
  <2>2. QED BY <1>3, <2>1
<1>5. Len(r) = Len(s) - 1
  BY <1>1, <1>2, <1>4
<1>6. ASSUME NEW k \in 1..(n - 1) PROVE r[k] = s[k]
  <2>1. k \in 1..Len(r) /\ k <= Len(left)
    BY <1>1, <1>5
  <2>2. QED BY <1>1, <1>4, <2>1
<1>7. ASSUME NEW k \in n..(Len(s) - 1) PROVE r[k] = s[k + 1]
  <2>1. Len(s) \in Nat /\ n \in Nat /\ k \in 1..Len(r) /\ ~(k <= n - 1)
    BY <1>5
  <2>2. r[k] = right[k - (n - 1)]
    BY <1>1, <1>4, <2>1
  <2>3. k - (n - 1) \in 1..(Len(s) - n)
    BY <1>5, <2>1
  <2>4. right[k - (n - 1)] = s[n + (k - (n - 1))]
    BY <1>2, <2>3
  <2>5. QED BY <2>1, <2>2, <2>4
<1>8. QED BY <1>4, <1>5, <1>6, <1>7 DEF r

\* Every element from the new one on moves down.
LEMMA InsertAtFacts ==
    ASSUME NEW S, NEW s \in Seq(S), NEW n \in 1..(Len(s) + 1), NEW e \in S
    PROVE  /\ InsertAt(s, n, e) \in Seq(S)
           /\ Len(InsertAt(s, n, e)) = Len(s) + 1
           /\ \A k \in 1..(n - 1) : InsertAt(s, n, e)[k] = s[k]
           /\ InsertAt(s, n, e)[n] = e
           /\ \A k \in (n + 1)..(Len(s) + 1) : InsertAt(s, n, e)[k] = s[k - 1]
<1> DEFINE r == InsertAt(s, n, e)
           left == SubSeq(s, 1, n - 1)
           most == Append(left, e)
           right == SubSeq(s, n, Len(s))
<1>1. /\ left \in Seq(S) /\ Len(left) = n - 1
      /\ \A k \in 1..(n - 1) : left[k] = s[k]
  OBVIOUS
<1>2. /\ right \in Seq(S) /\ Len(right) = Len(s) + 1 - n
      /\ \A k \in 1..(Len(s) + 1 - n) : right[k] = s[n - 1 + k]
  OBVIOUS
<1>3. r = (left \o <<e>>) \o right
  BY DEF InsertAt
<1> HIDE DEF left, right, r
<1>4. left \o <<e>> = most
  BY <1>1
<1>5. /\ most \in Seq(S) /\ Len(most) = n /\ most[n] = e
      /\ \A k \in 1..(n - 1) : most[k] = s[k]
  BY <1>1
<1> HIDE DEF most
<1>6. /\ r \in Seq(S) /\ Len(r) = Len(most) + Len(right)
      /\ \A k \in 1..Len(r) :
           r[k] = IF k <= Len(most) THEN most[k] ELSE right[k - Len(most)]
  <2>1. /\ most \o right \in Seq(S)
        /\ Len(most \o right) = Len(most) + Len(right)
        /\ \A k \in 1..Len(most) + Len(right) :
             (most \o right)[k] = IF k <= Len(most) THEN most[k] ELSE right[k - Len(most)]
    BY <1>2, <1>5, ConcatProperties
  <2>2. QED BY <1>3, <1>4, <2>1
<1>7. Len(r) = Len(s) + 1
  BY <1>2, <1>5, <1>6
<1>8. ASSUME NEW k \in 1..n PROVE r[k] = most[k]
  <2>1. k \in 1..Len(r) /\ k <= Len(most)
    BY <1>5, <1>7
  <2>2. QED BY <1>6, <2>1
<1>9. ASSUME NEW k \in (n + 1)..(Len(s) + 1) PROVE r[k] = s[k - 1]
  <2>1. Len(s) \in Nat /\ n \in Nat /\ k \in 1..Len(r) /\ ~(k <= n)
    BY <1>7
  <2>2. r[k] = right[k - n]
    BY <1>5, <1>6, <2>1
  <2>3. k - n \in 1..(Len(s) + 1 - n)
    BY <2>1
  <2>4. right[k - n] = s[n - 1 + (k - n)]
    BY <1>2, <2>3
  <2>5. n - 1 + (k - n) = k - 1
    BY <2>1
  <2>6. QED BY <2>2, <2>4, <2>5
<1>10. \A k \in 1..(n - 1) : k \in 1..n /\ r[k] = s[k]
  BY <1>5, <1>8
<1>11. r[n] = e
  BY <1>5, <1>8
<1>12. QED BY <1>6, <1>7, <1>9, <1>10, <1>11 DEF r

\* What a list is with e put in before the nth item.
InsertedAt(S, s, n, e) ==
    /\ InsertAt(s, n, e) \in Seq(S)
    /\ Len(InsertAt(s, n, e)) = Len(s) + 1
    /\ \A k \in 1..(n - 1) : InsertAt(s, n, e)[k] = s[k]
    /\ InsertAt(s, n, e)[n] = e
    /\ \A k \in (n + 1)..(Len(s) + 1) : InsertAt(s, n, e)[k] = s[k - 1]

LEMMA InsertAtHolds ==
    ASSUME NEW S, NEW s \in Seq(S), NEW n \in 1..(Len(s) + 1), NEW e \in S
    PROVE  InsertedAt(S, s, n, e)
BY InsertAtFacts DEF InsertedAt

LEMMA RemoveFirstFacts ==
    ASSUME NEW S, NEW s \in Seq(S), NoDup(s), NEW e \in ToSet(s)
    PROVE  /\ RemoveFirst(s, e) \in Seq(S)
           /\ ToSet(RemoveFirst(s, e)) = ToSet(s) \ {e}
           /\ NoDup(RemoveFirst(s, e))
<1>1. PICK n \in 1..Len(s) : s[n] = e
  BY ToSetFacts
<1>2. {k \in 1..Len(s) : s[k] = e} = {n}
  BY <1>1 DEF NoDup
<1>3. Min({n}) = n
  BY <1>1 DEF Min
<1>4. RemoveFirst(s, e) = RemoveAt(s, n)
  BY <1>1, <1>2, <1>3 DEF RemoveFirst, SelectInSeq
<1> DEFINE r == RemoveAt(s, n)
<1>5. /\ r \in Seq(S) /\ Len(r) = Len(s) - 1
      /\ \A k \in 1..(n - 1) : r[k] = s[k]
      /\ \A k \in n..(Len(s) - 1) : r[k] = s[k + 1]
  BY <1>1, RemoveAtFacts
<1> HIDE DEF r
<1>6. NoDup(r)
  <2>1. ASSUME NEW k \in 1..Len(r), NEW l \in 1..Len(r), r[k] = r[l] PROVE k = l
    <3>1. CASE k < n /\ l < n
      <4>1. k \in 1..Len(s) /\ l \in 1..Len(s) /\ s[k] = s[l]
        BY <1>1, <1>5, <2>1, <3>1
      <4>2. QED BY <3>1, <4>1 DEF NoDup
    <3>2. CASE k < n /\ l >= n
      <4>1. k \in 1..Len(s) /\ l + 1 \in 1..Len(s) /\ s[k] = s[l + 1]
        BY <1>1, <1>5, <2>1, <3>2
      <4>2. QED BY <3>2, <4>1 DEF NoDup
    <3>3. CASE k >= n /\ l < n
      <4>1. k + 1 \in 1..Len(s) /\ l \in 1..Len(s) /\ s[k + 1] = s[l]
        BY <1>1, <1>5, <2>1, <3>3
      <4>2. QED BY <3>3, <4>1 DEF NoDup
    <3>4. CASE k >= n /\ l >= n
      <4>1. k + 1 \in 1..Len(s) /\ l + 1 \in 1..Len(s) /\ s[k + 1] = s[l + 1]
        BY <1>1, <1>5, <2>1, <3>4
      <4>2. QED BY <3>4, <4>1 DEF NoDup
    <3>5. QED BY <1>1, <1>5, <3>1, <3>2, <3>3, <3>4
  <2>2. QED BY <2>1 DEF NoDup
<1>7. ToSet(r) = ToSet(s) \ {e}
  <2>1. ASSUME NEW x \in ToSet(r) PROVE x \in ToSet(s) \ {e}
    <3>1. PICK k \in 1..Len(r) : r[k] = x
      BY <1>5, ToSetFacts
    <3>2. CASE k < n
      <4>1. k \in 1..Len(s) /\ s[k] = x /\ k # n
        BY <1>1, <1>5, <3>1, <3>2
      <4>2. x # e
        BY <1>1, <4>1 DEF NoDup
      <4>3. QED BY <4>1, <4>2, ToSetFacts
    <3>3. CASE k >= n
      <4>1. k + 1 \in 1..Len(s) /\ s[k + 1] = x /\ k + 1 # n
        BY <1>1, <1>5, <3>1, <3>3
      <4>2. x # e
        BY <1>1, <4>1 DEF NoDup
      <4>3. QED BY <4>1, <4>2, ToSetFacts
    <3>4. QED BY <1>1, <1>5, <3>1, <3>2, <3>3
  <2>2. ASSUME NEW x \in ToSet(s) \ {e} PROVE x \in ToSet(r)
    <3>1. PICK k \in 1..Len(s) : s[k] = x
      BY ToSetFacts
    <3>2. k # n
      BY <1>1, <3>1
    <3>3. CASE k < n
      <4>1. k \in 1..Len(r) /\ r[k] = x
        BY <1>1, <1>5, <3>1, <3>3
      <4>2. QED BY <1>5, <4>1, ToSetFacts
    <3>4. CASE k > n
      <4>1. k - 1 \in 1..Len(r) /\ r[k - 1] = x
        BY <1>1, <1>5, <3>1, <3>4
      <4>2. QED BY <1>5, <4>1, ToSetFacts
    <3>5. QED BY <1>1, <3>2, <3>3, <3>4
  <2>3. QED BY <2>1, <2>2
<1>8. QED BY <1>4, <1>5, <1>6, <1>7 DEF r
-----------------------------------------------------------------------------
(* Induction *)

LEMMA Least ==
    ASSUME NEW T \in SUBSET Nat, T # {}
    PROVE  \E m \in T : \A k \in T : m <= k
<1> DEFINE R == {ss \in Nat \X Nat : ss[1] < ss[2]}
<1>1. IsWellFoundedOn(R, Nat)
  BY NatLessThanWellFounded DEF OpToRel
<1>2. PICK x \in T : \A y \in T : <<y, x>> \notin R
  BY <1>1, WFMin
<1>3. ASSUME NEW k \in T PROVE x <= k
  <2>1. <<k, x>> \notin R
    BY <1>2
  <2>2. QED BY <2>1
<1>4. QED BY <1>3

LEMMA NatIn ==
    ASSUME NEW T, 0 \in T, \A n \in Nat : n \in T => n + 1 \in T
    PROVE  Nat \subseteq T
<1>1. SUFFICES ASSUME ~(Nat \subseteq T) PROVE FALSE
  OBVIOUS
<1> DEFINE U == Nat \ T
<1>2. U \in SUBSET Nat /\ U # {}
  BY <1>1
<1>3. PICK m \in U : \A k \in U : m <= k
  BY <1>2, Least
<1>4. m # 0 /\ m - 1 \in Nat /\ m - 1 \notin U
  BY <1>3
<1>5. QED BY <1>4

-----------------------------------------------------------------------------
(* Left folds *)

LEMMA MaxFacts ==
    ASSUME NEW n \in Nat
    PROVE  /\ n # 0 => Max(1..n) = n
           /\ \A s \in SUBSET (1..n) : s # {} => Max(s) \in s /\ \A k \in s : Max(s) >= k
<1>1. ASSUME NEW s \in SUBSET (1..n), s # {}
      PROVE  Max(s) \in s /\ \A k \in s : Max(s) >= k
  <2> DEFINE T == {n - k : k \in s}
  <2>1. T \in SUBSET Nat /\ T # {}
    <3>1. \A k \in s : n - k \in Nat
      BY <1>1
    <3>2. QED BY <1>1, <3>1
  <2>2. PICK m \in T : \A k \in T : m <= k
    BY <2>1, Least
  <2>3. PICK x \in s : m = n - x
    BY <2>2
  <2>4. ASSUME NEW k \in s PROVE x >= k
    <3>1. n - k \in T
      OBVIOUS
    <3>2. QED BY <2>2, <2>3, <3>1
  <2>5. \E y \in s : \A k \in s : y >= k
    BY <2>4
  <2>6. QED BY <2>5 DEF Max
<1>2. ASSUME n # 0 PROVE Max(1..n) = n
  <2>1. 1..n \in SUBSET (1..n) /\ n \in 1..n
    BY <1>2
  <2>2. Max(1..n) \in 1..n /\ Max(1..n) >= n
    BY <1>1, <2>1
  <2>3. QED BY <2>2
<1>3. QED BY <1>1, <1>2

\* The recursion behind a fold.
Folding(f, base, step, m) ==
    \A s \in SUBSET (1..m) : f[s] = IF s = {} THEN base ELSE step[Max(s)][f[s \ {Max(s)}]]

\* Over a set D that the steps stay in it has a solution.
LEMMA FoldSolution ==
    ASSUME NEW D, NEW base \in D, NEW m \in Nat, NEW step \in [1..m -> [D -> D]]
    PROVE  \E iter \in [SUBSET (1..m) -> D] : Folding(iter, base, step, m)
<1> DEFINE Solves(iter, k) == Folding(iter, base, step, k)
           Solved(k) == \E iter \in [SUBSET (1..k) -> D] : Solves(iter, k)
           T == {k \in Nat : k <= m => Solved(k)}
<1> HIDE DEF Solves, Solved
<1>1. 0 \in T
  <2>1. Solves([s \in SUBSET (1..0) |-> base], 0)
    <3>1. 1..0 = {}
      OBVIOUS
    <3>2. QED BY <3>1 DEF Solves, Folding
  <2>2. [s \in SUBSET (1..0) |-> base] \in [SUBSET (1..0) -> D]
    OBVIOUS
  <2>3. QED BY <2>1, <2>2 DEF Solved
<1>2. ASSUME NEW k \in Nat, k \in T PROVE k + 1 \in T
  <2>1. SUFFICES ASSUME k + 1 <= m PROVE Solved(k + 1)
    OBVIOUS
  <2>2. PICK old \in [SUBSET (1..k) -> D] : Solves(old, k)
    <3>1. Solved(k)
      BY <1>2, <2>1
    <3>2. QED BY <3>1 DEF Solved
  <2> DEFINE new == [s \in SUBSET (1..(k + 1)) |->
                       IF k + 1 \in s THEN step[k + 1][old[s \ {k + 1}]] ELSE old[s]]
  <2>3. new \in [SUBSET (1..(k + 1)) -> D]
    <3>1. ASSUME NEW s \in SUBSET (1..(k + 1)) PROVE new[s] \in D
      <4>1. s \ {k + 1} \in SUBSET (1..k) /\ k + 1 \in 1..m
        BY <2>1
      <4>2. old[s \ {k + 1}] \in D
        BY <4>1
      <4>3. step[k + 1] \in [D -> D]
        BY <4>1
      <4>4. step[k + 1][old[s \ {k + 1}]] \in D
        BY <4>2, <4>3
      <4>5. CASE k + 1 \in s
        BY <4>4, <4>5
      <4>6. CASE k + 1 \notin s
        <5>1. s \in SUBSET (1..k)
          BY <4>6
        <5>2. QED BY <4>6, <5>1
      <4>7. QED BY <4>5, <4>6
    <3>2. QED BY <3>1
  <2>4. ASSUME NEW s \in SUBSET (1..(k + 1))
        PROVE  new[s] = IF s = {} THEN base ELSE step[Max(s)][new[s \ {Max(s)}]]
    <3>1. CASE k + 1 \in s
      <4>1. Max(s) = k + 1
        <5>1. Max(s) \in s /\ Max(s) >= k + 1
          BY <3>1, MaxFacts, k + 1 \in Nat
        <5>2. Max(s) \in 1..(k + 1)
          BY <5>1
        <5>3. QED BY <5>1, <5>2
      <4>2. s \ {k + 1} \in SUBSET (1..k) /\ k + 1 \notin s \ {k + 1}
        OBVIOUS
      <4>3. new[s \ {k + 1}] = old[s \ {k + 1}]
        BY <4>2
      <4>4. QED BY <3>1, <4>1, <4>3
    <3>2. CASE k + 1 \notin s
      <4>1. s \in SUBSET (1..k)
        BY <3>2
      <4>2. new[s] = old[s]
        BY <3>2
      <4>3. CASE s = {}
        BY <2>2, <4>1, <4>2, <4>3 DEF Solves, Folding
      <4>4. CASE s # {}
        <5>1. s \ {Max(s)} \in SUBSET (1..k) /\ k + 1 \notin s \ {Max(s)}
          BY <3>2, <4>1
        <5>2. new[s \ {Max(s)}] = old[s \ {Max(s)}]
          BY <5>1
        <5>3. QED BY <2>2, <4>1, <4>2, <4>4, <5>2 DEF Solves, Folding
      <4>5. QED BY <4>3, <4>4
    <3>3. QED BY <3>1, <3>2
  <2> HIDE DEF new
  <2>5. Solves(new, k + 1)
    BY <2>4 DEF Solves, Folding
  <2>6. QED BY <2>3, <2>5 DEF Solved
<1>3. Nat \subseteq T
  <2> HIDE DEF T
  <2>1. QED BY <1>1, <1>2, NatIn
<1>4. Solved(m)
  BY <1>3
<1>5. QED BY <1>4 DEF Solved, Solves

\* What every step of a fold keeps holds of its result.
LEMMA FoldStays ==
    ASSUME NEW D, NEW m \in Nat, NEW f,
           f[{}] \in D,
           \A s \in SUBSET (1..m) : s # {} /\ f[s \ {Max(s)}] \in D => f[s] \in D
    PROVE  f[1..m] \in D
<1> DEFINE T == {k \in Nat : k <= m => f[1..k] \in D}
<1>1. 0 \in T
  <2>1. 1..0 = {}
    OBVIOUS
  <2>2. QED BY <2>1
<1>2. ASSUME NEW k \in Nat, k \in T PROVE k + 1 \in T
  <2>1. SUFFICES ASSUME k + 1 <= m PROVE f[1..(k + 1)] \in D
    OBVIOUS
  <2>2. Max(1..(k + 1)) = k + 1
    BY MaxFacts, k + 1 \in Nat, k + 1 # 0
  <2>3. (1..(k + 1)) \ {k + 1} = 1..k
    OBVIOUS
  <2>4. f[1..k] \in D
    BY <1>2, <2>1
  <2>5. 1..(k + 1) \in SUBSET (1..m) /\ 1..(k + 1) # {}
    BY <2>1
  <2>6. f[(1..(k + 1)) \ {Max(1..(k + 1))}] \in D
    BY <2>2, <2>3, <2>4
  <2>7. QED BY <2>5, <2>6
<1>3. Nat \subseteq T
  <2> HIDE DEF T
  <2>1. QED BY <1>1, <1>2, NatIn
<1>4. m \in T
  BY <1>3
<1>5. QED BY <1>4

-----------------------------------------------------------------------------
(* Lists of lists, put together *)

\* f[i] is the first i of seqs, one behind the other.
Flattening(f, seqs) ==
    f = [i \in 1..Len(seqs) |-> IF i = 1 THEN seqs[i] ELSE f[i - 1] \o seqs[i]]

LEMMA FlattenSolution ==
    ASSUME NEW S, NEW seqs \in Seq(Seq(S))
    PROVE  \E f \in [1..Len(seqs) -> Seq(S)] : Flattening(f, seqs)
<1> DEFINE n == Len(seqs)
           Solves(f, m) == \A i \in 1..m : f[i] = IF i = 1 THEN seqs[i] ELSE f[i - 1] \o seqs[i]
           Solved(m) == \E f \in [1..m -> Seq(S)] : Solves(f, m)
           T == {m \in Nat : m <= n => Solved(m)}
<1>0. n \in Nat /\ \A i \in 1..n : seqs[i] \in Seq(S)
  OBVIOUS
<1> HIDE DEF n, Solved, Solves
<1>1. 0 \in T
  <2>1. [i \in 1..0 |-> <<>>] \in [1..0 -> Seq(S)]
    OBVIOUS
  <2>2. Solves([i \in 1..0 |-> <<>>], 0)
    BY DEF Solves
  <2>3. QED BY <2>1, <2>2 DEF Solved
<1>2. ASSUME NEW m \in Nat, m \in T PROVE m + 1 \in T
  <2>1. SUFFICES ASSUME m + 1 <= n PROVE Solved(m + 1)
    OBVIOUS
  <2>2. PICK old \in [1..m -> Seq(S)] : Solves(old, m)
    <3>1. Solved(m)
      BY <1>0, <1>2, <2>1
    <3>2. QED BY <3>1 DEF Solved
  <2> DEFINE last == IF m = 0 THEN seqs[1] ELSE old[m] \o seqs[m + 1]
             new == [i \in 1..(m + 1) |-> IF i = m + 1 THEN last ELSE old[i]]
  <2>3. last \in Seq(S)
    <3>1. seqs[m + 1] \in Seq(S) /\ (m = 0 => seqs[1] \in Seq(S))
      BY <1>0, <2>1
    <3>2. m # 0 => old[m] \in Seq(S)
      OBVIOUS
    <3>3. m # 0 => old[m] \o seqs[m + 1] \in Seq(S)
      BY <3>1, <3>2
    <3>4. QED BY <3>1, <3>3
  <2>4. new \in [1..(m + 1) -> Seq(S)]
    <3> HIDE DEF last
    <3>1. \A i \in 1..(m + 1) : i # m + 1 => i \in 1..m
      OBVIOUS
    <3>2. QED BY <2>3, <3>1
  <2>5. ASSUME NEW i \in 1..(m + 1)
        PROVE  new[i] = IF i = 1 THEN seqs[i] ELSE new[i - 1] \o seqs[i]
    <3>1. CASE i = m + 1
      <4>1. new[i] = last
        BY <3>1
      <4>2. i # 1 => i - 1 \in 1..m /\ i - 1 = m /\ m # 0 /\ i - 1 # m + 1 /\ i - 1 \in 1..(m + 1)
        BY <3>1
      <4> HIDE DEF last
      <4>3. i # 1 => new[i - 1] = old[m]
        BY <4>2
      <4> HIDE DEF new
      <4>4. i # 1 => last = old[m] \o seqs[m + 1]
        BY <4>2 DEF last
      <4>5. i = 1 => last = seqs[1]
        BY <3>1 DEF last
      <4>6. QED BY <3>1, <4>1, <4>3, <4>4, <4>5
    <3>2. CASE i # m + 1
      <4>1. i \in 1..m /\ (i # 1 => i - 1 \in 1..m /\ i - 1 # m + 1)
        BY <3>2
      <4> HIDE DEF last
      <4>2. new[i] = old[i] /\ (i # 1 => new[i - 1] = old[i - 1])
        BY <3>2, <4>1
      <4> HIDE DEF new
      <4>3. old[i] = IF i = 1 THEN seqs[i] ELSE old[i - 1] \o seqs[i]
        BY <2>2, <4>1 DEF Solves
      <4>4. QED BY <4>2, <4>3
    <3>3. QED BY <3>1, <3>2
  <2> HIDE DEF new
  <2>6. Solves(new, m + 1)
    BY <2>5 DEF Solves
  <2>7. QED BY <2>4, <2>6 DEF Solved
<1>3. Nat \subseteq T
  <2> HIDE DEF T
  <2>1. QED BY <1>1, <1>2, NatIn
<1>4. PICK f \in [1..n -> Seq(S)] : Solves(f, n)
  <2>1. Solved(n)
    BY <1>0, <1>3
  <2>2. QED BY <2>1 DEF Solved
<1>5. Flattening(f, seqs)
  BY <1>4 DEF Solves, Flattening, n
<1>6. QED BY <1>4, <1>5 DEF n

\* FlattenSeq() is the last of them.
LEMMA FlattenFacts ==
    ASSUME NEW S, NEW seqs \in Seq(Seq(S)), seqs # <<>>
    PROVE  \E f \in [1..Len(seqs) -> Seq(S)] :
             /\ FlattenSeq(seqs) = f[Len(seqs)]
             /\ f[1] = seqs[1]
             /\ \A i \in 2..Len(seqs) : f[i] = f[i - 1] \o seqs[i]
<1> DEFINE n == Len(seqs)
           chosen == CHOOSE f : Flattening(f, seqs)
<1>1. n \in Nat /\ n # 0
  OBVIOUS
<1>2. Flattening(chosen, seqs)
  <2>1. \E f : Flattening(f, seqs)
    BY FlattenSolution
  <2> HIDE DEF Flattening
  <2>2. QED BY <2>1
<1>3. FlattenSeq(seqs) = chosen[n]
  BY <1>1 DEF FlattenSeq, Flattening
<1> HIDE DEF chosen, n
<1>4. /\ \A i \in 1..n : chosen[i] = IF i = 1 THEN seqs[i] ELSE chosen[i - 1] \o seqs[i]
      /\ chosen = [i \in 1..n |-> chosen[i]]
  BY <1>2 DEF Flattening, n
<1> DEFINE T == {i \in Nat : i + 1 <= n => chosen[i + 1] \in Seq(S)}
<1>5. \A i \in 1..n : seqs[i] \in Seq(S)
  BY DEF n
<1>13. chosen[1] = seqs[1]
  <2>1. 1 \in 1..n
    BY <1>1
  <2>2. QED BY Zenon, <1>4, <2>1
<1>6. 0 \in T
  <2>1. chosen[0 + 1] = seqs[1] /\ 1 \in 1..n
    BY <1>1, <1>13
  <2>2. chosen[0 + 1] \in Seq(S)
    BY <1>5, <2>1
  <2>3. QED BY <2>2
<1>7. ASSUME NEW i \in Nat, i \in T PROVE i + 1 \in T
  <2>1. SUFFICES ASSUME i + 1 + 1 <= n PROVE chosen[i + 1 + 1] \in Seq(S)
    OBVIOUS
  <2>2. chosen[i + 1] \in Seq(S)
    BY <1>1, <1>7, <2>1
  <2>3. i + 1 + 1 \in 1..n /\ i + 1 + 1 # 1 /\ (i + 1 + 1) - 1 = i + 1
    BY <1>1, <2>1
  <2>4. chosen[i + 1 + 1] = chosen[i + 1] \o seqs[i + 1 + 1] /\ seqs[i + 1 + 1] \in Seq(S)
    BY <1>4, <1>5, <2>3
  <2>5. QED BY <2>2, <2>4
<1>8. Nat \subseteq T
  <2> HIDE DEF T
  <2>1. QED BY <1>6, <1>7, NatIn
<1>9. ASSUME NEW i \in 1..n PROVE chosen[i] \in Seq(S)
  <2>1. i - 1 \in Nat /\ (i - 1) + 1 = i /\ i <= n
    BY <1>1
  <2>2. QED BY <1>8, <2>1
<1>10. chosen \in [1..n -> Seq(S)]
  BY <1>4, <1>9
<1>11. ASSUME NEW i \in 2..n PROVE chosen[i] = chosen[i - 1] \o seqs[i]
  <2>1. i \in 1..n /\ i # 1
    OBVIOUS
  <2>2. QED BY Zenon, <1>4, <2>1
<1>12. QED BY <1>3, <1>10, <1>11, <1>13 DEF n

\* A list with one or two more elements.
LEMMA Pasting ==
    ASSUME NEW S, NEW t \in Seq(S), NEW c \in S, NEW d \in S
    PROVE  /\ t \o <<c>> = Append(t, c)
           /\ t \o <<c, d>> = Append(Append(t, c), d)
<1>1. t \o <<c>> = Append(t, c)
  OBVIOUS
<1> DEFINE left == t \o <<c, d>>
           right == Append(Append(t, c), d)
<1>2. left \in Seq(S) /\ Len(left) = Len(t) + 2
  OBVIOUS
<1>3. right \in Seq(S) /\ Len(right) = Len(t) + 2
  OBVIOUS
<1>4. \A k \in 1..(Len(t) + 2) : left[k] = right[k]
  OBVIOUS
<1>5. left = right
  <2> HIDE DEF left, right
  <2>1. QED BY <1>2, <1>3, <1>4, SeqEqual
<1>6. QED BY <1>1, <1>5

-----------------------------------------------------------------------------
(* A step taken again and again *)

Iterates(f, base, step, n) == f[0] = base /\ \A k \in 1..n : f[k] = step[f[k - 1]]

LEMMA Iteration ==
    ASSUME NEW D, NEW base \in D, NEW step \in [D -> D], NEW n \in Nat
    PROVE  \E f \in [0..n -> D] : Iterates(f, base, step, n)
<1> DEFINE Solves(f, m) == f[0] = base /\ \A k \in 1..m : f[k] = step[f[k - 1]]
           Solved(m) == \E f \in [0..m -> D] : Solves(f, m)
           T == {m \in Nat : Solved(m)}
<1> HIDE DEF Solved, Solves
<1>1. 0 \in T
  <2>1. [k \in 0..0 |-> base] \in [0..0 -> D] /\ Solves([k \in 0..0 |-> base], 0)
    BY DEF Solves
  <2>2. QED BY <2>1 DEF Solved
<1>2. ASSUME NEW m \in Nat, m \in T PROVE m + 1 \in T
  <2>1. PICK old \in [0..m -> D] : Solves(old, m)
    BY <1>2 DEF Solved
  <2> DEFINE new == [k \in 0..(m + 1) |-> IF k = m + 1 THEN step[old[m]] ELSE old[k]]
  <2>2. new \in [0..(m + 1) -> D]
    <3>1. \A k \in 0..(m + 1) : k # m + 1 => k \in 0..m
      OBVIOUS
    <3>2. QED BY <3>1
  <2>3. Solves(new, m + 1)
    <3>1. new[0] = base
      BY <2>1 DEF Solves
    <3>2. ASSUME NEW k \in 1..(m + 1) PROVE new[k] = step[new[k - 1]]
      <4>1. k - 1 \in 0..m /\ k - 1 # m + 1 /\ k \in 0..(m + 1) /\ k - 1 \in 0..(m + 1)
        OBVIOUS
      <4>2. new[k - 1] = old[k - 1]
        BY <4>1
      <4>3. CASE k = m + 1
        BY <4>1, <4>2, <4>3
      <4>4. CASE k # m + 1
        <5>1. k \in 1..m /\ new[k] = old[k]
          BY <4>1, <4>4
        <5>2. QED BY <2>1, <4>2, <5>1 DEF Solves
      <4>5. QED BY <4>3, <4>4
    <3> HIDE DEF new
    <3>3. QED BY <3>1, <3>2 DEF Solves
  <2> HIDE DEF new
  <2>4. QED BY <2>2, <2>3 DEF Solved
<1>3. n \in T
  <2> HIDE DEF T
  <2>1. QED BY <1>1, <1>2, NatIn
<1>4. QED BY <1>3 DEF Solved, Solves, Iterates

-----------------------------------------------------------------------------
(* The elements of a list that are in a set, in their order *)

Selected(s, S) == FoldLeft(LAMBDA kept, e : IF e \in S THEN Append(kept, e) ELSE kept, <<>>, s)

More(kept, e, S) == IF e \in S THEN Append(kept, e) ELSE kept

\* The lists made on the way, by the set of elements looked at.
SelectStages(f, s, S) ==
    /\ f[{}] = <<>>
    /\ \A d \in SUBSET (1..Len(s)) : d # {} => f[d] = More(f[d \ {Max(d)}], s[Max(d)], S)

LEMMA SelectedStages ==
    ASSUME NEW T, NEW S, NEW s \in Seq(T)
    PROVE  \E f : SelectStages(f, s, S) /\ Selected(s, S) = f[1..Len(s)] /\ Selected(s, S) \in Seq(T)
<1> DEFINE m == Len(s)
           Eq(f) == f = [d \in SUBSET (DOMAIN s) |->
                           IF d = {} THEN <<>> ELSE More(f[d \ {Max(d)}], s[Max(d)], S)]
           chosen == CHOOSE f : Eq(f)
<1>1. <<>> \in Seq(T)
  OBVIOUS
<1>2. m \in Nat /\ DOMAIN s = 1..m
  OBVIOUS
<1>3. ASSUME NEW k \in 1..m, NEW v \in Seq(T) PROVE More(v, s[k], S) \in Seq(T)
  BY DEF More
<1> HIDE DEF m
<1>4. \E f : Eq(f)
  <2> DEFINE step == [k \in 1..m |-> [v \in Seq(T) |-> More(v, s[k], S)]]
  <2>1. step \in [1..m -> [Seq(T) -> Seq(T)]]
    BY <1>3
  <2>2. \A k \in 1..m, v \in Seq(T) : step[k][v] = More(v, s[k], S)
    OBVIOUS
  <2> HIDE DEF step
  <2>3. PICK f \in [SUBSET (1..m) -> Seq(T)] : Folding(f, <<>>, step, m)
    BY <1>1, <1>2, <2>1, FoldSolution
  <2>4. ASSUME NEW d \in SUBSET (1..m), d # {}
        PROVE  f[d] = More(f[d \ {Max(d)}], s[Max(d)], S)
    <3>1. Max(d) \in 1..m
      BY <1>2, <2>4, MaxFacts
    <3>2. f[d \ {Max(d)}] \in Seq(T)
      OBVIOUS
    <3>3. QED BY <2>2, <2>3, <2>4, <3>1, <3>2 DEF Folding
  <2>5. Eq(f)
    BY <1>2, <2>3, <2>4 DEF Folding
  <2>6. QED BY <2>5
<1>5. Eq(chosen)
  <2> HIDE DEF Eq
  <2>1. QED BY <1>4
<1>6. Selected(s, S) = chosen[DOMAIN s]
  BY Zenon DEF Selected, FoldLeft, MapThenFoldSet, More
<1> HIDE DEF chosen
<1>7. SelectStages(chosen, s, S)
  BY <1>2, <1>5 DEF SelectStages, m
<1>8. chosen[1..m] \in Seq(T)
  <2>1. chosen[{}] \in Seq(T)
    BY <1>1, <1>7 DEF SelectStages
  <2>2. ASSUME NEW d \in SUBSET (1..m), d # {}, chosen[d \ {Max(d)}] \in Seq(T)
        PROVE  chosen[d] \in Seq(T)
    <3>1. Max(d) \in 1..m
      BY <1>2, <2>2, MaxFacts
    <3>2. chosen[d] = More(chosen[d \ {Max(d)}], s[Max(d)], S)
      BY <1>7, <2>2 DEF SelectStages, m
    <3>3. QED BY <1>3, <2>2, <3>1, <3>2
  <2>3. QED BY <1>2, <2>1, <2>2, FoldStays
<1>9. QED BY <1>2, <1>6, <1>7, <1>8 DEF m

LEMMA SelectedAppend ==
    ASSUME NEW T, NEW S, NEW s \in Seq(T), NEW e \in T
    PROVE  Selected(Append(s, e), S) = More(Selected(s, S), e, S)
<1> DEFINE u == Append(s, e)
           m == Len(s)
<1>1. /\ u \in Seq(T) /\ Len(u) = m + 1 /\ u[m + 1] = e /\ m \in Nat
      /\ \A k \in 1..m : u[k] = s[k]
  OBVIOUS
<1> HIDE DEF u, m
<1>2. PICK f : SelectStages(f, s, S) /\ Selected(s, S) = f[1..m]
  BY SelectedStages DEF m
<1>3. PICK g : SelectStages(g, u, S) /\ Selected(u, S) = g[1..(m + 1)]
  BY <1>1, SelectedStages
<1> DEFINE R == {k \in Nat : k <= m => g[1..k] = f[1..k]}
<1>4. 0 \in R
  <2>1. 1..0 = {}
    OBVIOUS
  <2>2. QED BY <1>2, <1>3, <2>1 DEF SelectStages
<1>5. ASSUME NEW k \in Nat, k \in R PROVE k + 1 \in R
  <2>1. SUFFICES ASSUME k + 1 <= m PROVE g[1..(k + 1)] = f[1..(k + 1)]
    OBVIOUS
  <2>2. Max(1..(k + 1)) = k + 1
    BY MaxFacts, k + 1 \in Nat, k + 1 # 0
  <2>3. (1..(k + 1)) \ {k + 1} = 1..k /\ 1..(k + 1) # {}
    <3> HIDE DEF R
    <3>1. (1..(k + 1)) \ {k + 1} = 1..k
      OBVIOUS
    <3>2. k + 1 \in 1..(k + 1)
      OBVIOUS
    <3>3. QED BY <3>1, <3>2
  <2>4. 1..(k + 1) \in SUBSET (1..m) /\ 1..(k + 1) \in SUBSET (1..(m + 1)) /\ k + 1 \in 1..m
    BY <1>1, <2>1
  <2>5. g[1..(k + 1)] = More(g[1..k], u[k + 1], S)
    BY <1>1, <1>3, <2>2, <2>3, <2>4 DEF SelectStages
  <2>6. f[1..(k + 1)] = More(f[1..k], s[k + 1], S)
    BY <1>2, <2>2, <2>3, <2>4 DEF SelectStages, m
  <2>7. g[1..k] = f[1..k] /\ u[k + 1] = s[k + 1]
    BY <1>1, <1>5, <2>1, <2>4
  <2>8. QED BY <2>5, <2>6, <2>7
<1>6. m \in R
  <2> HIDE DEF R
  <2>1. QED BY <1>1, <1>4, <1>5, NatIn
<1>7. Max(1..(m + 1)) = m + 1
  BY <1>1, MaxFacts, m + 1 \in Nat, m + 1 # 0
<1>8. (1..(m + 1)) \ {m + 1} = 1..m /\ 1..(m + 1) # {}
  BY <1>1
<1>9. g[1..(m + 1)] = More(g[1..m], u[m + 1], S)
  BY <1>1, <1>3, <1>7, <1>8 DEF SelectStages
<1>10. QED BY <1>1, <1>2, <1>3, <1>6, <1>9 DEF u

\* The two cases of the loop.
LEMMA SelectedFacts ==
    ASSUME NEW T, NEW S
    PROVE  /\ Selected(<<>>, S) = <<>>
           /\ \A s \in Seq(T) : Selected(s, S) \in Seq(T)
           /\ \A s \in Seq(T), e \in T :
                Selected(Append(s, e), S) = IF e \in S THEN Append(Selected(s, S), e) ELSE Selected(s, S)
<1>1. Selected(<<>>, S) = <<>>
  <2>1. <<>> \in Seq(T) /\ 1..Len(<<>>) = {}
    OBVIOUS
  <2>2. PICK f : SelectStages(f, <<>>, S) /\ Selected(<<>>, S) = f[1..Len(<<>>)]
    BY <2>1, SelectedStages
  <2>3. QED BY <2>1, <2>2 DEF SelectStages
<1>2. \A s \in Seq(T) : Selected(s, S) \in Seq(T)
  BY SelectedStages
<1>3. \A s \in Seq(T), e \in T :
        Selected(Append(s, e), S) = IF e \in S THEN Append(Selected(s, S), e) ELSE Selected(s, S)
  BY SelectedAppend DEF More
<1>4. QED BY <1>1, <1>2, <1>3

\* The places in a list that the elements of another come from: in order, and
\* all the places whose elements are in the set.
Places(p, r, s, S) ==
    /\ p \in [1..Len(r) -> 1..Len(s)]
    /\ \A i \in 1..Len(r) : r[i] = s[p[i]] /\ s[p[i]] \in S
    /\ \A i, j \in 1..Len(r) : i < j => p[i] < p[j]
    /\ \A k \in 1..Len(s) : s[k] \in S => \E i \in 1..Len(r) : p[i] = k

LEMMA PlacesStep ==
    ASSUME NEW T, NEW S, NEW s \in Seq(T), NEW r \in Seq(T), NEW e \in T, NEW p, Places(p, r, s, S)
    PROVE  \E q : Places(q, More(r, e, S), Append(s, e), S)
<1> DEFINE u == Append(s, e)
           v == Append(r, e)
           m == Len(s)
           n == Len(r)
<1>1. /\ m \in Nat /\ Len(u) = m + 1 /\ u[m + 1] = e /\ \A k \in 1..m : u[k] = s[k]
      /\ n \in Nat /\ Len(v) = n + 1 /\ v[n + 1] = e /\ \A k \in 1..n : v[k] = r[k]
  OBVIOUS
<1>2. /\ p \in [1..n -> 1..m]
      /\ \A i \in 1..n : r[i] = s[p[i]] /\ s[p[i]] \in S
      /\ \A i, j \in 1..n : i < j => p[i] < p[j]
      /\ \A k \in 1..m : s[k] \in S => \E i \in 1..n : p[i] = k
  BY DEF Places
<1> HIDE DEF u, v, m, n
<1>3. \A i \in 1..n : p[i] \in 1..m
  BY <1>2
<1>4. ASSUME e \notin S PROVE Places(p, r, u, S)
  <2>1. p \in [1..n -> 1..(m + 1)]
    BY <1>1, <1>2
  <2>2. \A i \in 1..n : r[i] = u[p[i]] /\ u[p[i]] \in S
    BY <1>1, <1>2, <1>3
  <2>3. ASSUME NEW k \in 1..(m + 1), u[k] \in S PROVE \E i \in 1..n : p[i] = k
    <3>1. k \in 1..m /\ u[k] = s[k]
      BY <1>1, <1>4, <2>3
    <3>2. QED BY <1>2, <2>3, <3>1
  <2>4. QED BY <1>1, <1>2, <2>1, <2>2, <2>3 DEF Places, n
<1>5. ASSUME e \in S PROVE \E q : Places(q, v, u, S)
  <2> DEFINE q == [i \in 1..(n + 1) |-> IF i = n + 1 THEN m + 1 ELSE p[i]]
  <2>1. q[n + 1] = m + 1 /\ \A i \in 1..n : q[i] = p[i]
    BY <1>1
  <2>2. q \in [1..(n + 1) -> 1..(m + 1)]
    BY <1>1, <1>3
  <2> HIDE DEF q
  <2>3. ASSUME NEW i \in 1..(n + 1) PROVE v[i] = u[q[i]] /\ u[q[i]] \in S
    <3>1. CASE i = n + 1
      BY <1>1, <1>5, <2>1, <3>1
    <3>2. CASE i \in 1..n
      BY <1>1, <1>2, <1>3, <2>1, <3>2
    <3>3. QED BY <1>1, <3>1, <3>2
  <2>4. ASSUME NEW i \in 1..(n + 1), NEW j \in 1..(n + 1), i < j PROVE q[i] < q[j]
    <3>1. i \in 1..n /\ q[i] = p[i] /\ p[i] \in 1..m
      BY <1>1, <1>3, <2>1, <2>4
    <3>2. CASE j = n + 1
      BY <1>1, <2>1, <3>1, <3>2
    <3>3. CASE j \in 1..n
      BY <1>2, <2>1, <2>4, <3>1, <3>3
    <3>4. QED BY <1>1, <3>2, <3>3
  <2>5. ASSUME NEW k \in 1..(m + 1), u[k] \in S PROVE \E i \in 1..(n + 1) : q[i] = k
    <3>1. CASE k = m + 1
      <4>1. n + 1 \in 1..(n + 1)
        BY <1>1
      <4>2. QED BY <2>1, <3>1, <4>1
    <3>2. CASE k \in 1..m
      <4>1. PICK i \in 1..n : p[i] = k
        BY <1>1, <1>2, <2>5, <3>2
      <4>2. i \in 1..(n + 1) /\ q[i] = k
        BY <1>1, <2>1, <4>1
      <4>3. QED BY <4>2
    <3>3. QED BY <1>1, <3>1, <3>2
  <2>6. Places(q, v, u, S)
    BY <1>1, <2>2, <2>3, <2>4, <2>5 DEF Places
  <2>7. QED BY <2>6
<1>6. CASE e \in S
  <2>1. More(r, e, S) = v
    BY <1>6 DEF More, v
  <2>2. QED BY <1>5, <1>6, <2>1 DEF u
<1>7. CASE e \notin S
  <2>1. More(r, e, S) = r
    BY <1>7 DEF More
  <2>2. QED BY <1>4, <1>7, <2>1 DEF u
<1>8. QED BY <1>6, <1>7

\* The first elements of a list, one after another.
LEMMA FirstFacts ==
    ASSUME NEW T, NEW s \in Seq(T)
    PROVE  /\ SubSeq(s, 1, 0) = <<>> /\ SubSeq(s, 1, Len(s)) = s /\ Len(s) \in Nat
           /\ \A k \in 0..Len(s) : /\ SubSeq(s, 1, k) \in Seq(T) /\ Len(SubSeq(s, 1, k)) = k
                                   /\ \A i \in 1..k : SubSeq(s, 1, k)[i] = s[i]
           /\ \A k \in 1..Len(s) : SubSeq(s, 1, k) = Append(SubSeq(s, 1, k - 1), s[k]) /\ s[k] \in T
<1>1. Len(s) \in Nat /\ \A k \in 1..Len(s) : s[k] \in T
  OBVIOUS
<1>2. SubSeq(s, 1, 0) = <<>>
  BY SubSeqEmpty
<1>3. ASSUME NEW k \in 0..Len(s)
      PROVE  SubSeq(s, 1, k) \in Seq(T) /\ Len(SubSeq(s, 1, k)) = k /\ \A i \in 1..k : SubSeq(s, 1, k)[i] = s[i]
  OBVIOUS
<1>4. ASSUME NEW k \in 1..Len(s) PROVE SubSeq(s, 1, k) = Append(SubSeq(s, 1, k - 1), s[k])
  <2> DEFINE a == SubSeq(s, 1, k)
             b == SubSeq(s, 1, k - 1)
             c == Append(b, s[k])
  <2>1. k \in 0..Len(s) /\ k - 1 \in 0..Len(s) /\ k \in Nat
    BY <1>1
  <2>2. a \in Seq(T) /\ Len(a) = k /\ \A i \in 1..k : a[i] = s[i]
    BY <1>3, <2>1
  <2>3. b \in Seq(T) /\ Len(b) = k - 1 /\ \A i \in 1..(k - 1) : b[i] = s[i]
    BY <1>3, <2>1
  <2>4. s[k] \in T
    BY <1>1
  <2> HIDE DEF a, b
  <2>5. c \in Seq(T) /\ Len(c) = k /\ c[k] = s[k] /\ \A i \in 1..(k - 1) : c[i] = b[i]
    BY <2>1, <2>3, <2>4
  <2> HIDE DEF c
  <2>6. \A i \in 1..k : a[i] = c[i]
    <3>1. \A i \in 1..k : i = k \/ i \in 1..(k - 1)
      BY <2>1
    <3>2. QED BY <2>2, <2>3, <2>5, <3>1
  <2>7. a = c
    BY <2>2, <2>5, <2>6, SeqEqual
  <2>8. QED BY <2>7 DEF a, b, c
<1>5. SubSeq(s, 1, Len(s)) = s
  BY SubSeqFull
<1>6. QED BY <1>1, <1>2, <1>3, <1>4, <1>5

LEMMA SelectedPlaces ==
    ASSUME NEW T, NEW S, NEW s \in Seq(T)
    PROVE  \E p : Places(p, Selected(s, S), s, S)
<1> DEFINE first(k) == SubSeq(s, 1, k)
           R == {k \in Nat : k <= Len(s) => \E p : Places(p, Selected(first(k), S), first(k), S)}
<1>1. Len(s) \in Nat /\ first(0) = <<>> /\ first(Len(s)) = s
  BY FirstFacts
<1>2. 0 \in R
  <2>1. 1..Len(<<>>) = {}
    OBVIOUS
  <2>2. [i \in {} |-> 0] \in [{} -> {}]
    OBVIOUS
  <2>3. Places([i \in {} |-> 0], <<>>, <<>>, S)
    BY <2>1, <2>2 DEF Places
  <2>4. Selected(<<>>, S) = <<>>
    BY SelectedFacts
  <2>5. QED BY <1>1, <2>3, <2>4
<1>3. ASSUME NEW k \in Nat, k \in R PROVE k + 1 \in R
  <2>1. SUFFICES ASSUME k + 1 <= Len(s)
                 PROVE  \E p : Places(p, Selected(first(k + 1), S), first(k + 1), S)
    OBVIOUS
  <2>2. k \in 0..Len(s) /\ k + 1 \in 1..Len(s) /\ (k + 1) - 1 = k /\ k <= Len(s)
    BY <1>1, <2>1
  <2>3. PICK p : Places(p, Selected(first(k), S), first(k), S)
    BY <1>3, <2>2
  <2> HIDE DEF R
  <2>4. first(k) \in Seq(T) /\ first(k + 1) = Append(first(k), s[k + 1]) /\ s[k + 1] \in T
    BY <2>2, FirstFacts
  <2> HIDE DEF first
  <2>5. Selected(first(k), S) \in Seq(T)
    BY <2>4, SelectedFacts
  <2>6. Selected(first(k + 1), S) = More(Selected(first(k), S), s[k + 1], S)
    BY <2>4, SelectedAppend
  <2>7. \E q : Places(q, More(Selected(first(k), S), s[k + 1], S), Append(first(k), s[k + 1]), S)
    BY <2>3, <2>4, <2>5, PlacesStep
  <2>8. QED BY <2>4, <2>6, <2>7
<1>4. Len(s) \in R
  <2> HIDE DEF R
  <2>1. QED BY <1>1, <1>2, <1>3, NatIn
<1>5. Len(s) <= Len(s)
  BY <1>1
<1>6. \E p : Places(p, Selected(first(Len(s)), S), first(Len(s)), S)
  BY <1>4, <1>5
<1> HIDE DEF first
<1>7. QED BY <1>1, <1>6

\* Only the elements that are in the list count.
LEMMA SelectedAgree ==
    ASSUME NEW T, NEW A, NEW B, NEW s \in Seq(T), \A k \in 1..Len(s) : s[k] \in A <=> s[k] \in B
    PROVE  Selected(s, A) = Selected(s, B)
<1> DEFINE first(k) == SubSeq(s, 1, k)
           R == {k \in Nat : k <= Len(s) => Selected(first(k), A) = Selected(first(k), B)}
<1>1. Len(s) \in Nat /\ first(0) = <<>> /\ first(Len(s)) = s
  BY FirstFacts
<1>2. 0 \in R
  <2>1. Selected(<<>>, A) = <<>> /\ Selected(<<>>, B) = <<>>
    BY SelectedFacts
  <2>2. QED BY <1>1, <2>1
<1>3. ASSUME NEW k \in Nat, k \in R PROVE k + 1 \in R
  <2>1. SUFFICES ASSUME k + 1 <= Len(s) PROVE Selected(first(k + 1), A) = Selected(first(k + 1), B)
    OBVIOUS
  <2>2. k \in 0..Len(s) /\ k + 1 \in 1..Len(s) /\ (k + 1) - 1 = k /\ k <= Len(s)
    BY <1>1, <2>1
  <2>3. Selected(first(k), A) = Selected(first(k), B)
    BY <1>3, <2>2
  <2> HIDE DEF R
  <2>4. first(k) \in Seq(T) /\ first(k + 1) = Append(first(k), s[k + 1]) /\ s[k + 1] \in T
    BY <2>2, FirstFacts
  <2> HIDE DEF first
  <2>5. /\ Selected(first(k + 1), A) = More(Selected(first(k), A), s[k + 1], A)
        /\ Selected(first(k + 1), B) = More(Selected(first(k), B), s[k + 1], B)
    BY <2>4, SelectedAppend
  <2>6. s[k + 1] \in A <=> s[k + 1] \in B
    BY <2>2
  <2>7. QED BY <2>3, <2>5, <2>6 DEF More
<1>4. Len(s) \in R
  <2> HIDE DEF R
  <2>1. QED BY <1>1, <1>2, <1>3, NatIn
<1>5. Len(s) <= Len(s)
  BY <1>1
<1>6. Selected(first(Len(s)), A) = Selected(first(Len(s)), B)
  BY <1>4, <1>5
<1> HIDE DEF first
<1>7. QED BY <1>1, <1>6

\* A list without duplicates has as many elements as places.
LEMMA NoDupCard ==
    ASSUME NEW T, NEW s \in Seq(T), NoDup(s)
    PROVE  IsFiniteSet(ToSet(s)) /\ Cardinality(ToSet(s)) = Len(s)
<1>1. s \in [1..Len(s) -> ToSet(s)] /\ Len(s) \in Nat
  BY DEF ToSet
<1>2. s \in Bijection(1..Len(s), ToSet(s))
  <2>1. IsInjective(s)
    BY <1>1 DEF IsInjective, NoDup
  <2>2. \A m \in ToSet(s) : \E k \in 1..Len(s) : s[k] = m
    BY ToSetFacts
  <2>3. QED BY <1>1, <2>1, <2>2 DEF Bijection, Injection, Surjection
<1>3. ExistsBijection(1..Len(s), ToSet(s))
  BY <1>2 DEF ExistsBijection
<1>4. Cardinality(ToSet(s)) = Len(s)
  BY <1>1, <1>3, FS_CountingElements
<1>5. IsFiniteSet(1..Len(s))
  BY <1>1, FS_Interval
<1>6. QED BY <1>3, <1>4, <1>5, FS_Bijection

LEMMA SelectedSet ==
    ASSUME NEW T, NEW S, NEW s \in Seq(T)
    PROVE  /\ ToSet(Selected(s, S)) = ToSet(s) \cap S
           /\ NoDup(s) => NoDup(Selected(s, S))
<1> DEFINE r == Selected(s, S)
<1>1. PICK p : Places(p, r, s, S)
  BY SelectedPlaces
<1>2. r \in Seq(T)
  BY SelectedFacts
<1> HIDE DEF r
<1>3. /\ \A i \in 1..Len(r) : p[i] \in 1..Len(s) /\ r[i] = s[p[i]] /\ s[p[i]] \in S
      /\ \A k \in 1..Len(s) : s[k] \in S => \E i \in 1..Len(r) : p[i] = k
  BY <1>1 DEF Places
<1>4. ToSet(r) = ToSet(s) \cap S
  <2>1. ASSUME NEW e \in ToSet(r) PROVE e \in ToSet(s) \cap S
    <3>1. PICK i \in 1..Len(r) : r[i] = e
      BY <1>2, ToSetFacts
    <3>2. QED BY <1>3, <3>1, ToSetFacts
  <2>2. ASSUME NEW e \in ToSet(s) \cap S PROVE e \in ToSet(r)
    <3>1. PICK k \in 1..Len(s) : s[k] = e
      BY ToSetFacts
    <3>2. PICK i \in 1..Len(r) : p[i] = k
      BY <1>3, <2>2, <3>1
    <3>3. QED BY <1>2, <1>3, <3>1, <3>2, ToSetFacts
  <2>3. QED BY <2>1, <2>2
<1>5. ASSUME NoDup(s) PROVE NoDup(r)
  <2>1. SUFFICES ASSUME NEW i \in 1..Len(r), NEW j \in 1..Len(r), r[i] = r[j] PROVE i = j
    BY DEF NoDup
  <2>2. p[i] = p[j]
    BY <1>3, <1>5, <2>1 DEF NoDup
  <2>3. ~(i < j) /\ ~(j < i)
    <3>1. p[i] \in Nat /\ p[j] \in Nat
      BY <1>3
    <3>2. ~(p[i] < p[j]) /\ ~(p[j] < p[i])
      BY <2>2, <3>1
    <3>3. QED BY <1>1, <3>2 DEF Places
  <2>4. i \in Int /\ j \in Int
    OBVIOUS
  <2>5. QED BY <2>3, <2>4
<1>6. QED BY <1>4, <1>5 DEF r

=============================================================================
