-------------------------------- MODULE DataList --------------------------------
(***************************************************************************)
(* ADataList (src/src/DataList.cpp): a vector of items, sorted by a        *)
(* comparison function.  A list is a sequence; indices count from 0 as in  *)
(* the code, so that item i of the code is data[i + 1].  Each function is  *)
(* an operator that returns the list it leaves.                            *)
(***************************************************************************)
EXTENDS Arithmetic, FiniteSetsExt

CONSTANT Compare(_, _) \* the comparison function: negative, zero or positive

Item(data, i) == data[i + 1]
Clipped(data, Index) == Least(Greatest(Index, 0), Len(data))

Find(data, item, Index) ==
    LET found == {i \in Greatest(Index, 0)..(Len(data) - 1) : Item(data, i) = item} IN
    IF found = {} THEN -1 ELSE Min(found)

\* Without duplication a list that has the item stays as it is.
Add(data, item, Index, bDuplication) ==
    IF ~bDuplication /\ Find(data, item, 0) >= 0 THEN data
    ELSE InsertAt(data, Clipped(data, Index) + 1, item)

\* What Add() returns.
Added(data, item, Index, bDuplication) ==
    IF ~bDuplication /\ Find(data, item, 0) >= 0 THEN -1 ELSE Clipped(data, Index)

Push(data, item, bDuplication) == Add(data, item, Len(data), bDuplication)

Half(n) == (n + 1) \div 2

\* Mutant: an equal item counts as a later one.
FitsBeforeEqual(data, item, i) ==
    Compare(item, Item(data, i)) <= 0 /\ (i = 0 \/ Compare(item, Item(data, i - 1)) >= 0)

\* The item belongs at i: before a later one, and behind one that is not later.
Fits(data, item, i) ==
    Compare(item, Item(data, i)) < 0 /\ (i = 0 \/ Compare(item, Item(data, i - 1)) >= 0)

\* The search of Insert() for a place, i, in steps of inc.
Place[data \in Seq(Int), item \in Int, i \in Nat, inc \in Nat] ==
    IF data = <<>> THEN i
    ELSE IF i >= Len(data) THEN Place[data, item, subz(i, inc), Half(inc)]
    ELSE IF Fits(data, item, i) THEN i
    ELSE IF Compare(item, Item(data, i)) < 0 THEN Place[data, item, subz(i, inc), Half(inc)]
    ELSE IF i + inc = Len(data) /\ inc = 1 THEN i + inc
    ELSE Place[data, item, i + inc, Half(inc)]

Insert(data, item, bDuplication) ==
    Add(data, item, Place[data, item, Half(Len(data)), Half(Half(Len(data)))], bDuplication)

RemoveIndex(data, Index) ==
    IF Index < Len(data) THEN RemoveAt(data, Index + 1) ELSE data

RemoveItem(data, item) ==
    LET index == Find(data, item, 0) IN IF index >= 0 THEN RemoveIndex(data, index) ELSE data

Zeros(n) == [k \in 1..n |-> 0]

Replace(data, Index, item, bAllowExpand) ==
    LET grown == IF Index >= Len(data) /\ bAllowExpand
                 THEN data \o Zeros(Index + 1 - Len(data)) ELSE data IN
    IF grown = <<>> THEN grown ELSE [grown EXCEPT ![Least(Index, Len(grown) - 1) + 1] = item]

Generate(data, count, start, mul, div) ==
    data \o [k \in 1..count |-> muldivs(start + k - 1, mul, div)]

\* +=, -= and Merge with another list.  (With itself += never ends.)
PlusList(data, list, bDuplication) ==
    FoldLeft(LAMBDA d, item : Push(d, item, bDuplication), data, list)

MinusList(data, list) == FoldLeft(RemoveItem, data, list)

\* Merge stops at the first item that is not added.
Merge(data, list, bDuplication) ==
    LET step(acc, item) ==
          [data |-> IF acc.ok THEN Push(acc.data, item, bDuplication) ELSE acc.data,
           ok |-> acc.ok /\ Added(acc.data, item, Len(acc.data), bDuplication) >= 0] IN
    FoldLeft(step, [data |-> data, ok |-> TRUE], list)

\* SwapEx() by exclusive or exchanges two places, when they are two.
SwapEx(data, n1, n2) == [data EXCEPT ![n1 + 1] = Item(data, n2), ![n2 + 1] = Item(data, n1)]

Swap(data, n1, n2) == IF n1 < Len(data) /\ n2 < Len(data) THEN SwapEx(data, n1, n2) ELSE data

Disordered(data, i) == Compare(Item(data, i), Item(data, i + 1)) > 0

\* SwapAndSort() goes on to the neighbours it may have put out of order.
SwapAndSort[data \in Seq(Int), Index \in Nat] ==
    LET swapped == SwapEx(data, Index, Index + 1)
        left == IF Index > 0 /\ Disordered(swapped, Index - 1)
                THEN SwapAndSort[swapped, Index - 1] ELSE swapped IN
    IF Index < Len(data) - 2 /\ Disordered(left, Index + 1)
    THEN SwapAndSort[left, Index + 1] ELSE left

\* Mutant: the pass stops before the last pair.
FirstDisorderedShort(data) ==
    LET found == {i \in 0..(Len(data) - 3) : Disordered(data, i)} IN
    IF found = {} THEN -1 ELSE Min(found)

FirstDisordered(data) ==
    LET found == {i \in 0..(Len(data) - 2) : Disordered(data, i)} IN
    IF found = {} THEN -1 ELSE Min(found)

Sort[data \in Seq(Int)] ==
    IF FirstDisordered(data) < 0 THEN data
    ELSE Sort[SwapAndSort[data, FirstDisordered(data)]]

\* Pop and EndPop: the item they return, or 0, and the list without it.
First(data) == IF data = <<>> THEN 0 ELSE data[1]
Last0(data) == IF data = <<>> THEN 0 ELSE data[Len(data)]
Pop(data) == IF data = <<>> THEN data ELSE Tail(data)
EndPop(data) == IF data = <<>> THEN data ELSE Front(data)

\* Traverse() calls the hook with the items up to the first that is refused.
Traversed(data, accepted) ==
    LET refused == {i \in DOMAIN data : data[i] \notin accepted} IN
    IF refused = {} THEN data ELSE SubSeq(data, 1, Min(refused))

ReverseList(data) ==
    FoldLeft(LAMBDA d, i : SwapEx(d, i, Len(d) - 1 - i), data,
             [k \in 1..(Len(data) \div 2) |-> k - 1])
=============================================================================
