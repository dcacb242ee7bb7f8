------------------------------- MODULE StructList -------------------------------
(***************************************************************************)
(* AStructList (src/src/StructList.cpp): items of one size in a block of   *)
(* memory that grows by nIncItems.  `list' is the block and the count;     *)
(* `items' is the sequence of items it stands for.  An item is a number,   *)
(* 0 for cleared memory.                                                   *)
(***************************************************************************)
EXTENDS Arithmetic

CONSTANTS Values,    \* items
          nIncItems,
          MaxItems   \* bound: the length of the list

VARIABLES list,      \* [pData, nItems, ItemSize]: ItemSize is whether it is set
          items

vars == <<list, items>>

Init ==
    /\ list = [pData |-> <<>>, nItems |-> 0, ItemSize |-> TRUE]
    /\ items = <<>>

Memory == list.pData
Count == list.nItems

\* memmove() of n items from one place to another.
Move(memory, to, from, n) ==
    [k \in DOMAIN memory |-> IF k \in to..(to + n - 1) THEN memory[from + k - to] ELSE memory[k]]

\* Mutant: the items behind the new one are not moved away.
OpenedOver(memory, index, n) == memory

\* Room at index, from 0, of a list of n items with the new one.
Opened(memory, index, n) == Move(memory, index + 2, index + 1, n - index - 1)

Put(value, index) ==
    LET n == Greatest(index, Count) + 1
        memory == Opened(Allocate(Memory, n, nIncItems), index, n) IN
    list' = [list EXCEPT !.pData = [memory EXCEPT ![index + 1] = value], !.nItems = n]

\* Add(), Push() and StartPush(): an index past the end means the end.
Add(value, index) ==
    LET at == Clamp(index, 0, Count) IN
    /\ list.ItemSize /\ Count < MaxItems
    /\ Put(value, at)
    /\ items' = InsertAt(items, at + 1, value)

\* Mutant: the item at the end is left in its place when it is removed.
ClosedShort(memory, index, n) == Move(memory, index + 1, index + 2, n - index - 2)

\* The items behind index, of n, close up, and the place after the last is cleared.
Closed(memory, index, n) ==
    [Move(memory, index + 1, index + 2, n - index - 1) EXCEPT ![n] = 0]

RemoveIndex(index) ==
    /\ index \in 0..(Count - 1)
    /\ list' = [list EXCEPT !.pData = Closed(@, index, Count), !.nItems = @ - 1]
    /\ items' = RemoveAt(items, index + 1)

Pop == RemoveIndex(0)
EndPop == RemoveIndex(Count - 1)

\* What is behind the range moves up; the memory behind the end is not cleared.
RemoveRange(index, count) ==
    /\ count > 0 /\ index + count <= Count
    /\ list' = [list EXCEPT !.pData = Move(@, index + 1, index + count + 1, Count - index - count),
                            !.nItems = @ - count]
    /\ items' = SubSeq(items, 1, index) \o SubSeq(items, index + count + 1, Len(items))

\* The first item equal to value from start on, counted from either end.
FindIndex(value, start, fromStart) ==
    LET at(i) == IF fromStart THEN i ELSE Count - 1 - i
        found == {i \in Least(start, Count - 1)..(Count - 1) : Memory[at(i) + 1] = value} IN
    IF Count = 0 \/ found = {} THEN -1 ELSE at(Min(found))

RemoveValue(value, start, fromStart) ==
    LET index == FindIndex(value, start, fromStart) IN index >= 0 /\ RemoveIndex(index)

\* The memory is cleared and kept.
DeleteList ==
    /\ list' = [list EXCEPT !.pData = [k \in DOMAIN @ |-> 0], !.nItems = 0]
    /\ items' = <<>>

\* The memory is given back and the size of the items forgotten: nothing can
\* be added until it is set again.
Delete ==
    /\ list' = [pData |-> <<>>, nItems |-> 0, ItemSize |-> FALSE]
    /\ items' = <<>>

SetItemSize == ~list.ItemSize /\ list' = [list EXCEPT !.ItemSize = TRUE] /\ UNCHANGED items

Next ==
    \/ \E value \in Values, index \in -1..(MaxItems + 1) : Add(value, index)
    \/ \E index \in 0..MaxItems : RemoveIndex(index)
    \/ \E index, count \in 0..MaxItems : RemoveRange(index, count)
    \/ \E value \in Values, start \in 0..MaxItems, fromStart \in BOOLEAN :
         RemoveValue(value, start, fromStart)
    \/ Pop \/ EndPop \/ DeleteList \/ Delete \/ SetItemSize

Spec == Init /\ [][Next]_vars

-----------------------------------------------------------------------------
\* Read, First and Last see the sequence the calls built, wherever the block
\* grew or was moved in between, and the block is large enough.
HoldsItems ==
    /\ Count <= Len(Memory)
    /\ SubSeq(Memory, 1, Count) = items

\* A search finds the match nearest to the end it starts from.
FindsNearest ==
    \A value \in Values, start \in 0..MaxItems :
      /\ LET i == FindIndex(value, start, TRUE) IN
         i >= 0 => items[i + 1] = value /\ \A k \in (start + 1)..i : items[k] # value
      /\ LET i == FindIndex(value, 0, FALSE) IN
         IF i < 0 THEN value \notin ToSet(items)
         ELSE items[i + 1] = value /\ \A k \in (i + 2)..Len(items) : items[k] # value
=============================================================================
