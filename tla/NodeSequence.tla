------------------------------ MODULE NodeSequence ------------------------------
(***************************************************************************)
(* What AList (src/include/ListNode.h) promises to its users: a sequence   *)
(* of distinct nodes under the calls of the class.  op is the last call,   *)
(* its arguments and its result, so that an implementation has to do the   *)
(* same to the sequence for the same call.                                 *)
(***************************************************************************)
EXTENDS Integers, SequencesExt, FiniteSetsExt

CONSTANTS Nodes, Key, Null

VARIABLES list, op

Members == ToSet(list)
Free == Nodes \ Members

\* The position of a member.
At(m) == CHOOSE k \in 1..Len(list) : list[k] = m

\* After the last node that does not come after n.
OrderedPlace(n) == 1 + Max({0} \cup {k \in 1..Len(list) : Key[list[k]] <= Key[n]})

\* r keeps the order of the keys, and the order of list among equal keys.
StableSort(r) ==
    /\ r \in SetToSeqs(Members)
    /\ \A a, b \in Members :
         LET before(s) == \E k, l \in 1..Len(s) : k < l /\ s[k] = a /\ s[l] = b IN
         before(r) => Key[a] <= Key[b] /\ (Key[a] = Key[b] => before(list))

Init == list = <<>> /\ op = <<"none">>

\* A call next to a node that is no member is refused.
Beside(call, n, m, result) ==
    IF m \in Members
    THEN list' = result /\ op' = <<call, n, m, TRUE>>
    ELSE UNCHANGED list /\ op' = <<call, n, m, FALSE>>

Insertions(n) ==
    \/ list' = InsertAt(list, OrderedPlace(n), n) /\ op' = <<"Add", n>>
    \/ list' = Append(list, n) /\ op' = <<"Push", n>>
    \/ list' = <<n>> \o list /\ op' = <<"StartPush", n>>
    \/ \E m \in Nodes \ {n} :
         \/ Beside("InsertBefore", n, m, InsertAt(list, At(m), n))
         \/ Beside("InsertAfter", n, m, InsertAt(list, At(m) + 1, n))
         \/ Beside("Replace", n, m, ReplaceAt(list, At(m), n))

Removals ==
    \/ \E m \in Nodes :
         IF m \in Members
         THEN list' = RemoveAt(list, At(m)) /\ op' = <<"Remove", m, TRUE>>
         ELSE UNCHANGED list /\ op' = <<"Remove", m, FALSE>>
    \/ IF list = <<>>
       THEN UNCHANGED list /\ op' \in {<<"Pop", Null>>, <<"EndPop", Null>>}
       ELSE \/ list' = Tail(list) /\ op' = <<"Pop", Head(list)>>
            \/ list' = Front(list) /\ op' = <<"EndPop", Last(list)>>
    \/ list' = <<>> /\ op' = <<"RemoveAll">>
    \/ \E count \in 0..Cardinality(Nodes), fromEnd \in BOOLEAN :
         /\ op' = <<"Limit", count, fromEnd, Len(list) - Len(list')>>
         /\ list' = IF Len(list) <= count THEN list
                    ELSE IF fromEnd THEN SubSeq(list, 1, count)
                    ELSE SubSeq(list, Len(list) - count + 1, Len(list))

Sort == StableSort(list') /\ op' = <<"Sort">>

Next == (\E n \in Free : Insertions(n)) \/ Removals \/ Sort

Spec == Init /\ [][Next]_<<list, op>>
=============================================================================
