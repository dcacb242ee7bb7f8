-------------------------------- MODULE StringList --------------------------------
(***************************************************************************)
(* AStringList (src/src/StringList.cpp): a list of texts, some of them     *)
(* locked against LimitStrings().  ModifyString() is a hook of derived     *)
(* classes.                                                                *)
(***************************************************************************)
EXTENDS Integers, SequencesExt, FiniteSetsExt

CONSTANT Strings

VARIABLES lists,    \* [StringList, LockedStringList]
          limited   \* the last call of LimitStrings(): [n, nremoved, before], n = -1 if it was another

vars == <<lists, limited>>

Init == lists = [StringList |-> <<>>, LockedStringList |-> <<>>]
        /\ limited = [n |-> -1, nremoved |-> 0, before |-> <<>>]

NotLimited == limited' = [n |-> -1, nremoved |-> 0, before |-> <<>>]

\* The texts of a list that are in S, in their order.
Only(strings, S) == FoldLeft(LAMBDA kept, str : IF str \in S THEN Append(kept, str) ELSE kept, <<>>, strings)

IsStringLocked(str) == Contains(lists.LockedStringList, str)

\* A text is new when it is added.
AddString(str, locked) ==
    /\ ~Contains(lists.StringList, str)
    /\ lists' = [StringList |-> Append(lists.StringList, str),
                 LockedStringList |-> IF locked THEN Append(lists.LockedStringList, str) ELSE lists.LockedStringList]
    /\ NotLimited

RemoveString(str) ==
    /\ Contains(lists.StringList, str)
    /\ lists' = [StringList |-> Only(lists.StringList, Strings \ {str}),
                 LockedStringList |-> Only(lists.LockedStringList, Strings \ {str})]
    /\ NotLimited

UnLockString(str) ==
    /\ IsStringLocked(str)
    /\ lists' = [lists EXCEPT !.LockedStringList = Only(@, Strings \ {str})]
    /\ NotLimited

\* Mutant: the oldest texts go, and their locks are left.
LimitOldest(n) ==
    LET strings == lists.StringList  k == Len(strings) - n IN
    /\ lists' = [lists EXCEPT !.StringList = IF k > 0 THEN SubSeq(@, k + 1, Len(@)) ELSE @]
    /\ limited' = [n |-> n, nremoved |-> IF k > 0 THEN k ELSE 0, before |-> strings]

\* From the first on, texts that are not locked go until no more than n are left.
LimitStrings(n) ==
    LET strings == lists.StringList
        free == Only(strings, {str \in Strings : ~IsStringLocked(str)})
        excess == Len(strings) - n
        gone == ToSet(SubSeq(free, 1, IF excess < Len(free) THEN excess ELSE Len(free)))
    IN /\ lists' = [lists EXCEPT !.StringList = Only(@, Strings \ gone)]
       /\ limited' = [n |-> n, nremoved |-> Cardinality(gone), before |-> strings]

Next ==
    \/ \E str \in Strings : (\E locked \in BOOLEAN : AddString(str, locked)) \/ RemoveString(str) \/ UnLockString(str)
    \/ \E n \in 0..Cardinality(Strings) : LimitStrings(n)

Spec == Init /\ [][Next]_vars

-----------------------------------------------------------------------------
\* No text is locked that is not in the list; LimitStrings() leaves the texts in
\* their order, no more than asked for unless all that are left are locked, and
\* takes none while an older one that is not locked stays.
LockedAreKept ==
    /\ ToSet(lists.LockedStringList) \subseteq ToSet(lists.StringList) /\ IsInjective(lists.LockedStringList)
    /\ limited.n >= 0 =>
         LET before == limited.before
             kept == ToSet(lists.StringList)
             gone == {k \in DOMAIN before : before[k] \notin kept} IN
         /\ lists.StringList = Only(before, kept)
         /\ Len(before) = Len(lists.StringList) + limited.nremoved
         /\ Len(lists.StringList) > limited.n => kept = ToSet(lists.LockedStringList)
         /\ gone # {} => Len(lists.StringList) >= limited.n
         /\ \A k \in gone, l \in DOMAIN before \ gone : l < k => before[l] \in ToSet(lists.LockedStringList)
=============================================================================
