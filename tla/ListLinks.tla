-------------------------------- MODULE ListLinks --------------------------------
(***************************************************************************)
(* The state of an AList (src/src/ListNode.cpp): the links of the nodes    *)
(* and the list's two ends and count, the chain they stand for, and what   *)
(* must hold between them.  ListNode has the operations.                   *)
(*                                                                         *)
(* A deleted node is a free one whose memory is used again: a link that    *)
(* still leads to it is caught like a link to any other free node.         *)
(***************************************************************************)
EXTENDS Integers, SequencesExt, FiniteSetsExt

CONSTANTS Nodes,   \* the nodes there are
          Null,    \* NULL
          Key      \* what Compare() compares

ASSUME NodesAssumption ==
    /\ IsFiniteSet(Nodes) /\ Null \notin Nodes
    /\ Key \in [Nodes -> Int]

VARIABLES links,  \* [prev, next], each a function of the nodes
          pFirst, pLast,
          nNodes,
          op      \* history: the last call, its arguments and its result

Pointer == Nodes \cup {Null}

\* The chain from a node (cut off where it would come round again).
ChainFrom(h, first) ==
    LET walk[k \in 0..Cardinality(Nodes)] ==
            IF k = 0 THEN <<>>
            ELSE LET s == walk[k - 1]
                     n == IF s = <<>> THEN first ELSE h.next[Last(s)]
                 IN IF n = Null THEN s ELSE Append(s, n)
    IN walk[Cardinality(Nodes)]

Chain == ChainFrom(links, pFirst)

Free == Nodes \ ToSet(Chain)

-----------------------------------------------------------------------------
(* Properties *)

\* The two directions agree, the ends and the count are those of the chain, and
\* a node outside it has no links: none of the places where an operation
\* recomputes pFirst, pLast and nNodes leaves one of them behind.
WellFormed ==
    /\ \A n, m \in Nodes : links.next[n] = m <=> links.prev[m] = n
    /\ pLast = IF Chain = <<>> THEN Null ELSE Last(Chain)
    /\ nNodes = Len(Chain) /\ IsInjective(Chain)
    /\ pLast # Null => links.next[pLast] = Null
    /\ \A n \in Free : links.next[n] = Null /\ links.prev[n] = Null

\* Each call does to the chain, and returns, what it would to a sequence.
\* (That nothing happens comes first, so that TLC sees it before it tries the calls.)
Promise == INSTANCE NodeSequence WITH list <- Chain
Promised == UNCHANGED <<op, Chain>> \/ Promise!Next
RefinesSequence == Promise!Init /\ [][Promised]_<<Chain, op>>

\* A list that is in order stays so under Add(), and equal keys stay in the
\* order in which they came.
InOrder(s) == \A k, l \in 1..Len(s) : k < l => Key[s[k]] <= Key[s[l]]

OrderKept ==
    op'[1] = "Add" /\ InOrder(Chain)
      => /\ InOrder(Chain')
         /\ \A k \in 1..Len(Chain') : Chain'[k] = op'[2] =>
              \A l \in (k + 1)..Len(Chain') : Key[Chain'[l]] > Key[op'[2]]

AddKeepsOrder == [][OrderKept]_<<Chain, op>>
=============================================================================
