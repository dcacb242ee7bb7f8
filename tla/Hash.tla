---------------------------------- MODULE Hash ----------------------------------
(***************************************************************************)
(* AHash (src/src/Hash.cpp): a map of names to values that owns the values *)
(* when it has a destructor.  A name is a pair of its lower-case text and  *)
(* whether it was written in capitals.                                     *)
(***************************************************************************)
EXTENDS Integers, FiniteSetsExt, Functions

CONSTANTS Names,   \* names without their case
          Values   \* what the values point to

VARIABLES hash,    \* [data, pDestructor, bCaseInsensitive, nTraverseCount], and the
                   \* values given to it
          freed    \* [Values -> the calls of the destructor]

vars == <<hash, freed>>

Keys == Names \X BOOLEAN

truekey(key) == IF hash.bCaseInsensitive THEN <<key[1], FALSE>> ELSE key

Init ==
    /\ \E destructor, insensitive \in BOOLEAN :
         hash = [data |-> <<>>, pDestructor |-> destructor, bCaseInsensitive |-> insensitive,
                 nTraverseCount |-> 0, given |-> {}]
    /\ freed = [v \in Values |-> 0]

Exists(key) == truekey(key) \in DOMAIN hash.data
Read(key) == hash.data[truekey(key)]

Destruct(values) ==
    freed' = IF hash.pDestructor THEN [v \in Values |-> freed[v] + (IF v \in values THEN 1 ELSE 0)]
             ELSE freed

\* Mutant: the value replaced is forgotten.
ReplacedNot(key) == {}

Replaced(key) == IF Exists(key) THEN {Read(key)} ELSE {}

\* Callers insert a value once.
Insert(key, v) ==
    /\ hash.nTraverseCount = 0 /\ v \notin hash.given
    /\ Destruct(Replaced(key))
    /\ hash' = [hash EXCEPT !.given = @ \cup {v},
                            !.data = [k \in DOMAIN @ \cup {truekey(key)} |->
                                        IF k = truekey(key) THEN v ELSE @[k]]]

Remove(key) ==
    /\ hash.nTraverseCount = 0 /\ Exists(key)
    /\ Destruct({Read(key)})
    /\ hash' = [hash EXCEPT !.data = Restrict(@, DOMAIN @ \ {truekey(key)})]

Delete ==
    /\ hash.nTraverseCount = 0
    /\ Destruct(Range(hash.data))
    /\ hash' = [hash EXCEPT !.data = <<>>]

\* Traverse() calls its hook with every pair; the hook may traverse again but
\* not change the map.
BeginTraverse ==
    /\ hash.nTraverseCount < 2
    /\ hash' = [hash EXCEPT !.nTraverseCount = @ + 1] /\ UNCHANGED freed

EndTraverse ==
    /\ hash.nTraverseCount > 0
    /\ hash' = [hash EXCEPT !.nTraverseCount = @ - 1] /\ UNCHANGED freed

Next ==
    \/ \E key \in Keys : (\E v \in Values : Insert(key, v)) \/ Remove(key)
    \/ Delete \/ BeginTraverse \/ EndTraverse

Spec == Init /\ [][Next]_vars

-----------------------------------------------------------------------------
\* A hash with a destructor owns its values: those in the map are alive, those
\* that left it were freed, each once; and a name has one value in any case.
OwnsValues ==
    /\ hash.pDestructor => \A v \in hash.given :
         freed[v] = IF v \in Range(hash.data) THEN 0 ELSE 1
    /\ hash.bCaseInsensitive => \A n \in Names : <<n, TRUE>> \notin DOMAIN hash.data
=============================================================================
