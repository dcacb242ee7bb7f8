------------------------------ MODULE ObjectProofs ------------------------------
(***************************************************************************)
(* Proofs about the library's objects of Objects, for any parameters.      *)
(* Each object has an inductive invariant of its own, over the variables   *)
(* it shares with the others; a behaviour is about one of them.  Then      *)
(* numbers, bytes and rectangles; and the lock, for any set of threads.    *)
(***************************************************************************)
EXTENDS Objects, ThreadLock, ListFacts

-----------------------------------------------------------------------------
(* Sequences *)

\* What is left of a queue, and what one more makes of it.
LEMMA QueueFacts ==
    ASSUME NEW Elements, NEW s \in Seq(Elements)
    PROVE  /\ Len(s) \in Nat /\ DOMAIN s = 1..Len(s) /\ \A k \in 1..Len(s) : s[k] \in Elements
           /\ s # <<>> => /\ Tail(s) \in Seq(Elements) /\ Len(Tail(s)) = Len(s) - 1 /\ 1 \in 1..Len(s)
                          /\ \A k \in 1..(Len(s) - 1) : Tail(s)[k] = s[k + 1]
           /\ \A e \in Elements : /\ Append(s, e) \in Seq(Elements) /\ Len(Append(s, e)) = Len(s) + 1
                           /\ \A k \in 1..Len(s) : Append(s, e)[k] = s[k]
                           /\ Append(s, e)[Len(s) + 1] = e
OBVIOUS

\* A function on the first numbers is a sequence.
LEMMA FunctionIsSequence ==
    ASSUME NEW Elements, NEW m \in Nat, NEW f \in [1..m -> Elements]
    PROVE  f \in Seq(Elements) /\ Len(f) = m
OBVIOUS

LEMMA SameLength ==
    ASSUME NEW Elements, NEW s \in Seq(Elements), NEW t \in Seq(Elements), Len(s) = Len(t),
           \A k \in 1..Len(s) : s[k] = t[k]
    PROVE  s = t
BY SeqEqual

-----------------------------------------------------------------------------
(* The datagram server *)

\* A datagram that is about to be read is still the first of the queue.
UDPInv ==
    /\ object \in [socket : BOOLEAN, phase : {"idle", "loop", "read"}, datalen : Nat, n : Nat]
    /\ around \in Seq([number : Nat, size : 0..(Peek + 1)])
    /\ past \in Seq([number : Nat, size : Nat])
    /\ U!DatagramsInOrder
    /\ object.phase = "read" =>
         /\ around # <<>> /\ object.n \in 1..Peek /\ object.n <= around[1].size

LEMMA UDPInit == U!Init => UDPInv
BY DEF U!Init, UDPInv, U!DatagramsInOrder

LEMMA UDPStep == UDPInv /\ U!Next => UDPInv'
<1> SUFFICES ASSUME UDPInv, U!Next PROVE UDPInv'
  OBVIOUS
<1> DEFINE Object == [socket : BOOLEAN, phase : {"idle", "loop", "read"}, datalen : Nat, n : Nat]
           Datagram == [number : Nat, size : 0..(Peek + 1)]
           Handled == [number : Nat, size : Nat]
<1>0. /\ object \in Object /\ around \in Seq(Datagram) /\ past \in Seq(Handled)
      /\ Peek \in Nat \ {0}
  BY ObjectsAssumption DEF UDPInv, ObjectsAssumption
<1> HIDE DEF Object, Datagram, Handled
<1>n. /\ Len(past) \in Nat /\ DOMAIN past = 1..Len(past)
      /\ Len(around) \in Nat /\ DOMAIN around = 1..Len(around)
  BY <1>0, QueueFacts
<1>d. /\ \A k \in 1..Len(past) : past[k].number = k /\ past[k].size \in 1..Peek
      /\ \A k \in 1..Len(around) : around[k].number = Len(past) + k
      /\ object.n <= object.datalen
  BY <1>n DEF UDPInv, U!DatagramsInOrder
<1>1. CASE U!Create
  <2>1. object' = [object EXCEPT !.socket = TRUE] /\ around' = <<>> /\ past' = <<>> /\ object.phase = "idle"
    BY <1>1 DEF U!Create
  <2>2. object' \in Object /\ object'.phase = "idle" /\ object'.n <= object'.datalen
    BY <1>0, <1>d, <2>1 DEF Object
  <2>3. QED BY <2>1, <2>2 DEF UDPInv, U!DatagramsInOrder, Object
<1>2. CASE object.phase = "idle" /\ U!Delete
  <2>1. object' = [object EXCEPT !.socket = FALSE] /\ around' = <<>> /\ past' = past
    BY <1>2 DEF U!Delete
  <2>2. object' \in Object /\ object'.phase = "idle" /\ object'.n <= object'.datalen
    BY <1>0, <1>2, <1>d, <2>1 DEF Object
  <2>3. QED BY <1>0, <1>n, <1>d, <2>1, <2>2 DEF UDPInv, U!DatagramsInOrder, Object, Handled
<1>3. ASSUME NEW size \in 0..(Peek + 1), U!Arrive(size) PROVE UDPInv'
  <2> DEFINE e == [number |-> Len(around) + Len(past) + 1, size |-> size]
  <2>1. around' = Append(around, e) /\ object' = object /\ past' = past
    BY <1>3 DEF U!Arrive
  <2>2. e \in Datagram /\ e.number = Len(past) + (Len(around) + 1)
    BY <1>n DEF Datagram
  <2> HIDE DEF e
  <2>3. /\ around' \in Seq(Datagram) /\ Len(around') = Len(around) + 1 /\ DOMAIN around' = 1..(Len(around) + 1)
        /\ \A k \in 1..Len(around) : around'[k] = around[k]
        /\ around'[Len(around) + 1] = e
    BY <1>0, <2>1, <2>2, QueueFacts
  <2>4. ASSUME NEW k \in 1..(Len(around) + 1) PROVE around'[k].number = Len(past) + k
    <3>1. CASE k = Len(around) + 1
      BY <2>2, <2>3, <3>1
    <3>2. CASE k \in 1..Len(around)
      BY <1>d, <2>3, <3>2
    <3>3. QED BY <1>n, <3>1, <3>2
  <2>5. U!DatagramsInOrder'
    BY <1>n, <1>d, <2>1, <2>3, <2>4 DEF U!DatagramsInOrder
  <2>6. object.phase = "read" => around' # <<>> /\ around'[1] = around[1]
    <3>1. object.phase = "read" => 1 \in 1..Len(around)
      BY <1>0, QueueFacts DEF UDPInv
    <3>2. around' # <<>>
      BY <1>n, <2>3
    <3>3. QED BY <2>3, <3>1, <3>2
  <2>7. QED BY <1>0, <2>1, <2>3, <2>5, <2>6 DEF UDPInv, Object, Datagram, Handled
<1>4. CASE U!ReadCallback
  <2> DEFINE size == IF ~object.socket \/ around = <<>> THEN -1 ELSE around[1].size
             n == IF size > Peek THEN Peek ELSE size
  <2>1. /\ object' = IF n <= 0 THEN [object EXCEPT !.phase = "idle", !.datalen = 0, !.n = 0]
                     ELSE [object EXCEPT !.phase = "read", !.n = n,
                                         !.datalen = U!LargeEnough(object.datalen, n)]
        /\ around' = around /\ past' = past
    BY <1>4 DEF U!ReadCallback
  <2>2. around # <<>> => around[1].size \in 0..(Peek + 1)
    <3>1. around # <<>> => around[1] \in Datagram
      BY <1>0, QueueFacts
    <3>2. QED BY <3>1 DEF Datagram
  <2>3. n \in Int /\ (n > 0 => around # <<>> /\ n <= Peek /\ n <= around[1].size)
    BY <1>0, <2>2
  <2> HIDE DEF n, size
  <2>4. CASE n <= 0
    <3>1. object' = [object EXCEPT !.phase = "idle", !.datalen = 0, !.n = 0]
      BY <2>1, <2>4
    <3>2. object' = [socket |-> object.socket, phase |-> "idle", datalen |-> 0, n |-> 0]
      BY <1>0, <3>1 DEF Object
    <3>3. object' \in Object /\ object'.phase = "idle" /\ object'.n <= object'.datalen
      BY <1>0, <3>2 DEF Object
    <3>4. QED BY <1>0, <1>n, <1>d, <2>1, <3>3 DEF UDPInv, U!DatagramsInOrder, Object, Datagram, Handled
  <2>5. CASE ~(n <= 0)
    <3>1. n \in Nat /\ n \in 1..Peek
      BY <1>0, <2>3, <2>5
    <3>2. object.datalen \in Nat
      BY <1>0 DEF Object
    <3>3. U!LargeEnough(object.datalen, n) \in Nat /\ n <= U!LargeEnough(object.datalen, n)
      BY <3>1, <3>2 DEF U!LargeEnough
    <3>4. object' \in Object /\ object'.n <= object'.datalen /\ object'.n = n
      BY <1>0, <2>1, <2>5, <3>1, <3>3 DEF Object
    <3>5. QED
      BY <1>0, <1>n, <1>d, <2>1, <2>3, <2>5, <3>1, <3>4
         DEF UDPInv, U!DatagramsInOrder, Object, Datagram, Handled
  <2>6. QED BY <2>4, <2>5
<1>5. CASE U!Receive
  <2> DEFINE e == [number |-> around[1].number,
                   size |-> IF around[1].size < object.n THEN around[1].size ELSE object.n]
  <2>1. PICK deletes \in BOOLEAN :
          /\ object' = [object EXCEPT !.phase = "loop", !.socket = @ /\ ~deletes]
          /\ around' = IF deletes THEN <<>> ELSE Tail(around)
    BY <1>5 DEF U!Receive
  <2>2. past' = Append(past, e) /\ object.phase = "read"
    BY <1>5 DEF U!Receive
  <2>3. around # <<>> /\ object.n \in 1..Peek /\ object.n <= around[1].size
    BY <2>2 DEF UDPInv
  <2>4. around[1] \in Datagram /\ around[1].number = Len(past) + 1
    BY <1>0, <1>d, <2>3, QueueFacts
  <2>5. e \in Handled /\ e.number = Len(past) + 1 /\ e.size \in 1..Peek
    BY <1>0, <2>3, <2>4 DEF Datagram, Handled
  <2> HIDE DEF e
  <2>6. /\ past' \in Seq(Handled) /\ Len(past') = Len(past) + 1 /\ DOMAIN past' = 1..(Len(past) + 1)
        /\ \A k \in 1..Len(past) : past'[k] = past[k]
        /\ past'[Len(past) + 1] = e
    BY <1>0, <2>2, <2>5, QueueFacts
  <2>7. ASSUME NEW k \in 1..(Len(past) + 1) PROVE past'[k].number = k /\ past'[k].size \in 1..Peek
    <3>1. CASE k = Len(past) + 1
      BY <2>5, <2>6, <3>1
    <3>2. CASE k \in 1..Len(past)
      BY <1>d, <2>6, <3>2
    <3>3. QED BY <1>n, <3>1, <3>2
  <2>8. around' \in Seq(Datagram) /\ \A k \in 1..Len(around') : around'[k].number = Len(past') + k
    <3>1. CASE deletes
      BY <2>1, <3>1
    <3>2. CASE ~deletes
      <4>1. /\ around' \in Seq(Datagram) /\ Len(around') = Len(around) - 1
            /\ \A k \in 1..(Len(around) - 1) : around'[k] = around[k + 1]
        BY <1>0, <2>1, <2>3, <3>2, QueueFacts
      <4>2. ASSUME NEW k \in 1..(Len(around) - 1) PROVE around'[k].number = Len(past') + k
        <5>1. k + 1 \in 1..Len(around)
          BY <1>n
        <5>2. around[k + 1].number = Len(past) + (k + 1)
          BY <1>d, <5>1
        <5>3. QED BY <1>n, <2>6, <4>1, <5>2
      <4>3. QED BY <4>1, <4>2
    <3>3. QED BY <3>1, <3>2
  <2>9. object' \in Object /\ object'.phase = "loop" /\ object'.n <= object'.datalen
    BY <1>0, <1>d, <2>1 DEF Object
  <2>10. DOMAIN around' = 1..Len(around')
    BY <2>8, QueueFacts
  <2>11. U!DatagramsInOrder'
    BY <2>6, <2>7, <2>8, <2>9, <2>10 DEF U!DatagramsInOrder
  <2>12. QED BY <2>6, <2>8, <2>9, <2>11 DEF UDPInv, Object, Datagram, Handled
<1>6. QED BY <1>1, <1>2, <1>3, <1>4, <1>5 DEF U!Next

-----------------------------------------------------------------------------
(* The thread *)

\* quitthread is set from Stop() to the end of the join, and there is a thread
\* as long as one is said to be started.
ThreadInv ==
    /\ object \in [threadstarted : BOOLEAN, quitthread : BOOLEAN, owner : {"idle", "quitting", "joining"}]
    /\ around \in [state : {"none", "check", "wait", "done"}, signal : BOOLEAN]
    /\ object.quitthread <=> object.owner # "idle"
    /\ object.threadstarted <=> around.state # "none"
    /\ T!QuitsWhenTold

LEMMA ThreadInit == T!Init => ThreadInv
BY DEF T!Init, ThreadInv, T!QuitsWhenTold

LEMMA ThreadStep == ThreadInv /\ T!Next => ThreadInv'
<1> SUFFICES ASSUME ThreadInv, T!Next PROVE ThreadInv'
  OBVIOUS
<1> USE DEF ThreadInv, T!QuitsWhenTold
<1>1. CASE T!Start
  <2>1. CASE UNCHANGED <<object, around>>
    BY <2>1
  <2>2. CASE ~UNCHANGED <<object, around>>
    <3>1. /\ object.owner = "idle" /\ ~object.threadstarted /\ around.state = "none"
          /\ object' = [object EXCEPT !.threadstarted = TRUE]
          /\ around' = [state |-> "check", signal |-> around.signal]
      BY <1>1, <2>2 DEF T!Start, T!vars
    <3>2. QED BY <3>1
  <2>3. QED BY <2>1, <2>2
<1>2. CASE T!Stop
  BY <1>2 DEF T!Stop
<1>3. CASE T!ThreadQuitting
  BY <1>3 DEF T!ThreadQuitting, T!Woken
<1>4. CASE T!Join
  BY <1>4 DEF T!Join, T!Reset
<1>5. CASE T!Check
  BY <1>5 DEF T!Check
<1>6. CASE T!Wait
  BY <1>6 DEF T!Wait
<1>7. CASE T!Signal
  BY <1>7 DEF T!Signal, T!Woken
<1>8. QED BY <1>1, <1>2, <1>3, <1>4, <1>5, <1>6, <1>7 DEF T!Next

-----------------------------------------------------------------------------
(* The block of items *)

\* What is in memory: items, and 0 where it was cleared.
Cells == Items \cup {0}

Lists == [pData : Seq(Cells), nItems : Nat, ItemSize : BOOLEAN]

\* The block starts with the items.
Begins(memory, n, items) ==
    n <= Len(memory) /\ n = Len(items) /\ \A k \in 1..n : memory[k] = items[k]

BlockInv ==
    /\ object \in Lists /\ around \in Seq(Items)
    /\ Begins(object.pData, object.nItems, around)

\* Rounded up to a multiple, a number is not less.
LEMMA RoundedUp ==
    ASSUME NEW n \in Nat, NEW inc \in Nat \ {0}, NEW wanted \in Nat, wanted = n + inc - 1
    PROVE  wanted - (wanted % inc) \in Nat /\ wanted - (wanted % inc) >= n
<1>1. wanted % inc \in 0..(inc - 1)
  OBVIOUS
<1>2. wanted - (wanted % inc) \in Int
  BY <1>1
<1>3. wanted - (wanted % inc) >= n
  BY <1>1
<1>4. QED BY <1>2, <1>3

\* An array that grows keeps what it holds and has room for the number asked for.
LEMMA AllocateFacts ==
    ASSUME NEW Elements, 0 \in Elements, NEW array \in Seq(Elements), NEW n \in Nat, NEW inc \in Nat \ {0}
    PROVE  /\ B!Allocate(array, n, inc) \in Seq(Elements)
           /\ Len(B!Allocate(array, n, inc)) >= n /\ Len(B!Allocate(array, n, inc)) >= Len(array)
           /\ \A k \in 1..Len(array) : B!Allocate(array, n, inc)[k] = array[k]
<1>1. CASE array # <<>> /\ n <= Len(array)
  BY <1>1 DEF B!Allocate
<1>2. CASE ~(array # <<>> /\ n <= Len(array))
  <2> DEFINE most == IF n > Len(array) THEN n ELSE Len(array)
             wanted == most + inc - 1
             whole == wanted - (wanted % inc)
             total == IF whole > inc THEN whole ELSE inc
             added == [k \in 1..(total - Len(array)) |-> 0]
  <2>0. Len(array) \in Nat
    OBVIOUS
  <2>1. most \in Nat /\ most >= n /\ most >= Len(array)
    BY <2>0
  <2>2. wanted \in Nat
    BY <2>1
  <2>3. B!Allocate(array, n, inc) = array \o added
    BY <1>2 DEF B!Allocate, B!AllocatedItems, B!Greatest
  <2> HIDE DEF most
  <2>4. whole \in Nat /\ whole >= most
    BY <2>1, <2>2, RoundedUp
  <2> HIDE DEF whole
  <2>5. total \in Nat /\ total >= most
    BY <2>1, <2>4
  <2> HIDE DEF total
  <2>6. total - Len(array) \in Nat
    BY <2>0, <2>1, <2>5
  <2>7. added \in [1..(total - Len(array)) -> Elements]
    OBVIOUS
  <2>8. added \in Seq(Elements) /\ Len(added) = total - Len(array)
    BY <2>6, <2>7, FunctionIsSequence
  <2> HIDE DEF added
  <2>9. /\ array \o added \in Seq(Elements) /\ Len(array \o added) = Len(array) + Len(added)
        /\ \A k \in 1..Len(array) : (array \o added)[k] = array[k]
    BY <2>8
  <2>10. QED BY <2>0, <2>1, <2>3, <2>5, <2>8, <2>9
<1>3. QED BY <1>1, <1>2

\* Items moved up or down inside the block.
Moved(new, memory, to, from, n) ==
    /\ Len(new) = Len(memory)
    /\ \A k \in 1..Len(memory) : new[k] = IF k \in to..(to + n - 1) THEN memory[from + k - to] ELSE memory[k]

LEMMA MoveFacts ==
    ASSUME NEW Elements, NEW memory \in Seq(Elements), NEW to \in Nat \ {0}, NEW from \in Nat \ {0}, NEW n \in Nat,
           from + n - 1 <= Len(memory)
    PROVE  B!Move(memory, to, from, n) \in Seq(Elements) /\ Moved(B!Move(memory, to, from, n), memory, to, from, n)
<1> DEFINE new == [k \in 1..Len(memory) |-> IF k \in to..(to + n - 1) THEN memory[from + k - to] ELSE memory[k]]
<1>1. Len(memory) \in Nat /\ DOMAIN memory = 1..Len(memory)
  OBVIOUS
<1>2. B!Move(memory, to, from, n) = new
  BY <1>1 DEF B!Move
<1>3. ASSUME NEW k \in 1..Len(memory) PROVE new[k] \in Elements
  <2>1. k \in to..(to + n - 1) => from + k - to \in 1..Len(memory)
    BY <1>1
  <2>2. QED BY <2>1
<1>4. new \in [1..Len(memory) -> Elements]
  BY <1>3
<1>5. new \in Seq(Elements) /\ Len(new) = Len(memory)
  BY <1>1, <1>4, FunctionIsSequence
<1>6. Moved(new, memory, to, from, n)
  BY <1>5 DEF Moved
<1>7. QED BY <1>2, <1>5, <1>6

LEMMA BlockInit == B!Init => BlockInv
<1> SUFFICES ASSUME B!Init PROVE BlockInv
  OBVIOUS
<1>1. object = [pData |-> <<>>, nItems |-> 0, ItemSize |-> TRUE] /\ around = <<>>
  BY DEF B!Init
<1>2. <<>> \in Seq(Cells) /\ <<>> \in Seq(Items) /\ Len(<<>>) = 0
  OBVIOUS
<1>3. QED BY <1>1, <1>2 DEF BlockInv, Lists, Begins

\* A search finds a place where the value is, and passes none on the way.
LEMMA FindIndexFacts ==
    ASSUME BlockInv, NEW value, NEW start \in Nat, NEW fromStart \in BOOLEAN
    PROVE  LET i == B!FindIndex(value, start, fromStart)
               n == Len(around) IN
           /\ i \in Int
           /\ i >= 0 => i \in 0..(n - 1) /\ around[i + 1] = value
           /\ i >= 0 /\ fromStart => \A k \in (start + 1)..i : around[k] # value
           /\ i >= 0 /\ ~fromStart /\ start = 0 => \A k \in (i + 2)..n : around[k] # value
           /\ i < 0 /\ start = 0 => \A k \in 1..n : around[k] # value
<1> DEFINE n == object.nItems
           first == IF start < n - 1 THEN start ELSE n - 1
           at(i) == IF fromStart THEN i ELSE n - 1 - i
           found == {i \in first..(n - 1) : object.pData[at(i) + 1] = value}
           i == B!FindIndex(value, start, fromStart)
<1>0. /\ n \in Nat /\ n = Len(around) /\ \A k \in 1..n : object.pData[k] = around[k]
  BY DEF BlockInv, Lists, Begins
<1>1. i = IF n = 0 \/ found = {} THEN -1 ELSE at(B!Min(found))
  BY DEF B!FindIndex, B!Count, B!Memory, B!Least
<1> HIDE DEF i
<1>2. CASE n = 0
  <2>1. i = -1
    BY <1>1, <1>2
  <2>2. QED BY <1>0, <1>2, <2>1 DEF i
<1>3. CASE n # 0
  <2>1. first \in 0..(n - 1) /\ first <= start /\ (start = 0 => first = 0)
    <3>1. n - 1 \in Nat
      BY <1>0, <1>3
    <3>2. first \in 0..(n - 1) /\ first <= start
      BY <3>1
    <3>3. start = 0 => first = 0
      <4>1. CASE n - 1 = 0
        BY <3>2, <4>1
      <4>2. CASE n - 1 # 0
        <5> HIDE DEF n, at, found
        <5>1. 0 < n - 1
          BY <1>0, <3>1, <4>2
        <5>2. QED BY <5>1
      <4>3. QED BY <4>1, <4>2
    <3>4. QED BY <3>2, <3>3
  <2> HIDE DEF first
  <2>2. \A j \in first..(n - 1) : at(j) + 1 \in 1..n
    BY <1>0, <2>1
  <2>3. \A j \in first..(n - 1) : j \in found <=> around[at(j) + 1] = value
    BY <1>0, <2>2
  <2>4. found \subseteq first..(n - 1) /\ found \in SUBSET Nat
    BY <1>0, <2>1
  <2>5. CASE found = {}
    <3>1. i = -1
      BY <1>1, <2>5
    <3>2. ASSUME start = 0, NEW k \in 1..n PROVE around[k] # value
      <4> DEFINE j == IF fromStart THEN k - 1 ELSE n - k
      <4>1. j \in first..(n - 1) /\ at(j) + 1 = k
        BY <1>0, <2>1, <3>2
      <4> HIDE DEF j, at, found
      <4>2. QED BY <2>3, <2>5, <4>1
    <3>3. QED BY <1>0, <3>1, <3>2 DEF i
  <2>6. CASE found # {}
    <3> DEFINE m == B!Min(found)
    <3>1. \E j \in found : \A k \in found : j <= k
      BY <2>4, <2>6, Least
    <3>2. m \in found /\ \A k \in found : m <= k
      BY <3>1 DEF B!Min
    <3>3. i = at(m)
      BY <1>1, <1>3, <2>6
    <3> HIDE DEF m, found
    <3>4. m \in first..(n - 1) /\ around[at(m) + 1] = value
      BY <2>3, <2>4, <3>2
    <3>5. i \in 0..(n - 1) /\ around[i + 1] = value
      BY <1>0, <2>1, <3>3, <3>4
    <3>6. ASSUME fromStart, NEW k \in (start + 1)..i PROVE around[k] # value
      <4>1. k - 1 \in first..(n - 1) /\ at(k - 1) + 1 = k /\ k - 1 < m
        BY <1>0, <2>1, <3>3, <3>4, <3>6
      <4>2. k - 1 \notin found
        BY <2>4, <3>2, <3>4, <4>1
      <4> HIDE DEF at
      <4>3. QED BY <2>3, <4>1, <4>2
    <3>7. ASSUME ~fromStart, start = 0, NEW k \in (i + 2)..n PROVE around[k] # value
      <4>1. n - k \in first..(n - 1) /\ at(n - k) + 1 = k /\ n - k < m
        BY <1>0, <2>1, <3>3, <3>4, <3>7
      <4>2. n - k \notin found
        BY <2>4, <3>2, <3>4, <4>1
      <4> HIDE DEF at
      <4>3. QED BY <2>3, <4>1, <4>2
    <3>8. QED BY <1>0, <3>5, <3>6, <3>7 DEF i
  <2>7. QED BY <2>5, <2>6
<1>4. QED BY <1>2, <1>3

LEMMA BlockMeans == BlockInv => B!HoldsItems /\ B!FindsNearest
<1> SUFFICES ASSUME BlockInv PROVE B!HoldsItems /\ B!FindsNearest
  OBVIOUS
<1>0. /\ object.pData \in Seq(Cells) /\ object.nItems \in Nat /\ around \in Seq(Items)
      /\ object.nItems <= Len(object.pData) /\ object.nItems = Len(around)
      /\ \A k \in 1..object.nItems : object.pData[k] = around[k]
  BY DEF BlockInv, Lists, Begins
<1>1. B!HoldsItems
  <2> DEFINE read == SubSeq(object.pData, 1, object.nItems)
  <2>1. \A k \in 1..object.nItems : object.pData[k] \in Items
    BY <1>0, QueueFacts
  <2>2. /\ read \in Seq(Items) /\ Len(read) = object.nItems
        /\ \A k \in 1..object.nItems : read[k] = object.pData[k]
    BY <1>0, <2>1, SubSeqProperties
  <2> HIDE DEF read
  <2>3. read = around
    BY <1>0, <2>2, SameLength
  <2>4. QED BY <1>0, <2>3 DEF B!HoldsItems, B!Count, B!Memory, read
<1>2. ASSUME NEW value \in Items, NEW start \in 0..MaxItems
      PROVE  /\ LET i == B!FindIndex(value, start, TRUE) IN
                i >= 0 => around[i + 1] = value /\ \A k \in (start + 1)..i : around[k] # value
             /\ LET i == B!FindIndex(value, 0, FALSE) IN
                IF i < 0 THEN value \notin B!ToSet(around)
                ELSE around[i + 1] = value /\ \A k \in (i + 2)..Len(around) : around[k] # value
  <2> DEFINE i == B!FindIndex(value, start, TRUE)
             j == B!FindIndex(value, 0, FALSE)
  <2>0. start \in Nat
    BY ObjectsAssumption DEF ObjectsAssumption
  <2>1. /\ i >= 0 => around[i + 1] = value
        /\ i >= 0 => \A k \in (start + 1)..i : around[k] # value
    BY <2>0, FindIndexFacts
  <2>2. /\ j >= 0 => around[j + 1] = value
        /\ j >= 0 => \A k \in (j + 2)..Len(around) : around[k] # value
        /\ j < 0 => \A k \in 1..Len(around) : around[k] # value
    BY FindIndexFacts
  <2>3. value \in B!ToSet(around) => \E k \in 1..Len(around) : around[k] = value
    BY <1>0 DEF B!ToSet
  <2>j. j \in Int
    BY FindIndexFacts
  <2> HIDE DEF i, j
  <2>4. j >= 0 \/ j < 0
    BY <2>j
  <2>5. QED BY <2>1, <2>2, <2>3, <2>4 DEF i, j
<1>3. QED BY <1>1, <1>2 DEF B!FindsNearest

LEMMA BlockStep == BlockInv /\ B!Next => BlockInv'
<1> SUFFICES ASSUME BlockInv, B!Next PROVE BlockInv'
  OBVIOUS
<1> DEFINE memory == object.pData
           n == object.nItems
           items == around
<1>0. /\ object \in Lists /\ memory \in Seq(Cells) /\ n \in Nat /\ object.ItemSize \in BOOLEAN
      /\ items \in Seq(Items)
      /\ n <= Len(memory) /\ n = Len(items) /\ \A k \in 1..n : memory[k] = items[k]
      /\ Len(memory) \in Nat
  BY DEF BlockInv, Lists, Begins
<1>n. n \in Nat /\ Len(memory) \in Nat /\ n <= Len(memory) /\ n = Len(items)
  BY <1>0
\* What is to be shown of a step.
<1>s. ASSUME NEW new \in Seq(Cells), NEW amount \in Nat, NEW size \in BOOLEAN, NEW left \in Seq(Items),
             object'.pData = new, object'.nItems = amount, object' \in Lists, around' = left, Begins(new, amount, left)
      PROVE  BlockInv'
  BY <1>s DEF BlockInv
<1>1. ASSUME NEW value \in Items, NEW index \in -1..(MaxItems + 1), B!Add(value, index) PROVE BlockInv'
  <2> DEFINE at == IF (IF index > 0 THEN index ELSE 0) < n THEN (IF index > 0 THEN index ELSE 0) ELSE n
             grown == B!Allocate(memory, n + 1, nIncItems)
             moved == B!Move(grown, at + 2, at + 1, n - at)
             new == [moved EXCEPT ![at + 1] = value]
             left == InsertAt(items, at + 1, value)
  <2>0. index \in Int /\ nIncItems \in Nat \ {0}
    BY ObjectsAssumption DEF ObjectsAssumption
  <2>1. at \in 0..n
    BY <1>0, <2>0
  <2>2. B!Clamp(index, 0, B!Count) = at
    BY DEF B!Clamp, B!Least, B!Greatest, B!Count
  <2>3. /\ items' = B!InsertAt(items, at + 1, value)
        /\ B!Put(value, at)
    BY <1>1, <2>2 DEF B!Add
  <2> HIDE DEF at
  <2>4. (IF at > n THEN at ELSE n) + 1 = n + 1 /\ (n + 1) - at - 1 = n - at
    BY <1>0, <2>1
  <2>5. object' = [object EXCEPT !.pData = new, !.nItems = n + 1]
    BY <2>3, <2>4 DEF B!Put, B!Greatest, B!Count, B!Memory, B!Opened
  <2>6. B!InsertAt(items, at + 1, value) = left
    BY Zenon DEF InsertAt, B!InsertAt
  <2>7. 0 \in Cells /\ value \in Cells
    BY DEF Cells
  <2>8. /\ grown \in Seq(Cells) /\ Len(grown) >= n + 1 /\ Len(grown) \in Nat
        /\ \A k \in 1..Len(memory) : grown[k] = memory[k]
    BY <1>0, <2>0, <2>7, AllocateFacts
  <2> HIDE DEF grown
  <2>9. at + 2 \in Nat \ {0} /\ at + 1 \in Nat \ {0} /\ n - at \in Nat /\ (at + 1) + (n - at) - 1 <= Len(grown)
    BY <1>0, <2>1, <2>8
  <2>10. /\ moved \in Seq(Cells) /\ Len(moved) = Len(grown)
         /\ \A k \in 1..Len(grown) :
              moved[k] = IF k \in (at + 2)..((at + 2) + (n - at) - 1) THEN grown[(at + 1) + k - (at + 2)] ELSE grown[k]
    <3> DEFINE to == at + 2
               from == at + 1
               rest == n - at
    <3>1. to \in Nat \ {0} /\ from \in Nat \ {0} /\ rest \in Nat /\ from + rest - 1 <= Len(grown)
      BY <2>9
    <3> HIDE DEF to, from, rest
    <3>2. B!Move(grown, to, from, rest) \in Seq(Cells) /\ Moved(B!Move(grown, to, from, rest), grown, to, from, rest)
      BY <2>8, <3>1, MoveFacts
    <3>3. QED BY <3>2 DEF to, from, rest, Moved
  <2> HIDE DEF moved
  <2>11. /\ new \in Seq(Cells) /\ Len(new) = Len(grown)
         /\ \A k \in 1..Len(grown) : new[k] = IF k = at + 1 THEN value ELSE moved[k]
    <3>1. at + 1 \in 1..Len(moved)
      BY <1>0, <2>1, <2>8, <2>10
    <3>2. QED BY <2>7, <2>10, <3>1, ExceptSeq
  <2> HIDE DEF new
  <2>12. /\ left \in Seq(Items) /\ Len(left) = n + 1
         /\ \A k \in 1..at : left[k] = items[k]
         /\ left[at + 1] = value
         /\ \A k \in (at + 2)..(n + 1) : left[k] = items[k - 1]
    <3>1. at + 1 \in 1..(Len(items) + 1) /\ (at + 1) - 1 = at /\ (at + 1) + 1 = at + 2
      BY <1>0, <2>1
    <3> DEFINE place == at + 1
    <3>2. place \in 1..(Len(items) + 1)
      BY <3>1
    <3> HIDE DEF place
    <3>3. /\ InsertAt(items, place, value) \in Seq(Items) /\ Len(InsertAt(items, place, value)) = Len(items) + 1
          /\ \A k \in 1..(place - 1) : InsertAt(items, place, value)[k] = items[k]
          /\ InsertAt(items, place, value)[place] = value
          /\ \A k \in (place + 1)..(Len(items) + 1) : InsertAt(items, place, value)[k] = items[k - 1]
      <4>1. InsertedAt(Items, items, place, value)
        BY <1>0, <3>2, InsertAtHolds
      <4>2. QED BY <4>1 DEF InsertedAt
    <3> HIDE DEF left
    <3>4. left = InsertAt(items, place, value) /\ place - 1 = at /\ place + 1 = at + 2 /\ place = at + 1
      BY <3>1 DEF left, place
    <3>5. QED BY <1>0, <3>3, <3>4
  <2> HIDE DEF left
  <2>13. ASSUME NEW k \in 1..(n + 1) PROVE new[k] = left[k]
    <3>1. CASE k <= at
      <4>1. k \in 1..at /\ k \in 1..n /\ k # at + 1 /\ k \in 1..Len(grown) /\ k \in 1..Len(memory)
            /\ k \notin (at + 2)..((at + 2) + (n - at) - 1)
        <5>1. at \in 0..n /\ k \in 1..(n + 1) /\ Len(grown) \in Nat /\ Len(grown) >= n + 1
          BY <2>1, <2>8, <2>13
        <5> HIDE DEF n, memory, items
        <5>2. QED BY <1>n, <3>1, <5>1
      <4>2. QED BY <1>0, <2>8, <2>10, <2>11, <2>12, <4>1
    <3>2. CASE k = at + 1
      <4>1. k \in 1..Len(grown)
        BY <1>0, <2>8
      <4>2. QED BY <2>11, <2>12, <3>2, <4>1
    <3>3. CASE k > at + 1
      <4>1. k \in (at + 2)..(n + 1) /\ k - 1 \in 1..n /\ k # at + 1 /\ k \in 1..Len(grown) /\ k - 1 \in 1..Len(memory)
            /\ k \in (at + 2)..((at + 2) + (n - at) - 1) /\ (at + 1) + k - (at + 2) = k - 1
        <5>1. at \in 0..n /\ k \in 1..(n + 1) /\ Len(grown) \in Nat /\ Len(grown) >= n + 1
          BY <2>1, <2>8, <2>13
        <5> HIDE DEF n, memory, items
        <5>2. QED BY <1>n, <3>3, <5>1
      <4>2. new[k] = grown[k - 1]
        BY <2>10, <2>11, <4>1
      <4>3. grown[k - 1] = items[k - 1]
        BY <1>0, <2>8, <4>1
      <4>4. QED BY <2>12, <4>1, <4>2, <4>3
    <3>4. QED BY <1>0, <2>1, <3>1, <3>2, <3>3
  <2>14. Begins(new, n + 1, left)
    BY <1>0, <2>8, <2>11, <2>12, <2>13 DEF Begins
  <2>16. n + 1 \in Nat
    BY <1>0
  <2>15. object' \in Lists /\ object'.pData = new /\ object'.nItems = n + 1
    BY <1>0, <2>5, <2>11, <2>16 DEF Lists
  <2>17. QED BY <1>0, <2>3, <2>6, <2>11, <2>12, <2>14, <2>15, <2>16, <1>s
<1>2. ASSUME NEW index, B!RemoveIndex(index) PROVE BlockInv'
  <2> DEFINE moved == B!Move(memory, index + 1, index + 2, n - index - 1)
             new == [moved EXCEPT ![n] = 0]
             left == RemoveAt(items, index + 1)
  <2>1. index \in 0..(n - 1) /\ object' = [object EXCEPT !.pData = new, !.nItems = n - 1] /\ items' = left
    <3>1. B!RemoveAt(items, index + 1) = left
      BY Zenon DEF RemoveAt, B!RemoveAt
    <3>2. QED BY <1>2, <3>1 DEF B!RemoveIndex, B!Count, B!Closed
  <2>2. index + 1 \in Nat \ {0} /\ index + 2 \in Nat \ {0} /\ n - index - 1 \in Nat
        /\ (index + 2) + (n - index - 1) - 1 <= Len(memory)
    <3>1. index \in 0..(n - 1)
      BY <2>1
    <3> HIDE DEF n, memory, items, moved, new, left
    <3>2. QED BY <1>n, <3>1
  <2>3. /\ moved \in Seq(Cells) /\ Len(moved) = Len(memory)
        /\ \A k \in 1..Len(memory) :
             moved[k] = IF k \in (index + 1)..((index + 1) + (n - index - 1) - 1)
                        THEN memory[(index + 2) + k - (index + 1)] ELSE memory[k]
    <3> DEFINE to == index + 1
               from == index + 2
               rest == n - index - 1
    <3>1. to \in Nat \ {0} /\ from \in Nat \ {0} /\ rest \in Nat /\ from + rest - 1 <= Len(memory)
      BY <2>2
    <3> HIDE DEF to, from, rest
    <3>2. B!Move(memory, to, from, rest) \in Seq(Cells) /\ Moved(B!Move(memory, to, from, rest), memory, to, from, rest)
      BY <1>0, <3>1, MoveFacts
    <3>3. QED BY <3>2 DEF to, from, rest, Moved
  <2> HIDE DEF moved
  <2>4. /\ new \in Seq(Cells) /\ Len(new) = Len(memory)
        /\ \A k \in 1..Len(memory) : k # n => new[k] = moved[k]
    <3>1. 0 \in Cells /\ n \in 1..Len(moved)
      BY <1>0, <2>1, <2>3 DEF Cells
    <3>2. QED BY <2>3, <3>1, ExceptSeq
  <2> HIDE DEF new
  <2>5. /\ left \in Seq(Items) /\ Len(left) = n - 1
        /\ \A k \in 1..index : left[k] = items[k]
        /\ \A k \in (index + 1)..(n - 1) : left[k] = items[k + 1]
    <3>1. index + 1 \in 1..Len(items) /\ (index + 1) - 1 = index
      BY <1>0, <2>1
    <3>2. QED BY <1>0, <3>1, RemoveAtFacts
  <2> HIDE DEF left
  <2>6. ASSUME NEW k \in 1..(n - 1) PROVE new[k] = left[k]
    <3>0. k \in 1..Len(memory) /\ k # n /\ k \in 1..n /\ k + 1 \in 1..n
      BY <1>0
    <3>1. CASE k <= index
      <4>1. k \in 1..index /\ k \notin (index + 1)..((index + 1) + (n - index - 1) - 1)
        <5>1. index \in 0..(n - 1) /\ k \in 1..(n - 1)
          BY <2>1, <2>6
        <5> HIDE DEF n, memory, items
        <5>2. QED BY <1>n, <3>1, <5>1
      <4>2. QED BY <1>0, <2>3, <2>4, <2>5, <3>0, <4>1
    <3>2. CASE k > index
      <4>1. k \in (index + 1)..(n - 1) /\ k \in (index + 1)..((index + 1) + (n - index - 1) - 1)
            /\ (index + 2) + k - (index + 1) = k + 1
        <5>1. index \in 0..(n - 1) /\ k \in 1..(n - 1)
          BY <2>1, <2>6
        <5> HIDE DEF n, memory, items
        <5>2. QED BY <1>n, <3>2, <5>1
      <4>2. new[k] = memory[k + 1]
        BY <2>3, <2>4, <3>0, <4>1
      <4>3. QED BY <1>0, <2>5, <3>0, <4>1, <4>2
    <3>3. QED BY <2>1, <3>1, <3>2
  <2>7. n - 1 \in Nat /\ n - 1 <= Len(new)
    BY <1>0, <2>1, <2>4
  <2>8. Begins(new, n - 1, left)
    BY <2>5, <2>6, <2>7 DEF Begins
  <2>9. object' \in Lists /\ object'.pData = new /\ object'.nItems = n - 1
    BY <1>0, <2>1, <2>4, <2>7 DEF Lists
  <2>10. QED BY <1>0, <2>1, <2>4, <2>5, <2>7, <2>8, <2>9, <1>s
<1>3. ASSUME NEW index \in 0..MaxItems, NEW amount \in 0..MaxItems, B!RemoveRange(index, amount) PROVE BlockInv'
  <2> DEFINE new == B!Move(memory, index + 1, index + amount + 1, n - index - amount)
             before == SubSeq(items, 1, index)
             behind == SubSeq(items, index + amount + 1, n)
             left == before \o behind
  <2>1. /\ amount > 0 /\ index + amount <= n /\ object' = [object EXCEPT !.pData = new, !.nItems = n - amount]
        /\ items' = left
    BY <1>0, <1>3 DEF B!RemoveRange, B!Count
  <2>0. index \in Nat /\ amount \in Nat /\ amount > 0
    BY <2>1, ObjectsAssumption DEF ObjectsAssumption
  <2>2. index + 1 \in Nat \ {0} /\ index + amount + 1 \in Nat \ {0} /\ n - index - amount \in Nat
        /\ (index + amount + 1) + (n - index - amount) - 1 <= Len(memory)
    <3>1. index + amount <= n
      BY <2>1
    <3> HIDE DEF new, before, behind, left
    <3>2. QED BY <1>0, <2>0, <3>1
  <2>3. /\ new \in Seq(Cells) /\ Len(new) = Len(memory)
        /\ \A k \in 1..Len(memory) :
             new[k] = IF k \in (index + 1)..((index + 1) + (n - index - amount) - 1)
                      THEN memory[(index + amount + 1) + k - (index + 1)] ELSE memory[k]
    <3> DEFINE to == index + 1
               from == index + amount + 1
               rest == n - index - amount
    <3>1. to \in Nat \ {0} /\ from \in Nat \ {0} /\ rest \in Nat /\ from + rest - 1 <= Len(memory)
      BY <2>2
    <3>0. memory \in Seq(Cells)
      BY <1>0
    <3> HIDE DEF to, from, rest, new, before, behind, left, memory, n
    <3>2. B!Move(memory, to, from, rest) \in Seq(Cells) /\ Moved(B!Move(memory, to, from, rest), memory, to, from, rest)
      BY <3>0, <3>1, MoveFacts
    <3>3. QED BY <3>2 DEF to, from, rest, new, memory, n, Moved
  <2> HIDE DEF new
  <2>4. before \in Seq(Items) /\ Len(before) = index /\ \A k \in 1..index : before[k] = items[k]
    <3>1. 1 \in Int /\ index \in Int /\ \A k \in 1..index : items[k] \in Items
      BY <1>0, <2>0, <2>1, QueueFacts
    <3>2. QED BY <2>0, <3>1, SubSeqProperties
  <2>5. /\ behind \in Seq(Items) /\ Len(behind) = n - index - amount
        /\ \A k \in 1..(n - index - amount) : behind[k] = items[index + amount + k]
    <3>1. /\ index + amount + 1 \in Int /\ n \in Int /\ \A k \in (index + amount + 1)..n : items[k] \in Items
      BY <1>0, <2>0, <2>1, QueueFacts
    <3>2. /\ behind \in Seq(Items)
          /\ Len(behind) = IF index + amount + 1 <= n THEN n - (index + amount + 1) + 1 ELSE 0
          /\ \A k \in 1..(n - (index + amount + 1) + 1) : behind[k] = items[(index + amount + 1) + k - 1]
      BY <3>1, SubSeqProperties
    <3>3. index + amount <= n
      BY <2>1
    <3> HIDE DEF behind, n, memory, items, left
    <3>4. QED BY <1>n, <2>0, <3>2, <3>3
  <2> HIDE DEF before, behind
  <2>6. /\ left \in Seq(Items) /\ Len(left) = n - amount
        /\ \A k \in 1..index : left[k] = items[k]
        /\ \A k \in (index + 1)..(n - amount) : left[k] = items[k + amount]
    <3>0. before \in Seq(Items) /\ behind \in Seq(Items)
      BY <2>4, <2>5
    <3>1. /\ left \in Seq(Items) /\ Len(left) = Len(before) + Len(behind)
          /\ \A k \in 1..Len(before) : left[k] = before[k]
          /\ \A k \in (Len(before) + 1)..(Len(before) + Len(behind)) : left[k] = behind[k - Len(before)]
      BY <3>0
    <3> HIDE DEF left
    <3>2. Len(left) = n - amount /\ \A k \in 1..index : left[k] = items[k]
      BY <1>0, <2>0, <2>4, <2>5, <3>1
    <3>3. ASSUME NEW k \in (index + 1)..(n - amount) PROVE left[k] = items[k + amount]
      <4>1. k \in (Len(before) + 1)..(Len(before) + Len(behind)) /\ k - index \in 1..(n - index - amount)
            /\ index + amount + (k - index) = k + amount
        BY <1>0, <2>0, <2>1, <2>4, <2>5
      <4>2. left[k] = behind[k - index]
        BY <2>4, <3>1, <4>1
      <4>3. QED BY <2>5, <4>1, <4>2
    <3>4. QED BY <3>1, <3>2, <3>3
  <2> HIDE DEF left
  <2>a. index + amount <= n
    BY <2>1
  <2>k. \A k \in 1..n : memory[k] = items[k]
    BY <1>0
  <2>7. ASSUME NEW k \in 1..(n - amount) PROVE new[k] = left[k]
    <3> HIDE DEF n, memory, items, left
    <3>0. k \in 1..Len(memory) /\ k \in 1..n /\ k + amount \in 1..n
      BY <1>n, <2>0, <2>a
    <3>1. CASE k <= index
      <4>1. k \in 1..index /\ k \notin (index + 1)..((index + 1) + (n - index - amount) - 1)
        BY <1>n, <2>0, <2>a, <3>1
      <4>2. new[k] = memory[k]
        BY <2>3, <3>0, <4>1
      <4>3. QED BY <2>k, <2>6, <3>0, <4>1, <4>2
    <3>2. CASE k > index
      <4>1. k \in (index + 1)..(n - amount) /\ k \in (index + 1)..((index + 1) + (n - index - amount) - 1)
            /\ (index + amount + 1) + k - (index + 1) = k + amount
        BY <1>n, <2>0, <2>a, <3>2
      <4>2. new[k] = memory[k + amount]
        BY <2>3, <3>0, <4>1
      <4>3. QED BY <2>k, <2>6, <3>0, <4>1, <4>2
    <3>3. QED BY <1>n, <2>0, <2>a, <3>1, <3>2
  <2>8. n - amount \in Nat /\ n - amount <= Len(new)
    <3>1. index + amount <= n /\ n <= Len(new) /\ Len(new) \in Nat
      BY <1>0, <2>1, <2>3
    <3> HIDE DEF n, before, behind, left
    <3>2. n \in Nat
      BY <1>0 DEF n
    <3>3. QED BY <2>0, <3>1, <3>2
  <2>9. Begins(new, n - amount, left)
    BY <2>6, <2>7, <2>8 DEF Begins
  <2>10. object' \in Lists /\ object'.pData = new /\ object'.nItems = n - amount
    BY <1>0, <2>1, <2>3, <2>8 DEF Lists
  <2>11. QED BY <1>0, <2>1, <2>3, <2>6, <2>8, <2>9, <2>10, <1>s
<1>4. CASE B!DeleteList
  <2> DEFINE new == [k \in DOMAIN memory |-> 0]
  <2>1. object' = [object EXCEPT !.pData = new, !.nItems = 0] /\ items' = <<>>
    BY <1>4 DEF B!DeleteList
  <2>2. new \in [1..Len(memory) -> Cells]
    <3>1. DOMAIN memory = 1..Len(memory) /\ 0 \in Cells
      BY <1>0 DEF Cells
    <3>2. QED BY <3>1
  <2> HIDE DEF new
  <2>3. new \in Seq(Cells) /\ Len(new) = Len(memory)
    <3>1. Len(memory) \in Nat
      BY <1>0, QueueFacts
    <3> HIDE DEF memory
    <3>2. QED BY <2>2, <3>1, FunctionIsSequence
  <2>4. object' \in Lists /\ object'.pData = new /\ object'.nItems = 0
    BY <1>0, <2>1, <2>3 DEF Lists
  <2>5. <<>> \in Seq(Items) /\ Len(<<>>) = 0 /\ 0 \in Nat
    OBVIOUS
  <2>6. Begins(new, 0, <<>>)
    BY <1>0, <2>3, <2>5 DEF Begins
  <2>7. QED BY <1>0, <2>1, <2>3, <2>4, <2>5, <2>6, <1>s
<1>5. CASE B!Delete
  <2>1. object' = [pData |-> <<>>, nItems |-> 0, ItemSize |-> FALSE] /\ items' = <<>>
    BY <1>5 DEF B!Delete
  <2>2. <<>> \in Seq(Cells) /\ <<>> \in Seq(Items) /\ Len(<<>>) = 0
    OBVIOUS
  <2>3. QED BY <2>1, <2>2 DEF BlockInv, Lists, Begins
<1>6. CASE B!SetItemSize
  <2>1. object' = [object EXCEPT !.ItemSize = TRUE] /\ items' = items
    BY <1>6 DEF B!SetItemSize
  <2>2. object' \in Lists /\ object'.pData = memory /\ object'.nItems = n
    BY <1>0, <2>1 DEF Lists
  <2>3. Begins(memory, n, items)
    BY DEF BlockInv
  <2>4. QED BY <1>0, <2>1, <2>2, <2>3, <1>s
<1>7. QED
  BY <1>1, <1>2, <1>3, <1>4, <1>5, <1>6 DEF B!Next, B!RemoveValue, B!Pop, B!EndPop

-----------------------------------------------------------------------------
(* The hash *)

Maps == UNION {[d -> HashValues] : d \in SUBSET H!Keys}

Hashes == [data : Maps, pDestructor : BOOLEAN, bCaseInsensitive : BOOLEAN, nTraverseCount : Nat,
           given : SUBSET HashValues]

\* The destructor was called for those given values that have left.
Counted(data, given, freed) ==
    \A v \in HashValues : freed[v] = IF v \in given /\ \A k \in DOMAIN data : data[k] # v THEN 1 ELSE 0

\* What has a name was given, and has no other.
NamesOnly(data, given) ==
    /\ \A k, l \in DOMAIN data : data[k] = data[l] => k = l
    /\ \A k \in DOMAIN data : data[k] \in given

SmallOnly(data) == \A n \in HashNames : <<n, TRUE>> \notin DOMAIN data

HashInv ==
    /\ object \in Hashes /\ around \in [HashValues -> Nat]
    /\ object.pDestructor => Counted(object.data, object.given, around)
    /\ NamesOnly(object.data, object.given)
    /\ object.bCaseInsensitive => SmallOnly(object.data)

LEMMA MapsFacts ==
    /\ <<>> \in Maps /\ DOMAIN <<>> = {}
    /\ \A data \in Maps : DOMAIN data \subseteq H!Keys /\ \A k \in DOMAIN data : data[k] \in HashValues
    /\ \A d \in SUBSET H!Keys : \A f \in [d -> HashValues] : f \in Maps
<1>1. <<>> \in [{} -> HashValues] /\ DOMAIN <<>> = {}
  OBVIOUS
<1>2. QED BY <1>1 DEF Maps

LEMMA HashMeans == HashInv => H!OwnsValues
<1> SUFFICES ASSUME HashInv PROVE H!OwnsValues
  OBVIOUS
<1>1. ASSUME object.pDestructor, NEW v \in object.given
      PROVE  around[v] = IF v \in H!Range(object.data) THEN 0 ELSE 1
  <2>1. v \in HashValues
    BY DEF HashInv, Hashes
  <2>2. around[v] = IF \A k \in DOMAIN object.data : object.data[k] # v THEN 1 ELSE 0
    BY <1>1, <2>1 DEF HashInv, Counted
  <2>3. v \in H!Range(object.data) <=> \E k \in DOMAIN object.data : object.data[k] = v
    BY DEF H!Range
  <2>4. QED BY <2>2, <2>3
<1>2. QED BY <1>1 DEF H!OwnsValues, HashInv, SmallOnly

LEMMA HashInit == H!Init => HashInv
<1> SUFFICES ASSUME H!Init PROVE HashInv
  OBVIOUS
<1>1. PICK destructor \in BOOLEAN, insensitive \in BOOLEAN :
        object = [data |-> <<>>, pDestructor |-> destructor, bCaseInsensitive |-> insensitive,
                  nTraverseCount |-> 0, given |-> {}]
  BY DEF H!Init
<1>2. around = [v \in HashValues |-> 0]
  BY DEF H!Init
<1>3. object \in Hashes /\ object.data = <<>> /\ object.given = {}
  BY <1>1, MapsFacts DEF Hashes
<1>4. around \in [HashValues -> Nat] /\ \A v \in HashValues : around[v] = 0
  BY <1>2
<1>5. QED BY <1>3, <1>4, MapsFacts DEF HashInv, Counted, NamesOnly, SmallOnly

\* The destructor's calls: once more for each of some values.
LEMMA DestructFacts ==
    ASSUME NEW values \in SUBSET HashValues, H!Destruct(values), HashInv
    PROVE  /\ around' \in [HashValues -> Nat]
           /\ object.pDestructor => \A v \in HashValues : around'[v] = around[v] + (IF v \in values THEN 1 ELSE 0)
BY DEF H!Destruct, HashInv

LEMMA TrueKeyFacts ==
    ASSUME HashInv, NEW key \in H!Keys
    PROVE  /\ H!truekey(key) \in H!Keys
           /\ object.bCaseInsensitive => \A n : H!truekey(key) # <<n, TRUE>>
<1>1. PICK n \in HashNames, b \in BOOLEAN : key = <<n, b>>
  BY DEF H!Keys
<1>2. H!truekey(key) = IF object.bCaseInsensitive THEN <<n, FALSE>> ELSE <<n, b>>
  BY <1>1 DEF H!truekey
<1>3. <<n, FALSE>> \in H!Keys /\ <<n, b>> \in H!Keys
  BY DEF H!Keys
<1>4. \A m : <<n, FALSE>> # <<m, TRUE>>
  OBVIOUS
<1>5. QED BY <1>2, <1>3, <1>4

LEMMA HashStep == HashInv /\ H!Next => HashInv'
<1> SUFFICES ASSUME HashInv, H!Next PROVE HashInv'
  OBVIOUS
<1> DEFINE data == object.data
<1>0. /\ object \in Hashes /\ around \in [HashValues -> Nat]
      /\ data \in Maps /\ object.given \subseteq HashValues
      /\ object.pDestructor => \A v \in HashValues :
           around[v] = IF v \in object.given /\ \A k \in DOMAIN data : data[k] # v THEN 1 ELSE 0
      /\ \A k, l \in DOMAIN data : data[k] = data[l] => k = l
      /\ \A k \in DOMAIN data : data[k] \in object.given
      /\ object.bCaseInsensitive => \A n \in HashNames : <<n, TRUE>> \notin DOMAIN data
  BY DEF HashInv, Hashes, Counted, NamesOnly, SmallOnly
<1>d. DOMAIN data \subseteq H!Keys /\ \A k \in DOMAIN data : data[k] \in HashValues
  BY <1>0, MapsFacts
\* What is to be shown of a step to new data and values given.
<1>s. ASSUME NEW new \in Maps, NEW given \in SUBSET HashValues,
             object' = [object EXCEPT !.data = new, !.given = given],
             around' \in [HashValues -> Nat],
             object.pDestructor => Counted(new, given, around'),
             NamesOnly(new, given),
             object.bCaseInsensitive => SmallOnly(new)
      PROVE  HashInv'
  <2>1. /\ object' \in Hashes /\ object'.data = new /\ object'.given = given
        /\ object'.pDestructor = object.pDestructor /\ object'.bCaseInsensitive = object.bCaseInsensitive
    BY <1>0, <1>s DEF Hashes
  <2>2. QED BY <1>s, <2>1 DEF HashInv
<1>1. ASSUME NEW key \in H!Keys, NEW v \in HashValues, H!Insert(key, v) PROVE HashInv'
  <2> DEFINE t == H!truekey(key)
             new == [k \in DOMAIN data \cup {t} |-> IF k = t THEN v ELSE data[k]]
             given == object.given \cup {v}
  <2>1. v \notin object.given /\ object' = [object EXCEPT !.given = given, !.data = new]
    BY <1>1 DEF H!Insert
  <2>2. H!Destruct(H!Replaced(key))
    BY <1>1 DEF H!Insert
  <2>3. \A u : u \in H!Replaced(key) <=> t \in DOMAIN data /\ u = data[t]
    BY DEF H!Replaced, H!Exists, H!Read
  <2>4. H!Replaced(key) \in SUBSET HashValues
    BY <1>d, <2>3
  <2>5. t \in H!Keys /\ (object.bCaseInsensitive => \A n : t # <<n, TRUE>>)
    BY TrueKeyFacts
  <2> HIDE DEF t
  <2>6. DOMAIN new = DOMAIN data \cup {t} /\ new[t] = v /\ \A k \in DOMAIN data : k # t => new[k] = data[k]
    OBVIOUS
  <2>7. new \in Maps
    <3>1. new \in [DOMAIN data \cup {t} -> HashValues]
      BY <1>d
    <3> HIDE DEF new
    <3>2. DOMAIN data \cup {t} \in SUBSET H!Keys
      BY <1>d, <2>5
    <3>3. QED BY <3>1, <3>2, MapsFacts
  <2> HIDE DEF new
  <2>8. /\ around' \in [HashValues -> Nat]
        /\ object.pDestructor => \A u \in HashValues :
             around'[u] = around[u] + (IF u \in H!Replaced(key) THEN 1 ELSE 0)
    BY <2>2, <2>4, DestructFacts
  <2>9. ASSUME object.pDestructor, NEW u \in HashValues
        PROVE  around'[u] = IF u \in given /\ \A k \in DOMAIN new : new[k] # u THEN 1 ELSE 0
    <3>1. around'[u] = around[u] + (IF t \in DOMAIN data /\ u = data[t] THEN 1 ELSE 0)
      BY <2>3, <2>8, <2>9
    <3>2. around[u] = IF u \in object.given /\ \A k \in DOMAIN data : data[k] # u THEN 1 ELSE 0
      BY <1>0, <2>9
    <3>3. CASE u = v
      <4>1. around[u] = 0 /\ (t \in DOMAIN data => u # data[t])
        BY <1>0, <2>1, <3>2, <3>3
      <4>2. ~\A k \in DOMAIN new : new[k] # u
        BY <2>6, <3>3
      <4>3. QED BY <3>1, <4>1, <4>2
    <3>4. CASE t \in DOMAIN data /\ u = data[t]
      <4>1. u \in object.given /\ u # v /\ around[u] = 0
        BY <1>0, <2>1, <3>2, <3>4
      <4>2. \A k \in DOMAIN new : new[k] # u
        BY <1>0, <2>6, <3>4, <4>1
      <4>3. QED BY <3>1, <3>4, <4>1, <4>2
    <3>5. CASE u # v /\ ~(t \in DOMAIN data /\ u = data[t])
      <4>1. (\A k \in DOMAIN new : new[k] # u) <=> (\A k \in DOMAIN data : data[k] # u)
        BY <2>6, <3>5
      <4>2. around'[u] = around[u] /\ (u \in given <=> u \in object.given)
        BY <1>0, <3>1, <3>5
      <4>3. QED BY <3>2, <4>1, <4>2
    <3>6. QED BY <3>3, <3>4, <3>5
  <2>10. \A k, l \in DOMAIN new : new[k] = new[l] => k = l
    BY <1>0, <2>1, <2>6
  <2>11. \A k \in DOMAIN new : new[k] \in given
    BY <1>0, <2>6
  <2>12. object.bCaseInsensitive => \A n \in HashNames : <<n, TRUE>> \notin DOMAIN new
    BY <1>0, <2>5, <2>6
  <2>13. object' = [object EXCEPT !.data = new, !.given = given]
    BY <1>0, <2>1 DEF Hashes
  <2>14. given \in SUBSET HashValues
    BY <1>0
  <2> HIDE DEF given
  <2>15. (object.pDestructor => Counted(new, given, around')) /\ NamesOnly(new, given)
    BY <2>9, <2>10, <2>11 DEF Counted, NamesOnly
  <2>16. object.bCaseInsensitive => SmallOnly(new)
    BY <2>12 DEF SmallOnly
  <2>17. QED BY <1>s, <2>7, <2>8, <2>13, <2>14, <2>15, <2>16
<1>2. ASSUME NEW key \in H!Keys, H!Remove(key) PROVE HashInv'
  <2> DEFINE t == H!truekey(key)
             new == [k \in DOMAIN data \ {t} |-> data[k]]
  <2>1. t \in DOMAIN data /\ object' = [object EXCEPT !.data = new] /\ H!Destruct({data[t]})
    BY <1>2 DEF H!Remove, H!Exists, H!Read, H!Restrict
  <2> HIDE DEF t
  <2>2. DOMAIN new = DOMAIN data \ {t} /\ \A k \in DOMAIN new : new[k] = data[k]
    OBVIOUS
  <2>3. new \in Maps
    <3>1. new \in [DOMAIN data \ {t} -> HashValues]
      BY <1>d
    <3> HIDE DEF new
    <3>2. DOMAIN data \ {t} \in SUBSET H!Keys
      BY <1>d
    <3>3. QED BY <3>1, <3>2, MapsFacts
  <2> HIDE DEF new
  <2>4. {data[t]} \in SUBSET HashValues
    BY <1>d, <2>1
  <2>5. /\ around' \in [HashValues -> Nat]
        /\ object.pDestructor => \A u \in HashValues :
             around'[u] = around[u] + (IF u \in {data[t]} THEN 1 ELSE 0)
    BY <2>1, <2>4, DestructFacts
  <2>6. ASSUME object.pDestructor, NEW u \in HashValues
        PROVE  around'[u] = IF u \in object.given /\ \A k \in DOMAIN new : new[k] # u THEN 1 ELSE 0
    <3>1. around'[u] = around[u] + (IF u = data[t] THEN 1 ELSE 0)
      BY <2>5, <2>6
    <3>2. around[u] = IF u \in object.given /\ \A k \in DOMAIN data : data[k] # u THEN 1 ELSE 0
      BY <1>0, <2>6
    <3>3. CASE u = data[t]
      <4>1. u \in object.given /\ around[u] = 0
        BY <1>0, <2>1, <3>2, <3>3
      <4>2. \A k \in DOMAIN new : new[k] # u
        BY <1>0, <2>1, <2>2, <3>3
      <4>3. QED BY <3>1, <3>3, <4>1, <4>2
    <3>4. CASE u # data[t]
      <4>1. (\A k \in DOMAIN new : new[k] # u) <=> (\A k \in DOMAIN data : data[k] # u)
        BY <2>2, <3>4
      <4>2. around'[u] = around[u]
        BY <1>0, <3>1, <3>4
      <4>3. QED BY <3>2, <4>1, <4>2
    <3>5. QED BY <3>3, <3>4
  <2>7. /\ \A k, l \in DOMAIN new : new[k] = new[l] => k = l
        /\ \A k \in DOMAIN new : new[k] \in object.given
    BY <1>0, <2>2
  <2>8. object.bCaseInsensitive => \A n \in HashNames : <<n, TRUE>> \notin DOMAIN new
    BY <1>0, <2>2
  <2>9. object' = [object EXCEPT !.data = new, !.given = object.given]
    BY <1>0, <2>1 DEF Hashes
  <2>10. object.given \in SUBSET HashValues
    BY <1>0
  <2>11. (object.pDestructor => Counted(new, object.given, around')) /\ NamesOnly(new, object.given)
    BY <2>6, <2>7 DEF Counted, NamesOnly
  <2>12. object.bCaseInsensitive => SmallOnly(new)
    BY <2>8 DEF SmallOnly
  <2>13. QED BY <1>s, <2>3, <2>5, <2>9, <2>10, <2>11, <2>12
<1>3. CASE H!Delete
  <2>1. object' = [object EXCEPT !.data = <<>>] /\ H!Destruct(H!Range(data))
    BY <1>3 DEF H!Delete
  <2>2. \A u : u \in H!Range(data) <=> \E k \in DOMAIN data : data[k] = u
    BY DEF H!Range
  <2>3. H!Range(data) \in SUBSET HashValues
    BY <1>d, <2>2
  <2>4. /\ around' \in [HashValues -> Nat]
        /\ object.pDestructor => \A u \in HashValues :
             around'[u] = around[u] + (IF u \in H!Range(data) THEN 1 ELSE 0)
    BY <2>1, <2>3, DestructFacts
  <2>5. ASSUME object.pDestructor, NEW u \in HashValues
        PROVE  around'[u] = IF u \in object.given THEN 1 ELSE 0
    <3>1. around'[u] = around[u] + (IF \E k \in DOMAIN data : data[k] = u THEN 1 ELSE 0)
      BY <2>2, <2>4, <2>5
    <3>2. around[u] = IF u \in object.given /\ \A k \in DOMAIN data : data[k] # u THEN 1 ELSE 0
      BY <1>0, <2>5
    <3>3. CASE \E k \in DOMAIN data : data[k] = u
      BY <1>0, <3>1, <3>2, <3>3
    <3>4. CASE \A k \in DOMAIN data : data[k] # u
      BY <3>1, <3>2, <3>4
    <3>5. QED BY <3>3, <3>4
  <2>6. object' = [object EXCEPT !.data = <<>>, !.given = object.given]
    BY <1>0, <2>1 DEF Hashes
  <2>7. <<>> \in Maps /\ DOMAIN <<>> = {} /\ object.given \in SUBSET HashValues
    BY <1>0, MapsFacts
  <2>8. object.pDestructor => Counted(<<>>, object.given, around')
    BY <2>5, <2>7 DEF Counted
  <2>9. NamesOnly(<<>>, object.given) /\ SmallOnly(<<>>)
    BY <2>7 DEF NamesOnly, SmallOnly
  <2>10. QED BY <1>s, <2>4, <2>6, <2>7, <2>8, <2>9
<1>4. CASE H!BeginTraverse \/ H!EndTraverse
  <2>1. PICK n \in Nat : object' = [object EXCEPT !.nTraverseCount = n] /\ around' = around
    <3>1. object.nTraverseCount \in Nat
      BY <1>0 DEF Hashes
    <3>2. CASE H!BeginTraverse
      BY <3>1, <3>2 DEF H!BeginTraverse
    <3>3. CASE H!EndTraverse
      <4>1. object.nTraverseCount - 1 \in Nat
        BY <3>1, <3>3 DEF H!EndTraverse
      <4>2. QED BY <3>3, <4>1 DEF H!EndTraverse
    <3>4. QED BY <1>4, <3>2, <3>3
  <2>2. /\ object' \in Hashes /\ object'.data = data /\ object'.given = object.given
        /\ object'.pDestructor = object.pDestructor /\ object'.bCaseInsensitive = object.bCaseInsensitive
    BY <1>0, <2>1 DEF Hashes
  <2>3. QED BY <2>1, <2>2 DEF HashInv
<1>5. QED BY <1>1, <1>2, <1>3, <1>4 DEF H!Next

-----------------------------------------------------------------------------
(* The file in memory *)

\* What is in memory: bytes, and 0 where it is new.
Cell == Bytes \cup {0}

MemFiles == [isopen : BOOLEAN, pData : Seq(Cell), Pos : Nat, Length : Nat, SizeInc : Nat]

\* The n bytes of a list after the first ones.
Part(content, at, n) == SubSeq(content, at + 1, at + n)

\* What was read last is a part of the file, as it is or with its bytes exchanged.
AsRead(content, last) ==
    LET part == Part(content, last.at, Len(last.bytes)) IN
    last.bytes \in {part, F!SwapBytes(part, 2, Len(part) \div 2)}

FileInv ==
    /\ object \in MemFiles /\ around \in Seq(Cell) /\ past \in [at : Nat, bytes : Seq(Cell)]
    /\ object.Pos <= object.Length
    /\ Begins(object.pData, object.Length, around)
    /\ past.at + Len(past.bytes) <= object.Length
    /\ AsRead(around, past)

LEMMA PartFacts ==
    ASSUME NEW Elements, NEW content \in Seq(Elements), NEW at \in Nat, NEW n \in Nat, at + n <= Len(content)
    PROVE  /\ Part(content, at, n) \in Seq(Elements) /\ Len(Part(content, at, n)) = n
           /\ \A k \in 1..n : Part(content, at, n)[k] = content[at + k]
<1>0. Len(content) \in Nat /\ \A k \in 1..Len(content) : content[k] \in Elements
  OBVIOUS
<1>1. at + 1 \in Int /\ at + n \in Int /\ \A k \in (at + 1)..(at + n) : content[k] \in Elements
  BY <1>0
<1> DEFINE part == SubSeq(content, at + 1, at + n)
<1>2. /\ part \in Seq(Elements)
      /\ Len(part) = IF at + 1 <= at + n THEN (at + n) - (at + 1) + 1 ELSE 0
      /\ \A k \in 1..((at + n) - (at + 1) + 1) : part[k] = content[(at + 1) + k - 1]
  BY <1>1, SubSeqProperties
<1> HIDE DEF part
<1>3. Len(part) = n
  BY <1>2
<1>4. ASSUME NEW k \in 1..n PROVE part[k] = content[at + k]
  <2>1. k \in 1..((at + n) - (at + 1) + 1) /\ (at + 1) + k - 1 = at + k
    OBVIOUS
  <2>2. QED BY <1>2, <2>1
<1>5. QED BY <1>2, <1>3, <1>4 DEF part, Part

\* Bytes exchanged by pairs.
LEMMA SwapFacts ==
    ASSUME NEW Elements, NEW buf \in Seq(Elements), NEW n \in Nat, 2 * n <= Len(buf)
    PROVE  /\ F!SwapBytes(buf, 2, n) \in Seq(Elements) /\ Len(F!SwapBytes(buf, 2, n)) = Len(buf)
           /\ \A p \in 1..Len(buf) : F!SwapBytes(buf, 2, n)[p] =
                IF p > 2 * n THEN buf[p] ELSE IF p % 2 = 1 THEN buf[p + 1] ELSE buf[p - 1]
<1> DEFINE new == [p \in 1..Len(buf) |->
                     IF p > 2 * n THEN buf[p] ELSE IF p % 2 = 1 THEN buf[p + 1] ELSE buf[p - 1]]
<1>0. Len(buf) \in Nat /\ DOMAIN buf = 1..Len(buf) /\ \A k \in 1..Len(buf) : buf[k] \in Elements
  OBVIOUS
<1>1. F!SwapPartner(2)[0] = 1 /\ F!SwapPartner(2)[1] = 0
  <2>1. F!SwapPartner(2) = [k \in 0..1 |-> IF k < 1 THEN k + (1 - 2 * k) ELSE k - (2 * k - 1)]
    <3>1. 2 - 1 = 1 /\ 2 \div 2 = 1
      OBVIOUS
    <3>2. \A k \in 0..1 : k + (2 - 1 - 2 * k) = k + (1 - 2 * k) /\ k - (2 * k - 2 + 1) = k - (2 * k - 1)
      OBVIOUS
    <3>3. QED BY <3>1, <3>2 DEF F!SwapPartner
  <2>2. 0 \in 0..1 /\ 1 \in 0..1
    OBVIOUS
  <2>3. QED BY <2>1, <2>2
<1>2. F!SwapBytes(buf, 2, n) =
        [p \in DOMAIN buf |-> IF p > 2 * n THEN buf[p] ELSE buf[p - ((p - 1) % 2) + F!SwapPartner(2)[(p - 1) % 2]]]
  BY DEF F!SwapBytes
<1>3. ASSUME NEW p \in 1..Len(buf)
      PROVE  /\ buf[p - ((p - 1) % 2) + F!SwapPartner(2)[(p - 1) % 2]] = IF p % 2 = 1 THEN buf[p + 1] ELSE buf[p - 1]
             /\ p % 2 = 0 => p > 1
             /\ p <= 2 * n => (IF p % 2 = 1 THEN p + 1 ELSE p - 1) \in 1..Len(buf)
  <2>0. p \in Nat /\ p >= 1
    BY <1>0
  <2>1. CASE p % 2 = 1
    <3>1. (p - 1) % 2 = 0
      BY <2>0, <2>1
    <3>2. p - 0 + 1 = p + 1
      BY <2>0
    <3>3. p <= 2 * n => p + 1 \in 1..Len(buf)
      BY <1>0, <2>0, <2>1
    <3>4. QED BY <1>1, <2>1, <3>1, <3>2, <3>3
  <2>2. CASE p % 2 = 0
    <3>1. (p - 1) % 2 = 1
      BY <2>0, <2>2
    <3>2. p - 1 + 0 = p - 1 /\ p > 1
      BY <2>0, <2>2
    <3>3. p - 1 \in 1..Len(buf)
      BY <1>0, <2>0, <3>2
    <3>4. QED BY <1>1, <2>2, <3>1, <3>2, <3>3
  <2>3. p % 2 = 0 \/ p % 2 = 1
    BY <2>0
  <2>4. QED BY <2>1, <2>2, <2>3
<1>4. F!SwapBytes(buf, 2, n) = new
  BY <1>0, <1>2, <1>3
<1>5. ASSUME NEW p \in 1..Len(buf) PROVE new[p] \in Elements
  <2>1. CASE p > 2 * n
    BY <1>0, <2>1
  <2>2. CASE p <= 2 * n
    BY <1>0, <1>3, <2>2
  <2>3. QED BY <1>0, <2>1, <2>2
<1>6. new \in [1..Len(buf) -> Elements]
  BY <1>5
<1>7. new \in Seq(Elements) /\ Len(new) = Len(buf)
  BY <1>0, <1>6, FunctionIsSequence
<1>8. QED BY <1>4, <1>7

\* To exchange the bytes of whole items and leave out the rest, or the other way
\* round, is the same.
LEMMA SwapPart ==
    ASSUME NEW Elements, NEW data \in Seq(Elements), NEW n \in Nat, 2 * n <= Len(data)
    PROVE  Part(F!SwapBytes(data, 2, n), 0, 2 * n) = F!SwapBytes(Part(data, 0, 2 * n), 2, n)
<1> DEFINE swapped == F!SwapBytes(data, 2, n)
           first == Part(data, 0, 2 * n)
           left == Part(swapped, 0, 2 * n)
           right == F!SwapBytes(first, 2, n)
<1>0. 2 * n \in Nat /\ 0 + 1 = 1 /\ 0 + 2 * n = 2 * n /\ 0 \in Nat /\ Len(data) \in Nat
  OBVIOUS
<1>1. /\ swapped \in Seq(Elements) /\ Len(swapped) = Len(data)
      /\ \A p \in 1..Len(data) : swapped[p] =
           IF p > 2 * n THEN data[p] ELSE IF p % 2 = 1 THEN data[p + 1] ELSE data[p - 1]
  BY SwapFacts
<1> HIDE DEF swapped
<1>2. first \in Seq(Elements) /\ Len(first) = 2 * n /\ \A k \in 1..(2 * n) : first[k] = data[k]
  <2>1. \A k \in 1..(2 * n) : 0 + k = k
    OBVIOUS
  <2>2. first \in Seq(Elements) /\ Len(first) = 2 * n /\ \A k \in 1..(2 * n) : first[k] = data[0 + k]
    BY <1>0, PartFacts
  <2>3. QED BY <1>0, <2>1, <2>2
<1>3. left \in Seq(Elements) /\ Len(left) = 2 * n /\ \A k \in 1..(2 * n) : left[k] = swapped[k]
  <2>1. \A k \in 1..(2 * n) : 0 + k = k
    OBVIOUS
  <2>2. left \in Seq(Elements) /\ Len(left) = 2 * n /\ \A k \in 1..(2 * n) : left[k] = swapped[0 + k]
    BY <1>0, <1>1, PartFacts
  <2>3. QED BY <1>0, <2>1, <2>2
<1> HIDE DEF first, left
<1>4. /\ right \in Seq(Elements) /\ Len(right) = 2 * n
      /\ \A p \in 1..(2 * n) : right[p] =
           IF p > 2 * n THEN first[p] ELSE IF p % 2 = 1 THEN first[p + 1] ELSE first[p - 1]
  <2>1. 2 * n <= Len(first)
    BY <1>0, <1>2
  <2>2. /\ right \in Seq(Elements) /\ Len(right) = Len(first)
        /\ \A p \in 1..Len(first) : right[p] =
             IF p > 2 * n THEN first[p] ELSE IF p % 2 = 1 THEN first[p + 1] ELSE first[p - 1]
    BY <1>2, <2>1, SwapFacts
  <2>3. QED BY <1>2, <2>2
<1> HIDE DEF right
<1>5. ASSUME NEW p \in 1..(2 * n) PROVE left[p] = right[p]
  <2>0. p \in Nat /\ p >= 1 /\ p <= 2 * n /\ ~(p > 2 * n) /\ p \in 1..Len(data)
    BY <1>0
  <2>1. CASE p % 2 = 1
    <3>1. p + 1 \in 1..(2 * n)
      BY <2>0, <2>1
    <3>2. QED BY <1>1, <1>2, <1>3, <1>4, <2>0, <2>1, <3>1
  <2>2. CASE p % 2 # 1
    <3>1. p - 1 \in 1..(2 * n)
      BY <2>0, <2>2
    <3>2. QED BY <1>1, <1>2, <1>3, <1>4, <2>0, <2>2, <3>1
  <2>3. QED BY <2>1, <2>2
<1>6. left = right
  BY <1>3, <1>4, <1>5, SameLength
<1>7. QED BY <1>6 DEF left, right, first, swapped

\* Bytes written over what is there, and on: in memory, and in the file it stands for.
Overwritten(memory, at, bytes) ==
    [k \in DOMAIN memory |-> IF k \in (at + 1)..(at + Len(bytes)) THEN bytes[k - at] ELSE memory[k]]

Spliced(content, at, bytes) == SubSeq(content, 1, at) \o bytes \o SubSeq(content, at + Len(bytes) + 1, Len(content))

LEMMA OverwriteFacts ==
    ASSUME NEW Elements, NEW memory \in Seq(Elements), NEW content \in Seq(Elements), NEW length \in Nat, Begins(memory, length, content),
           NEW at \in 0..length, NEW bytes \in Seq(Elements), at + Len(bytes) <= Len(memory),
           NEW total, total = IF length > at + Len(bytes) THEN length ELSE at + Len(bytes)
    PROVE  /\ Overwritten(memory, at, bytes) \in Seq(Elements) /\ Spliced(content, at, bytes) \in Seq(Elements) /\ total \in Nat
           /\ Begins(Overwritten(memory, at, bytes), total, Spliced(content, at, bytes))
<1> DEFINE b == Len(bytes)
           new == Overwritten(memory, at, bytes)
           left == Spliced(content, at, bytes)
           first == SubSeq(content, 1, at)
           last == SubSeq(content, at + b + 1, Len(content))
<1>0. /\ length <= Len(memory) /\ length = Len(content) /\ \A k \in 1..length : memory[k] = content[k]
      /\ Len(memory) \in Nat /\ DOMAIN memory = 1..Len(memory) /\ b \in Nat
      /\ \A k \in 1..Len(memory) : memory[k] \in Elements
      /\ \A k \in 1..length : content[k] \in Elements
      /\ \A k \in 1..b : bytes[k] \in Elements
      /\ at \in Nat /\ at <= length
  BY DEF Begins
<1>1. new = [k \in 1..Len(memory) |-> IF k \in (at + 1)..(at + b) THEN bytes[k - at] ELSE memory[k]]
  BY <1>0 DEF Overwritten
<1>a. left = first \o bytes \o last
  BY DEF Spliced
<1> HIDE DEF new, left
<1>2. ASSUME NEW k \in 1..Len(memory)
      PROVE  (IF k \in (at + 1)..(at + b) THEN bytes[k - at] ELSE memory[k]) \in Elements
  <2>1. k \in (at + 1)..(at + b) => k - at \in 1..b
    BY <1>0
  <2>2. QED BY <1>0, <2>1
<1>3. new \in Seq(Elements) /\ Len(new) = Len(memory)
  <2>1. new \in [1..Len(memory) -> Elements]
    BY <1>1, <1>2
  <2>2. QED BY <1>0, <2>1, FunctionIsSequence
<1>4. /\ total \in Nat /\ total <= Len(memory) /\ total >= length /\ total >= at + b
      /\ total = length \/ total = at + b
  BY <1>0
<1>5. first \in Seq(Elements) /\ Len(first) = at /\ \A k \in 1..at : first[k] = content[k]
  <2>1. 1 \in Int /\ at \in Int /\ \A k \in 1..at : content[k] \in Elements
    BY <1>0
  <2>2. /\ first \in Seq(Elements) /\ Len(first) = IF 1 <= at THEN at - 1 + 1 ELSE 0
        /\ \A k \in 1..(at - 1 + 1) : first[k] = content[1 + k - 1]
    BY <2>1, SubSeqProperties
  <2> HIDE DEF first
  <2>3. Len(first) = at
    BY <1>0, <2>2
  <2>4. \A k \in 1..at : k \in 1..(at - 1 + 1) /\ 1 + k - 1 = k
    BY <1>0
  <2>5. QED BY <2>2, <2>3, <2>4
<1>6. /\ last \in Seq(Elements) /\ Len(last) = total - (at + b)
      /\ \A k \in 1..(total - (at + b)) : last[k] = content[at + b + k]
  <2> DEFINE m == at + b + 1
  <2>1. m \in Int /\ length \in Int /\ \A k \in m..length : content[k] \in Elements
    BY <1>0
  <2>2. last = SubSeq(content, m, length)
    BY <1>0
  <2> HIDE DEF last, m
  <2>3. /\ last \in Seq(Elements) /\ Len(last) = IF m <= length THEN length - m + 1 ELSE 0
        /\ \A k \in 1..(length - m + 1) : last[k] = content[m + k - 1]
    BY <2>1, <2>2, SubSeqProperties
  <2>4. Len(last) = total - (at + b)
    BY <1>0, <1>4, <2>3 DEF m
  <2>5. ASSUME NEW k \in 1..(total - (at + b)) PROVE last[k] = content[at + b + k]
    <3>0. total = length
      BY <1>0, <1>4
    <3>1. k \in 1..(length - m + 1) /\ m + k - 1 = at + b + k
      BY <1>0, <1>4, <3>0 DEF m
    <3>2. QED BY <2>3, <3>1
  <2>6. QED BY <2>3, <2>4, <2>5
<1> HIDE DEF first, last, b
<1>7. left = first \o bytes \o last
  BY <1>a
<1>8. /\ first \o bytes \in Seq(Elements) /\ Len(first \o bytes) = at + b
      /\ \A k \in 1..(at + b) : (first \o bytes)[k] = IF k <= at THEN first[k] ELSE bytes[k - at]
  BY <1>5, ConcatProperties DEF b
<1> DEFINE both == first \o bytes
<1>10. (at + b) + (total - (at + b)) = total
  <2>1. \A x, y \in Int : x + (y - x) = y
    OBVIOUS
  <2>2. at + b \in Int /\ total \in Int
    BY <1>0, <1>4
  <2>3. QED BY <2>1, <2>2
<1>9. /\ both \o last \in Seq(Elements) /\ Len(both \o last) = (at + b) + (total - (at + b))
      /\ \A k \in 1..((at + b) + (total - (at + b))) :
           (both \o last)[k] = IF k <= at + b THEN both[k] ELSE last[k - (at + b)]
  <2>1. both \in Seq(Elements) /\ Len(both) = at + b
    BY <1>8
  <2> HIDE DEF both
  <2>2. both \in Seq(Elements) /\ last \in Seq(Elements)
    BY <1>6, <2>1
  <2>3. /\ both \o last \in Seq(Elements) /\ Len(both \o last) = Len(both) + Len(last)
        /\ \A k \in 1..Len(both) : (both \o last)[k] = both[k]
        /\ \A k \in (Len(both) + 1)..(Len(both) + Len(last)) : (both \o last)[k] = last[k - Len(both)]
    BY <2>2
  <2>4. ASSUME NEW k \in 1..((at + b) + (total - (at + b)))
        PROVE  (both \o last)[k] = IF k <= at + b THEN both[k] ELSE last[k - (at + b)]
    <3>1. k \in 1..total /\ Len(both) + Len(last) = total
      BY <1>6, <1>10, <2>1
    <3>2. k <= at + b => k \in 1..Len(both)
      BY <1>0, <1>4, <2>1, <3>1
    <3>3. ~(k <= at + b) => k \in (Len(both) + 1)..(Len(both) + Len(last))
      BY <1>0, <1>4, <2>1, <3>1
    <3>4. QED BY <2>1, <2>3, <3>2, <3>3
  <2>5. QED BY <1>6, <2>1, <2>3, <2>4
<1>11. /\ left \in Seq(Elements) /\ Len(left) = total
       /\ \A k \in 1..total :
            left[k] = IF k <= at + b THEN (IF k <= at THEN first[k] ELSE bytes[k - at]) ELSE last[k - (at + b)]
  <2>1. \A k \in 1..total : k <= at + b => k \in 1..(at + b)
    BY <1>0
  <2>2. left = both \o last
    BY <1>7
  <2>3. QED BY <1>8, <1>9, <1>10, <2>1, <2>2
<1>12. ASSUME NEW k \in 1..total PROVE new[k] = left[k]
  <2>0. k \in 1..Len(memory) /\ k \in Nat /\ k >= 1 /\ k <= total
    BY <1>0, <1>4
  <2>1. CASE k <= at
    <3>1. k \in 1..at /\ k \in 1..length /\ k <= at + b /\ k \notin (at + 1)..(at + b)
      BY <1>0, <2>0, <2>1
    <3>2. QED BY <1>0, <1>1, <1>5, <1>11, <2>0, <2>1, <3>1
  <2>2. CASE k > at /\ k <= at + b
    <3>1. k \in (at + 1)..(at + b) /\ ~(k <= at)
      BY <1>0, <2>0, <2>2
    <3>2. QED BY <1>1, <1>11, <2>0, <2>2, <3>1
  <2>3. CASE k > at + b
    <3>1. /\ k \notin (at + 1)..(at + b) /\ ~(k <= at + b) /\ k - (at + b) \in 1..(total - (at + b))
          /\ at + b + (k - (at + b)) = k
      BY <1>0, <1>4, <2>0, <2>3
    <3>2. left[k] = content[k]
      BY <1>6, <1>11, <3>1
    <3>3. k \in 1..length
      BY <1>0, <1>4, <2>0, <2>3
    <3>4. QED BY <1>0, <1>1, <2>0, <3>1, <3>2, <3>3
  <2>4. k <= at \/ (k > at /\ k <= at + b) \/ k > at + b
    BY <1>0, <2>0
  <2>5. QED BY <2>1, <2>2, <2>3, <2>4
<1>13. QED BY <1>0, <1>3, <1>4, <1>11, <1>12 DEF Begins, new, left

LEMMA SameAllocate == \A array, n, inc : F!Allocate(array, n, inc) = B!Allocate(array, n, inc)
BY Zenon DEF F!Allocate, F!AllocatedItems, F!Greatest, B!Allocate, B!AllocatedItems, B!Greatest

\* A file that grows is still the start of its memory.
LEMMA GrowFacts ==
    ASSUME NEW memory \in Seq(Cell), NEW content \in Seq(Cell), NEW length \in Nat, Begins(memory, length, content),
           NEW n \in Nat
    PROVE  /\ F!Allocate(memory, n, SizeInc) \in Seq(Cell)
           /\ n <= Len(F!Allocate(memory, n, SizeInc))
           /\ Begins(F!Allocate(memory, n, SizeInc), length, content)
<1> DEFINE new == F!Allocate(memory, n, SizeInc)
<1>1. 0 \in Cell /\ SizeInc \in Nat \ {0}
  BY ObjectsAssumption DEF ObjectsAssumption, Cell
<1>2. new = B!Allocate(memory, n, SizeInc)
  BY SameAllocate
<1>3. new \in Seq(Cell) /\ Len(new) >= n /\ Len(new) >= Len(memory) /\ \A k \in 1..Len(memory) : new[k] = memory[k]
  BY <1>1, <1>2, AllocateFacts
<1> HIDE DEF new
<1>4. Len(memory) \in Nat /\ Len(new) \in Nat
  BY <1>3
<1>5. Begins(new, length, content)
  <2>1. length <= Len(memory) /\ length = Len(content) /\ \A k \in 1..length : memory[k] = content[k]
    BY DEF Begins
  <2>2. \A k \in 1..length : k \in 1..Len(memory)
    BY <1>4, <2>1
  <2>3. length <= Len(new)
    BY <1>3, <1>4, <2>1
  <2>4. QED BY <1>3, <2>1, <2>2, <2>3 DEF Begins
<1>6. n <= Len(new)
  BY <1>3, <1>4
<1>7. QED BY <1>3, <1>5, <1>6 DEF new

\* A file replaced by data, with memory left behind it.
LEMMA ReplaceFacts ==
    ASSUME NEW memory \in Seq(Cell), NEW data \in Seq(Cell), Len(data) <= Len(memory)
    PROVE  /\ data \o SubSeq(memory, Len(data) + 1, Len(memory)) \in Seq(Cell)
           /\ Begins(data \o SubSeq(memory, Len(data) + 1, Len(memory)), Len(data), data)
<1> DEFINE rest == SubSeq(memory, Len(data) + 1, Len(memory))
<1>0. Len(data) \in Nat /\ Len(memory) \in Nat /\ \A k \in 1..Len(memory) : memory[k] \in Cell
  OBVIOUS
<1>1. rest \in Seq(Cell)
  <2>1. Len(data) + 1 \in Int /\ Len(memory) \in Int /\ \A k \in (Len(data) + 1)..Len(memory) : memory[k] \in Cell
    BY <1>0
  <2>2. QED BY <2>1, SubSeqProperties
<1> HIDE DEF rest
<1>2. /\ data \o rest \in Seq(Cell) /\ Len(data \o rest) = Len(data) + Len(rest)
      /\ \A k \in 1..Len(data) : (data \o rest)[k] = data[k]
      /\ Len(rest) \in Nat
  BY <1>1
<1>3. QED BY <1>0, <1>2 DEF Begins, rest

\* What was read from here is a part of the file.
LEMMA ReadFacts ==
    ASSUME NEW memory \in Seq(Cell), NEW content \in Seq(Cell), NEW length \in Nat, Begins(memory, length, content),
           NEW at \in Nat, NEW n \in Nat, at + n <= length
    PROVE  /\ Part(memory, at, n) = Part(content, at, n)
           /\ Part(content, at, n) \in Seq(Cell) /\ Len(Part(content, at, n)) = n
           /\ \A m \in 0..n : Part(Part(memory, at, n), 0, m) = Part(content, at, m)
<1> DEFINE there == Part(memory, at, n)
           here == Part(content, at, n)
<1>0. length <= Len(memory) /\ length = Len(content) /\ (\A k \in 1..length : memory[k] = content[k])
      /\ Len(memory) \in Nat /\ at + n <= Len(content) /\ at + n <= Len(memory)
  BY DEF Begins
<1>1. there \in Seq(Cell) /\ Len(there) = n /\ \A k \in 1..n : there[k] = memory[at + k]
  BY <1>0, PartFacts
<1>2. here \in Seq(Cell) /\ Len(here) = n /\ \A k \in 1..n : here[k] = content[at + k]
  BY <1>0, PartFacts
<1> HIDE DEF there, here
<1>3. \A k \in 1..n : there[k] = here[k]
  <2>1. \A k \in 1..n : at + k \in 1..length
    BY <1>0
  <2>2. QED BY <1>0, <1>1, <1>2, <2>1
<1>4. there = here
  BY <1>1, <1>2, <1>3, SameLength
<1>5. ASSUME NEW m \in 0..n PROVE Part(there, 0, m) = Part(content, at, m)
  <2> DEFINE left == Part(there, 0, m)
             right == Part(content, at, m)
  <2>1. m \in Nat /\ 0 + m <= Len(there) /\ at + m <= Len(content)
    BY <1>0, <1>1
  <2>2. left \in Seq(Cell) /\ Len(left) = m /\ \A k \in 1..m : left[k] = there[0 + k]
    BY <1>1, <2>1, PartFacts
  <2>3. right \in Seq(Cell) /\ Len(right) = m /\ \A k \in 1..m : right[k] = content[at + k]
    BY <2>1, PartFacts
  <2> HIDE DEF left, right
  <2>4. \A k \in 1..m : 0 + k = k /\ k \in 1..n
    BY <2>1
  <2>5. \A k \in 1..m : left[k] = right[k]
    BY <1>2, <1>4, <2>2, <2>3, <2>4
  <2>6. left = right
    BY <2>2, <2>3, <2>5, SameLength
  <2>7. QED BY <2>6 DEF left, right
<1>6. QED BY <1>2, <1>4, <1>5 DEF there, here

LEMMA FileMeans == FileInv => F!StandsForFile
<1> SUFFICES ASSUME FileInv PROVE F!StandsForFile
  OBVIOUS
<1>0. /\ object.pData \in Seq(Cell) /\ object.Length \in Nat /\ around \in Seq(Cell)
      /\ Begins(object.pData, object.Length, around) /\ object.Pos <= object.Length
  BY DEF FileInv, MemFiles
<1>1. object.Length <= Len(object.pData) /\ object.Length = Len(around)
  BY <1>0 DEF Begins
<1>2. SubSeq(object.pData, 1, object.Length) = around
  <2> DEFINE n == object.Length
  <2>1. 0 + n <= n /\ 0 + 1 = 1 /\ 0 + n = n /\ n = Len(around)
    BY <1>0, <1>1
  <2>0. n \in Nat /\ object.pData \in Seq(Cell) /\ around \in Seq(Cell) /\ Begins(object.pData, n, around)
    BY <1>0
  <2> HIDE DEF n
  <2>2. Part(object.pData, 0, n) = Part(around, 0, n)
    BY <2>0, <2>1, ReadFacts
  <2>3. SubSeq(around, 1, Len(around)) = around
    BY <1>0, SubSeqFull
  <2>4. SubSeq(object.pData, 1, n) = SubSeq(around, 1, n)
    BY <2>1, <2>2 DEF Part
  <2>5. QED BY <2>1, <2>3, <2>4 DEF n
<1>3. QED BY <1>0, <1>1, <1>2 DEF F!StandsForFile, FileInv, AsRead, Part

LEMMA NothingRead ==
    /\ F!Nothing \in [at : Nat, bytes : Seq(Cell)] /\ F!Nothing.at + Len(F!Nothing.bytes) = 0
    /\ \A content \in Seq(Cell) : AsRead(content, F!Nothing)
<1>1. F!Nothing.at = 0 /\ F!Nothing.bytes = <<>> /\ F!Nothing \in [at : Nat, bytes : Seq(Cell)]
  BY DEF F!Nothing
<1>2. Len(<<>>) = 0 /\ 0 + 0 = 0
  OBVIOUS
<1>3. ASSUME NEW content \in Seq(Cell) PROVE AsRead(content, F!Nothing)
  <2>1. Part(content, 0, 0) = <<>>
    <3>1. SubSeq(content, 0 + 1, 0 + 0) = <<>>
      BY SubSeqEmpty
    <3>2. QED BY <3>1 DEF Part
  <2>2. QED BY <1>1, <1>2, <2>1 DEF AsRead
<1>4. QED BY <1>1, <1>2, <1>3

LEMMA FileInit == F!Init => FileInv
<1> SUFFICES ASSUME F!Init PROVE FileInv
  OBVIOUS
<1>1. /\ object = [isopen |-> FALSE, pData |-> <<>>, Pos |-> 0, Length |-> 0, SizeInc |-> 0]
      /\ around = <<>> /\ past = F!Nothing
  BY DEF F!Init, F!Closed
<1>2. <<>> \in Seq(Cell) /\ Len(<<>>) = 0
  OBVIOUS
<1>3. object \in MemFiles /\ object.Pos = 0 /\ object.Length = 0 /\ object.pData = <<>>
  BY <1>1, <1>2 DEF MemFiles
<1>4. Begins(<<>>, 0, <<>>)
  BY <1>2 DEF Begins
<1>5. QED BY <1>1, <1>2, <1>3, <1>4, NothingRead DEF FileInv

\* Any texts are sequences of what is in memory.
LEMMA TextFacts == F!Texts \subseteq Seq(Cell)
<1>1. ASSUME NEW k \in 0..MaxLength, NEW data \in [1..k -> Bytes] PROVE data \in Seq(Cell)
  <2>1. k \in Nat
    BY ObjectsAssumption DEF ObjectsAssumption
  <2>2. data \in [1..k -> Cell]
    BY DEF Cell
  <2>3. QED BY <2>1, <2>2, FunctionIsSequence
<1>2. QED BY <1>1 DEF F!Texts

LEMMA FileStep == FileInv /\ F!Next => FileInv'
<1> SUFFICES ASSUME FileInv, F!Next PROVE FileInv'
  OBVIOUS
<1> DEFINE memory == object.pData
           pos == object.Pos
           length == object.Length
           content == around
<1>0. /\ object \in MemFiles /\ memory \in Seq(Cell) /\ pos \in Nat /\ length \in Nat /\ object.SizeInc \in Nat
      /\ content \in Seq(Cell) /\ past \in [at : Nat, bytes : Seq(Cell)]
      /\ pos <= length /\ Begins(memory, length, content)
      /\ past.at + Len(past.bytes) <= length /\ AsRead(content, past)
      /\ object.isopen \in BOOLEAN
  BY DEF FileInv, MemFiles
<1>b. /\ length <= Len(memory) /\ length = Len(content) /\ \A k \in 1..length : memory[k] = content[k]
      /\ Len(memory) \in Nat
  BY <1>0 DEF Begins
<1>c. SizeInc \in Nat \ {0} /\ MaxLength \in Nat /\ 0 \in Nat
  BY ObjectsAssumption DEF ObjectsAssumption
\* After a change of the file nothing was read.
<1>w. ASSUME NEW new \in Seq(Cell), NEW newpos \in Nat, NEW newlength \in Nat, NEW left \in Seq(Cell),
             object' \in MemFiles, object'.pData = new, object'.Pos = newpos, object'.Length = newlength,
             newpos <= newlength, Begins(new, newlength, left), around' = left, past' = F!Nothing
      PROVE  FileInv'
  BY <1>w, NothingRead DEF FileInv
\* A read changes the position only.
<1>r. ASSUME NEW newpos \in Nat, newpos <= length, object' = [object EXCEPT !.Pos = newpos],
             around' = content, past' \in [at : Nat, bytes : Seq(Cell)],
             past'.at + Len(past'.bytes) <= length, AsRead(content, past')
      PROVE  FileInv'
  <2>1. object' \in MemFiles /\ object'.pData = memory /\ object'.Pos = newpos /\ object'.Length = length
    BY <1>0, <1>r DEF MemFiles
  <2>2. QED BY <1>0, <1>r, <2>1 DEF FileInv
<1>1. ASSUME NEW data \in F!Texts, F!OpenRead(data) PROVE FileInv'
  <2>1. /\ object' = [isopen |-> TRUE, pData |-> data, Pos |-> 0, Length |-> Len(data), SizeInc |-> 0]
        /\ around' = data /\ past' = F!Nothing
    BY <1>1 DEF F!OpenRead, F!Closed
  <2>2. data \in Seq(Cell) /\ Len(data) \in Nat
    BY TextFacts
  <2>3. object' \in MemFiles /\ object'.pData = data /\ object'.Pos = 0 /\ object'.Length = Len(data)
    BY <1>c, <2>1, <2>2 DEF MemFiles
  <2>4. Begins(data, Len(data), data) /\ 0 <= Len(data)
    BY <2>2 DEF Begins
  <2>5. QED BY <1>c, <2>1, <2>2, <2>3, <2>4, <1>w
<1>2. ASSUME NEW data \in F!Texts, NEW append \in BOOLEAN, F!OpenWrite(data, append) PROVE FileInv'
  <2> DEFINE room == F!Allocate(<<>>, Len(data), SizeInc)
             new == data \o SubSeq(room, Len(data) + 1, Len(room))
             newpos == IF append THEN Len(data) ELSE 0
  <2>1. /\ object' = [isopen |-> TRUE, pData |-> new, Pos |-> newpos, Length |-> Len(data), SizeInc |-> SizeInc]
        /\ around' = data /\ past' = F!Nothing
    BY <1>2 DEF F!OpenWrite
  <2>2. data \in Seq(Cell) /\ Len(data) \in Nat
    BY TextFacts
  <2>3. newpos \in Nat /\ newpos <= Len(data)
    BY <2>2
  <2> HIDE DEF newpos
  <2>4. room \in Seq(Cell) /\ Len(data) <= Len(room)
    <3>1. <<>> \in Seq(Cell) /\ Len(<<>>) = 0
      OBVIOUS
    <3>2. Begins(<<>>, 0, <<>>)
      BY <3>1 DEF Begins
    <3>3. QED BY <1>c, <2>2, <3>1, <3>2, GrowFacts
  <2> HIDE DEF room
  <2>5. new \in Seq(Cell) /\ Begins(new, Len(data), data)
    BY <2>2, <2>4, ReplaceFacts
  <2> HIDE DEF new
  <2>6. object' \in MemFiles /\ object'.pData = new /\ object'.Pos = newpos /\ object'.Length = Len(data)
    BY <1>c, <2>1, <2>2, <2>3, <2>5 DEF MemFiles
  <2>7. QED BY <2>1, <2>2, <2>3, <2>5, <2>6, <1>w
<1>3. CASE F!close
  <2>1. /\ object' = [isopen |-> FALSE, pData |-> <<>>, Pos |-> 0, Length |-> 0, SizeInc |-> 0]
        /\ around' = <<>> /\ past' = F!Nothing
    BY <1>3 DEF F!close, F!Closed
  <2>2. <<>> \in Seq(Cell) /\ Len(<<>>) = 0
    OBVIOUS
  <2>3. object' \in MemFiles /\ object'.pData = <<>> /\ object'.Pos = 0 /\ object'.Length = 0
    BY <1>c, <2>1, <2>2 DEF MemFiles
  <2>4. Begins(<<>>, 0, <<>>) /\ 0 <= 0
    BY <2>2 DEF Begins
  <2>5. QED BY <1>c, <2>1, <2>2, <2>3, <2>4, <1>w
<1>4. ASSUME NEW base \in {0, pos, length}, NEW offset \in -MaxLength..MaxLength, F!seek(base, offset) PROVE FileInv'
  <2>1. object' = (IF base + offset \in 0..length THEN [object EXCEPT !.Pos = base + offset] ELSE object)
        /\ around' = content /\ past' = past
    BY <1>4 DEF F!seek
  <2>2. CASE base + offset \in 0..length
    <3>1. base + offset \in Nat /\ base + offset <= length /\ object' = [object EXCEPT !.Pos = base + offset]
      BY <1>0, <2>1, <2>2
    <3>2. QED BY <1>0, <2>1, <3>1, <1>r
  <2>3. CASE base + offset \notin 0..length
    <3>1. object' = object /\ around' = around /\ past' = past
      BY <2>1, <2>3
    <3>2. QED BY <3>1 DEF FileInv
  <2>4. QED BY <2>2, <2>3
<1>5. CASE F!rewind
  <2>1. object' = [object EXCEPT !.Pos = 0] /\ around' = content /\ past' = past
    BY <1>5 DEF F!rewind
  <2>2. 0 <= length
    BY <1>0
  <2>3. QED BY <1>0, <1>c, <2>1, <2>2, <1>r
<1>6. ASSUME NEW size \in 1..2, NEW amount \in 0..2, NEW swap \in BOOLEAN, F!read(size, amount, swap) PROVE FileInv'
  <2> DEFINE bytes == IF size * amount < length - pos THEN size * amount ELSE length - pos
             data == Part(memory, pos, bytes)
             items == bytes \div size
             got == SubSeq(IF swap THEN F!SwapBytes(data, size, items) ELSE data, 1, size * items)
  <2>1. /\ object' = [object EXCEPT !.Pos = pos + bytes]
        /\ past' = [at |-> pos, bytes |-> got] /\ around' = content
    BY <1>6 DEF F!read, F!Readable, F!Least, Part
  <2>2. bytes \in Nat /\ pos + bytes <= length
    <3>1. size * amount \in Nat
      OBVIOUS
    <3> DEFINE wanted == size * amount
    <3> HIDE DEF wanted
    <3>2. length - pos \in Nat /\ wanted \in Nat
      BY <1>0, <3>1 DEF wanted
    <3>3. (IF wanted < length - pos THEN wanted ELSE length - pos) \in Nat
          /\ pos + (IF wanted < length - pos THEN wanted ELSE length - pos) <= length
      BY <1>0, <3>2
    <3>4. QED BY <3>3 DEF wanted
  <2> HIDE DEF bytes
  <2>3. items \in Nat /\ size * items <= bytes /\ size * items \in Nat
    BY <2>2
  <2>4. /\ data \in Seq(Cell) /\ Len(data) = bytes
        /\ \A m \in 0..bytes : Part(data, 0, m) = Part(content, pos, m)
    BY <1>0, <2>2, ReadFacts
  <2> DEFINE n == size * items
  <2>5. n \in Nat /\ n \in 0..bytes /\ 0 + 1 = 1 /\ 0 + n = n /\ pos + n <= length
    BY <1>0, <2>2, <2>3
  <2>6. Part(data, 0, n) = Part(content, pos, n) /\ Part(content, pos, n) \in Seq(Cell) /\ Len(Part(content, pos, n)) = n
    BY <1>0, <1>b, <2>4, <2>5, PartFacts
  <2> DEFINE part == Part(content, pos, n)
  <2>7. got \in {part, F!SwapBytes(part, 2, n \div 2)}
    <3>1. CASE ~swap
      <4>1. got = Part(data, 0, n)
        BY <2>5, <3>1 DEF Part
      <4>2. QED BY <2>6, <4>1
    <3>2. CASE swap /\ size = 1
      <4>1. F!SwapBytes(data, size, items) = data
        BY <3>2 DEF F!SwapBytes
      <4>2. got = Part(data, 0, n)
        BY <2>5, <3>2, <4>1 DEF Part
      <4>3. QED BY <2>6, <4>2
    <3>3. CASE swap /\ size = 2
      <4>1. n = 2 * items /\ n \div 2 = items /\ 2 * items <= Len(data)
        BY <2>3, <2>4, <3>3
      <4>2. got = Part(F!SwapBytes(data, 2, items), 0, 2 * items)
        BY <2>5, <3>3, <4>1 DEF Part
      <4>3. Part(F!SwapBytes(data, 2, items), 0, 2 * items) = F!SwapBytes(Part(data, 0, 2 * items), 2, items)
        BY <2>3, <2>4, <4>1, SwapPart
      <4>4. QED BY <2>6, <4>1, <4>2, <4>3
    <3>4. QED BY <3>1, <3>2, <3>3
  <2>8. F!SwapBytes(part, 2, n \div 2) \in Seq(Cell) /\ Len(F!SwapBytes(part, 2, n \div 2)) = n
    <3>1. n \div 2 \in Nat /\ 2 * (n \div 2) <= Len(part)
      BY <2>5, <2>6
    <3>2. QED BY <2>6, <3>1, SwapFacts
  <2> HIDE DEF got
  <2>9. got \in Seq(Cell) /\ Len(got) = n
    BY <2>6, <2>7, <2>8
  <2>10. /\ past' \in [at : Nat, bytes : Seq(Cell)] /\ past'.at = pos /\ past'.bytes = got
    BY <1>0, <2>1, <2>9
  <2>11. AsRead(content, past')
    BY <2>6, <2>7, <2>9, <2>10 DEF AsRead
  <2>12. past'.at + Len(past'.bytes) <= length
    BY <2>5, <2>9, <2>10
  <2>13. pos + bytes \in Nat
    BY <1>0, <2>2
  <2>14. QED BY <2>1, <2>2, <2>10, <2>11, <2>12, <2>13, <1>r
<1>7. ASSUME NEW data \in F!Texts, NEW size \in 1..2, NEW swap \in BOOLEAN, F!write(data, size, swap) PROVE FileInv'
  <2> DEFINE bytes == IF swap THEN F!SwapBytes(data, size, Len(data) \div size) ELSE data
             room == F!Allocate(memory, pos + Len(data), SizeInc)
             end == pos + Len(bytes)
             new == Overwritten(room, pos, bytes)
             total == IF length > end THEN length ELSE end
             left == Spliced(content, pos, bytes)
  <2>1. /\ object' = [object EXCEPT !.pData = new, !.Pos = pos + Len(bytes), !.Length = total]
        /\ around' = left /\ past' = F!Nothing
    BY <1>7 DEF F!write, F!EndAfter, F!Greatest, Overwritten, Spliced
  <2>2. data \in Seq(Cell) /\ Len(data) \in Nat
    BY TextFacts
  <2>3. bytes \in Seq(Cell) /\ Len(bytes) = Len(data)
    <3>1. CASE swap /\ size = 2
      <4>1. Len(data) \div 2 \in Nat /\ 2 * (Len(data) \div 2) <= Len(data)
        BY <2>2
      <4>2. QED BY <2>2, <3>1, <4>1, SwapFacts
    <3>2. CASE ~swap \/ size = 1
      BY <2>2, <3>2 DEF F!SwapBytes
    <3>3. QED BY <3>1, <3>2
  <2> HIDE DEF bytes
  <2>4. pos + Len(data) \in Nat
    BY <1>0, <2>2
  <2>5. room \in Seq(Cell) /\ pos + Len(data) <= Len(room) /\ Begins(room, length, content)
    BY <1>0, <2>4, GrowFacts
  <2> HIDE DEF room
  <2>6. pos \in 0..length /\ pos + Len(bytes) <= Len(room)
    BY <1>0, <2>3, <2>5
  <2>7. new \in Seq(Cell) /\ left \in Seq(Cell) /\ Begins(new, total, left) /\ total \in Nat
    BY <1>0, <2>3, <2>5, <2>6, OverwriteFacts
  <2> HIDE DEF new, left
  <2>8. end \in Nat /\ end <= total
    BY <1>0, <2>2, <2>3
  <2> HIDE DEF total
  <2>9. object' \in MemFiles /\ object'.pData = new /\ object'.Pos = end /\ object'.Length = total
    BY <1>0, <2>1, <2>7, <2>8 DEF MemFiles
  <2>10. QED BY <2>1, <2>7, <2>8, <2>9, <1>w
<1>8. ASSUME NEW n \in 1..MaxLength, F!gets(n) PROVE FileInv'
  <2> DEFINE rest == SubSeq(memory, pos + 1, length)
             ends == {k \in DOMAIN rest : rest[k] = NewLine /\ k < n}
             line == IF ends # {} THEN F!Min(ends) - 1 ELSE (IF n - 1 < Len(rest) THEN n - 1 ELSE Len(rest))
             skipped == line + (IF ends # {} THEN 1 ELSE 0)
             got == SubSeq(rest, 1, line)
  <2>0. n \in Nat /\ n >= 1
    BY <1>c
  <2>1. /\ past' = [at |-> pos, bytes |-> got] /\ around' = content
        /\ object' = [object EXCEPT !.Pos = pos + line + (IF ends # {} THEN 1 ELSE 0)]
    BY <1>8 DEF F!gets, F!Least
  <2> DEFINE m == length - pos
  <2>2. m \in Nat /\ pos + m = length /\ pos + m <= length
    BY <1>0
  <2> HIDE DEF m
  <2>3. rest = Part(memory, pos, m)
    BY <2>2 DEF Part
  <2> HIDE DEF rest
  <2>4. /\ rest = Part(content, pos, m) /\ rest \in Seq(Cell) /\ Len(rest) = m
        /\ \A k \in 0..m : Part(rest, 0, k) = Part(content, pos, k)
    BY <1>0, <2>2, <2>3, ReadFacts
  <2>5. line \in 0..m /\ skipped \in 0..m
    <3>1. CASE ends = {}
      BY <2>0, <2>2, <2>4, <3>1
    <3>2. CASE ends # {}
      <4>1. ends \in SUBSET Nat /\ ends \subseteq 1..m
        BY <2>2, <2>4
      <4> HIDE DEF ends
      <4>2. \E j \in ends : \A k \in ends : j <= k
        BY <3>2, <4>1, Least
      <4>3. F!Min(ends) \in ends
        BY <4>2 DEF F!Min
      <4>4. F!Min(ends) \in 1..m
        BY <4>1, <4>3
      <4>5. line = F!Min(ends) - 1 /\ skipped = line + 1
        BY <3>2
      <4> HIDE DEF line, skipped
      <4>6. QED BY <2>2, <4>4, <4>5
    <3>3. QED BY <3>1, <3>2
  <2> HIDE DEF ends, line
  <2>6. got = Part(rest, 0, line)
    <3>1. 0 + 1 = 1 /\ 0 + line = line
      BY <2>2, <2>5
    <3>2. QED BY <3>1 DEF Part
  <2>7. got = Part(content, pos, line)
    BY <2>4, <2>5, <2>6
  <2>8. line \in Nat /\ pos + line <= length /\ pos + line <= Len(content)
    BY <1>0, <1>b, <2>2, <2>5
  <2> HIDE DEF got, skipped
  <2>9. got \in Seq(Cell) /\ Len(got) = line
    <3>1. Part(content, pos, line) \in Seq(Cell) /\ Len(Part(content, pos, line)) = line
      BY <1>0, <2>8, PartFacts
    <3>2. QED BY <2>7, <3>1
  <2>10. past' \in [at : Nat, bytes : Seq(Cell)] /\ past'.at = pos /\ past'.bytes = got
    BY <1>0, <2>1, <2>9
  <2>11. AsRead(content, past')
    BY <2>7, <2>9, <2>10 DEF AsRead
  <2>12. past'.at + Len(past'.bytes) <= length
    BY <2>8, <2>9, <2>10
  <2> DEFINE newpos == pos + line + (IF ends # {} THEN 1 ELSE 0)
  <2>13. newpos \in Nat /\ newpos <= length
    <3>1. newpos = pos + skipped
      BY <1>0, <2>8 DEF skipped
    <3> HIDE DEF newpos
    <3>2. QED BY <1>0, <2>2, <2>5, <3>1
  <2> HIDE DEF newpos
  <2>14. object' = [object EXCEPT !.Pos = newpos]
    BY <2>1 DEF newpos
  <2>15. QED BY <2>1, <2>10, <2>11, <2>12, <2>13, <2>14, <1>r
<1>9. ASSUME NEW bytes \in 1..MaxLength, F!RemoveBytes(bytes) PROVE FileInv'
  <2> DEFINE n == IF bytes < length THEN bytes ELSE length
             new == [k \in DOMAIN memory |-> IF k <= length - n THEN memory[k + n] ELSE memory[k]]
             newpos == IF pos >= n THEN pos - n ELSE 0
             left == SubSeq(content, n + 1, Len(content))
             rest == length - n
  <2>1. /\ object' = [object EXCEPT !.Pos = newpos, !.Length = rest, !.pData = new]
        /\ around' = left /\ past' = F!Nothing
    BY <1>9 DEF F!RemoveBytes, F!Least, F!subz
  <2>0. bytes \in Nat
    BY <1>c
  <2>2. n \in 0..length
    BY <1>0, <2>0
  <2> HIDE DEF n
  <2>3. newpos \in Nat /\ rest \in Nat /\ newpos <= rest /\ n \in Nat
    BY <1>0, <2>2
  <2>4. DOMAIN memory = 1..Len(memory) /\ \A k \in 1..Len(memory) : memory[k] \in Cell
    BY <1>0, QueueFacts
  <2>5. new \in [1..Len(memory) -> Cell]
    <3>1. ASSUME NEW k \in 1..Len(memory)
          PROVE  (IF k <= length - n THEN memory[k + n] ELSE memory[k]) \in Cell
      <4>1. k <= length - n => k + n \in 1..Len(memory)
        BY <1>0, <1>b, <2>2
      <4>2. QED BY <2>4, <4>1
    <3>2. QED BY <2>4, <3>1
  <2>6. new \in Seq(Cell) /\ Len(new) = Len(memory)
    BY <1>b, <2>5, FunctionIsSequence
  <2>7. left = Part(content, n, rest)
    <3>1. n + rest = Len(content)
      BY <1>0, <1>b, <2>2
    <3>2. QED BY <3>1 DEF Part
  <2>8. left \in Seq(Cell) /\ Len(left) = rest /\ \A k \in 1..rest : left[k] = content[n + k]
    <3>1. n + rest <= Len(content)
      BY <1>0, <1>b, <2>2
    <3> HIDE DEF new, newpos, left, rest
    <3>2. /\ Part(content, n, rest) \in Seq(Cell) /\ Len(Part(content, n, rest)) = rest
          /\ \A k \in 1..rest : Part(content, n, rest)[k] = content[n + k]
      BY <1>0, <2>3, <3>1, PartFacts
    <3>3. QED BY <2>7, <3>2
  <2>9. ASSUME NEW k \in 1..rest PROVE new[k] = left[k]
    <3>1. k \in 1..Len(memory) /\ k <= length - n /\ n + k = k + n /\ k + n \in 1..length
      BY <1>0, <1>b, <2>2
    <3>2. new[k] = memory[k + n]
      BY <2>4, <3>1
    <3> HIDE DEF new, left, rest
    <3>3. QED BY <1>b, <2>8, <3>1, <3>2
  <2>10. rest <= Len(new)
    BY <1>0, <1>b, <2>2, <2>6
  <2> HIDE DEF new, left, rest
  <2>11. Begins(new, rest, left)
    BY <2>8, <2>9, <2>10 DEF Begins
  <2>12. object' \in MemFiles /\ object'.pData = new /\ object'.Pos = newpos /\ object'.Length = rest
    BY <1>0, <2>1, <2>3, <2>6 DEF MemFiles
  <2> HIDE DEF newpos
  <2>13. QED BY <2>1, <2>3, <2>6, <2>8, <2>11, <2>12, <1>w
<1>10. ASSUME NEW data \in F!Texts, F!AddBytes(data) PROVE FileInv'
  <2> DEFINE room == F!Allocate(memory, pos + Len(data), SizeInc)
             n == IF Len(data) < Len(room) - pos THEN Len(data) ELSE Len(room) - pos
             end == pos + n
             over == [k \in DOMAIN room |-> IF k - pos \in DOMAIN data THEN data[k - pos] ELSE room[k]]
             new == Overwritten(room, pos, data)
             total == IF length > pos + Len(data) THEN length ELSE pos + Len(data)
             left == Spliced(content, pos, data)
  <2>1. /\ object' = [object EXCEPT !.pData = over, !.Pos = end, !.Length = IF length > end THEN length ELSE end]
        /\ around' = left /\ past' = F!Nothing
    BY <1>10 DEF F!AddBytes, F!Least, F!Greatest, Spliced
  <2>2. data \in Seq(Cell) /\ Len(data) \in Nat /\ DOMAIN data = 1..Len(data)
    BY TextFacts
  <2>3. pos + Len(data) \in Nat
    BY <1>0, <2>2
  <2>4. room \in Seq(Cell) /\ pos + Len(data) <= Len(room) /\ Begins(room, length, content)
    BY <1>0, <2>3, GrowFacts
  <2> HIDE DEF room
  <2>5. Len(room) \in Nat /\ DOMAIN room = 1..Len(room)
    BY <2>4
  <2>6. n = Len(data)
    BY <1>0, <2>2, <2>4, <2>5
  <2> HIDE DEF n
  <2>7. over = new
    <3>1. \A k \in DOMAIN room : k - pos \in DOMAIN data <=> k \in (pos + 1)..(pos + Len(data))
      BY <1>0, <2>2, <2>5
    <3>2. QED BY <3>1 DEF Overwritten
  <2> HIDE DEF over
  <2>8. pos \in 0..length /\ end = pos + Len(data) /\ total = IF length > end THEN length ELSE end
    BY <1>0, <2>6
  <2>9. new \in Seq(Cell) /\ left \in Seq(Cell) /\ Begins(new, total, left) /\ total \in Nat
    BY <1>0, <2>2, <2>4, <2>8, OverwriteFacts
  <2> HIDE DEF new, left
  <2>10. end \in Nat /\ end <= total
    BY <1>0, <2>2, <2>3, <2>8
  <2> HIDE DEF total, end
  <2>11. object' \in MemFiles /\ object'.pData = new /\ object'.Pos = end /\ object'.Length = total
    BY <1>0, <2>1, <2>7, <2>8, <2>9, <2>10 DEF MemFiles
  <2>12. QED BY <2>1, <2>9, <2>10, <2>11, <1>w
<1>11. ASSUME NEW data \in F!Texts, F!Base64Decode(data) PROVE FileInv'
  <2> DEFINE room == F!Allocate(memory, Len(data), SizeInc)
             new == data \o SubSeq(room, Len(data) + 1, Len(room))
  <2>1. /\ object' = [object EXCEPT !.pData = new, !.Pos = Len(data), !.Length = Len(data)]
        /\ around' = data /\ past' = F!Nothing
    BY <1>11 DEF F!Base64Decode
  <2>2. data \in Seq(Cell) /\ Len(data) \in Nat
    BY TextFacts
  <2>3. room \in Seq(Cell) /\ Len(data) <= Len(room)
    BY <1>0, <2>2, GrowFacts
  <2> HIDE DEF room
  <2>4. new \in Seq(Cell) /\ Begins(new, Len(data), data)
    BY <2>2, <2>3, ReplaceFacts
  <2> HIDE DEF new
  <2>5. object' \in MemFiles /\ object'.pData = new /\ object'.Pos = Len(data) /\ object'.Length = Len(data)
    BY <1>0, <2>1, <2>2, <2>4 DEF MemFiles
  <2>6. Len(data) <= Len(data)
    BY <2>2
  <2>7. QED BY <2>1, <2>2, <2>4, <2>5, <2>6, <1>w
<1>12. QED
  BY <1>1, <1>2, <1>3, <1>4, <1>5, <1>6, <1>7, <1>8, <1>9, <1>10, <1>11 DEF F!Next, F!Seek

-----------------------------------------------------------------------------
(* The request *)

\* The bytes of the responses, and the one OnRead() fills its room with (the
\* provers do not know a string when they see one).
Octets == STRING \cup {"0"}

Requests == [socket : BOOLEAN, url : URLs \cup {"none"}, sendrequest : BOOLEAN, complete : BOOLEAN,
             data : Seq(Octets), pos : Nat]

\* r holds the last r.pos bytes of the first `taken' of a response.
Holding(r, response, taken) ==
    /\ r \in Requests /\ r.pos <= Len(r.data) /\ r.pos <= taken
    /\ \A k \in 1..r.pos : r.data[k] = response[taken - r.pos + k]

\* The request is sent once: it waits to be sent only while none was.
RequestInv ==
    /\ Holding(object, past.response, past.taken)
    /\ past.response \in Seq(Octets) /\ past.taken \in 0..Len(past.response)
    /\ past.asked = <<>> \/ (~object.sendrequest /\ Len(past.asked) = 1)
    /\ past = [response |-> past.response, taken |-> past.taken, asked |-> past.asked]

LEMMA RequestInit == R!Init => RequestInv
BY DEF R!Init, RequestInv, Holding, Requests

\* Bytes taken out of the front.
LEMMA RemoveBytesFacts ==
    ASSUME NEW r, NEW s \in Seq(Octets), NEW t \in Nat, Holding(r, s, t), NEW n \in 0..r.pos
    PROVE  /\ Holding(R!RemoveBytes(r, n), s, t)
           /\ R!RemoveBytes(r, n).sendrequest = r.sendrequest
<1> DEFINE data == [k \in DOMAIN r.data |-> IF k <= r.pos - n THEN r.data[k + n] ELSE r.data[k]]
           q == R!RemoveBytes(r, n)
<1>1. q = [r EXCEPT !.pos = r.pos - n, !.data = data]
  BY DEF R!RemoveBytes
<1>2. r \in Requests /\ r.pos \in Nat /\ r.data \in Seq(Octets) /\ r.pos <= Len(r.data) /\ r.pos <= t
  BY DEF Holding, Requests
<1>3. Len(r.data) \in Nat /\ DOMAIN r.data = 1..Len(r.data) /\ \A k \in 1..Len(r.data) : r.data[k] \in Octets
  BY <1>2
<1>4. ASSUME NEW k \in 1..Len(r.data) PROVE data[k] \in Octets /\ (k <= r.pos - n => data[k] = r.data[k + n])
  <2>1. k <= r.pos - n => k + n \in 1..Len(r.data)
    BY <1>2, <1>3
  <2>2. QED BY <1>3, <2>1
<1>5. data \in Seq(Octets) /\ Len(data) = Len(r.data)
  <2>1. DOMAIN data = 1..Len(r.data) /\ data = [k \in DOMAIN data |-> data[k]]
    BY <1>3
  <2> HIDE DEF data
  <2>2. data \in [1..Len(r.data) -> Octets]
    BY <1>4, <2>1
  <2>3. QED BY <1>3, <2>2, FunctionIsSequence
<1> HIDE DEF data, q
<1>6. q \in Requests /\ q.pos = r.pos - n /\ q.data = data /\ q.sendrequest = r.sendrequest
  <2>1. q = [socket |-> r.socket, url |-> r.url, sendrequest |-> r.sendrequest, complete |-> r.complete,
             data |-> data, pos |-> r.pos - n]
    BY <1>1, <1>2 DEF Requests
  <2>2. r.pos - n \in Nat
    BY <1>2
  <2>3. QED BY <1>2, <1>5, <2>1, <2>2 DEF Requests
<1>7. ASSUME NEW k \in 1..q.pos PROVE q.data[k] = s[t - q.pos + k]
  <2>1. k \in 1..Len(r.data) /\ k <= r.pos - n /\ k + n \in 1..r.pos
    BY <1>2, <1>3, <1>6
  <2>2. q.data[k] = r.data[k + n]
    BY <1>4, <1>6, <2>1
  <2>3. r.data[k + n] = s[t - r.pos + (k + n)]
    BY <2>1 DEF Holding
  <2>4. t - r.pos + (k + n) = t - q.pos + k
    BY <1>2, <1>6
  <2>5. QED BY <2>2, <2>3, <2>4
<1>8. Holding(q, s, t)
  BY <1>2, <1>5, <1>6, <1>7 DEF Holding
<1>9. QED BY <1>6, <1>8 DEF q

\* GetHeader() takes out a line of what is there, or nothing.
LEMMA GetHeaderFacts ==
    ASSUME NEW r, NEW s \in Seq(Octets), NEW t \in Nat, Holding(r, s, t), NEW m \in 1..Chunk
    PROVE  /\ Holding(R!GetHeader(r, m), s, t)
           /\ R!GetHeader(r, m).sendrequest = r.sendrequest
<1> DEFINE ends == R!LineEnds(r, m)
           first == CHOOSE k \in ends : \A l \in ends : k <= l
<1>1. r.pos \in Nat /\ ends \in SUBSET (1..(r.pos - 1))
  BY DEF Holding, Requests, R!LineEnds
<1>2. CASE ends = {}
  BY <1>2 DEF R!GetHeader
<1>3. CASE ends # {}
  <2>1. ends \in SUBSET Nat
    BY <1>1
  <2>2. \E k \in ends : \A l \in ends : k <= l
    BY <1>3, <2>1, Least
  <2>3. R!GetHeader(r, m) = R!RemoveBytes(r, 1 + first)
    BY <1>3 DEF R!GetHeader
  <2> HIDE DEF ends
  <2>4. first \in ends
    BY <2>2
  <2> HIDE DEF first
  <2>5. 1 + first \in 0..r.pos
    BY <1>1, <2>4
  <2>6. QED BY <2>3, <2>5, RemoveBytesFacts
<1>4. QED BY <1>2, <1>3

LEMMA ProcessDataFacts ==
    ASSUME NEW r, NEW s \in Seq(Octets), NEW t \in Nat, Holding(r, s, t), NEW q \in R!ProcessData(r)
    PROVE  Holding(q, s, t) /\ q.sendrequest = r.sendrequest
<1>1. ASSUME NEW n \in 0..r.pos, q = R!RemoveBytes(r, n)
      PROVE  Holding(q, s, t) /\ q.sendrequest = r.sendrequest
  BY <1>1, RemoveBytesFacts
<1>2. ASSUME NEW m \in 1..Chunk, q = R!GetHeader(r, m)
      PROVE  Holding(q, s, t) /\ q.sendrequest = r.sendrequest
  BY <1>2, GetHeaderFacts
<1>3. ASSUME NEW url \in URLs, q = [r EXCEPT !.url = url, !.complete = FALSE]
      PROVE  Holding(q, s, t) /\ q.sendrequest = r.sendrequest
  <2>1. q \in Requests /\ q.pos = r.pos /\ q.data = r.data /\ q.sendrequest = r.sendrequest
    BY <1>3 DEF Holding, Requests
  <2>2. QED BY <2>1 DEF Holding
<1>4. QED BY <1>1, <1>2, <1>3 DEF R!ProcessData

\* OnRead() puts the next bytes behind those that are there.
LEMMA ReceivedFacts ==
    ASSUME NEW r, NEW s \in Seq(Octets), NEW t \in Nat, Holding(r, s, t),
           NEW n \in 0..Chunk, t + n <= Len(s)
    PROVE  /\ Holding(R!Received(r, SubSeq(s, t + 1, t + n)), s, t + n)
           /\ R!Received(r, SubSeq(s, t + 1, t + n)).sendrequest = r.sendrequest
<1> DEFINE bytes == SubSeq(s, t + 1, t + n)
           q == R!Received(r, bytes)
           length == IF Len(r.data) < r.pos + Chunk THEN r.pos + Chunk ELSE Len(r.data)
           room == [k \in 1..length |-> IF k \in DOMAIN r.data THEN r.data[k] ELSE "0"]
           data == [k \in DOMAIN room |-> IF k - r.pos \in DOMAIN bytes THEN bytes[k - r.pos] ELSE room[k]]
<1>0. n \in Nat
  BY ObjectsAssumption DEF ObjectsAssumption
<1>1. bytes \in Seq(Octets) /\ Len(bytes) = n /\ DOMAIN bytes = 1..n
      /\ \A k \in 1..n : bytes[k] = s[t + k] /\ bytes[k] \in Octets
  <2>1. bytes \in Seq(Octets) /\ Len(bytes) = n
    BY <1>0
  <2>2. \A k \in 1..n : bytes[k] = s[t + k]
    BY <1>0
  <2> HIDE DEF bytes
  <2>3. QED BY <2>1, <2>2, QueueFacts
<1>2. q = [r EXCEPT !.pos = r.pos + Len(bytes), !.data = data]
  BY DEF R!Received
<1> HIDE DEF bytes
<1>3. r \in Requests /\ r.pos \in Nat /\ r.data \in Seq(Octets) /\ r.pos <= Len(r.data) /\ r.pos <= t
  BY DEF Holding, Requests
<1>4. Len(r.data) \in Nat /\ DOMAIN r.data = 1..Len(r.data) /\ \A k \in 1..Len(r.data) : r.data[k] \in Octets
  BY <1>3
<1>5. length \in Nat /\ Len(r.data) <= length
  BY <1>3, <1>4, ObjectsAssumption DEF ObjectsAssumption
<1>6. DOMAIN room = 1..length /\ \A k \in 1..length : room[k] \in Octets
  <2>1. "0" \in Octets
    BY DEF Octets
  <2>2. ASSUME NEW k \in 1..length PROVE room[k] \in Octets
    <3>1. CASE k \in DOMAIN r.data
      BY <1>4, <3>1
    <3>2. CASE k \notin DOMAIN r.data
      BY <2>1, <3>2
    <3>3. QED BY <3>1, <3>2
  <2>3. QED BY <2>2
<1>7. \A k \in 1..r.pos : room[k] = r.data[k]
  BY <1>3, <1>4, <1>5
<1> HIDE DEF length
<1>8. ASSUME NEW k \in 1..length
      PROVE  data[k] = IF k - r.pos \in 1..n THEN bytes[k - r.pos] ELSE room[k]
  BY <1>1, <1>6
<1>9. DOMAIN data = 1..length /\ data = [k \in 1..length |-> data[k]]
  BY <1>6
<1> HIDE DEF room, data, q
<1>10. \A k \in 1..length : data[k] \in Octets
  BY <1>1, <1>6, <1>8
<1>11. data \in Seq(Octets) /\ Len(data) = length
  BY <1>5, <1>9, <1>10
<1>12. q \in Requests /\ q.pos = r.pos + n /\ q.data = data /\ q.sendrequest = r.sendrequest
  <2>1. q = [socket |-> r.socket, url |-> r.url, sendrequest |-> r.sendrequest, complete |-> r.complete,
             data |-> data, pos |-> r.pos + n]
    BY <1>1, <1>2, <1>3 DEF Requests
  <2>2. QED BY <1>3, <1>11, <2>1 DEF Requests
<1>13. q.pos <= Len(q.data)
  BY <1>3, <1>5, <1>11, <1>12, ObjectsAssumption DEF ObjectsAssumption, length
<1>14. ASSUME NEW k \in 1..q.pos PROVE q.data[k] = s[(t + n) - q.pos + k]
  <2>1. k \in 1..length
    BY <1>3, <1>11, <1>12, <1>13
  <2>2. CASE k \in 1..r.pos
    <3>1. k - r.pos \notin 1..n
      BY <1>3, <2>2
    <3>2. q.data[k] = r.data[k]
      BY <1>7, <1>8, <1>12, <2>1, <2>2, <3>1
    <3>3. r.data[k] = s[t - r.pos + k]
      BY <2>2 DEF Holding
    <3>4. t - r.pos + k = (t + n) - q.pos + k
      BY <1>3, <1>12, <2>2
    <3>5. QED BY <3>2, <3>3, <3>4
  <2>3. CASE k \notin 1..r.pos
    <3>1. k - r.pos \in 1..n
      BY <1>3, <1>12, <2>3
    <3>2. q.data[k] = s[t + (k - r.pos)]
      BY <1>1, <1>8, <1>12, <2>1, <3>1
    <3>3. t + (k - r.pos) = (t + n) - q.pos + k
      BY <1>3, <1>12, <2>1
    <3>4. QED BY <3>2, <3>3
  <2>4. QED BY <2>2, <2>3
<1>15. q.pos <= t + n
  BY <1>3, <1>12
<1>16. Holding(q, s, t + n) /\ q.sendrequest = r.sendrequest
  BY <1>12, <1>13, <1>14, <1>15 DEF Holding
<1>17. QED BY <1>16 DEF q, bytes

LEMMA CleanupFacts ==
    ASSUME NEW r, NEW s, NEW t \in Nat, Holding(r, s, t)
    PROVE  Holding(R!Cleanup(r), s, t) /\ R!Cleanup(r).sendrequest = FALSE
<1>1. r \in Requests
  BY DEF Holding
<1> DEFINE q == R!Cleanup(r)
           complete == IF R!IsOpen(r) THEN r.data # <<>> ELSE r.complete
<1>2. complete \in BOOLEAN
  BY <1>1 DEF Requests
<1>3. q = [r EXCEPT !.socket = FALSE, !.complete = complete, !.data = <<>>, !.pos = 0, !.sendrequest = FALSE]
  BY DEF R!Cleanup
<1> HIDE DEF q, complete
<1>4. q = [socket |-> FALSE, url |-> r.url, sendrequest |-> FALSE, complete |-> complete,
           data |-> <<>>, pos |-> 0]
  BY <1>1, <1>3 DEF Requests
<1>5. q \in Requests /\ q.pos = 0 /\ q.data = <<>> /\ q.sendrequest = FALSE
  BY <1>1, <1>2, <1>4 DEF Requests
<1>6. QED BY <1>5 DEF Holding, q

LEMMA RequestMeans == RequestInv => R!ResponseInOrder
<1> SUFFICES ASSUME RequestInv PROVE R!ResponseInOrder
  OBVIOUS
<1> DEFINE got == SubSeq(object.data, 1, object.pos)
           sent == SubSeq(past.response, past.taken - object.pos + 1, past.taken)
<1>1. /\ object.data \in Seq(Octets) /\ object.pos \in Nat /\ object.pos <= Len(object.data)
      /\ object.pos <= past.taken /\ past.response \in Seq(Octets) /\ past.taken \in 0..Len(past.response)
  BY DEF RequestInv, Holding, Requests
<1>2. got \in Seq(Octets) /\ Len(got) = object.pos /\ \A k \in 1..object.pos : got[k] = object.data[k]
  BY <1>1
<1>3. /\ sent \in Seq(Octets) /\ Len(sent) = object.pos
      /\ \A k \in 1..object.pos : sent[k] = past.response[past.taken - object.pos + k]
  BY <1>1
<1>4. \A k \in 1..object.pos : object.data[k] = past.response[past.taken - object.pos + k]
  BY DEF RequestInv, Holding
<1>5. got = sent
  <2> HIDE DEF got, sent
  <2>1. \A k \in 1..Len(got) : got[k] = sent[k]
    BY <1>2, <1>3, <1>4
  <2>2. QED BY <1>2, <1>3, <2>1, SameLength
<1>6. Len(past.asked) <= 1
  <2>1. past.asked = <<>> \/ Len(past.asked) = 1
    BY DEF RequestInv
  <2>2. CASE past.asked = <<>>
    <3>1. Len(past.asked) = 0
      BY <2>2
    <3>2. QED BY <3>1
  <2>3. CASE Len(past.asked) = 1
    BY <2>3
  <2>4. QED BY <2>1, <2>2, <2>3
<1>7. QED BY <1>1, <1>5, <1>6 DEF R!ResponseInOrder

LEMMA RequestStep == RequestInv /\ R!Next => RequestInv'
<1> SUFFICES ASSUME RequestInv, R!Next PROVE RequestInv'
  OBVIOUS
<1>0. /\ Holding(object, past.response, past.taken)
      /\ past.response \in Seq(Octets) /\ past.taken \in 0..Len(past.response)
      /\ past.asked = <<>> \/ (~object.sendrequest /\ Len(past.asked) = 1)
      /\ past = [response |-> past.response, taken |-> past.taken, asked |-> past.asked]
  BY DEF RequestInv
<1>t. past.taken \in Nat
  BY <1>0
\* A step that keeps what is held and what was taken, and does not ask again.
<1>k. ASSUME Holding(object', past.response, past.taken), past' = past,
             object'.sendrequest => object.sendrequest
      PROVE  RequestInv'
  BY <1>0, <1>k DEF RequestInv
<1>c. Holding(R!Cleanup(object), past.response, past.taken) /\ R!Cleanup(object).sendrequest = FALSE
  BY <1>0, <1>t, CleanupFacts
<1>1. ASSUME NEW url \in URLs, R!OpenURL(url) PROVE RequestInv'
  <2>1. CASE object' = [object EXCEPT !.url = url, !.complete = FALSE] /\ UNCHANGED <<around, past>>
    <3>1. object' \in Requests /\ object'.pos = object.pos /\ object'.data = object.data
          /\ object'.sendrequest = object.sendrequest
      BY <1>0, <2>1 DEF Holding, Requests
    <3>2. Holding(object', past.response, past.taken)
      BY <1>0, <3>1 DEF Holding
    <3>3. QED BY <1>k, <2>1, <3>1, <3>2
  <2>2. CASE /\ object' = [object EXCEPT !.url = url, !.socket = TRUE, !.complete = FALSE,
                                        !.sendrequest = TRUE, !.pos = 0]
             /\ \E response \in Responses : past' = [response |-> response, taken |-> 0, asked |-> <<>>]
    <3>1. PICK response \in Responses : past' = [response |-> response, taken |-> 0, asked |-> <<>>]
      BY <2>2
    <3>2. object' \in Requests /\ object'.pos = 0 /\ object'.data = object.data
      BY <1>0, <2>2 DEF Holding, Requests
    <3>3. response \in Seq(Octets)
      BY ObjectsAssumption DEF ObjectsAssumption, Octets
    <3>4. object.data \in Seq(Octets)
      BY <1>0 DEF Holding, Requests
    <3>5. Holding(object', response, 0)
      BY <3>2, <3>4 DEF Holding
    <3>6. QED BY <3>1, <3>3, <3>5 DEF RequestInv
  <2>3. QED BY <1>1, <2>1, <2>2 DEF R!OpenURL
<1>2. CASE R!Close
  <2>1. past' = past /\ (object' = object \/ object' = R!Cleanup(object))
    BY <1>2 DEF R!Close, R!Closed
  <2>2. QED BY <1>0, <1>c, <1>k, <2>1
<1>3. CASE R!BeginPass
  BY <1>0, <1>3, <1>k DEF R!BeginPass
<1>4. CASE R!OnRead
  <2>1. CASE UNCHANGED <<object, past>>
    BY <1>0, <1>k, <2>1
  <2>2. ASSUME NEW n \in 0..Chunk, R!Read(n) PROVE RequestInv'
    <3> DEFINE q == R!Received(object, SubSeq(past.response, past.taken + 1, past.taken + n))
    <3>1. past.taken + n <= Len(past.response) /\ past' = [past EXCEPT !.taken = @ + n]
      BY <2>2 DEF R!Read
    <3>2. object' = q \/ object' \in R!ProcessData(q)
      BY <2>2 DEF R!Read
    <3>3. Holding(q, past.response, past.taken + n) /\ q.sendrequest = object.sendrequest
      BY <1>0, <1>t, <3>1, ReceivedFacts
    <3> HIDE DEF q
    <3>4. past.taken + n \in Nat
      BY <1>t, ObjectsAssumption DEF ObjectsAssumption
    <3>5. Holding(object', past.response, past.taken + n) /\ object'.sendrequest = object.sendrequest
      BY <1>0, <3>2, <3>3, <3>4, ProcessDataFacts
    <3>6. past' = [response |-> past.response, taken |-> past.taken + n, asked |-> past.asked]
      BY <1>0, <3>1
    <3>7. QED BY <1>0, <3>1, <3>4, <3>5, <3>6 DEF RequestInv
  <2>3. QED BY <1>4, <2>1, <2>2 DEF R!OnRead
<1>5. CASE R!OnWrite
  <2>1. CASE UNCHANGED <<object, past>>
    BY <1>0, <1>k, <2>1
  <2>2. CASE /\ object.sendrequest /\ object' = R!Sent(object)
             /\ past' = IF around.handler = "live" THEN [past EXCEPT !.asked = Append(@, object.url)] ELSE past
    <3>1. object' \in Requests /\ object'.pos = object.pos /\ object'.data = object.data
          /\ object'.sendrequest = FALSE
      BY <1>0, <2>2 DEF Holding, Requests, R!Sent
    <3>2. Holding(object', past.response, past.taken)
      BY <1>0, <3>1 DEF Holding
    <3>3. past.asked = <<>>
      BY <1>0, <2>2
    <3>4. CASE around.handler = "live"
      <4>1. past' = [response |-> past.response, taken |-> past.taken, asked |-> Append(<<>>, object.url)]
        BY <1>0, <2>2, <3>3, <3>4
      <4>2. Len(Append(<<>>, object.url)) = 1
        OBVIOUS
      <4>3. QED BY <1>0, <3>1, <3>2, <4>1, <4>2 DEF RequestInv
    <3>5. CASE around.handler # "live"
      BY <1>k, <2>2, <3>1, <3>2, <3>5
    <3>6. QED BY <3>4, <3>5
  <2>3. QED BY <1>5, <2>1, <2>2 DEF R!OnWrite
<1>6. CASE R!EndPass
  <2>1. past' = past /\ (object' = object \/ object' = R!Cleanup(object))
    BY <1>6 DEF R!EndPass
  <2>2. QED BY <1>0, <1>c, <1>k, <2>1
<1>7. QED BY <1>1, <1>2, <1>3, <1>4, <1>5, <1>6 DEF R!Next

-----------------------------------------------------------------------------
(* The database *)

\* The numbers that tell results apart.
Results == 1..(Cardinality(Queries) + 2)

Holdings == [Queries -> Nat]
HeldBy(query) == [q \in Queries |-> query[q].res]

\* What is not cleared is the database's, or a query's, and nobody else's.
Owned(res, held, live) ==
    /\ res \in live \cup {0} /\ \A q \in Queries : held[q] \in live \cup {0}
    /\ \A r \in live : r = res \/ \E q \in Queries : held[q] = r
    /\ \A q \in Queries : held[q] # 0 => held[q] # res
    /\ \A p, q \in Queries : held[p] = held[q] /\ held[p] # 0 => p = q

Query == [res : Nat, nrows : Nat, row : Nat, success : BOOLEAN, alive : BOOLEAN]

Idle(query) == \A q \in Queries : ~query[q].alive => query[q].res = 0

\* The rows fetched are the first ones, in order, and no more than there are.
Fetched(query, rows) ==
    \A q \in Queries : /\ \A k \in 1..Len(rows[q]) : rows[q][k] = k - 1
                       /\ query[q].alive => query[q].row = Len(rows[q]) /\ query[q].row <= query[q].nrows

DatabaseInv ==
    /\ object \in [conn : {0, 1}, res : Nat, isopen : BOOLEAN, query : [Queries -> Query]]
    /\ around \in [up : BOOLEAN, things : SUBSET Things, live : SUBSET Results, connected : {0, 1}]
    /\ past \in [rows : [Queries -> Seq(Nat)], asked : SUBSET Things, made : BOOLEAN]
    /\ Owned(object.res, HeldBy(object.query), around.live)
    /\ Idle(object.query)
    /\ Fetched(object.query, past.rows)
    /\ object.isopen <=> around.connected = 1
    /\ past.made => past.asked \subseteq around.things

\* The two counts of a finite set's elements are the same.
LEMMA SameCardinality == ASSUME NEW X PROVE P!Cardinality(X) = Cardinality(X)
BY Zenon DEF Cardinality, P!Cardinality

LEMMA ResultsFacts ==
    /\ Results \subseteq Nat /\ 0 \notin Results /\ IsFiniteSet(Results)
    /\ Cardinality(Results) = Cardinality(Queries) + 2 /\ Cardinality(Queries) \in Nat
<1>1. Cardinality(Queries) \in Nat
  BY ObjectsAssumption, FS_CardinalityType DEF ObjectsAssumption
<1>2. IsFiniteSet(Results) /\ Cardinality(Results) = Cardinality(Queries) + 2
  BY <1>1, FS_Interval DEF Results
<1>3. QED BY <1>1, <1>2 DEF Results

LEMMA ClearOwned ==
    ASSUME NEW res \in Nat, NEW held \in Holdings, NEW live \in SUBSET Results, Owned(res, held, live)
    PROVE  Owned(0, held, live \ {res}) /\ live \ {res} \in SUBSET Results
BY ResultsFacts DEF Owned, Holdings

\* When the database has cleared its own, there is a result nobody holds: each
\* that is held belongs to a query, and there are more numbers than queries.
LEMMA FreshFacts ==
    ASSUME NEW held \in Holdings, NEW live \in SUBSET Results, Owned(0, held, live)
    PROVE  P!Fresh(live) \in Results \ live
<1>1. ASSUME Results \subseteq live PROVE FALSE
  <2> DEFINE f == [r \in Results |-> CHOOSE q \in Queries : held[q] = r]
  <2>1. \A r \in Results : f[r] \in Queries /\ held[f[r]] = r
    BY <1>1, ResultsFacts DEF Owned
  <2>2. f \in [Results -> Queries]
    BY <2>1
  <2> HIDE DEF f
  <2>3. \E x, y \in Results : x # y /\ f[x] = f[y]
    <3>1. IsFiniteSet(Results) /\ IsFiniteSet(Queries) /\ Cardinality(Queries) < Cardinality(Results)
      BY ResultsFacts, ObjectsAssumption DEF ObjectsAssumption
    <3> HIDE DEF Results
    <3>2. QED BY <2>2, <3>1, FS_PigeonHole
  <2>4. QED BY <2>1, <2>3
<1>2. \E r \in Results : r \notin live
  BY <1>1
<1>3. P!Fresh(live) = CHOOSE r \in Results : r \notin live
  BY SameCardinality DEF P!Fresh, Results
<1>4. QED BY <1>2, <1>3

Given(live) == (Results \ live) \cup {0}

LEMMA GivenFacts == \A live, r : r \in Given(live) => r \in Nat
BY ResultsFacts DEF Given

LEMMA ExecOwned ==
    ASSUME NEW held \in Holdings, NEW live \in SUBSET Results, Owned(0, held, live), NEW r \in Given(live)
    PROVE  /\ Owned(r, held, live \cup ({r} \ {0})) /\ r \in Nat
           /\ live \cup ({r} \ {0}) \in SUBSET Results
<1>1. r \in Nat /\ r \notin live /\ (r # 0 => r \in Results)
  BY ResultsFacts DEF Given
<1>2. live \cup ({r} \ {0}) \in SUBSET Results
  BY <1>1
<1>3. Owned(r, held, live \cup ({r} \ {0}))
  BY <1>1, ResultsFacts DEF Owned, Holdings
<1>4. QED BY <1>1, <1>2, <1>3

LEMMA QueryOwned ==
    ASSUME NEW held \in Holdings, NEW live \in SUBSET Results, Owned(0, held, live), NEW r \in Given(live),
           NEW q \in Queries, held[q] = 0
    PROVE  Owned(0, [held EXCEPT ![q] = r], live \cup ({r} \ {0}))
<1> DEFINE new == [held EXCEPT ![q] = r]
<1>1. r \in Nat /\ r \notin live
  BY ResultsFacts DEF Given
<1>2. \A p \in Queries : new[p] = IF p = q THEN r ELSE held[p]
  BY DEF Holdings
<1> HIDE DEF new
<1>3. \A p \in Queries : held[p] # r \/ r = 0
  BY <1>1 DEF Owned
<1>4. Owned(0, new, live \cup ({r} \ {0}))
  BY <1>1, <1>2, <1>3 DEF Owned
<1>5. QED BY <1>4 DEF new

LEMMA DropOwned ==
    ASSUME NEW res \in Nat, NEW held \in Holdings, NEW live \in SUBSET Results, Owned(res, held, live), NEW q \in Queries
    PROVE  Owned(res, [held EXCEPT ![q] = 0], live \ {held[q]}) /\ live \ {held[q]} \in SUBSET Results
<1> DEFINE new == [held EXCEPT ![q] = 0]
<1>1. \A p \in Queries : new[p] = IF p = q THEN 0 ELSE held[p]
  BY DEF Holdings
<1> HIDE DEF new
<1>2. 0 \notin live
  BY ResultsFacts
<1>3. Owned(res, new, live \ {held[q]})
  BY <1>1, <1>2 DEF Owned
<1>4. QED BY <1>3 DEF new

LEMMA HeldFacts ==
    ASSUME NEW query \in [Queries -> Query]
    PROVE  HeldBy(query) \in Holdings /\ \A q \in Queries : HeldBy(query)[q] = query[q].res
BY DEF HeldBy, Holdings, Query

LEMMA DatabaseMeans == DatabaseInv => P!ResultsOwned
<1> SUFFICES ASSUME DatabaseInv PROVE P!ResultsOwned
  OBVIOUS
<1> DEFINE held == HeldBy(object.query)
<1>0. /\ object.query \in [Queries -> Query] /\ around.live \in SUBSET Results
      /\ Owned(object.res, held, around.live) /\ past.rows \in [Queries -> Seq(Nat)]
  BY DEF DatabaseInv
<1>h. held \in Holdings /\ \A q \in Queries : held[q] = object.query[q].res
  BY <1>0, HeldFacts
<1> HIDE DEF held
<1>1. ASSUME NEW r \in around.live
      PROVE  P!Cardinality(P!QueriesWith(r)) + (IF object.res = r THEN 1 ELSE 0) = 1
  <2>0. r # 0
    BY <1>0, ResultsFacts
  <2>1. P!QueriesWith(r) = {q \in Queries : held[q] = r}
    BY <1>h DEF P!QueriesWith
  <2>2. CASE object.res = r
    <3>1. P!QueriesWith(r) = {}
      BY <1>0, <2>0, <2>1, <2>2 DEF Owned
    <3>2. QED BY <2>2, <3>1, SameCardinality, FS_EmptySet
  <2>3. CASE object.res # r
    <3>1. PICK q \in Queries : held[q] = r
      BY <1>0, <2>3 DEF Owned
    <3>2. P!QueriesWith(r) = {q}
      BY <1>0, <2>0, <2>1, <3>1 DEF Owned
    <3>3. Cardinality({q}) = 1
      BY FS_Singleton
    <3>4. QED BY <2>3, <3>2, <3>3, SameCardinality
  <2>4. QED BY <2>2, <2>3
<1>2. \A r \in {object.res} \cup {object.query[q].res : q \in Queries} : r = P!NULL \/ r \in around.live
  BY <1>0, <1>h DEF Owned, P!NULL
<1>3. ASSUME NEW q \in Queries
      PROVE  /\ past.rows[q] = [k \in 1..Len(past.rows[q]) |-> k - 1]
             /\ object.query[q].alive => Len(past.rows[q]) <= object.query[q].nrows
  <2>1. past.rows[q] \in Seq(Nat)
    BY <1>0
  <2>2. /\ \A k \in 1..Len(past.rows[q]) : past.rows[q][k] = k - 1
        /\ object.query[q].alive =>
             object.query[q].row = Len(past.rows[q]) /\ object.query[q].row <= object.query[q].nrows
    BY DEF DatabaseInv, Fetched
  <2>3. past.rows[q] = [k \in 1..Len(past.rows[q]) |-> k - 1]
    <3>1. past.rows[q] \in [1..Len(past.rows[q]) -> Nat]
      BY <2>1
    <3>2. QED BY <2>2, <3>1
  <2>4. QED BY <2>2, <2>3
<1>4. QED BY <1>1, <1>2, <1>3 DEF P!ResultsOwned, DatabaseInv

LEMMA DatabaseInit == P!Init => DatabaseInv
<1> SUFFICES ASSUME P!Init PROVE DatabaseInv
  OBVIOUS
<1> DEFINE none == [res |-> 0, nrows |-> 0, row |-> 0, success |-> FALSE, alive |-> FALSE]
           query == [q \in Queries |-> none]
           rows == [q \in Queries |-> <<>>]
<1>1. /\ object = [conn |-> 0, res |-> 0, isopen |-> FALSE, query |-> query]
      /\ around = [up |-> TRUE, things |-> {}, live |-> {}, connected |-> 0]
      /\ past = [rows |-> rows, asked |-> {}, made |-> FALSE]
  BY DEF P!Init, P!NoQuery, P!NULL
<1>2. none \in Query /\ none.res = 0 /\ ~none.alive
  BY DEF Query
<1> HIDE DEF none
<1>3. query \in [Queries -> Query] /\ \A q \in Queries : query[q].res = 0 /\ ~query[q].alive
  BY <1>2
<1>4. rows \in [Queries -> Seq(Nat)] /\ \A q \in Queries : Len(rows[q]) = 0
  OBVIOUS
<1> HIDE DEF query, rows
<1>5. Idle(query) /\ Fetched(query, rows)
  BY <1>3, <1>4 DEF Idle, Fetched
<1>6. Owned(0, HeldBy(query), {})
  BY <1>3, HeldFacts DEF Owned
<1>7. object \in [conn : {0, 1}, res : Nat, isopen : BOOLEAN, query : [Queries -> Query]]
  BY <1>1, <1>3
<1>8. /\ around \in [up : BOOLEAN, things : SUBSET Things, live : SUBSET Results, connected : {0, 1}]
      /\ past \in [rows : [Queries -> Seq(Nat)], asked : SUBSET Things, made : BOOLEAN]
  BY <1>1, <1>4
<1>9. QED BY <1>1, <1>5, <1>6, <1>7, <1>8 DEF DatabaseInv

LEMMA DatabaseStep == DatabaseInv /\ P!Next => DatabaseInv'
<1> SUFFICES ASSUME DatabaseInv, P!Next PROVE DatabaseInv'
  OBVIOUS
<1> DEFINE Database == [conn : {0, 1}, res : Nat, isopen : BOOLEAN, query : [Queries -> Query]]
           Server == [up : BOOLEAN, things : SUBSET Things, live : SUBSET Results, connected : {0, 1}]
           Past == [rows : [Queries -> Seq(Nat)], asked : SUBSET Things, made : BOOLEAN]
           query == object.query
           live == around.live
           clear == live \ {object.res}
<1>0. /\ object \in Database /\ around \in Server /\ past \in Past
      /\ Owned(object.res, HeldBy(query), live) /\ Idle(query) /\ Fetched(query, past.rows)
      /\ object.isopen <=> around.connected = 1
      /\ past.made => past.asked \subseteq around.things
  BY DEF DatabaseInv
<1>1. /\ query \in [Queries -> Query] /\ object.res \in Nat /\ object.conn \in {0, 1} /\ object.isopen \in BOOLEAN
      /\ live \in SUBSET Results /\ around.things \in SUBSET Things /\ around.connected \in {0, 1}
      /\ around.up \in BOOLEAN
      /\ past.rows \in [Queries -> Seq(Nat)] /\ past.asked \in SUBSET Things /\ past.made \in BOOLEAN
  BY <1>0
<1>2. HeldBy(query) \in Holdings /\ \A q \in Queries : HeldBy(query)[q] = query[q].res
  BY <1>1, HeldFacts
<1>3. Owned(0, HeldBy(query), clear) /\ clear \in SUBSET Results
  BY <1>0, <1>1, <1>2, ClearOwned
<1>4. P!ClearResult(live) = clear
  BY DEF P!ClearResult
<1>5. P!Fresh(clear) \in Results \ clear
  BY <1>2, <1>3, FreshFacts
<1>6. \A null \in BOOLEAN : (IF null THEN P!NULL ELSE P!Fresh(clear)) \in Given(clear)
  BY <1>5 DEF P!NULL, Given
\* A step is good when the parts that it changes are.
<1>s. ASSUME object' \in Database, around' \in Server, past' \in Past,
             Owned(object'.res, HeldBy(object'.query), around'.live),
             Idle(object'.query), Fetched(object'.query, past'.rows),
             object'.isopen <=> around'.connected = 1, past'.made => past'.asked \subseteq around'.things
      PROVE  DatabaseInv'
  BY <1>s DEF DatabaseInv
<1>p. /\ object = [conn |-> object.conn, res |-> object.res, isopen |-> object.isopen, query |-> query]
      /\ around = [up |-> around.up, things |-> around.things, live |-> live, connected |-> around.connected]
      /\ past = [rows |-> past.rows, asked |-> past.asked, made |-> past.made]
  BY <1>0
<1> HIDE DEF Database, Server, Past
\* The rows kept, with what was asked for now.
<1>7. /\ P!NothingAsked => past' = [rows |-> past.rows, asked |-> {}, made |-> FALSE]
      /\ \A things \in SUBSET Things, made \in BOOLEAN :
           P!Asked(things, made) => past' = [rows |-> past.rows, asked |-> things, made |-> made]
  BY <1>p DEF P!NothingAsked, P!Asked
<1>8. {} \in SUBSET Things /\ FALSE \in BOOLEAN
  OBVIOUS
<1>9. CASE P!Open
  <2>1. PICK connects \in BOOLEAN :
          /\ object' = [object EXCEPT !.res = P!NULL, !.conn = IF connects THEN 1 ELSE P!NULL, !.isopen = connects]
          /\ around' = [around EXCEPT !.live = P!ClearResult(@), !.connected = IF connects THEN 1 ELSE 0]
    BY <1>9 DEF P!Open
  <2>2. object' = [conn |-> IF connects THEN 1 ELSE 0, res |-> 0, isopen |-> connects, query |-> query]
    BY <1>p, <2>1 DEF P!NULL
  <2>3. around' = [up |-> around.up, things |-> around.things, live |-> clear,
                   connected |-> IF connects THEN 1 ELSE 0]
    BY <1>p, <1>4, <2>1
  <2>4. past' = [rows |-> past.rows, asked |-> {}, made |-> FALSE]
    BY <1>9, <1>7 DEF P!Open
  <2>5. (IF connects THEN 1 ELSE 0) \in {0, 1} /\ (connects <=> (IF connects THEN 1 ELSE 0) = 1)
    OBVIOUS
  <2>6. object' \in Database /\ around' \in Server /\ past' \in Past
    BY <1>0, <1>1, <1>3, <1>8, <2>2, <2>3, <2>4, <2>5 DEF Database, Server, Past
  <2>7. QED BY <1>0, <1>1, <1>3, <1>8, <2>2, <2>3, <2>4, <2>5, <2>6, <1>s
<1>10. CASE P!Close
  <2>2. object' = [conn |-> 0, res |-> 0, isopen |-> FALSE, query |-> query]
    BY <1>10, <1>p DEF P!Close, P!NULL
  <2>3. around' = [up |-> around.up, things |-> around.things, live |-> clear, connected |-> 0]
    BY <1>10, <1>p, <1>4 DEF P!Close
  <2>4. past' = [rows |-> past.rows, asked |-> {}, made |-> FALSE]
    BY <1>10, <1>7 DEF P!Close
  <2>6. object' \in Database /\ around' \in Server /\ past' \in Past
    BY <1>0, <1>1, <1>3, <1>8, <2>2, <2>3, <2>4 DEF Database, Server, Past
  <2>7. QED BY <1>0, <1>1, <1>3, <1>8, <2>2, <2>3, <2>4, <2>6, <1>s
<1>11. CASE P!Reach
  <2>2. object' = [conn |-> object.conn, res |-> object.res, isopen |-> object.isopen, query |-> query]
    BY <1>11, <1>p DEF P!Reach
  <2>3. around' = [up |-> ~around.up, things |-> around.things, live |-> live, connected |-> around.connected]
    BY <1>11, <1>p DEF P!Reach
  <2>4. past' = [rows |-> past.rows, asked |-> {}, made |-> FALSE]
    BY <1>11, <1>7 DEF P!Reach
  <2>5. (~around.up) \in BOOLEAN
    OBVIOUS
  <2>6. object' \in Database /\ around' \in Server /\ past' \in Past
    BY <1>0, <1>1, <1>8, <2>2, <2>3, <2>4, <2>5 DEF Database, Server, Past
  <2>7. QED BY <1>0, <1>1, <1>8, <2>2, <2>3, <2>4, <2>5, <2>6, <1>s
\* A command: its result is the database's, and a thing may be made.
<1>12. ASSUME NEW thing \in Things, NEW null \in BOOLEAN, NEW ok \in BOOLEAN, NEW exists \in BOOLEAN,
              NEW made \in BOOLEAN,
              P!RunSQL(thing, [null |-> null, ok |-> ok, exists |-> exists]), P!Asked({thing}, made),
              made => ok \/ thing \in around.things
       PROVE  DatabaseInv'
  <2> DEFINE r == IF null THEN P!NULL ELSE P!Fresh(clear)
             more == clear \cup ({r} \ {0})
             things == IF ok THEN around.things \cup {thing} ELSE around.things
  <2>1. /\ object' = [object EXCEPT !.res = r]
        /\ around' = [around EXCEPT !.live = more, !.things = things]
    BY <1>12, <1>4 DEF P!RunSQL, P!NULL
  <2>2. r \in Given(clear)
    BY <1>6
  <2>3. things \in SUBSET Things /\ (made => {thing} \subseteq things) /\ {thing} \in SUBSET Things
    BY <1>1, <1>12
  <2> HIDE DEF r, things
  <2>4. Owned(r, HeldBy(query), more) /\ r \in Nat /\ more \in SUBSET Results
    BY <1>2, <1>3, <2>2, ExecOwned
  <2> HIDE DEF more
  <2>5. object' = [conn |-> object.conn, res |-> r, isopen |-> object.isopen, query |-> query]
    BY <1>p, <2>1
  <2>6. around' = [up |-> around.up, things |-> things, live |-> more, connected |-> around.connected]
    BY <1>p, <2>1
  <2>7. past' = [rows |-> past.rows, asked |-> {thing}, made |-> made]
    BY <1>7, <1>12, <2>3
  <2>8. object' \in Database /\ around' \in Server /\ past' \in Past
    BY <1>0, <1>1, <2>3, <2>4, <2>5, <2>6, <2>7 DEF Database, Server, Past
  <2>9. QED BY <1>0, <1>1, <2>3, <2>4, <2>5, <2>6, <2>7, <2>8, <1>s
\* Without a connection nothing is made.
<1>13. ASSUME NEW asked \in SUBSET Things, UNCHANGED <<object, around>>, P!Asked(asked, FALSE)
       PROVE  DatabaseInv'
  <2>1. /\ object' = [conn |-> object.conn, res |-> object.res, isopen |-> object.isopen, query |-> query]
        /\ around' = [up |-> around.up, things |-> around.things, live |-> live, connected |-> around.connected]
    BY <1>13, <1>p
  <2>2. past' = [rows |-> past.rows, asked |-> asked, made |-> FALSE]
    BY <1>7, <1>8, <1>13
  <2>3. object' \in Database /\ around' \in Server /\ past' \in Past
    BY <1>0, <1>1, <1>8, <2>1, <2>2 DEF Database, Server, Past
  <2>4. QED BY <1>0, <1>1, <1>8, <2>1, <2>2, <2>3, <1>s
<1>14. ASSUME NEW thing \in Things, P!Create(thing) PROVE DatabaseInv'
  <2>1. CASE UNCHANGED <<object, around>> /\ P!Asked({thing}, FALSE)
    BY <1>13, <2>1
  <2>2. ASSUME NEW x \in P!Outcomes(thing), P!RunSQL(thing, x), P!Asked({thing}, x.ok \/ x.exists)
        PROVE  DatabaseInv'
    <3>1. PICK null \in BOOLEAN, ok \in BOOLEAN, exists \in BOOLEAN :
            x = [null |-> null, ok |-> ok, exists |-> exists] /\ (exists => thing \in around.things)
      BY DEF P!Outcomes
    <3>2. (x.ok \/ x.exists) = (ok \/ exists) /\ (ok \/ exists) \in BOOLEAN
      BY <3>1
    <3>3. P!Asked({thing}, ok \/ exists) /\ P!RunSQL(thing, [null |-> null, ok |-> ok, exists |-> exists])
      BY <2>2, <3>1, <3>2
    <3>4. ok \/ exists => ok \/ thing \in around.things
      BY <3>1
    <3>5. QED BY <1>12, <3>2, <3>3, <3>4
  <2>3. QED BY <1>14, <2>1, <2>2 DEF P!Create
<1>15. ASSUME NEW thing \in Things, P!Grant(thing) PROVE DatabaseInv'
  <2>1. PICK null \in BOOLEAN, ok \in BOOLEAN :
          /\ ok => ~null /\ around.up /\ thing \in around.things
          /\ P!RunSQL(thing, [null |-> null, ok |-> ok, exists |-> FALSE]) /\ P!Asked({thing}, ok)
    BY <1>15 DEF P!Grant
  <2>2. QED BY <1>8, <1>12, <2>1
<1>16. ASSUME NEW thing \in Things, NEW exists \in BOOLEAN, P!Table(thing, exists) PROVE DatabaseInv'
  <2>1. CASE UNCHANGED <<object, around>> /\ P!Asked(IF exists THEN {} ELSE {thing}, FALSE)
    <3>1. (IF exists THEN {} ELSE {thing}) \in SUBSET Things
      OBVIOUS
    <3>2. QED BY <1>13, <2>1, <3>1
  <2>2. ASSUME NEW success \in BOOLEAN,
               object' = [object EXCEPT !.res = P!NULL],
               around' = [around EXCEPT !.live = P!ClearResult(@),
                                        !.things = IF success THEN @ \cup {thing} ELSE @],
               P!Asked({thing}, success)
        PROVE  DatabaseInv'
    <3> DEFINE things == IF success THEN around.things \cup {thing} ELSE around.things
    <3>1. object' = [conn |-> object.conn, res |-> 0, isopen |-> object.isopen, query |-> query]
      BY <1>p, <2>2 DEF P!NULL
    <3>2. around' = [up |-> around.up, things |-> things, live |-> clear, connected |-> around.connected]
      BY <1>p, <1>4, <2>2
    <3>3. things \in SUBSET Things /\ (success => {thing} \subseteq things) /\ {thing} \in SUBSET Things
      BY <1>1
    <3> HIDE DEF things
    <3>4. past' = [rows |-> past.rows, asked |-> {thing}, made |-> success]
      BY <1>7, <2>2, <3>3
    <3>5. 0 \in Nat
      OBVIOUS
    <3>6. object' \in Database /\ around' \in Server /\ past' \in Past
      BY <1>0, <1>1, <1>3, <3>1, <3>2, <3>3, <3>4, <3>5 DEF Database, Server, Past
    <3>7. QED BY <1>0, <1>1, <1>3, <3>1, <3>2, <3>3, <3>4, <3>5, <3>6, <1>s
  <2>3. QED BY <1>16, <2>1, <2>2 DEF P!Table
<1>17. ASSUME NEW q \in Queries, P!RunQuery(q) PROVE DatabaseInv'
  <2>1. PICK rows \in -1..MaxRows, null \in BOOLEAN :
          LET r == IF null THEN P!NULL ELSE P!Fresh(clear) IN
          /\ object' = [object EXCEPT !.res = P!NULL,
                                      !.query[q] = [res |-> r, nrows |-> IF rows < 0 THEN 0 ELSE rows, row |-> 0,
                                                    success |-> rows >= 0, alive |-> TRUE]]
          /\ around' = [around EXCEPT !.live = clear \cup ({r} \ {P!NULL})]
    BY <1>17, <1>4 DEF P!RunQuery
  <2> DEFINE r == IF null THEN P!NULL ELSE P!Fresh(clear)
             new == [res |-> r, nrows |-> IF rows < 0 THEN 0 ELSE rows, row |-> 0,
                     success |-> rows >= 0, alive |-> TRUE]
             newquery == [query EXCEPT ![q] = new]
             more == clear \cup ({r} \ {0})
             fetched == [past.rows EXCEPT ![q] = <<>>]
  <2>2. r \in Given(clear)
    BY <1>6
  <2>3. r \in Nat
    <3> HIDE DEF r, clear
    <3>1. QED BY <2>2, GivenFacts
  <2>4. new \in Query /\ new.res = r /\ new.alive /\ new.row = 0 /\ new.nrows >= 0
    BY <2>3, ObjectsAssumption DEF Query, ObjectsAssumption
  <2>5. object' = [conn |-> object.conn, res |-> 0, isopen |-> object.isopen, query |-> newquery]
    BY <1>p, <2>1 DEF P!NULL
  <2>6. around' = [up |-> around.up, things |-> around.things, live |-> more, connected |-> around.connected]
    BY <1>p, <2>1 DEF P!NULL
  <2>7. past' = [rows |-> fetched, asked |-> {}, made |-> FALSE]
    BY <1>17 DEF P!RunQuery
  <2> HIDE DEF r, new
  <2>8. newquery \in [Queries -> Query] /\ \A p \in Queries : newquery[p] = IF p = q THEN new ELSE query[p]
    BY <1>1, <2>4
  <2>9. /\ fetched \in [Queries -> Seq(Nat)]
        /\ \A p \in Queries : fetched[p] = IF p = q THEN <<>> ELSE past.rows[p]
    BY <1>1
  <2> HIDE DEF fetched
  <2>10. HeldBy(newquery) = [HeldBy(query) EXCEPT ![q] = r]
    BY <2>4, <2>8 DEF HeldBy
  <2>11. HeldBy(query)[q] = 0
    BY <1>0, <1>2, <1>17 DEF P!RunQuery, Idle
  <2> HIDE DEF newquery
  <2>12. Owned(0, HeldBy(newquery), more)
    BY <1>2, <1>3, <2>2, <2>10, <2>11, QueryOwned
  <2>13. more \in SUBSET Results
    BY <1>2, <1>3, <2>2, ExecOwned
  <2> HIDE DEF more
  <2>14. Idle(newquery)
    BY <1>0, <2>4, <2>8 DEF Idle
  <2>15. Len(<<>>) = 0 /\ 0 \in Nat
    OBVIOUS
  <2>16. Fetched(newquery, fetched)
    <3>1. ASSUME NEW p \in Queries
          PROVE  /\ \A k \in 1..Len(fetched[p]) : fetched[p][k] = k - 1
                 /\ newquery[p].alive => newquery[p].row = Len(fetched[p]) /\ newquery[p].row <= newquery[p].nrows
      <4>1. CASE p = q
        <5>1. newquery[p] = new /\ Len(fetched[p]) = 0
          BY <2>8, <2>9, <2>15, <4>1
        <5>2. QED BY <2>4, <5>1 DEF Query
      <4>2. CASE p # q
        <5>1. newquery[p] = query[p] /\ fetched[p] = past.rows[p]
          BY <2>8, <2>9, <4>2
        <5>2. QED BY <1>0, <5>1 DEF Fetched
      <4>3. QED BY <4>1, <4>2
    <3>2. QED BY <3>1 DEF Fetched
  <2>17. object' \in Database /\ around' \in Server /\ past' \in Past
    BY <1>0, <1>1, <1>8, <2>5, <2>6, <2>7, <2>8, <2>9, <2>12, <2>13, <2>14, <2>15, <2>16 DEF Database, Server, Past
  <2>18. QED BY <1>0, <1>1, <1>8, <2>5, <2>6, <2>7, <2>8, <2>9, <2>12, <2>13, <2>14, <2>15, <2>16, <2>17, <1>s
<1>18. ASSUME NEW q \in Queries, P!Fetch(q) PROVE DatabaseInv'
  <2> DEFINE new == [query[q] EXCEPT !.row = @ + 1]
             newquery == [query EXCEPT ![q] = new]
             fetched == [past.rows EXCEPT ![q] = Append(@, query[q].row)]
  <2>1. /\ query[q].alive /\ query[q].row < query[q].nrows
        /\ object' = [object EXCEPT !.query[q].row = @ + 1]
        /\ past' = [rows |-> fetched, asked |-> {}, made |-> FALSE]
        /\ around' = around
    BY <1>18 DEF P!Fetch
  <2>2. query[q] \in Query /\ past.rows[q] \in Seq(Nat)
    BY <1>1
  <2>3. new \in Query /\ new.res = query[q].res /\ new.alive = query[q].alive
        /\ new.row = query[q].row + 1 /\ new.nrows = query[q].nrows
    BY <2>2 DEF Query
  <2>4. object' = [conn |-> object.conn, res |-> object.res, isopen |-> object.isopen, query |-> newquery]
    BY <1>p, <2>1
  <2>5. around' = [up |-> around.up, things |-> around.things, live |-> live, connected |-> around.connected]
    BY <1>p, <2>1
  <2> HIDE DEF new
  <2>6. newquery \in [Queries -> Query] /\ \A p \in Queries : newquery[p] = IF p = q THEN new ELSE query[p]
    BY <1>1, <2>3
  <2> HIDE DEF newquery
  <2>7. HeldBy(newquery) = HeldBy(query)
    BY <2>3, <2>6 DEF HeldBy
  <2>8. Idle(newquery)
    BY <1>0, <2>3, <2>6 DEF Idle
  <2>9. query[q].row \in Nat /\ query[q].nrows \in Nat
    BY <2>2 DEF Query
  <2>10. /\ Append(past.rows[q], query[q].row) \in Seq(Nat)
         /\ Len(Append(past.rows[q], query[q].row)) = Len(past.rows[q]) + 1
         /\ \A k \in 1..Len(past.rows[q]) : Append(past.rows[q], query[q].row)[k] = past.rows[q][k]
         /\ Append(past.rows[q], query[q].row)[Len(past.rows[q]) + 1] = query[q].row
         /\ Len(past.rows[q]) \in Nat
    BY <2>2, <2>9, QueueFacts
  <2> DEFINE longer == Append(past.rows[q], query[q].row)
  <2>11. /\ fetched \in [Queries -> Seq(Nat)]
         /\ \A p \in Queries : fetched[p] = IF p = q THEN longer ELSE past.rows[p]
    BY <1>1, <2>10
  <2> HIDE DEF longer, fetched
  <2>12. /\ \A k \in 1..Len(past.rows[q]) : past.rows[q][k] = k - 1
         /\ query[q].row = Len(past.rows[q])
    BY <1>0, <2>1 DEF Fetched
  <2>13. \A k \in 1..Len(longer) : longer[k] = k - 1
    <3>1. \A k \in 1..(Len(past.rows[q]) + 1) : k \in 1..Len(past.rows[q]) \/ k = Len(past.rows[q]) + 1
      BY <2>10
    <3>2. Len(longer) = Len(past.rows[q]) + 1 /\ longer[Len(past.rows[q]) + 1] = Len(past.rows[q])
      BY <2>10, <2>12 DEF longer
    <3>3. \A k \in 1..Len(past.rows[q]) : longer[k] = k - 1
      BY <2>10, <2>12 DEF longer
    <3>4. QED BY <2>10, <3>1, <3>2, <3>3
  <2>14. new.row = Len(longer) /\ new.row <= new.nrows
    BY <2>1, <2>3, <2>9, <2>10, <2>12 DEF longer
  <2>15. Fetched(newquery, fetched)
    <3>1. ASSUME NEW p \in Queries
          PROVE  /\ \A k \in 1..Len(fetched[p]) : fetched[p][k] = k - 1
                 /\ newquery[p].alive => newquery[p].row = Len(fetched[p]) /\ newquery[p].row <= newquery[p].nrows
      <4>1. CASE p = q
        BY <2>6, <2>11, <2>13, <2>14, <4>1
      <4>2. CASE p # q
        <5>1. newquery[p] = query[p] /\ fetched[p] = past.rows[p]
          BY <2>6, <2>11, <4>2
        <5>2. QED BY <1>0, <5>1 DEF Fetched
      <4>3. QED BY <4>1, <4>2
    <3>2. QED BY <3>1 DEF Fetched
  <2>16. Owned(object.res, HeldBy(newquery), live)
    BY <1>0, <2>7
  <2>17. object' \in Database /\ around' \in Server /\ past' \in Past
    <3>1. object' \in Database
      BY <1>1, <2>4, <2>6 DEF Database
    <3>2. around' \in Server
      BY <1>1, <2>5 DEF Server
    <3>3. past' \in Past
      BY <1>8, <2>1, <2>11 DEF Past
    <3>4. QED BY <3>1, <3>2, <3>3
  <2>18. /\ object'.res = object.res /\ object'.query = newquery /\ object'.isopen = object.isopen
         /\ around'.live = live /\ around'.connected = around.connected
         /\ past'.rows = fetched /\ past'.made = FALSE
    BY <2>1, <2>4, <2>5
  <2>19. QED BY <1>0, <2>8, <2>15, <2>16, <2>17, <2>18, <1>s
<1>19. ASSUME NEW q \in Queries, P!DeleteQuery(q) PROVE DatabaseInv'
  <2> DEFINE none == [res |-> 0, nrows |-> 0, row |-> 0, success |-> FALSE, alive |-> FALSE]
             newquery == [query EXCEPT ![q] = none]
             less == live \ {query[q].res}
  <2>1. /\ object' = [object EXCEPT !.query[q] = none]
        /\ around' = [around EXCEPT !.live = less]
        /\ past' = [rows |-> past.rows, asked |-> {}, made |-> FALSE]
    BY <1>7, <1>19 DEF P!DeleteQuery, P!NoQuery, P!NULL
  <2>2. none \in Query /\ none.res = 0 /\ ~none.alive
    BY DEF Query
  <2>3. object' = [conn |-> object.conn, res |-> object.res, isopen |-> object.isopen, query |-> newquery]
    BY <1>p, <2>1
  <2>4. around' = [up |-> around.up, things |-> around.things, live |-> less, connected |-> around.connected]
    BY <1>p, <2>1
  <2> HIDE DEF none
  <2>5. newquery \in [Queries -> Query] /\ \A p \in Queries : newquery[p] = IF p = q THEN none ELSE query[p]
    BY <1>1, <2>2
  <2> HIDE DEF newquery
  <2>6. HeldBy(newquery) = [HeldBy(query) EXCEPT ![q] = 0] /\ query[q].res = HeldBy(query)[q]
    BY <1>2, <2>2, <2>5 DEF HeldBy
  <2>7. Owned(object.res, HeldBy(newquery), less) /\ less \in SUBSET Results
    <3>1. /\ Owned(object.res, [HeldBy(query) EXCEPT ![q] = 0], live \ {HeldBy(query)[q]})
          /\ live \ {HeldBy(query)[q]} \in SUBSET Results
      BY <1>0, <1>1, <1>2, DropOwned
    <3>2. QED BY <2>6, <3>1
  <2> HIDE DEF less
  <2>8. Idle(newquery) /\ Fetched(newquery, past.rows)
    BY <1>0, <2>2, <2>5 DEF Idle, Fetched
  <2>9. object' \in Database /\ around' \in Server /\ past' \in Past
    <3>1. object' \in Database
      BY <1>1, <2>3, <2>5 DEF Database
    <3>2. around' \in Server
      BY <1>1, <2>4, <2>7 DEF Server
    <3>3. past' \in Past
      BY <1>1, <1>8, <2>1 DEF Past
    <3>4. QED BY <3>1, <3>2, <3>3
  <2>10. /\ object'.res = object.res /\ object'.query = newquery /\ object'.isopen = object.isopen
         /\ around'.live = less /\ around'.connected = around.connected
         /\ past'.rows = past.rows /\ past'.made = FALSE
    BY <2>1, <2>3, <2>4
  <2>11. QED BY <1>0, <2>7, <2>8, <2>9, <2>10, <1>s
<1>20. QED
  BY <1>9, <1>10, <1>11, <1>14, <1>15, <1>16, <1>17, <1>18, <1>19 DEF P!Next, P!TableExists, P!CreateTable

-----------------------------------------------------------------------------
(* The quit handlers *)

Quits == [pDefaultHandler : Handlers \cup {Nobody}, alive : SUBSET Handlers,
          functions : [Handlers -> Seq(Functions)], bHasQuit : [Handlers -> BOOLEAN]]

QuitInv == object \in Quits /\ Q!SignalsReachTheLiving

LEMMA QuitInit == Q!Init => QuitInv
<1> SUFFICES ASSUME Q!Init PROVE QuitInv
  OBVIOUS
<1>1. object \in Quits /\ object.pDefaultHandler = Nobody /\ around = <<>>
  BY DEF Q!Init, Quits
<1>2. QED BY <1>1 DEF QuitInv, Q!SignalsReachTheLiving

AskedGives(newest, asked, k, accepted) ==
    /\ Q!IsPrefix([i \in DOMAIN asked |-> asked[i].f], newest)
    /\ k = 0 => asked = <<>>
    /\ k > 0 => asked[Len(asked)].accepts = accepted

\* The functions asked are the newest, and the last of them accepted or all were asked.
LEMMA AskedFacts ==
    ASSUME NEW fs \in Seq(Functions), NEW k \in 0..Len(fs), NEW accepted \in BOOLEAN,
           accepted => k > 0,
           NEW newest, newest = Q!Reverse(fs),
           NEW asked, asked = [i \in 1..k |-> [f |-> newest[i], accepts |-> accepted /\ i = k]]
    PROVE  AskedGives(newest, asked, k, accepted)
<1> DEFINE names == [i \in DOMAIN asked |-> asked[i].f]
<1>1. Len(fs) \in Nat /\ k \in Nat /\ k <= Len(fs)
  OBVIOUS
<1>2. newest \in Seq(Functions) /\ Len(newest) = Len(fs)
  <2>1. \A i \in 1..Len(fs) : (Len(fs) - i) + 1 \in 1..Len(fs)
    BY <1>1
  <2>2. newest \in [1..Len(fs) -> Functions]
    BY <2>1 DEF Q!Reverse
  <2>3. QED BY <1>1, <2>2, FunctionIsSequence
<1>3. \A i \in 1..k : asked[i].f = newest[i] /\ (asked[i].accepts <=> accepted /\ i = k)
  OBVIOUS
<1>4. DOMAIN asked = 1..k
  OBVIOUS
<1>5. names = [i \in 1..k |-> newest[i]]
  BY <1>3, <1>4
<1>6. names \in [1..k -> Functions] /\ \A i \in 1..k : names[i] = newest[i]
  BY <1>1, <1>2, <1>5
<1> HIDE DEF names
<1>7. names \in Seq(Functions) /\ Len(names) = k
  BY <1>1, <1>6, FunctionIsSequence
<1>8. SubSeq(names, 1, k) = SubSeq(newest, 1, k)
  <2> DEFINE a == SubSeq(names, 1, k)
             b == SubSeq(newest, 1, k)
  <2>1. a \in Seq(Functions) /\ Len(a) = k /\ \A i \in 1..k : a[i] = names[i]
    BY <1>1, <1>7
  <2>2. b \in Seq(Functions) /\ Len(b) = k /\ \A i \in 1..k : b[i] = newest[i]
    BY <1>1, <1>2
  <2> HIDE DEF a, b
  <2>3. a = b
    BY <1>6, <2>1, <2>2, SameLength
  <2>4. QED BY <2>3 DEF a, b
<1>9. Q!IsPrefix(names, newest)
  BY <1>1, <1>2, <1>7, <1>8 DEF Q!IsPrefix
<1>10. k = 0 => asked = <<>>
  <2>1. k = 0 => DOMAIN asked = {}
    BY <1>4
  <2>2. QED BY <2>1
<1>11. ASSUME k > 0 PROVE asked[Len(asked)].accepts = accepted
  <2> DEFINE Answer == [f : Functions, accepts : BOOLEAN]
  <2>1. asked \in [1..k -> Answer]
    BY <1>1, <1>2
  <2>2. Len(asked) = k /\ k \in 1..k
    BY <1>1, <1>11, <2>1, FunctionIsSequence
  <2>3. asked[k].accepts \in BOOLEAN
    BY <2>1, <2>2
  <2>4. QED BY <1>3, <2>2, <2>3
<1>12. QED BY <1>9, <1>10, <1>11 DEF names, AskedGives

LEMMA QuitStep == QuitInv /\ Q!Next => QuitInv'
<1> SUFFICES ASSUME QuitInv, Q!Next PROVE QuitInv'
  OBVIOUS
<1>0. /\ object \in Quits
      /\ object.pDefaultHandler # Nobody => object.pDefaultHandler \in object.alive
  BY DEF QuitInv, Q!SignalsReachTheLiving
\* A step that is no signal.
<1>s. ASSUME object' \in Quits, around' = <<>>,
             object'.pDefaultHandler # Nobody => object'.pDefaultHandler \in object'.alive
      PROVE  QuitInv'
  BY <1>s DEF QuitInv, Q!SignalsReachTheLiving
<1>1. ASSUME NEW h \in Handlers, Q!Construct(h) PROVE QuitInv'
  <2>1. PICK functions \in {<<>>} \cup {<<f>> : f \in Functions} :
          object' = [object EXCEPT !.alive = @ \cup {h}, !.bHasQuit[h] = FALSE, !.functions[h] = functions,
                                   !.pDefaultHandler = IF @ = Nobody THEN h ELSE @]
    BY <1>1 DEF Q!Construct
  <2>2. functions \in Seq(Functions)
    <3>1. CASE functions = <<>>
      BY <3>1
    <3>2. ASSUME NEW f \in Functions, functions = <<f>> PROVE functions \in Seq(Functions)
      BY <3>2
    <3>3. QED BY <2>1, <3>1, <3>2
  <2>3. object' \in Quits
    BY <1>0, <2>1, <2>2 DEF Quits
  <2>4. /\ object'.alive = object.alive \cup {h}
        /\ object'.pDefaultHandler = IF object.pDefaultHandler = Nobody THEN h ELSE object.pDefaultHandler
    BY <1>0, <2>1 DEF Quits
  <2>5. around' = <<>>
    BY <1>1 DEF Q!Construct
  <2>6. QED BY <1>0, <1>s, <2>3, <2>4, <2>5
<1>2. ASSUME NEW h \in Handlers, Q!Destroy(h) PROVE QuitInv'
  <2>1. /\ object' = [object EXCEPT !.alive = @ \ {h}, !.pDefaultHandler = IF @ = h THEN Nobody ELSE @]
        /\ around' = <<>>
    BY <1>2 DEF Q!Destroy
  <2>2. object' \in Quits
    BY <1>0, <2>1 DEF Quits
  <2>3. /\ object'.alive = object.alive \ {h}
        /\ object'.pDefaultHandler = IF object.pDefaultHandler = h THEN Nobody ELSE object.pDefaultHandler
    BY <1>0, <2>1 DEF Quits
  <2>4. QED BY <1>0, <1>s, <2>1, <2>2, <2>3
\* A step that changes the functions of a handler, or its flag.
<1>3. ASSUME NEW h \in Handlers, NEW f \in Functions, Q!AddHandler(h, f) PROVE QuitInv'
  <2>1. object' = [object EXCEPT !.functions[h] = Append(@, f)] /\ around' = <<>>
    BY <1>3 DEF Q!AddHandler
  <2>2. Append(object.functions[h], f) \in Seq(Functions)
    BY <1>0 DEF Quits
  <2>3. /\ object' \in Quits /\ object'.alive = object.alive
        /\ object'.pDefaultHandler = object.pDefaultHandler
    BY <1>0, <2>1, <2>2 DEF Quits
  <2>4. QED BY <1>0, <1>s, <2>1, <2>3
<1>4. ASSUME NEW h \in Handlers, NEW f \in Functions, Q!RemoveHandler(h, f) PROVE QuitInv'
  <2>1. object' = [object EXCEPT !.functions[h] = Q!Only(@, Functions \ {f})] /\ around' = <<>>
    BY <1>4 DEF Q!RemoveHandler
  <2>2. Selected(object.functions[h], Functions \ {f}) \in Seq(Functions)
    <3>1. object.functions[h] \in Seq(Functions)
      BY <1>0 DEF Quits
    <3>2. QED BY <3>1, SelectedFacts
  <2>3. Q!Only(object.functions[h], Functions \ {f}) = Selected(object.functions[h], Functions \ {f})
    BY Zenon DEF Q!Only, Q!FoldLeft, Q!MapThenFoldSet, Q!Max, Selected, FoldLeft, MapThenFoldSet, Max
  <2> DEFINE left == Q!Only(object.functions[h], Functions \ {f})
  <2>4. left \in Seq(Functions)
    BY <2>2, <2>3
  <2>5. object' = [object EXCEPT !.functions[h] = left]
    BY <2>1
  <2> HIDE DEF left
  <2>6. /\ object' \in Quits /\ object'.alive = object.alive
        /\ object'.pDefaultHandler = object.pDefaultHandler
    BY <1>0, <2>4, <2>5 DEF Quits
  <2>7. QED BY <1>0, <1>s, <2>1, <2>6
<1>5. ASSUME NEW h \in Handlers, NEW value \in BOOLEAN, Q!SetQuit(h, value) PROVE QuitInv'
  <2>1. object' = [object EXCEPT !.bHasQuit[h] = value] /\ around' = <<>>
    BY <1>5 DEF Q!SetQuit
  <2>2. /\ object' \in Quits /\ object'.alive = object.alive
        /\ object'.pDefaultHandler = object.pDefaultHandler
    BY <1>0, <2>1 DEF Quits
  <2>3. QED BY <1>0, <1>s, <2>1, <2>2
<1>6. CASE Q!Signal
  <2> DEFINE h == object.pDefaultHandler
             newest == Q!Reverse(object.functions[h])
  <2>1. CASE h = Nobody
    <3>1. object' = object /\ around' = <<>>
      BY <1>6, <2>1 DEF Q!Signal
    <3>2. QED BY <1>0, <1>s, <3>1
  <2>2. CASE h # Nobody
    <3>1. PICK k \in 0..Len(object.functions[h]), accepted \in BOOLEAN :
            /\ accepted => k > 0
            /\ around' = [i \in 1..k |-> [f |-> newest[i], accepts |-> accepted /\ i = k]]
            /\ object' = [object EXCEPT !.bHasQuit[h] = @ \/ accepted \/ newest = <<>>]
      BY <1>6, <2>2 DEF Q!Signal
    <3>2. h \in Handlers /\ h \in object.alive /\ object.functions[h] \in Seq(Functions)
      BY <1>0, <2>2 DEF Quits
    <3>3. AskedGives(newest, around', k, accepted)
      BY <3>1, <3>2, AskedFacts
    <3> HIDE DEF newest
    <3>4. /\ object' \in Quits /\ object'.alive = object.alive /\ object'.functions = object.functions
          /\ object'.pDefaultHandler = h
          /\ accepted => object'.bHasQuit[h]
      BY <1>0, <3>1, <3>2 DEF Quits
    <3>5. ASSUME around' # <<>>, around'[Len(around')].accepts PROVE object'.bHasQuit[h]
      <4>1. k > 0
        BY <3>3, <3>5 DEF AskedGives
      <4>2. QED BY <3>3, <3>4, <3>5, <4>1 DEF AskedGives
    <3>6. QED
      BY <2>2, <3>2, <3>3, <3>4, <3>5 DEF QuitInv, Q!SignalsReachTheLiving, Q!HasQuit, AskedGives, newest
  <2>3. QED BY <2>1, <2>2
<1>7. QED BY <1>1, <1>2, <1>3, <1>4, <1>5, <1>6 DEF Q!Next

-----------------------------------------------------------------------------
(* The items of texts *)

TextLists == [StringList : Seq(Strings), LockedStringList : Seq(Strings)]

\* No text is in a list twice.
TextsInv ==
    /\ object \in TextLists
    /\ NoDup(object.StringList) /\ NoDup(object.LockedStringList)
    /\ I!LockedAreKept

LEMMA OnlySelected == \A s, Elements : I!Only(s, Elements) = Selected(s, Elements)
BY Zenon DEF I!Only, I!FoldLeft, I!MapThenFoldSet, I!Max, Selected, FoldLeft, MapThenFoldSet, Max

LEMMA ContainsSet == \A s \in Seq(Strings) : \A str : I!Contains(s, str) <=> str \in ToSet(s)
BY DEF I!Contains, ToSet

LEMMA SameSet == \A s : I!ToSet(s) = ToSet(s)
BY Zenon DEF I!ToSet, ToSet

LEMMA SameSize == \A s : I!Cardinality(s) = Cardinality(s)
BY Zenon DEF I!Cardinality, Cardinality

LEMMA InjectiveNoDup == \A s \in Seq(Strings) : NoDup(s) => I!IsInjective(s)
BY DEF I!IsInjective, NoDup

\* A call that is not LimitStrings().
LEMMA TextsKept ==
    ASSUME object' \in TextLists, NoDup(object'.StringList), NoDup(object'.LockedStringList),
           ToSet(object'.LockedStringList) \subseteq ToSet(object'.StringList),
           around'.n = -1
    PROVE  TextsInv'
<1>1. object'.LockedStringList \in Seq(Strings)
  BY DEF TextLists
<1>2. I!IsInjective(object'.LockedStringList)
  BY <1>1, InjectiveNoDup
<1>3. /\ I!ToSet(object'.LockedStringList) = ToSet(object'.LockedStringList)
      /\ I!ToSet(object'.StringList) = ToSet(object'.StringList)
  BY Zenon, SameSet
<1>4. ~(around'.n >= 0)
  OBVIOUS
<1>5. I!LockedAreKept'
  BY <1>2, <1>3, <1>4 DEF I!LockedAreKept
<1>6. QED BY <1>5 DEF TextsInv

LEMMA TextsInit == I!Init => TextsInv
<1> SUFFICES ASSUME I!Init PROVE TextsInv
  OBVIOUS
<1>1. <<>> \in Seq(Strings) /\ NoDup(<<>>) /\ ToSet(<<>>) = {}
  BY DEF NoDup, ToSet
<1>2. object = [StringList |-> <<>>, LockedStringList |-> <<>>] /\ around.n = -1
  BY DEF I!Init
<1>3. object \in TextLists /\ object.StringList = <<>> /\ object.LockedStringList = <<>>
  BY <1>1, <1>2 DEF TextLists
<1>4. I!IsInjective(<<>>)
  BY <1>1, InjectiveNoDup
<1>5. I!ToSet(<<>>) = {}
  BY <1>1, SameSet
<1>6. ~(around.n >= 0)
  BY <1>2
<1>7. I!LockedAreKept
  BY <1>3, <1>4, <1>5, <1>6 DEF I!LockedAreKept
<1>8. QED BY <1>1, <1>3, <1>7 DEF TextsInv

\* What the texts that go leave of the list.
Limited(before, locked, n, new, nremoved) ==
    LET kept == ToSet(new)
        gone == {k \in DOMAIN before : before[k] \notin kept} IN
    /\ new = Selected(before, kept)
    /\ Len(before) = Len(new) + nremoved
    /\ Len(new) > n => kept = ToSet(locked)
    /\ gone # {} => Len(new) >= n
    /\ \A k \in gone, l \in DOMAIN before \ gone : l < k => before[l] \in ToSet(locked)

Unlocked(locked) == {str \in Strings : str \notin ToSet(locked)}

\* How many of the texts that may go do, and what is left.
Taken(before, free, n, taken) ==
    /\ taken <= Len(free)
    /\ taken <= Len(before) - n \/ taken = 0
    /\ \/ taken = Len(before) - n
       \/ taken = Len(free) /\ taken <= Len(before) - n
       \/ taken = 0 /\ Len(before) <= n

Gone(free, taken) == {free[i] : i \in 1..taken}

LEMMA FirstPlaces ==
    ASSUME NEW t \in Nat, NEW m \in Nat, t <= m
    PROVE  t \in 0..m /\ \A i \in 1..t : i \in 1..m
OBVIOUS

LEMMA LimitFacts ==
    ASSUME NEW before \in Seq(Strings), NEW locked \in Seq(Strings), NEW n \in Nat,
           NoDup(before), ToSet(locked) \subseteq ToSet(before),
           NEW free, free = Selected(before, Unlocked(locked)),
           NEW taken \in Nat, Taken(before, free, n, taken),
           NEW gone, gone = Gone(free, taken),
           NEW new, new = Selected(before, Strings \ gone)
    PROVE  /\ Limited(before, locked, n, new, Cardinality(gone))
           /\ new \in Seq(Strings) /\ NoDup(new) /\ ToSet(locked) \subseteq ToSet(new)
<1> DEFINE unlocked == Unlocked(locked)
<1>t. /\ taken <= Len(free)
      /\ taken <= Len(before) - n \/ taken = 0
      /\ \/ taken = Len(before) - n
         \/ taken = Len(free) /\ taken <= Len(before) - n
         \/ taken = 0 /\ Len(before) <= n
  BY DEF Taken
<1>f. /\ \A e \in Strings : e \in unlocked <=> e \notin ToSet(locked)
      /\ unlocked \subseteq Strings
  BY DEF Unlocked
<1>g. /\ \A i \in 1..taken : free[i] \in gone
      /\ \A e \in gone : \E i \in 1..taken : free[i] = e
  BY DEF Gone
<1> HIDE DEF unlocked
<1>1. ToSet(before) \subseteq Strings /\ Len(before) \in Nat
  BY ToSetFacts
<1>2. PICK p : Places(p, free, before, unlocked)
  BY SelectedPlaces DEF unlocked
<1>3. free \in Seq(Strings) /\ NoDup(free) /\ ToSet(free) = ToSet(before) \cap unlocked
  BY SelectedFacts, SelectedSet DEF unlocked
<1>4. new \in Seq(Strings) /\ NoDup(new) /\ ToSet(new) = ToSet(before) \cap (Strings \ gone)
  BY SelectedFacts, SelectedSet
<1>5. Len(free) \in Nat /\ DOMAIN before = 1..Len(before)
  BY <1>3
<1>6. ToSet(new) = ToSet(before) \ gone
  BY <1>1, <1>4
<1>7. taken \in 0..Len(free) /\ \A i \in 1..taken : i \in 1..Len(free)
  BY <1>5, <1>t, FirstPlaces
<1>8. gone \subseteq ToSet(free)
  <2>1. \A i \in 1..taken : free[i] \in ToSet(free)
    BY <1>3, <1>7, ToSetFacts
  <2>2. QED BY <1>g, <2>1
<1>9. gone \subseteq ToSet(before) /\ gone \cap ToSet(locked) = {}
  BY <1>3, <1>8, <1>f
<1>10. Cardinality(gone) = taken
  <2> DEFINE first == SubSeq(free, 1, taken)
  <2>1. first \in Seq(Strings) /\ Len(first) = taken /\ \A i \in 1..taken : first[i] = free[i]
    BY <1>3, <1>7, FirstFacts
  <2> HIDE DEF first
  <2>2. NoDup(first)
    BY <1>3, <1>7, <2>1 DEF NoDup
  <2>3. ToSet(first) = gone
    <3>1. \A e \in ToSet(first) : e \in gone
      BY <1>g, <2>1, ToSetFacts
    <3>2. ASSUME NEW e \in gone PROVE e \in ToSet(first)
      <4>1. PICK i \in 1..taken : free[i] = e
        BY <1>g
      <4>2. i \in 1..Len(first) /\ first[i] = e
        BY <2>1, <4>1
      <4>3. QED BY <2>1, <4>2, ToSetFacts
    <3>3. QED BY <3>1, <3>2
  <2>4. QED BY <2>1, <2>2, <2>3, NoDupCard
<1>11. Len(before) = Len(new) + taken
  <2>1. IsFiniteSet(ToSet(before)) /\ Cardinality(ToSet(before)) = Len(before)
    BY NoDupCard
  <2>2. Cardinality(ToSet(new)) = Len(new)
    BY <1>4, NoDupCard
  <2>3. Cardinality(ToSet(before) \ gone) = Cardinality(ToSet(before)) - Cardinality(ToSet(before) \cap gone)
    BY <2>1, FS_Difference
  <2>4. ToSet(before) \cap gone = gone
    BY <1>9
  <2>5. Len(new) = Len(before) - taken
    BY <1>6, <1>10, <2>1, <2>2, <2>3, <2>4
  <2>6. Len(new) \in Nat
    BY <1>4
  <2>7. QED BY <1>1, <2>5, <2>6
<1>12. new = Selected(before, ToSet(new))
  <2>1. \A k \in 1..Len(before) : before[k] \in Strings \ gone <=> before[k] \in ToSet(new)
    BY <1>1, <1>6, ToSetFacts
  <2>2. Selected(before, Strings \ gone) = Selected(before, ToSet(new))
    BY <2>1, SelectedAgree
  <2>3. QED BY <2>2
<1>13. ToSet(locked) \subseteq ToSet(new)
  BY <1>6, <1>9
<1>14. Len(new) \in Nat
  BY <1>4
<1>15. ASSUME Len(new) > n PROVE ToSet(new) = ToSet(locked)
  <2>1. taken = Len(free)
    BY <1>1, <1>5, <1>11, <1>14, <1>15, <1>t
  <2>2. ToSet(free) \subseteq gone
    BY <1>3, <1>g, <2>1, ToSetFacts
  <2>3. ToSet(new) \subseteq ToSet(locked)
    BY <1>1, <1>3, <1>6, <1>f, <2>2
  <2>4. QED BY <1>13, <2>3
<1>16. ASSUME gone # {} PROVE Len(new) >= n
  <2>1. taken # 0
    BY <1>16, <1>g
  <2>2. QED BY <1>1, <1>11, <1>14, <1>t, <2>1
<1>17. ASSUME NEW k \in 1..Len(before), NEW l \in 1..Len(before),
              before[k] \in gone, before[l] \notin gone, l < k
       PROVE  before[l] \in ToSet(locked)
  <2>1. SUFFICES ASSUME before[l] \notin ToSet(locked) PROVE FALSE
    OBVIOUS
  <2>2. before[l] \in unlocked
    BY <1>1, <1>f, <2>1, ToSetFacts
  <2>3. PICK i \in 1..Len(free) : p[i] = l
    BY <1>2, <2>2 DEF Places
  <2>4. PICK j \in 1..taken : free[j] = before[k]
    BY <1>17, <1>g
  <2>5. j \in 1..Len(free) /\ i \in Int /\ j \in Int
    BY <1>7
  <2>6. /\ p[j] \in 1..Len(before) /\ free[j] = before[p[j]]
        /\ free[i] = before[l]
    BY <1>2, <2>3, <2>5 DEF Places
  <2>7. p[j] = k
    BY <2>4, <2>6 DEF NoDup
  <2>8. ~(j < i) /\ j # i
    <3>1. j < i => k < l
      BY <1>2, <2>3, <2>5, <2>7 DEF Places
    <3>2. QED BY <1>17, <2>3, <2>7, <3>1
  <2>9. i \in 1..taken
    BY <2>5, <2>8
  <2>10. QED BY <1>17, <1>g, <2>6, <2>9
<1> DEFINE away == {k \in DOMAIN before : before[k] \notin ToSet(new)}
<1>18. \A k \in 1..Len(before) : k \in away <=> before[k] \in gone
  BY <1>5, <1>6, ToSetFacts
<1>19. away \subseteq 1..Len(before)
  BY <1>5
<1> HIDE DEF away
<1>20. away # {} => Len(new) >= n
  BY <1>16, <1>18, <1>19
<1>21. \A k \in away, l \in DOMAIN before \ away : l < k => before[l] \in ToSet(locked)
  BY <1>5, <1>17, <1>18, <1>19
<1>22. Limited(before, locked, n, new, Cardinality(gone))
  BY <1>10, <1>11, <1>12, <1>15, <1>20, <1>21 DEF Limited, away
<1>23. QED BY <1>4, <1>13, <1>22

LEMMA TextsStep == TextsInv /\ I!Next => TextsInv'
<1> SUFFICES ASSUME TextsInv, I!Next PROVE TextsInv'
  OBVIOUS
<1> DEFINE texts == object.StringList
           locked == object.LockedStringList
<1>0. /\ object \in TextLists /\ texts \in Seq(Strings) /\ locked \in Seq(Strings)
      /\ NoDup(texts) /\ NoDup(locked)
  BY DEF TextsInv, TextLists
<1>l. ToSet(locked) \subseteq ToSet(texts)
  BY SameSet DEF TextsInv, I!LockedAreKept
<1> HIDE DEF texts, locked
<1>1. ASSUME NEW str \in Strings, NEW lock \in BOOLEAN, I!AddString(str, lock) PROVE TextsInv'
  <2>1. /\ str \notin ToSet(texts)
        /\ object' = [StringList |-> Append(texts, str),
                      LockedStringList |-> IF lock THEN Append(locked, str) ELSE locked]
        /\ around'.n = -1
    BY <1>0, <1>1, ContainsSet DEF I!AddString, I!NotLimited, texts, locked
  <2>2. /\ Append(texts, str) \in Seq(Strings) /\ NoDup(Append(texts, str))
        /\ ToSet(Append(texts, str)) = ToSet(texts) \cup {str}
    BY <1>0, <2>1, AppendFacts
  <2>3. str \notin ToSet(locked)
    BY <1>l, <2>1
  <2>4. /\ Append(locked, str) \in Seq(Strings) /\ NoDup(Append(locked, str))
        /\ ToSet(Append(locked, str)) = ToSet(locked) \cup {str}
    BY <1>0, <2>3, AppendFacts
  <2> DEFINE more == IF lock THEN Append(locked, str) ELSE locked
  <2>5. /\ more \in Seq(Strings) /\ NoDup(more) /\ ToSet(more) \subseteq ToSet(texts) \cup {str}
    BY <1>0, <1>l, <2>4
  <2>6. object' = [StringList |-> Append(texts, str), LockedStringList |-> more]
    BY <2>1
  <2> HIDE DEF more
  <2>7. object' \in TextLists /\ object'.StringList = Append(texts, str) /\ object'.LockedStringList = more
    BY <2>2, <2>5, <2>6 DEF TextLists
  <2>8. QED BY <2>1, <2>2, <2>5, <2>7, TextsKept
\* What is left of a list when a text goes.
<1>2. ASSUME NEW str \in Strings, NEW s \in Seq(Strings), NoDup(s)
      PROVE  /\ I!Only(s, Strings \ {str}) \in Seq(Strings) /\ NoDup(I!Only(s, Strings \ {str}))
             /\ ToSet(I!Only(s, Strings \ {str})) = ToSet(s) \ {str}
  <2>1. I!Only(s, Strings \ {str}) = Selected(s, Strings \ {str})
    BY OnlySelected
  <2>2. ToSet(s) \cap (Strings \ {str}) = ToSet(s) \ {str}
    BY ToSetFacts
  <2>3. /\ Selected(s, Strings \ {str}) \in Seq(Strings) /\ NoDup(Selected(s, Strings \ {str}))
        /\ ToSet(Selected(s, Strings \ {str})) = ToSet(s) \cap (Strings \ {str})
    BY <1>2, SelectedFacts, SelectedSet
  <2>4. QED BY <2>1, <2>2, <2>3
<1>3. ASSUME NEW str \in Strings, I!RemoveString(str) PROVE TextsInv'
  <2> DEFINE a == I!Only(texts, Strings \ {str})
             b == I!Only(locked, Strings \ {str})
  <2>1. object' = [StringList |-> a, LockedStringList |-> b] /\ around'.n = -1
    BY <1>3 DEF I!RemoveString, I!NotLimited, texts, locked
  <2>2. a \in Seq(Strings) /\ NoDup(a) /\ ToSet(a) = ToSet(texts) \ {str}
    BY <1>0, <1>2
  <2>3. b \in Seq(Strings) /\ NoDup(b) /\ ToSet(b) = ToSet(locked) \ {str}
    BY <1>0, <1>2
  <2> HIDE DEF a, b
  <2>4. object' \in TextLists /\ object'.StringList = a /\ object'.LockedStringList = b
    BY <2>1, <2>2, <2>3 DEF TextLists
  <2>5. ToSet(b) \subseteq ToSet(a)
    BY <1>l, <2>2, <2>3
  <2>6. QED BY <2>1, <2>2, <2>3, <2>4, <2>5, TextsKept
<1>4. ASSUME NEW str \in Strings, I!UnLockString(str) PROVE TextsInv'
  <2> DEFINE b == I!Only(locked, Strings \ {str})
  <2>1. object' = [object EXCEPT !.LockedStringList = b] /\ around'.n = -1
    BY <1>0, <1>4 DEF I!UnLockString, I!NotLimited, TextLists, locked
  <2>2. b \in Seq(Strings) /\ NoDup(b) /\ ToSet(b) = ToSet(locked) \ {str}
    BY <1>0, <1>2
  <2> HIDE DEF b
  <2>3. object' \in TextLists /\ object'.StringList = texts /\ object'.LockedStringList = b
    BY <1>0, <2>1, <2>2 DEF TextLists, texts
  <2>4. ToSet(b) \subseteq ToSet(texts)
    BY <1>l, <2>2
  <2>5. QED BY <1>0, <2>1, <2>2, <2>3, <2>4, TextsKept
<1>5. ASSUME NEW n \in Nat, I!LimitStrings(n) PROVE TextsInv'
  <2> DEFINE unlocked == Unlocked(locked)
             free == Selected(texts, unlocked)
             excess == Len(texts) - n
             most == IF excess < Len(free) THEN excess ELSE Len(free)
             taken == IF most > 0 THEN most ELSE 0
             gone == Gone(free, taken)
             new == Selected(texts, Strings \ gone)
  <2>1. I!Only(texts, {str \in Strings : ~I!IsStringLocked(str)}) = free
    <3>1. {str \in Strings : ~I!IsStringLocked(str)} = unlocked
      BY <1>0, ContainsSet DEF I!IsStringLocked, locked, Unlocked
    <3>2. QED BY <3>1, OnlySelected
  <2>2. free \in Seq(Strings) /\ Len(free) \in Nat /\ Len(texts) \in Nat
    <3>1. free \in Seq(Strings)
      BY <1>0, SelectedFacts
    <3> HIDE DEF free
    <3>2. QED BY <1>0, <3>1
  <2>3. I!ToSet(SubSeq(free, 1, most)) = gone
    <3> DEFINE first == SubSeq(free, 1, most)
    <3> HIDE DEF free
    <3>1. most \in Int /\ most <= Len(free)
      BY <2>2
    <3>2. CASE most > 0
      <4>1. taken = most /\ most \in 0..Len(free)
        BY <3>1, <3>2
      <4> HIDE DEF most, taken
      <4>2. first \in Seq(Strings) /\ Len(first) = taken /\ \A i \in 1..taken : first[i] = free[i]
        BY <2>2, <4>1, FirstFacts
      <4> HIDE DEF first
      <4>3. ToSet(first) = gone
        BY <4>2 DEF ToSet, Gone
      <4>4. QED BY <4>3, SameSet DEF first
    <3>3. CASE ~(most > 0)
      <4>1. taken = 0 /\ most < 1
        BY <3>1, <3>3
      <4> HIDE DEF most, taken
      <4>2. first = <<>>
        BY <3>1, <4>1, SubSeqEmpty
      <4>3. ToSet(<<>>) = {}
        BY DEF ToSet
      <4>4. gone = {}
        BY <4>1 DEF Gone
      <4>5. QED BY <4>2, <4>3, <4>4, SameSet
    <3>4. QED BY <3>2, <3>3
  <2>4. object' = [object EXCEPT !.StringList = new]
    <3>1. object' = [object EXCEPT !.StringList = I!Only(@, Strings \ gone)]
      BY <1>5, <2>1, <2>3 DEF I!LimitStrings, texts
    <3>2. I!Only(texts, Strings \ gone) = new
      BY OnlySelected
    <3>3. QED BY <1>0, <3>1, <3>2 DEF TextLists, texts
  <2>5. around' = [n |-> n, nremoved |-> Cardinality(gone), before |-> texts]
    BY <1>5, <2>1, <2>3, SameSize DEF I!LimitStrings, texts
  <2> HIDE DEF free
  <2>6. taken \in Nat /\ Taken(texts, free, n, taken)
    BY <2>2 DEF Taken
  <2> HIDE DEF taken, gone, new, most, excess
  <2>7. /\ Limited(texts, locked, n, new, Cardinality(gone))
        /\ new \in Seq(Strings) /\ NoDup(new) /\ ToSet(locked) \subseteq ToSet(new)
    <3>1. free = Selected(texts, Unlocked(locked)) /\ gone = Gone(free, taken) /\ new = Selected(texts, Strings \ gone)
      BY DEF free, gone, new
    <3> HIDE DEF unlocked
    <3>2. QED BY <1>0, <1>l, <2>6, <3>1, LimitFacts
  <2>8. /\ object' \in TextLists /\ object'.StringList = new /\ object'.LockedStringList = locked
    BY <1>0, <2>4, <2>7 DEF TextLists, locked
  <2>9. around'.n = n /\ around'.nremoved = Cardinality(gone) /\ around'.before = texts
    BY <2>5
  <2>10. I!LockedAreKept'
    <3>1. I!IsInjective(locked)
      BY <1>0, InjectiveNoDup
    <3>2. /\ I!ToSet(locked) = ToSet(locked) /\ I!ToSet(new) = ToSet(new)
          /\ I!Only(texts, ToSet(new)) = Selected(texts, ToSet(new))
      BY Zenon, SameSet, OnlySelected
    <3>3. QED BY <2>7, <2>8, <2>9, <3>1, <3>2 DEF I!LockedAreKept, Limited
  <2>11. QED BY <1>0, <2>7, <2>8, <2>10 DEF TextsInv
<1>6. \A n \in 0..I!Cardinality(Strings) : n \in Nat
  OBVIOUS
<1>7. QED BY <1>1, <1>3, <1>4, <1>5, <1>6 DEF I!Next

-----------------------------------------------------------------------------
(* The objects together *)

\* The invariant of the object a behaviour is about.
ObjectInv ==
    /\ subject = "StructList" => BlockInv
    /\ subject = "Hash" => HashInv
    /\ subject = "MemFile" => FileInv
    /\ subject = "HTTPRequest" => RequestInv
    /\ subject = "UDPServer" => UDPInv
    /\ subject = "Thread" => ThreadInv
    /\ subject = "PostgresDatabase" => DatabaseInv
    /\ subject = "QuitHandler" => QuitInv
    /\ subject = "StringList" => TextsInv

LEMMA ObjectInit == ObjectsInit => ObjectInv
<1> SUFFICES ASSUME ObjectsInit PROVE ObjectInv
  OBVIOUS
<1>1. ASSUME subject \in Elsewhere PROVE ObjectInv
  BY <1>1 DEF Elsewhere, ObjectInv
<1>2. \/ subject \in Elsewhere
      \/ subject = "StructList" /\ BlockInv
      \/ subject = "Hash" /\ HashInv
      \/ subject = "MemFile" /\ FileInv
      \/ subject = "HTTPRequest" /\ RequestInv
      \/ subject = "UDPServer" /\ UDPInv
      \/ subject = "Thread" /\ ThreadInv
      \/ subject = "PostgresDatabase" /\ DatabaseInv
      \/ subject = "QuitHandler" /\ QuitInv
      \/ subject = "StringList" /\ TextsInv
  BY BlockInit, HashInit, FileInit, RequestInit, UDPInit, ThreadInit, DatabaseInit, QuitInit, TextsInit
  DEF ObjectsInit
<1>3. QED BY <1>1, <1>2 DEF ObjectInv

\* When the three variables rest, so does the invariant.
LEMMA ObjectRests == ObjectInv /\ UNCHANGED <<subject, object, around, past>> => ObjectInv'
<1> SUFFICES ASSUME ObjectInv, UNCHANGED <<subject, object, around, past>> PROVE ObjectInv'
  OBVIOUS
<1>1. BlockInv => BlockInv'
  BY DEF BlockInv
<1>2. HashInv => HashInv'
  BY DEF HashInv
<1>3. FileInv => FileInv'
  BY DEF FileInv
<1>4. RequestInv => RequestInv'
  BY DEF RequestInv
<1>5. UDPInv => UDPInv'
  BY DEF UDPInv, U!DatagramsInOrder
<1>6. ThreadInv => ThreadInv'
  BY DEF ThreadInv, T!QuitsWhenTold
<1>7. DatabaseInv => DatabaseInv'
  BY DEF DatabaseInv
<1>8. QuitInv => QuitInv'
  BY DEF QuitInv, Q!SignalsReachTheLiving, Q!HasQuit
<1>9. TextsInv => TextsInv'
  BY DEF TextsInv, I!LockedAreKept
<1>10. QED BY <1>1, <1>2, <1>3, <1>4, <1>5, <1>6, <1>7, <1>8, <1>9 DEF ObjectInv

LEMMA ObjectStep == ObjectInv /\ [ObjectsNext]_<<subject, objectvars>> => ObjectInv'
<1> SUFFICES ASSUME ObjectInv, [ObjectsNext]_<<subject, objectvars>> PROVE ObjectInv'
  OBVIOUS
<1>3. CASE StructList
  <2>1. subject' = "StructList" /\ BlockInv'
    BY <1>3, BlockStep DEF StructList, About, ObjectInv
  <2>2. QED BY <2>1 DEF ObjectInv
<1>4. CASE Hash
  <2>1. subject' = "Hash" /\ HashInv'
    BY <1>4, HashStep DEF Hash, About, ObjectInv
  <2>2. QED BY <2>1 DEF ObjectInv
<1>5. CASE MemFile
  <2>1. subject' = "MemFile" /\ FileInv'
    BY <1>5, FileStep DEF MemFile, About, ObjectInv
  <2>2. QED BY <2>1 DEF ObjectInv
<1>6. CASE HTTPRequest
  <2>1. subject' = "HTTPRequest" /\ RequestInv'
    BY <1>6, RequestStep DEF HTTPRequest, About, ObjectInv
  <2>2. QED BY <2>1 DEF ObjectInv
<1>7. CASE UDPServer
  <2>1. subject' = "UDPServer" /\ UDPInv'
    BY <1>7, UDPStep DEF UDPServer, About, ObjectInv
  <2>2. QED BY <2>1 DEF ObjectInv
<1>8. CASE Thread
  <2>1. subject' = "Thread" /\ ThreadInv'
    BY <1>8, ThreadStep DEF Thread, About, ObjectInv
  <2>2. QED BY <2>1 DEF ObjectInv
<1>9. CASE PostgresDatabase
  <2>1. subject' = "PostgresDatabase" /\ DatabaseInv'
    BY <1>9, DatabaseStep DEF PostgresDatabase, About, ObjectInv
  <2>2. QED BY <2>1 DEF ObjectInv
<1>10. CASE QuitHandler
  <2>1. subject' = "QuitHandler" /\ QuitInv'
    BY <1>10, QuitStep DEF QuitHandler, About, ObjectInv
  <2>2. QED BY <2>1 DEF ObjectInv
<1>11. CASE StringList
  <2>1. subject' = "StringList" /\ TextsInv'
    BY <1>11, TextsStep DEF StringList, About, ObjectInv
  <2>2. QED BY <2>1 DEF ObjectInv
<1>12. CASE UNCHANGED <<subject, objectvars>>
  <2>1. UNCHANGED <<subject, object, around, past>>
    BY <1>12 DEF objectvars
  <2>2. QED BY <2>1, ObjectRests
<1>13. QED
  BY <1>3, <1>4, <1>5, <1>6, <1>7, <1>8, <1>9, <1>10, <1>11, <1>12 DEF ObjectsNext

\* In every state the object the behaviour is about keeps its invariant.
THEOREM ObjectsKeepTheirs == ObjectsSpec => []ObjectInv
<1>1. QED BY ObjectInit, ObjectStep, PTL DEF ObjectsSpec

\* A block of items, a hash and a file in memory hold what the calls gave them;
\* every result of a database has one holder; a locked text stays in its list:
\* whatever the items, names, bytes, queries and texts, and however many
\* (AStructList, AHash, AStdMemFile, PostgresDatabase, AStringList).
THEOREM ContainersHoldTheirs == ObjectsSpec => []ContainersHold
<1>1. ObjectInv => ContainersHold
  <2> SUFFICES ASSUME ObjectInv PROVE ContainersHold
    OBVIOUS
  <2>1. subject = "StructList" => B!HoldsItems /\ B!FindsNearest
    BY BlockMeans DEF ObjectInv
  <2>2. subject = "Hash" => H!OwnsValues
    BY HashMeans DEF ObjectInv
  <2>3. subject = "MemFile" => F!StandsForFile
    BY FileMeans DEF ObjectInv
  <2>4. subject = "PostgresDatabase" => P!ResultsOwned
    BY DatabaseMeans DEF ObjectInv
  <2>5. subject = "StringList" => I!LockedAreKept
    BY DEF ObjectInv, TextsInv
  <2>6. QED BY <2>1, <2>2, <2>3, <2>4, <2>5 DEF ContainersHold
<1>2. QED BY <1>1, ObjectsKeepTheirs, PTL

\* What a request or a datagram server got is what its peers sent, in order, a
\* thread only quits when it is told to, and a signal goes to a handler that is
\* alive (AHTTPRequest, UDPServer, AThread, AQuitHandler).
THEOREM PeersInOrder == ObjectsSpec => []PeersDataInOrder
<1>1. ObjectInv => PeersDataInOrder
  <2> SUFFICES ASSUME ObjectInv PROVE PeersDataInOrder
    OBVIOUS
  <2>1. subject = "HTTPRequest" => R!ResponseInOrder
    BY RequestMeans DEF ObjectInv
  <2>2. subject = "UDPServer" => U!DatagramsInOrder
    BY DEF ObjectInv, UDPInv
  <2>3. subject = "Thread" => T!QuitsWhenTold
    BY DEF ObjectInv, ThreadInv
  <2>4. subject = "QuitHandler" => Q!SignalsReachTheLiving
    BY DEF ObjectInv, QuitInv
  <2>5. QED BY <2>1, <2>2, <2>3, <2>4 DEF PeersDataInOrder
<1>2. QED BY <1>1, ObjectsKeepTheirs, PTL

-----------------------------------------------------------------------------
(* Products, bytes and samples *)

A == INSTANCE Arithmetic

\* What division in the naturals leaves.
LEMMA Division ==
    ASSUME NEW y \in Nat, NEW m \in Nat \ {0}
    PROVE  y \div m \in Nat /\ (y \div m) * m <= y /\ y < (y \div m) * m + m
BY SMTT(30)

LEMMA MagnitudeFacts ==
    ASSUME NEW a \in Int
    PROVE  A!Magnitude(a) \in Nat /\ A!Magnitude(-a) = A!Magnitude(a) /\ (a # 0 => A!Magnitude(a) # 0)
           /\ (a >= 0 => A!Magnitude(a) = a) /\ (a < 0 => A!Magnitude(a) = -a)
BY DEF A!Magnitude

\* C's division, of any signs: it leaves less than the divisor, towards 0.
LEMMA QuotientFacts ==
    ASSUME NEW y \in Int, NEW c \in Int \ {0}
    PROVE  /\ A!Quotient(y, c) \in Int /\ A!Quotient(y, c) * c \in Int
           /\ y >= 0 => 0 <= A!Quotient(y, c) * c /\ A!Quotient(y, c) * c <= y
                        /\ y < A!Quotient(y, c) * c + A!Magnitude(c)
           /\ y <= 0 => y <= A!Quotient(y, c) * c /\ A!Quotient(y, c) * c <= 0
                        /\ A!Quotient(y, c) * c - A!Magnitude(c) < y
<1> DEFINE m == A!Magnitude(c)
           q == A!Magnitude(y) \div m
<1>1. m \in Nat \ {0} /\ (c >= 0 => c = m) /\ (c < 0 => c = -m)
  BY MagnitudeFacts
<1>2. A!Magnitude(y) \in Nat /\ (y >= 0 => A!Magnitude(y) = y) /\ (y < 0 => A!Magnitude(y) = -y)
  BY MagnitudeFacts
<1>3. A!Quotient(y, c) = IF (y < 0) = (c < 0) THEN q ELSE -q
  BY DEF A!Quotient
<1> HIDE DEF m
<1>4. q \in Nat /\ q * m <= A!Magnitude(y) /\ A!Magnitude(y) < q * m + m
  BY <1>1, <1>2, Division
<1> HIDE DEF q
<1>5. q * m \in Nat /\ q * (-m) = -(q * m) /\ (-q) * m = -(q * m) /\ (-q) * (-m) = q * m
  BY <1>1, <1>4
<1>6. CASE y >= 0
  <2>1. A!Quotient(y, c) * c = q * m
    <3>1. CASE c >= 0
      BY <1>1, <1>3, <1>4, <1>6, <3>1
    <3>2. CASE c < 0
      <4>1. A!Quotient(y, c) = -q /\ c = -m
        BY <1>1, <1>3, <1>6, <3>2
      <4>2. QED BY <1>5, <4>1
    <3>3. QED BY <3>1, <3>2
  <2>2. A!Quotient(y, c) \in Int
    BY <1>3, <1>4
  <2>3. QED BY <1>1, <1>2, <1>4, <1>5, <1>6, <2>1, <2>2 DEF m
<1>7. CASE y < 0
  <2>1. A!Quotient(y, c) * c = -(q * m)
    <3>1. CASE c >= 0
      <4>1. A!Quotient(y, c) = -q /\ c = m
        BY <1>1, <1>3, <1>7, <3>1
      <4>2. QED BY <1>5, <4>1
    <3>2. CASE c < 0
      <4>1. A!Quotient(y, c) = q /\ c = -m
        BY <1>1, <1>3, <1>7, <3>2
      <4>2. QED BY <1>5, <4>1
    <3>3. QED BY <3>1, <3>2
  <2>2. A!Quotient(y, c) \in Int
    BY <1>3, <1>4
  <2>3. QED BY <1>1, <1>2, <1>4, <1>5, <1>7, <2>1, <2>2 DEF m
<1>8. QED BY <1>6, <1>7

LEMMA QuotientOdd ==
    ASSUME NEW y \in Int, NEW c \in Int \ {0}
    PROVE  A!Quotient(-y, c) = -A!Quotient(y, c)
<1> DEFINE m == A!Magnitude(c)
           q == A!Magnitude(y) \div m
<1>1. m \in Nat \ {0} /\ A!Magnitude(-y) = A!Magnitude(y) /\ A!Magnitude(y) \in Nat
  BY MagnitudeFacts
<1>2. A!Quotient(y, c) = IF (y < 0) = (c < 0) THEN q ELSE -q
  BY DEF A!Quotient
<1>3. A!Quotient(-y, c) = IF (-y < 0) = (c < 0) THEN q ELSE -q
  BY <1>1 DEF A!Quotient
<1>4. y = 0 => A!Magnitude(y) = 0
  BY DEF A!Magnitude
<1> HIDE DEF m
<1>5. q \in Nat /\ q * m <= A!Magnitude(y)
  BY <1>1, Division
<1> HIDE DEF q
<1>6. CASE y = 0
  <2>1. q * m <= 0
    BY <1>4, <1>5, <1>6
  <2>2. q = 0
    BY <1>1, <1>5, <2>1
  <2>3. QED BY <1>2, <1>3, <2>2
<1>7. CASE y # 0
  <2>1. (-y < 0) # (y < 0)
    BY <1>7
  <2>2. QED BY <1>2, <1>3, <1>5, <2>1
<1>8. QED BY <1>6, <1>7

\* muldivs() leaves less than the divisor, with the sign of the product; muldivsr() is
\* the nearest multiple, rounded the same way on both sides of 0, and muldivur() is
\* the same for what is not negative (misc.cpp).
THEOREM ProductsNearest ==
    ASSUME NEW a \in Int, NEW b \in Int, NEW c \in Int \ {0}
    PROVE  LET down == A!muldivs(a, b, c)
               near == A!muldivsr(a, b, c) IN
           /\ down \in Int /\ near \in Int
           /\ a * b >= 0 => down * c >= 0 /\ a * b - down * c \in 0..(A!Magnitude(c) - 1)
           /\ a * b <= 0 => down * c <= 0 /\ down * c - a * b \in 0..(A!Magnitude(c) - 1)
           /\ 2 * A!Magnitude(near * c - a * b) <= A!Magnitude(c)
           /\ A!muldivsr(-a, b, c) = -near
           /\ a * b >= 0 /\ c > 0 => A!muldivur(a, b, c) = near
<1> DEFINE x == a * b
           m == A!Magnitude(c)
           bias == m \div 2
           y == x + (IF x < 0 THEN -bias ELSE bias)
<1>1. x \in Int /\ m \in Nat \ {0} /\ (-a) * b = -x
  BY MagnitudeFacts
<1>2. A!muldivs(a, b, c) = A!Quotient(x, c)
  BY DEF A!muldivs
<1>3. A!muldivsr(a, b, c) = A!Quotient(y, c)
  BY DEF A!muldivsr
<1>4. A!muldivsr(-a, b, c) = A!Quotient(-x + (IF -x < 0 THEN -bias ELSE bias), c)
  BY <1>1 DEF A!muldivsr
<1>5. A!muldivur(a, b, c) = (x + c \div 2) \div c
  BY DEF A!muldivur
<1> HIDE DEF x
<1>6. bias \in Nat /\ (m = 2 * bias \/ m = 2 * bias + 1)
  BY <1>1
<1>7. c > 0 => m = c
  BY MagnitudeFacts
<1>8. /\ A!Quotient(x, c) \in Int /\ A!Quotient(x, c) * c \in Int
      /\ x >= 0 => 0 <= A!Quotient(x, c) * c /\ A!Quotient(x, c) * c <= x /\ x < A!Quotient(x, c) * c + m
      /\ x <= 0 => x <= A!Quotient(x, c) * c /\ A!Quotient(x, c) * c <= 0 /\ A!Quotient(x, c) * c - m < x
  BY <1>1, QuotientFacts
<1> HIDE DEF m, bias
<1>9. y \in Int /\ (x >= 0 => y = x + bias) /\ (x < 0 => y = x - bias)
  BY <1>1, <1>6
<1> HIDE DEF y
<1>10. /\ A!Quotient(y, c) \in Int /\ A!Quotient(y, c) * c \in Int
       /\ y >= 0 => 0 <= A!Quotient(y, c) * c /\ A!Quotient(y, c) * c <= y /\ y < A!Quotient(y, c) * c + m
       /\ y <= 0 => y <= A!Quotient(y, c) * c /\ A!Quotient(y, c) * c <= 0 /\ A!Quotient(y, c) * c - m < y
  BY <1>9, QuotientFacts DEF m
<1>11. 2 * A!Magnitude(A!Quotient(y, c) * c - x) <= m
  <2> DEFINE d == A!Quotient(y, c) * c
  <2>1. /\ d \in Int
        /\ y >= 0 => 0 <= d /\ d <= y /\ y < d + m
        /\ y <= 0 => y <= d /\ d <= 0 /\ d - m < y
    BY <1>10
  <2> HIDE DEF d
  <2>2. 2 * (d - x) <= m /\ 2 * (x - d) <= m
    BY <1>1, <1>6, <1>9, <2>1
  <2>3. A!Magnitude(d - x) = d - x \/ A!Magnitude(d - x) = x - d
    BY <1>1, <2>1 DEF A!Magnitude
  <2>4. QED BY <2>2, <2>3 DEF d
<1>12. A!muldivsr(-a, b, c) = -A!Quotient(y, c)
  <2>1. CASE x # 0
    <3>1. -x + (IF -x < 0 THEN -bias ELSE bias) = -y
      BY <1>1, <1>6, <1>9, <2>1
    <3>2. QED BY <1>4, <1>9, <3>1, QuotientOdd
  <2>2. CASE x = 0
    <3>1. -x + (IF -x < 0 THEN -bias ELSE bias) = bias /\ y = bias
      BY <1>6, <1>9, <2>2
    <3>2. bias < m /\ m = A!Magnitude(c) /\ A!Magnitude(bias) = bias /\ A!Magnitude(-bias) = bias
      BY <1>1, <1>6 DEF m, A!Magnitude
    <3>3. A!Quotient(bias, c) = 0
      <4>1. bias \div m = 0
        BY <1>1, <1>6, <3>2
      <4>2. QED BY <3>2, <4>1 DEF A!Quotient
    <3>4. QED BY <1>4, <3>1, <3>3
  <2>3. QED BY <2>1, <2>2
<1>13. x >= 0 /\ c > 0 => A!muldivur(a, b, c) = A!Quotient(y, c)
  <2> SUFFICES ASSUME x >= 0, c > 0 PROVE A!muldivur(a, b, c) = A!Quotient(y, c)
    OBVIOUS
  <2>1. c = m /\ y = x + bias /\ y >= 0 /\ bias = c \div 2
    <3>1. c = m /\ y = x + bias
      BY <1>7, <1>9
    <3>2. y >= 0
      BY <1>1, <1>6, <3>1
    <3>3. bias = c \div 2
      BY <3>1 DEF bias
    <3>4. QED BY <3>1, <3>2, <3>3
  <2>2. A!Magnitude(c) = c /\ A!Magnitude(y) = y
    BY <1>9, <2>1 DEF A!Magnitude
  <2>3. A!Quotient(y, c) = y \div c
    <3> DEFINE q == A!Magnitude(y) \div A!Magnitude(c)
    <3>1. A!Quotient(y, c) = IF (y < 0) = (c < 0) THEN q ELSE -q
      BY DEF A!Quotient
    <3>2. q = y \div c
      BY <2>2
    <3> HIDE DEF q
    <3>3. A!Quotient(y, c) = q
      BY <1>9, <2>1, <3>1
    <3>4. QED BY <3>2, <3>3
  <2>4. QED BY <1>5, <2>1, <2>3
<1>14. QED
  <2>1. x >= 0 => x - A!Quotient(x, c) * c \in 0..(m - 1)
    BY <1>1, <1>8
  <2>2. x <= 0 => A!Quotient(x, c) * c - x \in 0..(m - 1)
    BY <1>1, <1>8
  <2>3. QED BY <1>2, <1>3, <1>8, <1>10, <1>11, <1>12, <1>13, <2>1, <2>2 DEF x, m

\* A number and its parts by m.
Parted(y, m) == y % m \in 0..(m - 1) /\ y \div m \in Int /\ y = m * (y \div m) + (y % m)

LEMMA Remainder ==
    ASSUME NEW y \in Int, NEW m \in Nat \ {0}
    PROVE  Parted(y, m)
BY SMTT(30) DEF Parted

LEMMA OnlyRemainder ==
    ASSUME NEW q \in Int, NEW r \in Int, NEW m \in Nat \ {0}, 0 <= r, r < m
    PROVE  (m * q + r) % m = r
BY SMTT(30)

\* The byte at the other end of the item that position p is in, of n bytes.
Mirror(p, n) == p - ((p - 1) % n) + (n - 1 - ((p - 1) % n))

LEMMA MirrorFacts ==
    ASSUME NEW n \in Nat \ {0}, NEW items \in Nat, NEW p \in 1..(n * items)
    PROVE  /\ Mirror(p, n) \in 1..(n * items)
           /\ Mirror(Mirror(p, n), n) = p
<1> DEFINE k == (p - 1) % n
           m == (p - 1) \div n
<1>0. n * items \in Nat /\ p \in Int /\ p - 1 \in Int
  BY SMTT(30)
<1>1. k \in 0..(n - 1) /\ m \in Int /\ p - 1 = n * m + k
  <2>1. Parted(p - 1, n)
    BY <1>0, Remainder
  <2>2. QED BY <2>1 DEF Parted
<1> HIDE DEF k, m
<1>2. n * m \in Int /\ n * m + k >= 0 /\ n * m < n * items
  BY <1>0, <1>1
<1>3. m >= 0 /\ n * m >= 0
  <2>1. m < 0 => n * m <= -n
    BY <1>1, SMTT(30)
  <2>2. m >= 0
    BY <1>1, <1>2, <2>1
  <2>3. QED BY <2>2, <1>1, SMTT(30)
<1>4. n * m + n <= n * items
  <2>1. m >= items => n * m >= n * items
    BY <1>1, SMTT(30)
  <2>2. m + 1 <= items
    BY <1>1, <1>2, <2>1
  <2>3. QED BY <1>1, <2>2, SMTT(30)
<1>5. Mirror(p, n) = n * m + (n - 1 - k) + 1
  BY <1>0, <1>1, <1>2 DEF Mirror, k
<1>6. Mirror(p, n) \in 1..(n * items)
  BY <1>0, <1>1, <1>2, <1>3, <1>4, <1>5
<1>7. Mirror(p, n) - 1 = n * m + (n - 1 - k) /\ Mirror(p, n) \in Int
  BY <1>1, <1>2, <1>5
<1>8. (Mirror(p, n) - 1) % n = n - 1 - k
  <2> DEFINE r == n - 1 - k
  <2>1. r \in Int /\ 0 <= r /\ r < n
    BY <1>1
  <2> HIDE DEF r
  <2>2. (n * m + r) % n = r
    BY <1>1, <2>1, OnlyRemainder
  <2>3. QED BY <1>7, <2>2 DEF r
<1>9. Mirror(Mirror(p, n), n) = Mirror(p, n) - (n - 1 - k) + (n - 1 - (n - 1 - k))
  BY <1>8 DEF Mirror
<1>10. QED BY <1>0, <1>1, <1>2, <1>5, <1>6, <1>9

\* Swapping the bytes of items twice gives them back; each item is turned round and
\* what is behind the items is left (misc.cpp).
THEOREM BytesSwapBack ==
    ASSUME NEW Elements, NEW buf \in Seq(Elements), NEW itemsize \in Nat, NEW nitems \in Nat,
           itemsize * nitems <= Len(buf)
    PROVE  LET swapped == A!SwapBytes(buf, itemsize, nitems) IN
           /\ A!SwapBytes(swapped, itemsize, nitems) = buf
           /\ \A p \in 1..Len(buf) :
                swapped[p] = IF itemsize > 0 /\ p <= itemsize * nitems THEN buf[Mirror(p, itemsize)] ELSE buf[p]
<1> DEFINE swapped == A!SwapBytes(buf, itemsize, nitems)
           back == A!SwapBytes(swapped, itemsize, nitems)
           all == itemsize * nitems
<1>0. Len(buf) \in Nat /\ DOMAIN buf = 1..Len(buf) /\ all \in Nat /\ all <= Len(buf)
  BY SMTT(30)
<1>1. CASE itemsize < 2
  <2>1. swapped = buf /\ back = buf
    BY <1>1 DEF A!SwapBytes
  <2>2. ASSUME NEW p \in 1..Len(buf), itemsize > 0, p <= all PROVE Mirror(p, itemsize) = p
    <3>1. itemsize = 1 /\ p \in Int
      BY <1>1, <2>2
    <3>2. (p - 1) % 1 = 0
      BY <3>1
    <3>3. QED BY <3>1, <3>2 DEF Mirror
  <2>3. QED BY <2>1, <2>2
<1>2. CASE itemsize >= 2
  <2>0. itemsize \in Nat \ {0} /\ 1 <= itemsize
    BY <1>2
  <2>1. ASSUME NEW k \in 0..(itemsize - 1)
        PROVE  A!SwapPartner(itemsize)[k] = itemsize - 1 - k
    BY <2>1 DEF A!SwapPartner
  <2>2. ASSUME NEW p \in 1..Len(buf)
        PROVE  p - ((p - 1) % itemsize) + A!SwapPartner(itemsize)[(p - 1) % itemsize] = Mirror(p, itemsize)
    <3>1. (p - 1) % itemsize \in 0..(itemsize - 1)
      <4>1. p - 1 \in Int
        OBVIOUS
      <4>2. Parted(p - 1, itemsize)
        BY <2>0, <4>1, Remainder
      <4>3. QED BY <4>2 DEF Parted
    <3>2. QED BY <2>1, <3>1 DEF Mirror
  <2> DEFINE turn(b) == [p \in DOMAIN b |-> IF p > all THEN b[p]
                            ELSE b[p - ((p - 1) % itemsize) + A!SwapPartner(itemsize)[(p - 1) % itemsize]]]
  <2>3. swapped = turn(buf) /\ back = turn(swapped)
    <3>1. ~(itemsize < 2)
      BY <1>2
    <3>2. QED BY <3>1 DEF A!SwapBytes
  <2>4. /\ DOMAIN swapped = 1..Len(buf)
        /\ \A p \in 1..Len(buf) : swapped[p] = IF p > all THEN buf[p] ELSE buf[Mirror(p, itemsize)]
    <3>1. swapped = turn(buf)
      BY <2>3
    <3> HIDE DEF swapped
    <3>2. QED BY <1>0, <2>2, <3>1
  <2>5. /\ DOMAIN back = 1..Len(buf)
        /\ \A p \in 1..Len(buf) : back[p] = IF p > all THEN swapped[p] ELSE swapped[Mirror(p, itemsize)]
    <3>1. back = turn(swapped)
      BY <2>3
    <3> HIDE DEF swapped, back
    <3>2. QED BY <2>2, <2>4, <3>1
  <2>6. back = [p \in DOMAIN back |-> back[p]]
    BY <2>3
  <2> HIDE DEF swapped, back, turn
  <2>7. ASSUME NEW p \in 1..Len(buf) PROVE back[p] = buf[p]
    <3>1. CASE p > all
      BY <2>4, <2>5, <3>1
    <3>2. CASE ~(p > all)
      <4>1. p \in 1..all
        BY <1>0, <3>2
      <4>2. Mirror(p, itemsize) \in 1..all /\ Mirror(Mirror(p, itemsize), itemsize) = p
        BY <2>0, <4>1, MirrorFacts
      <4>3. Mirror(p, itemsize) \in 1..Len(buf) /\ ~(Mirror(p, itemsize) > all)
        BY <1>0, <4>2
      <4>4. QED BY <2>4, <2>5, <3>2, <4>2, <4>3
    <3>3. QED BY <3>1, <3>2
  <2>8. back = buf
    <3>1. buf = [p \in 1..Len(buf) |-> buf[p]]
      BY <1>0
    <3>2. QED BY <2>5, <2>6, <2>7, <3>1
  <2>9. ASSUME NEW p \in 1..Len(buf)
        PROVE  swapped[p] = IF itemsize > 0 /\ p <= all THEN buf[Mirror(p, itemsize)] ELSE buf[p]
    <3>1. p > all <=> ~(p <= all)
      BY <1>0
    <3>2. QED BY <2>0, <2>4, <3>1
  <2>10. QED BY <2>8, <2>9 DEF swapped, back
<1>3. QED BY <1>1, <1>2

\* A sample read between two of a buffer is between their values, S to each
\* (misc.cpp), wherever the position stands.
THEOREM SampleBetween ==
    ASSUME NEW buffer \in Seq(Int), buffer # <<>>, NEW pos \in Nat, NEW S \in Nat \ {0},
           NEW low \in Int, NEW high \in Int, \A k \in 1..Len(buffer) : low <= buffer[k] /\ buffer[k] <= high
    PROVE  S * low <= A!InterpRead(buffer, pos, S) /\ A!InterpRead(buffer, pos, S) <= S * high
<1> DEFINE n == Len(buffer)
           f == pos % S
           p == pos \div S
           x == A!Sample(buffer, p)
           y == A!Sample(buffer, p + 1)
<1>1. n \in Nat \ {0}
  OBVIOUS
<1>2. f \in 0..(S - 1) /\ p \in Int /\ p + 1 \in Int
  <2>1. pos \in Int
    OBVIOUS
  <2>2. Parted(pos, S)
    BY <2>1, Remainder
  <2> HIDE DEF x, y
  <2>3. QED BY <2>2 DEF Parted
<1>3. ASSUME NEW i \in Int PROVE A!Sample(buffer, i) \in Int /\ low <= A!Sample(buffer, i) /\ A!Sample(buffer, i) <= high
  <2>1. i % n \in 0..(n - 1)
    <3>1. Parted(i, n)
      BY <1>1, Remainder
    <3>2. QED BY <3>1 DEF Parted
  <2>2. (i % n) + 1 \in 1..n
    BY <1>1, <2>1
  <2>3. QED BY <2>2 DEF A!Sample
<1>4. A!InterpRead(buffer, pos, S) = (S - f) * x + f * y
  BY DEF A!InterpRead
<1>5. x \in Int /\ y \in Int /\ low <= x /\ x <= high /\ low <= y /\ y <= high
  BY <1>2, <1>3
<1> HIDE DEF f, x, y, p
<1>6. f * (y - low) >= 0 /\ f * (high - y) >= 0 /\ (S - f) * (x - low) >= 0 /\ (S - f) * (high - x) >= 0
  BY <1>2, <1>5, SMTT(30)
<1>7. /\ (S - f) * x + f * y - S * low = (S - f) * (x - low) + f * (y - low)
      /\ S * high - ((S - f) * x + f * y) = (S - f) * (high - x) + f * (high - y)
  BY <1>2, <1>5, SMTT(30)
<1>8. S * low \in Int /\ S * high \in Int /\ (S - f) * x + f * y \in Int
  BY <1>2, <1>5, SMTT(30)
<1> DEFINE v == (S - f) * x + f * y
           floor == S * low
           ceiling == S * high
<1>9. v - floor >= 0 /\ ceiling - v >= 0
  BY <1>2, <1>5, <1>6, <1>7, SMTT(30)
<1>10. v \in Int /\ floor \in Int /\ ceiling \in Int
  BY <1>8
<1> HIDE DEF v, floor, ceiling
<1>11. floor <= v /\ v <= ceiling
  BY <1>9, <1>10
<1>12. QED BY <1>4, <1>11 DEF v, floor, ceiling

-----------------------------------------------------------------------------
(* Rectangles *)

G == INSTANCE Rectangles

Spans == [at : Int, size : Nat]

\* On one axis: what two spans share, what they lie in, and how one is limited
\* by another.
SharedRight(s, t, u) ==
    /\ u \in Spans
    /\ \A x \in Int : u.at <= x /\ x < u.at + u.size
         <=> (s.at <= x /\ x < s.at + s.size) /\ (t.at <= x /\ x < t.at + t.size)

HullRight(s, t, u) ==
    /\ u \in Spans
    /\ u.at <= s.at /\ u.at <= t.at /\ s.at + s.size <= u.at + u.size /\ t.at + t.size <= u.at + u.size
    /\ u.at \in {s.at, t.at} /\ u.at + u.size \in {s.at + s.size, t.at + t.size}

\* A span that is not turned round stays as it is.
LEMMA NormalFacts ==
    ASSUME NEW at \in Int, NEW size \in Nat
    PROVE  G!Normal(G!Span(at, size)) = [at |-> at, size |-> size]
<1>1. G!Least(at, at + size) = at /\ G!Greatest(at, at + size) = at + size /\ (at + size) - at = size
  BY DEF G!Least, G!Greatest
<1>2. G!Span(at, size).at = at /\ G!End(G!Span(at, size)) = at + size
  BY DEF G!Span, G!End
<1>3. QED BY <1>1, <1>2 DEF G!Normal, G!Span

LEMMA SharedFacts ==
    ASSUME NEW s \in Spans, NEW t \in Spans
    PROVE  SharedRight(s, t, G!SharedSpan(s, t))
<1> DEFINE low == G!Greatest(s.at, t.at)
           least == G!Least(s.at + s.size, t.at + t.size)
           high == G!Greatest(low, least)
<1>1. s.at \in Int /\ t.at \in Int /\ s.size \in Nat /\ t.size \in Nat
  BY DEF Spans
<1>2. /\ low \in Int /\ low >= s.at /\ low >= t.at /\ low \in {s.at, t.at}
      /\ least \in Int /\ least <= s.at + s.size /\ least <= t.at + t.size
      /\ least \in {s.at + s.size, t.at + t.size}
  BY <1>1 DEF G!Greatest, G!Least
<1> HIDE DEF low, least
<1>3. high \in {low, least} /\ high >= low /\ high >= least
  BY <1>2 DEF G!Greatest
<1>4. G!SharedSpan(s, t) = G!Normal(G!Span(low, high - low))
  BY DEF G!SharedSpan, G!End, low, least, high
<1> HIDE DEF high
<1>5. high - low \in Nat /\ low \in Int
  BY <1>2, <1>3
<1>6. G!SharedSpan(s, t) = [at |-> low, size |-> high - low]
  BY <1>4, <1>5, NormalFacts
<1>7. low + (high - low) = high
  BY <1>2, <1>3
<1>8. ASSUME NEW x \in Int
      PROVE  low <= x /\ x < high <=> (s.at <= x /\ x < s.at + s.size) /\ (t.at <= x /\ x < t.at + t.size)
  BY <1>1, <1>2, <1>3
<1>9. QED BY <1>5, <1>6, <1>7, <1>8 DEF SharedRight, Spans

LEMMA HullFacts ==
    ASSUME NEW s \in Spans, NEW t \in Spans
    PROVE  HullRight(s, t, G!HullSpan(s, t)) /\ G!IncludeSpan(s, t) = G!HullSpan(s, t)
<1> DEFINE low == G!Least(s.at, t.at)
           most == G!Greatest(s.at + s.size, t.at + t.size)
           high == G!Greatest(low, most)
<1>1. s.at \in Int /\ t.at \in Int /\ s.size \in Nat /\ t.size \in Nat
  BY DEF Spans
<1>2. /\ low \in Int /\ low <= s.at /\ low <= t.at /\ low \in {s.at, t.at}
      /\ most \in Int /\ most >= s.at + s.size /\ most >= t.at + t.size
      /\ most \in {s.at + s.size, t.at + t.size}
  BY <1>1 DEF G!Greatest, G!Least
<1> HIDE DEF low, most
<1>3. high = most /\ low <= most /\ G!Least(low, most) = low
  BY <1>1, <1>2 DEF G!Greatest, G!Least
<1>4. G!HullSpan(s, t) = G!Normal(G!Span(low, high - low))
  BY DEF G!HullSpan, G!End, low, most, high
<1>5. G!IncludeSpan(s, t) = G!Span(G!Least(low, most), high - G!Least(low, most))
  BY DEF G!IncludeSpan, G!End, low, most, high
<1> HIDE DEF high
<1>6. most - low \in Nat
  BY <1>2, <1>3
<1>7. G!HullSpan(s, t) = [at |-> low, size |-> most - low]
  BY <1>2, <1>3, <1>4, <1>6, NormalFacts
<1>8. G!IncludeSpan(s, t) = G!HullSpan(s, t)
  BY <1>3, <1>5, <1>7 DEF G!Span
<1>9. low + (most - low) = most
  BY <1>2
<1>10. QED BY <1>2, <1>6, <1>7, <1>8, <1>9 DEF HullRight, Spans

LEMMA SpanLimitFacts ==
    ASSUME NEW s \in Spans, NEW t \in Spans, NEW shrink \in BOOLEAN
    PROVE  LET u == G!LimitSpan(s, t, shrink) IN
           /\ u \in Spans /\ u.at >= t.at /\ u.at + u.size <= t.at + t.size
           /\ u.size = G!Least(s.size, t.size)
           /\ s.at >= t.at /\ s.at + s.size <= t.at + t.size => u = s
<1> DEFINE size == G!Least(s.size, t.size)
           low == G!Greatest(s.at, t.at)
           at == G!Least(low + size, t.at + t.size) - size
<1>1. s.at \in Int /\ t.at \in Int /\ s.size \in Nat /\ t.size \in Nat
  BY DEF Spans
<1>2. /\ size \in Nat /\ size <= s.size /\ size <= t.size /\ size \in {s.size, t.size}
      /\ low \in Int /\ low >= s.at /\ low >= t.at /\ low \in {s.at, t.at}
  BY <1>1 DEF G!Least, G!Greatest
<1> HIDE DEF size, low
<1>3. at \in Int /\ at >= t.at /\ at + size <= t.at + t.size
  <2>1. /\ G!Least(low + size, t.at + t.size) \in {low + size, t.at + t.size}
        /\ G!Least(low + size, t.at + t.size) <= t.at + t.size
    BY <1>1, <1>2 DEF G!Least
  <2>2. /\ (low + size) - size = low /\ (t.at + t.size) - size >= t.at
        /\ low + size \in Int /\ t.at + t.size \in Int
    BY <1>1, <1>2
  <2> DEFINE end == G!Least(low + size, t.at + t.size)
  <2>3. at = end - size
    OBVIOUS
  <2>4. end \in Int /\ end <= t.at + t.size /\ (end = low + size \/ end = t.at + t.size)
    BY <2>1, <2>2
  <2> HIDE DEF end, at
  <2>5. at \in Int /\ (end = low + size => at = low)
    BY <1>2, <2>2, <2>3, <2>4
  <2>6. at >= t.at
    <3>1. end = low + size => at >= t.at
      BY <1>1, <1>2, <2>5
    <3>2. end = t.at + t.size => at >= t.at
      BY Zenon, <2>2, <2>3
    <3>3. QED BY <2>4, <3>1, <3>2
  <2>7. at + size = end
    BY <1>2, <2>3, <2>4
  <2>8. QED BY <2>4, <2>5, <2>6, <2>7
<1>4. s.at >= t.at /\ s.at + s.size <= t.at + t.size => at = s.at /\ size = s.size
  <2> SUFFICES ASSUME s.at >= t.at, s.at + s.size <= t.at + t.size PROVE at = s.at /\ size = s.size
    OBVIOUS
  <2>1. size = s.size /\ low = s.at
    BY <1>1, <1>2
  <2>2. G!Least(low + size, t.at + t.size) = low + size
    BY <1>1, <2>1 DEF G!Least
  <2>3. QED BY <1>1, <2>1, <2>2
<1> HIDE DEF at
<1>5. G!LimitSpan(s, t, shrink) = [at |-> at, size |-> size]
  BY <1>3 DEF G!LimitSpan, G!End, G!Span, at, low, size
<1>6. s = [at |-> s.at, size |-> s.size]
  BY DEF Spans
<1>7. QED BY <1>2, <1>3, <1>4, <1>5, <1>6 DEF Spans, size

Rects == Spans \X Spans

\* Max() of two rectangles holds the points that both hold, and Min() is the least
\* rectangle that both are inside, as Include() makes it; Limit() puts a rectangle inside
\* another and leaves one that is (PointSizeRect.h).
THEOREM RectanglesMeet ==
    ASSUME NEW r \in Rects, NEW q \in Rects
    PROVE  /\ G!MaxRect(r, q) \in Rects
           /\ \A pt \in Int \X Int :
                G!InsidePoint(G!MaxRect(r, q), pt) <=> G!InsidePoint(r, pt) /\ G!InsidePoint(q, pt)
           /\ G!InsideRect(r, G!MinRect(r, q)) /\ G!InsideRect(q, G!MinRect(r, q))
           /\ \A other \in Rects :
                G!InsideRect(r, other) /\ G!InsideRect(q, other) => G!InsideRect(G!MinRect(r, q), other)
           /\ G!Include(r, q) = G!MinRect(r, q)
           /\ \A shrink \in BOOLEAN : /\ G!InsideRect(G!Limit(r, q, shrink), q)
                                      /\ G!InsideRect(r, q) => G!Limit(r, q, shrink) = r
<1>1. r[1] \in Spans /\ r[2] \in Spans /\ q[1] \in Spans /\ q[2] \in Spans /\ r = <<r[1], r[2]>>
  BY DEF Rects
<1>2. /\ SharedRight(r[1], q[1], G!SharedSpan(r[1], q[1]))
      /\ SharedRight(r[2], q[2], G!SharedSpan(r[2], q[2]))
  BY <1>1, SharedFacts
<1>3. /\ HullRight(r[1], q[1], G!HullSpan(r[1], q[1])) /\ G!IncludeSpan(r[1], q[1]) = G!HullSpan(r[1], q[1])
      /\ HullRight(r[2], q[2], G!HullSpan(r[2], q[2])) /\ G!IncludeSpan(r[2], q[2]) = G!HullSpan(r[2], q[2])
  BY <1>1, HullFacts
<1>4. G!MaxRect(r, q) \in Rects
  BY <1>2 DEF G!MaxRect, SharedRight, Rects
<1>5. ASSUME NEW pt \in Int \X Int
      PROVE  G!InsidePoint(G!MaxRect(r, q), pt) <=> G!InsidePoint(r, pt) /\ G!InsidePoint(q, pt)
  <2>1. pt[1] \in Int /\ pt[2] \in Int
    OBVIOUS
  <2>2. \A rect, p : G!InsidePoint(rect, p) <=>
          /\ rect[1].at <= p[1] /\ p[1] < rect[1].at + rect[1].size
          /\ rect[2].at <= p[2] /\ p[2] < rect[2].at + rect[2].size
    BY DEF G!InsidePoint, G!End
  <2>3. G!MaxRect(r, q)[1] = G!SharedSpan(r[1], q[1]) /\ G!MaxRect(r, q)[2] = G!SharedSpan(r[2], q[2])
    BY DEF G!MaxRect
  <2>4. QED BY <1>2, <2>1, <2>2, <2>3 DEF SharedRight
<1>6. /\ G!MinRect(r, q)[1] = G!HullSpan(r[1], q[1]) /\ G!MinRect(r, q)[2] = G!HullSpan(r[2], q[2])
      /\ G!Include(r, q) = G!MinRect(r, q)
  BY <1>3 DEF G!MinRect, G!Include
<1>7. \A v, w : G!InsideRect(v, w) <=>
        /\ v[1].at >= w[1].at /\ v[1].at + v[1].size <= w[1].at + w[1].size
        /\ v[2].at >= w[2].at /\ v[2].at + v[2].size <= w[2].at + w[2].size
  BY DEF G!InsideRect, G!End
<1>8. G!InsideRect(r, G!MinRect(r, q)) /\ G!InsideRect(q, G!MinRect(r, q))
  BY <1>1, <1>3, <1>6, <1>7 DEF HullRight, Spans
<1>9. ASSUME NEW other \in Rects, G!InsideRect(r, other), G!InsideRect(q, other)
      PROVE  G!InsideRect(G!MinRect(r, q), other)
  <2>1. /\ G!HullSpan(r[1], q[1]).at \in {r[1].at, q[1].at}
        /\ G!HullSpan(r[2], q[2]).at \in {r[2].at, q[2].at}
        /\ G!HullSpan(r[1], q[1]).at + G!HullSpan(r[1], q[1]).size \in {r[1].at + r[1].size, q[1].at + q[1].size}
        /\ G!HullSpan(r[2], q[2]).at + G!HullSpan(r[2], q[2]).size \in {r[2].at + r[2].size, q[2].at + q[2].size}
    BY <1>3 DEF HullRight
  <2>2. QED BY <1>6, <1>7, <1>9, <2>1
<1>10. ASSUME NEW shrink \in BOOLEAN
       PROVE  /\ G!InsideRect(G!Limit(r, q, shrink), q)
              /\ G!InsideRect(r, q) => G!Limit(r, q, shrink) = r
  <2> DEFINE u == G!LimitSpan(r[1], q[1], shrink)
             v == G!LimitSpan(r[2], q[2], shrink)
  <2>1. /\ u.at >= q[1].at /\ u.at + u.size <= q[1].at + q[1].size
        /\ r[1].at >= q[1].at /\ r[1].at + r[1].size <= q[1].at + q[1].size => u = r[1]
    BY <1>1, SpanLimitFacts
  <2>2. /\ v.at >= q[2].at /\ v.at + v.size <= q[2].at + q[2].size
        /\ r[2].at >= q[2].at /\ r[2].at + r[2].size <= q[2].at + q[2].size => v = r[2]
    BY <1>1, SpanLimitFacts
  <2>3. G!Limit(r, q, shrink) = <<u, v>>
    BY DEF G!Limit
  <2> HIDE DEF u, v
  <2>4. QED BY <1>1, <1>7, <2>1, <2>2, <2>3
<1>11. QED BY <1>4, <1>5, <1>6, <1>8, <1>9, <1>10

-----------------------------------------------------------------------------
(* The lock: the mutex protects the condition, a signal is not lost before  *)
(* a sleep, and the waits implement BinarySignal.                           *)

\* Everything of TypeOK but the bound of count, which follows from
\* MonitorExclusive.
Types ==
    /\ owner \in Threads \cup {NoThread}
    /\ count \in Nat
    /\ condition \in BOOLEAN
    /\ sleepers \subseteq Threads
    /\ pc \in [Threads -> Labels]
    /\ call \in [Threads -> Calls \cup {"none"}]
    /\ scopes \in [Threads -> 0..MaxScopes]
    /\ promised \subseteq Threads

\* Where a thread stands tells which call it makes.
CallShape ==
    \A t \in Threads :
        /\ pc[t] = "idle" <=> call[t] = "none"
        /\ pc[t] \in {"test", "asleep", "wake", "take"} => call[t] = "Wait"
        /\ pc[t] \in {"set", "inner", "notify", "unlock2"} => call[t] \in {"Signal", "Broadcast"}

\* A wait starts without scopes, so a sleeping thread has no lock left.
WaitsWithoutScopes == \A t \in Threads : call[t] = "Wait" => scopes[t] = 0

SleepersExact == sleepers = {t \in Threads : pc[t] = "asleep"}

\* The condition a waiter has tested still holds when it takes it.
TakesWhatItTested == \A t \in Threads : pc[t] = "take" => condition

LockInv ==
    /\ Types
    /\ MonitorExclusive
    /\ CallShape
    /\ WaitsWithoutScopes
    /\ SleepersExact
    /\ TakesWhatItTested
    /\ NoLostWakeup

USE ThreadLockAssumption DEF Calls, Labels

LEMMA LockInit == Init => LockInv
BY DEF Init, LockInv, Types, MonitorExclusive, CallShape, WaitsWithoutScopes,
       SleepersExact, TakesWhatItTested, NoLostWakeup, Held

\* The parts of the invariant that no lock decides.
LEMMA ShapeStep ==
    ASSUME LockInv, [Next]_vars
    PROVE  Types' /\ CallShape' /\ WaitsWithoutScopes' /\ SleepersExact'
<1> USE DEF LockInv, Types, CallShape, WaitsWithoutScopes, SleepersExact, MonitorExclusive, Held
<1>1. ASSUME NEW t \in Threads, OpenScope(t) PROVE Types' /\ CallShape' /\ WaitsWithoutScopes' /\ SleepersExact'
  BY <1>1 DEF OpenScope, Acquire
<1>2. ASSUME NEW t \in Threads, CloseScope(t) PROVE Types' /\ CallShape' /\ WaitsWithoutScopes' /\ SleepersExact'
  BY <1>2 DEF CloseScope, ReleaseMutex
<1>3. ASSUME NEW t \in Threads, NEW f \in Calls, Begin(t, f) PROVE Types' /\ CallShape' /\ WaitsWithoutScopes' /\ SleepersExact'
  BY <1>3 DEF Begin, Goto
<1>4. ASSUME NEW t \in Threads, Enter(t) PROVE Types' /\ CallShape' /\ WaitsWithoutScopes' /\ SleepersExact'
  BY <1>4 DEF Enter, Acquire, Goto
<1>5. ASSUME NEW t \in Threads, Test(t) PROVE Types' /\ CallShape' /\ WaitsWithoutScopes' /\ SleepersExact'
  BY <1>5 DEF Test, Goto
<1>6. ASSUME NEW t \in Threads, Sleep(t) PROVE Types' /\ CallShape' /\ WaitsWithoutScopes' /\ SleepersExact'
  <2>1. /\ pc[t] = "test" /\ owner = t /\ count' = count - 1
        /\ pc' = [pc EXCEPT ![t] = "asleep"] /\ sleepers' = sleepers \cup {t}
        /\ UNCHANGED <<condition, call, scopes, promised>>
    BY <1>6 DEF Sleep, ReleaseMutex, Goto
  <2>2. Types'
    <3>1. count' \in Nat /\ owner' \in Threads \cup {NoThread}
      BY <1>6 DEF Sleep, ReleaseMutex
    <3>2. sleepers' \subseteq Threads /\ pc' \in [Threads -> Labels]
      BY <2>1
    <3>3. QED BY <2>1, <3>1, <3>2
  <2>3. CallShape'
    BY <2>1
  <2>4. WaitsWithoutScopes'
    BY <2>1
  <2>5. SleepersExact'
    BY <2>1
  <2>6. QED BY <2>2, <2>3, <2>4, <2>5
<1>7. ASSUME NEW t \in Threads, SpuriousWake(t) PROVE Types' /\ CallShape' /\ WaitsWithoutScopes' /\ SleepersExact'
  BY <1>7 DEF SpuriousWake, Goto
<1>8. ASSUME NEW t \in Threads, Rewake(t) PROVE Types' /\ CallShape' /\ WaitsWithoutScopes' /\ SleepersExact'
  BY <1>8 DEF Rewake, Acquire, Goto
<1>9. ASSUME NEW t \in Threads, Take(t) PROVE Types' /\ CallShape' /\ WaitsWithoutScopes' /\ SleepersExact'
  BY <1>9 DEF Take, Goto
<1>10. ASSUME NEW t \in Threads, Set(t) PROVE Types' /\ CallShape' /\ WaitsWithoutScopes' /\ SleepersExact'
  BY <1>10 DEF Set, Goto
<1>11. ASSUME NEW t \in Threads, Inner(t) PROVE Types' /\ CallShape' /\ WaitsWithoutScopes' /\ SleepersExact'
  BY <1>11 DEF Inner, Acquire, Goto
<1>12. ASSUME NEW t \in Threads, Notify(t) PROVE Types' /\ CallShape' /\ WaitsWithoutScopes' /\ SleepersExact'
  <2>1. PICK w \in Woken(t) :
          /\ sleepers' = sleepers \ w
          /\ pc' = [u \in Threads |->
                      IF u = t THEN "unlock2" ELSE IF u \in w THEN "wake" ELSE pc[u]]
    BY <1>12 DEF Notify
  <2>2. w \subseteq sleepers
    BY <2>1 DEF Woken
  <2>3. pc[t] = "notify" /\ UNCHANGED <<owner, count, condition, call, scopes>>
    BY <1>12 DEF Notify
  <2>4. Types'
    BY <1>12, <2>1, <2>3 DEF Notify
  <2>5. CallShape'
    BY <2>1, <2>2, <2>3
  <2>6. WaitsWithoutScopes'
    BY <2>3
  <2>7. SleepersExact'
    BY <2>1, <2>2, <2>3
  <2>8. QED BY <2>4, <2>5, <2>6, <2>7
<1>13. ASSUME NEW t \in Threads, UnlockInner(t) PROVE Types' /\ CallShape' /\ WaitsWithoutScopes' /\ SleepersExact'
  BY <1>13 DEF UnlockInner, ReleaseMutex, Goto
<1>14. ASSUME NEW t \in Threads, Return(t) PROVE Types' /\ CallShape' /\ WaitsWithoutScopes' /\ SleepersExact'
  BY <1>14 DEF Return, ReleaseMutex, Goto
<1>15. CASE UNCHANGED vars
  BY <1>15 DEF vars
<1>16. QED
  BY <1>1, <1>2, <1>3, <1>4, <1>5, <1>6, <1>7, <1>8, <1>9, <1>10, <1>11, <1>12,
     <1>13, <1>14, <1>15 DEF Next, Caller, Step

\* The mutex part: one holder, and the count of its locks.
LEMMA MutexStep ==
    ASSUME LockInv, [Next]_vars
    PROVE  MonitorExclusive'
<1> USE DEF LockInv, Types, MonitorExclusive, Held
<1>1. ASSUME NEW t \in Threads, OpenScope(t) PROVE MonitorExclusive'
  BY <1>1 DEF OpenScope, Acquire
<1>2. ASSUME NEW t \in Threads, CloseScope(t) PROVE MonitorExclusive'
  BY <1>2 DEF CloseScope, ReleaseMutex
<1>3. ASSUME NEW t \in Threads, NEW f \in Calls, Begin(t, f) PROVE MonitorExclusive'
  BY <1>3 DEF Begin, Goto
<1>4. ASSUME NEW t \in Threads, Enter(t) PROVE MonitorExclusive'
  BY <1>4 DEF Enter, Acquire, Goto
<1>5. ASSUME NEW t \in Threads, Test(t) PROVE MonitorExclusive'
  BY <1>5 DEF Test, Goto
<1>6. ASSUME NEW t \in Threads, Sleep(t) PROVE MonitorExclusive'
  <2>1. scopes[t] = 0
    BY <1>6 DEF Sleep, CallShape, WaitsWithoutScopes
  <2>2. QED BY <1>6, <2>1 DEF Sleep, ReleaseMutex, Goto
<1>7. ASSUME NEW t \in Threads, SpuriousWake(t) PROVE MonitorExclusive'
  BY <1>7 DEF SpuriousWake, Goto
<1>8. ASSUME NEW t \in Threads, Rewake(t) PROVE MonitorExclusive'
  BY <1>8 DEF Rewake, Acquire, Goto
<1>9. ASSUME NEW t \in Threads, Take(t) PROVE MonitorExclusive'
  BY <1>9 DEF Take, Goto
<1>10. ASSUME NEW t \in Threads, Set(t) PROVE MonitorExclusive'
  BY <1>10 DEF Set, Goto
<1>11. ASSUME NEW t \in Threads, Inner(t) PROVE MonitorExclusive'
  BY <1>11 DEF Inner, Acquire, Goto
<1>12. ASSUME NEW t \in Threads, Notify(t) PROVE MonitorExclusive'
  <2>1. PICK w \in Woken(t) :
          pc' = [u \in Threads |->
                   IF u = t THEN "unlock2" ELSE IF u \in w THEN "wake" ELSE pc[u]]
    BY <1>12 DEF Notify
  <2>2. \A u \in w : pc[u] = "asleep"
    BY <2>1 DEF Woken, SleepersExact
  <2>3. pc[t] = "notify" /\ UNCHANGED <<owner, count, scopes>>
    BY <1>12 DEF Notify
  <2>4. \A u \in Threads : Held(u)' = Held(u)
    BY <2>1, <2>2, <2>3
  <2>5. QED BY <2>3, <2>4
<1>13. ASSUME NEW t \in Threads, UnlockInner(t) PROVE MonitorExclusive'
  BY <1>13 DEF UnlockInner, ReleaseMutex, Goto
<1>14. ASSUME NEW t \in Threads, Return(t) PROVE MonitorExclusive'
  <2>1. owner = t /\ pc[t] = "unlock1" /\ count = 1 + scopes[t]
    BY <1>14 DEF Return, ReleaseMutex
  <2>2. count' = scopes[t] /\ owner' = IF scopes[t] = 0 THEN NoThread ELSE t
    BY <1>14, <2>1 DEF Return, ReleaseMutex
  <2>3. pc' = [pc EXCEPT ![t] = "idle"] /\ scopes' = scopes
    BY <1>14 DEF Return, Goto
  <2>4. Held(t)' = 0 /\ \A u \in Threads \ {t} : Held(u)' = Held(u)
    BY <2>3
  <2>5. \A u \in Threads \ {t} : Held(u) + scopes[u] <= 0
    BY <2>1
  <2>6. QED BY <2>1, <2>2, <2>3, <2>4, <2>5
<1>15. CASE UNCHANGED vars
  BY <1>15 DEF vars
<1>16. QED
  BY <1>1, <1>2, <1>3, <1>4, <1>5, <1>6, <1>7, <1>8, <1>9, <1>10, <1>11, <1>12,
     <1>13, <1>14, <1>15 DEF Next, Caller, Step

\* The signal part: a tested condition stays, and a set one has somebody who
\* will look at it.
LEMMA SignalStep ==
    ASSUME LockInv, [Next]_vars
    PROVE  TakesWhatItTested' /\ NoLostWakeup'
<1> USE DEF LockInv, Types, TakesWhatItTested, NoLostWakeup, SleepersExact
<1>1. ASSUME NEW t \in Threads, OpenScope(t) PROVE TakesWhatItTested' /\ NoLostWakeup'
  BY <1>1 DEF OpenScope
<1>2. ASSUME NEW t \in Threads, CloseScope(t) PROVE TakesWhatItTested' /\ NoLostWakeup'
  BY <1>2 DEF CloseScope
<1>3. ASSUME NEW t \in Threads, NEW f \in Calls, Begin(t, f) PROVE TakesWhatItTested' /\ NoLostWakeup'
  BY <1>3 DEF Begin, Goto
<1>4. ASSUME NEW t \in Threads, Enter(t) PROVE TakesWhatItTested' /\ NoLostWakeup'
  BY <1>4 DEF Enter, Goto
<1>5. ASSUME NEW t \in Threads, Test(t) PROVE TakesWhatItTested' /\ NoLostWakeup'
  BY <1>5 DEF Test, Goto
<1>6. ASSUME NEW t \in Threads, Sleep(t) PROVE TakesWhatItTested' /\ NoLostWakeup'
  BY <1>6 DEF Sleep, Goto
<1>7. ASSUME NEW t \in Threads, SpuriousWake(t) PROVE TakesWhatItTested' /\ NoLostWakeup'
  BY <1>7 DEF SpuriousWake, Goto
<1>8. ASSUME NEW t \in Threads, Rewake(t) PROVE TakesWhatItTested' /\ NoLostWakeup'
  BY <1>8 DEF Rewake, Goto
<1>9. ASSUME NEW t \in Threads, Take(t) PROVE TakesWhatItTested' /\ NoLostWakeup'
  <2>1. \A u \in Threads : pc[u] = "take" => u = t
    BY <1>9 DEF Take, MonitorExclusive, Held
  <2>2. QED BY <1>9, <2>1 DEF Take, Goto
<1>10. ASSUME NEW t \in Threads, Set(t) PROVE TakesWhatItTested' /\ NoLostWakeup'
  BY <1>10 DEF Set, Goto
<1>11. ASSUME NEW t \in Threads, Inner(t) PROVE TakesWhatItTested' /\ NoLostWakeup'
  BY <1>11 DEF Inner, Goto
<1>12. ASSUME NEW t \in Threads, Notify(t) PROVE TakesWhatItTested' /\ NoLostWakeup'
  <2>1. PICK w \in Woken(t) :
          /\ sleepers' = sleepers \ w
          /\ pc' = [u \in Threads |->
                      IF u = t THEN "unlock2" ELSE IF u \in w THEN "wake" ELSE pc[u]]
    BY <1>12 DEF Notify
  <2>2. w \subseteq sleepers /\ (w # {} \/ sleepers' = {})
    BY <2>1 DEF Woken
  <2>3. pc[t] = "notify" /\ UNCHANGED condition
    BY <1>12 DEF Notify
  <2>4. TakesWhatItTested'
    BY <2>1, <2>3
  <2>5. NoLostWakeup'
    <3>1. ASSUME sleepers' # {} PROVE \E u \in Threads : pc'[u] = "wake"
      <4>1. PICK u \in w : TRUE
        BY <2>2, <3>1
      <4>2. u \in Threads /\ u # t
        BY <2>2, <2>3, <4>1
      <4>3. QED BY <2>1, <4>1, <4>2
    <3>2. QED BY <3>1
  <2>6. QED BY <2>4, <2>5
<1>13. ASSUME NEW t \in Threads, UnlockInner(t) PROVE TakesWhatItTested' /\ NoLostWakeup'
  BY <1>13 DEF UnlockInner, Goto
<1>14. ASSUME NEW t \in Threads, Return(t) PROVE TakesWhatItTested' /\ NoLostWakeup'
  BY <1>14 DEF Return, Goto
<1>15. CASE UNCHANGED vars
  BY <1>15 DEF vars
<1>16. QED
  BY <1>1, <1>2, <1>3, <1>4, <1>5, <1>6, <1>7, <1>8, <1>9, <1>10, <1>11, <1>12,
     <1>13, <1>14, <1>15 DEF Next, Caller, Step

\* LockInv is an invariant of every behaviour.
THEOREM LockKept == Spec => []LockInv
<1>1. Init => LockInv
  BY LockInit
<1>2. LockInv /\ [Next]_vars => LockInv'
  BY ShapeStep, MutexStep, SignalStep DEF LockInv
<1>3. QED
  BY <1>1, <1>2, PTL DEF Spec

\* Type correctness: the mutex is never locked more than the scopes of its
\* holder and the two locks of a signal.
THEOREM LockTypes == Spec => []TypeOK
<1>1. LockInv => TypeOK
  BY DEF LockInv, Types, TypeOK, MonitorExclusive, Held
<1>2. QED
  BY <1>1, LockKept, PTL

\* The condition is touched under the mutex only, whatever the threads and the
\* scopes around their calls, and the count of locks is exact.
THEOREM MutualExclusion == Spec => []MonitorExclusive
<1>1. LockInv => MonitorExclusive
  BY DEF LockInv
<1>2. QED
  BY <1>1, LockKept, PTL

\* No signal is lost between a waiter's test of the condition and its sleep.
THEOREM WakeupNotLost == Spec => []NoLostWakeup
<1>1. LockInv => NoLostWakeup
  BY DEF LockInv
<1>2. QED
  BY <1>1, LockKept, PTL

\* The boolean signal implements BinarySignal: every return of Wait() takes
\* one raised flag.
THEOREM ImplementsBinarySignal == Spec => RefinesBinarySignal
<1>1. Init => BS!Init
  BY DEF Init, BS!Init, Waiting
<1>2. LockInv /\ [Next]_vars => [BS!Next]_<<condition, Waiting>>
  <2> SUFFICES ASSUME LockInv, [Next]_vars PROVE [BS!Next]_<<condition, Waiting>>
    OBVIOUS
  <2> USE DEF LockInv, Types, Waiting
  <2>1. ASSUME NEW t \in Threads, NEW f \in Calls, Begin(t, f) PROVE [BS!Next]_<<condition, Waiting>>
    <3>1. CASE f = "Wait"
      <4>1. t \notin Waiting /\ Waiting' = Waiting \cup {t} /\ UNCHANGED condition
        BY <2>1, <3>1 DEF Begin, Goto
      <4>2. QED BY <4>1 DEF BS!Next, BS!Arrive
    <3>2. CASE f # "Wait"
      <4>1. Waiting' = Waiting /\ UNCHANGED condition
        BY <2>1, <3>2 DEF Begin, Goto
      <4>2. QED BY <4>1
    <3>3. QED BY <3>1, <3>2
  <2>2. ASSUME NEW t \in Threads, Take(t) PROVE [BS!Next]_<<condition, Waiting>>
    <3>1. condition /\ t \in Waiting
      BY <2>2 DEF Take, TakesWhatItTested, CallShape
    <3>2. condition' = FALSE /\ Waiting' = Waiting \ {t}
      BY <2>2 DEF Take, Goto
    <3>3. QED BY <3>1, <3>2 DEF BS!Next, BS!Release
  <2>3. ASSUME NEW t \in Threads, Set(t) PROVE [BS!Next]_<<condition, Waiting>>
    <3>1. condition' = TRUE /\ Waiting' = Waiting
      BY <2>3 DEF Set, Goto
    <3>2. QED BY <3>1 DEF BS!Next, BS!Raise
  <2>4. ASSUME NEW t \in Threads,
               OpenScope(t) \/ CloseScope(t) \/ Enter(t) \/ Test(t) \/ Sleep(t)
                 \/ SpuriousWake(t) \/ Rewake(t) \/ Inner(t) \/ UnlockInner(t)
        PROVE  UNCHANGED <<condition, Waiting>>
    <3>1. CASE OpenScope(t) \/ CloseScope(t)
      BY <3>1 DEF OpenScope, CloseScope
    <3>2. CASE Enter(t)
      BY <3>2 DEF Enter, Goto
    <3>3. CASE Test(t)
      BY <3>3 DEF Test, Goto
    <3>4. CASE Sleep(t)
      BY <3>4 DEF Sleep, Goto
    <3>5. CASE SpuriousWake(t)
      BY <3>5 DEF SpuriousWake, Goto
    <3>6. CASE Rewake(t)
      BY <3>6 DEF Rewake, Goto
    <3>7. CASE Inner(t)
      BY <3>7 DEF Inner, Goto
    <3>8. CASE UnlockInner(t)
      BY <3>8 DEF UnlockInner, Goto, CallShape
    <3>9. QED
      BY <2>4, <3>1, <3>2, <3>3, <3>4, <3>5, <3>6, <3>7, <3>8
  <2>5. ASSUME NEW t \in Threads, Notify(t) PROVE UNCHANGED <<condition, Waiting>>
    <3>1. PICK w \in Woken(t) :
            pc' = [u \in Threads |->
                     IF u = t THEN "unlock2" ELSE IF u \in w THEN "wake" ELSE pc[u]]
      BY <2>5 DEF Notify
    <3>2. \A u \in w : pc[u] = "asleep"
      BY <3>1 DEF Woken, SleepersExact
    <3>3. pc[t] = "notify" /\ UNCHANGED <<condition, call>>
      BY <2>5 DEF Notify
    <3>4. call[t] # "Wait" /\ \A u \in w : u # t
      BY <3>2, <3>3 DEF CallShape
    <3>5. ASSUME NEW u \in Threads PROVE u \in Waiting' <=> u \in Waiting
      <4>1. CASE u = t
        BY <3>3, <3>4, <4>1
      <4>2. CASE u # t /\ u \in w
        BY <3>1, <3>2, <3>3, <4>2
      <4>3. CASE u # t /\ u \notin w
        BY <3>1, <3>3, <4>3
      <4>4. QED BY <4>1, <4>2, <4>3
    <3>6. Waiting' = Waiting
      BY <3>5
    <3>7. QED BY <3>3, <3>6
  <2>6. ASSUME NEW t \in Threads, Return(t) PROVE UNCHANGED <<condition, Waiting>>
    BY <2>6 DEF Return, Goto
  <2>7. CASE UNCHANGED vars
    BY <2>7 DEF vars
  <2>8. QED
    BY <2>1, <2>2, <2>3, <2>4, <2>5, <2>6, <2>7 DEF Next, Caller, Step
<1>3. QED
  BY <1>1, <1>2, LockKept, PTL DEF Spec, RefinesBinarySignal, BS!Spec
=============================================================================
