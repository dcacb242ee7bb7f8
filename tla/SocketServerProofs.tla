------------------------- MODULE SocketServerProofs -------------------------
(***************************************************************************)
(* Proofs about SocketServer for any descriptors, buffer size and          *)
(* callback sets: the pointers held across callbacks stay valid, a pass    *)
(* never calls a NULL read callback or a handler that was told it is gone. *)
(***************************************************************************)
EXTENDS SocketServer, ListFacts

-----------------------------------------------------------------------------
(* The invariant *)

\* Which frame runs and what ProcessingDepth says of it.
Control ==
    /\ reap # "off" => depth = 1 /\ pc \in {"idle", "start", "end", "destroy"}
    /\ reap = "off" => (depth = 1 <=> Processing) /\ pc \notin {"end", "destroy"}
    /\ cb = "need" => pc = "gather"
    /\ cb \in {"read", "connect"} => pc = "read"
    /\ cb = "write" => pc = "write"
    /\ dmode = "none" <=> dcur = NoFd
    /\ dmode # "none" => reap # "off"
    /\ cur # NoFd <=> cb = "need" \/ pc \in {"read", "write", "expire"}

\* Both lists hold descriptors once each; what is being deleted is listed.
ListsOK ==
    /\ sockets \in Seq(Fd) /\ deleting \in Seq(Fd)
    /\ NoDup(sockets) /\ DeleteListConsistent

\* The descriptor sets speak of this pass's handlers.
SetsCurrent ==
    /\ ~Processing => rd \cup wr \cup ex \cup fresh = {}
    /\ rd \cup wr \cup ex \subseteq Open
    /\ ReadinessIsCurrent
    /\ cb = "need" => cur \in ex
    /\ \A fd \in rd : "read" \in handler[fd].calls

\* A handler that was told it is gone only waits for its buffer.
DeadDetached ==
    /\ dead \subseteq Deleting
    /\ \A fd \in dead : handler[fd].calls = {}

DeadSilent == DeadDetached /\ NoCallbackAfterDestructor

IInv ==
    /\ TypeOK
    /\ Control
    /\ NoDup(sockets)
    /\ DeleteListConsistent
    /\ HandlerPointersLive
    /\ SetsCurrent
    /\ DeadSilent
    /\ NoBufferWithoutHandler

USE ConstantsAssumption DEF NoFd

LEMMA InitIInv == Init => IInv
<1> SUFFICES ASSUME Init PROVE IInv
  OBVIOUS
<1> USE DEF Init
<1>1. sockets \in Seq(Fd) /\ deleting \in Seq(Fd) /\ Len(sockets) = 0 /\ Len(deleting) = 0
  OBVIOUS
<1>2. Open = {} /\ Deleting = {}
  BY DEF Open, Deleting, ToSet
<1>3. TypeOK
  BY <1>1 DEF TypeOK, NoHandler, Handlers
<1>4. QED
  BY <1>1, <1>2, <1>3 DEF IInv, Control, NoDup, DeleteListConsistent, HandlerPointersLive,
     SetsCurrent, Processing, ReadinessIsCurrent, DeadSilent, DeadDetached, NoCallbackAfterDestructor,
     NoBufferWithoutHandler

LEMMA ElementFacts ==
    ASSUME TypeOK
    PROVE  /\ Len(sockets) \in Nat /\ Len(deleting) \in Nat
           /\ \A k \in 1..Len(sockets) : sockets[k] \in Fd \ {NoFd} /\ sockets[k] \in Open
           /\ \A k \in 1..Len(deleting) : deleting[k] \in Fd \ {NoFd} /\ deleting[k] \in Deleting
           /\ Open \subseteq Fd /\ Deleting \subseteq Fd
           /\ i \in Nat /\ j \in Nat
<1>1. sockets \in Seq(Fd) /\ deleting \in Seq(Fd) /\ i \in Nat \ {0} /\ j \in Nat \ {0}
  BY DEF TypeOK
<1>2. -1 \notin Fd
  OBVIOUS
<1>3. /\ Open \subseteq Fd /\ \A k \in 1..Len(sockets) : sockets[k] \in Open
      /\ Deleting \subseteq Fd /\ \A k \in 1..Len(deleting) : deleting[k] \in Deleting
  BY <1>1, ToSetFacts DEF Open, Deleting
<1>4. QED BY <1>1, <1>2, <1>3

\* Outside a server frame the application runs its own code.
LEMMA IdleFacts ==
    ASSUME IInv, InControl, depth = 0
    PROVE  pc = "idle" /\ reap = "off" /\ cb = "none" /\ dmode = "none" /\ ~Processing
BY DEF IInv, TypeOK, Control, Processing, InControl

\* One server frame at a time, and the depth counts it.
LEMMA ControlStep ==
    ASSUME IInv, [Next]_vars
    PROVE  Control'
<1> USE DEF IInv, Control, Processing, InControl, lists, frame, reaper, fdsets, ghosts
<1>1. ASSUME NEW type \in {"stream", "datagram"}, NEW p \in Profiles, CreateHandler(type, p) PROVE Control'
  BY <1>1 DEF CreateHandler, AddHandler
<1>2. ASSUME NEW p \in Profiles, CreateListener(p) PROVE Control'
  BY <1>2 DEF CreateListener, AddHandler
<1>3. ASSUME NEW fd \in Fd, NEW f \in Settable, SetCallback(fd, f) PROVE Control'
  BY <1>3 DEF SetCallback
<1>4. ASSUME NEW fd \in Fd, NEW f \in Settable, ClearCallback(fd, f) PROVE Control'
  BY <1>4 DEF ClearCallback
<1>5. ASSUME NEW fd \in Fd, NEW n \in 1..MaxSendBuffer, WriteSocket(fd, n) PROVE Control'
  BY <1>5 DEF WriteSocket, AcceptsBytes, Accepted
<1>6. ASSUME NEW fd \in Fd, DeleteWriteBuffer(fd) PROVE Control'
  BY <1>6 DEF DeleteWriteBuffer
<1>7. ASSUME NEW fd \in Fd, DeleteHandler(fd) PROVE Control'
  <2>1. UNCHANGED frame
    BY <1>7 DEF DeleteHandler
  <2>2. CASE depth = 0
    <3>1. pc = "idle" /\ cb = "none" /\ cur = NoFd
      BY <1>7, <2>2, IdleFacts DEF DeleteHandler
    <3>2. depth' = 1 /\ reap' = "on" /\ dmode' = "none" /\ dcur' = NoFd
      BY <1>7, <2>2 DEF DeleteHandler, EnterReap, MayReap
    <3>3. QED BY <2>1, <3>1, <3>2
  <2>3. CASE depth # 0
    BY <1>7, <2>1, <2>3 DEF DeleteHandler, EnterReap, MayReap
  <2>4. QED BY <2>2, <2>3
<1>8. ASSUME DeleteAllHandlers PROVE Control'
  <2>1. UNCHANGED frame
    BY <1>8 DEF DeleteAllHandlers
  <2>2. CASE depth = 0
    <3>1. pc = "idle" /\ cb = "none" /\ cur = NoFd
      BY <1>8, <2>2, IdleFacts DEF DeleteAllHandlers
    <3>2. depth' = 1 /\ reap' = "on" /\ dmode' = "none" /\ dcur' = NoFd
      BY <1>8, <2>2 DEF DeleteAllHandlers, EnterReap, MayReap
    <3>3. QED BY <2>1, <3>1, <3>2
  <2>3. CASE depth # 0
    BY <1>8, <2>1, <2>3 DEF DeleteAllHandlers, EnterReap, MayReap
  <2>4. QED BY <2>2, <2>3
<1>9. ASSUME Process PROVE Control'
  BY <1>9 DEF Process, EnterReap, MayReap
<1>10. ASSUME Destroy PROVE Control'
  BY <1>10 DEF Destroy, EnterReap, MayReap, MarkAll
<1>11. ASSUME DestructorReturns PROVE Control'
  BY <1>11 DEF DestructorReturns, Dispose
<1>12. ASSUME NEW need \in BOOLEAN, NeedWriteReturns(need) PROVE Control'
  BY <1>12 DEF NeedWriteReturns
<1>13. ASSUME CallbackReturns PROVE Control'
  BY <1>13 DEF CallbackReturns
<1>14. ASSUME ReapHandler PROVE Control'
  <2>1. deleting[j] # NoFd
    BY <1>14, ElementFacts DEF ReapHandler, TypeOK
  <2>2. UNCHANGED <<depth, frame, reap>> /\ reap # "off"
    BY <1>14 DEF ReapHandler
  <2>3. \/ dmode' \in {"final", "linger"} /\ dcur' = deleting[j]
        \/ UNCHANGED <<dmode, dcur>>
    BY <1>14 DEF ReapHandler, Fate
  <2>4. QED BY <2>1, <2>2, <2>3
<1>15. ASSUME ReapDone PROVE Control'
  BY <1>15 DEF ReapDone
<1>16. ASSUME ProcessBegin PROVE Control'
  BY <1>16 DEF ProcessBegin, TypeOK
<1>17. ASSUME Gather PROVE Control'
  <2>1. sockets[i] # NoFd
    BY <1>17, ElementFacts DEF Gather, TypeOK
  <2>2. UNCHANGED <<depth, pc, reaper>> /\ reap = "off" /\ pc = "gather" /\ cb = "none"
    BY <1>17 DEF Gather
  <2>3. \/ cb' = "need" /\ cur' = sockets[i]
        \/ UNCHANGED <<cb, cur>>
    BY <1>17 DEF Gather
  <2>4. QED BY <2>1, <2>2, <2>3
<1>18. ASSUME NothingToPoll PROVE Control'
  BY <1>18 DEF NothingToPoll, EndPass
<1>19. ASSUME Gathered PROVE Control'
  BY <1>19 DEF Gathered
<1>20. ASSUME PollOk PROVE Control'
  BY <1>20 DEF PollOk, Select, Beyond
<1>21. ASSUME PollFails PROVE Control'
  BY <1>21 DEF PollFails
<1>22. ASSUME ScanException PROVE Control'
  BY <1>22 DEF ScanException, TearDown, EnterReap, MayReap, Dispatching
<1>23. ASSUME ScanHandler PROVE Control'
  <2>1. sockets[i] # NoFd
    BY <1>23, ElementFacts DEF ScanHandler, TypeOK
  <2>2. QED BY <1>23, <2>1 DEF ScanHandler, Dispatching
<1>24. ASSUME ScanDone PROVE Control'
  BY <1>24 DEF ScanDone, EndPass, Dispatching
<1>25. ASSUME ReadReady PROVE Control'
  BY <1>25 DEF ReadReady, Dispatching
<1>26. ASSUME Accept PROVE Control'
  BY <1>26 DEF Accept, AddHandler, Dispatching
<1>27. ASSUME ReadNotReady PROVE Control'
  BY <1>27 DEF ReadNotReady, Dispatching
<1>28. ASSUME WriteReady PROVE Control'
  BY <1>28 DEF WriteReady, TearDown, EnterReap, MayReap, Dispatching
<1>29. ASSUME WriteCallback PROVE Control'
  BY <1>29 DEF WriteCallback, Dispatching
<1>30. ASSUME WriteNotReady PROVE Control'
  BY <1>30 DEF WriteNotReady, Dispatching
<1>31. ASSUME NEW old \in BOOLEAN, Expire(old) PROVE Control'
  BY <1>31 DEF Expire, TearDown, EnterReap, MayReap, Dispatching
<1>32. CASE UNCHANGED vars
  BY <1>32 DEF vars
<1>33. QED
  BY <1>1, <1>2, <1>3, <1>4, <1>5, <1>6, <1>7, <1>8, <1>9, <1>10, <1>11, <1>12, <1>13,
     <1>14, <1>15, <1>16, <1>17, <1>18, <1>19, <1>20, <1>21, <1>22, <1>23, <1>24, <1>25,
     <1>26, <1>27, <1>28, <1>29, <1>30, <1>31, <1>32 DEF Next, Application, CallbackEnds, Server

\* What the operations on the lists do to them.
LEMMA AddHandlerFacts ==
    ASSUME IInv, NEW fd \in Fd \ Open, NEW record \in Handlers, NEW established,
           AddHandler(fd, record, established)
    PROVE  /\ sockets' \in Seq(Fd) /\ NoDup(sockets)'
           /\ Open' = Open \cup {fd}
           /\ Len(sockets') = Len(sockets) + 1
           /\ \A k \in 1..Len(sockets) : sockets'[k] = sockets[k]
           /\ handler' \in [Fd -> Handlers]
           /\ handler'[fd] = record
           /\ \A f \in Fd \ {fd} : handler'[f] = handler[f]
           /\ up' \subseteq Fd /\ fresh' \subseteq fresh \cup {fd}
           /\ ~Processing => fresh' = fresh
           /\ DeleteListConsistent'
           /\ UNCHANGED <<deleting, pending, dead, Deleting>>
<1>1. sockets \in Seq(Fd) /\ NoDup(sockets)
  BY DEF IInv, TypeOK
<1>2. sockets' = Append(sockets, fd) /\ UNCHANGED deleting
  BY DEF AddHandler
<1>3. /\ sockets' \in Seq(Fd) /\ NoDup(sockets)'
      /\ Open' = Open \cup {fd}
      /\ Len(sockets') = Len(sockets) + 1
      /\ \A k \in 1..Len(sockets) : sockets'[k] = sockets[k]
  BY <1>1, <1>2, AppendFacts DEF Open, NoDup
<1>4. DeleteListConsistent'
  <2>1. DeleteListConsistent /\ Deleting' = Deleting /\ Open \subseteq Open'
    BY <1>2, <1>3 DEF IInv, Deleting
  <2>2. QED BY <1>2, <2>1 DEF DeleteListConsistent
<1>5. QED BY <1>2, <1>3, <1>4 DEF IInv, TypeOK, AddHandler, Deleting

LEMMA DisposeFacts ==
    ASSUME IInv, NEW fd \in Deleting, NEW mode \in {"final", "linger"}, Dispose(fd, mode)
    PROVE  /\ sockets' \in Seq(Fd) /\ NoDup(sockets)' /\ Open' \subseteq Open
           /\ deleting' \in Seq(Fd) /\ DeleteListConsistent'
           /\ handler' \in [Fd -> Handlers]
           /\ \A f \in Fd \ {fd} : handler'[f] = handler[f]
           /\ mode = "final" => Open' = Open \ {fd} /\ Deleting' = Deleting \ {fd} /\ dead' = dead \ {fd}
           /\ mode = "linger" => /\ UNCHANGED <<lists, Open, Deleting, pending>>
                                 /\ dead' \subseteq dead \cup {fd}
                                 /\ handler'[fd].calls = {}
           /\ pending' \in [Fd -> 0..MaxSendBuffer]
           /\ \A f \in Fd \ {fd} : pending'[f] = pending[f]
           /\ mode = "final" => pending'[fd] = 0
           /\ j' \in Nat \ {0} /\ up' \subseteq up
<1>1. /\ sockets \in Seq(Fd) /\ NoDup(sockets) /\ deleting \in Seq(Fd) /\ NoDup(deleting)
      /\ fd \in Open /\ fd \in Fd /\ Deleting \subseteq Open
      /\ handler \in [Fd -> Handlers] /\ pending \in [Fd -> 0..MaxSendBuffer]
      /\ j \in Nat \ {0}
  BY ElementFacts DEF IInv, TypeOK, DeleteListConsistent, NoDup
<1>2. CASE mode = "final"
  <2>1. /\ sockets' = RemoveFirst(sockets, fd) /\ deleting' = RemoveFirst(deleting, fd)
        /\ pending' = [pending EXCEPT ![fd] = 0] /\ handler' = [handler EXCEPT ![fd] = NoHandler]
        /\ up' = up \ {fd} /\ dead' = dead \ {fd} /\ UNCHANGED j
    BY <1>2 DEF Dispose
  <2>2. sockets' \in Seq(Fd) /\ NoDup(sockets)' /\ Open' = Open \ {fd}
    BY <1>1, <2>1, RemoveFirstFacts DEF Open, NoDup
  <2>3. deleting' \in Seq(Fd) /\ NoDup(deleting)' /\ Deleting' = Deleting \ {fd}
    BY <1>1, <2>1, RemoveFirstFacts DEF Deleting, NoDup
  <2>4. NoHandler \in Handlers
    BY DEF NoHandler, Handlers
  <2>5. DeleteListConsistent'
    BY <1>1, <2>2, <2>3 DEF DeleteListConsistent, NoDup
  <2>6. QED BY <1>1, <1>2, <2>1, <2>2, <2>3, <2>4, <2>5
<1>3. CASE mode = "linger"
  <2>1. /\ handler' = [handler EXCEPT ![fd] = Detached(@)] /\ j' = j + 1
        /\ dead' \subseteq dead \cup {fd}
        /\ UNCHANGED <<lists, pending, up>>
    BY <1>3 DEF Dispose
  <2>2. Detached(handler[fd]) \in Handlers /\ Detached(handler[fd]).calls = {}
    <3>1. handler[fd] \in Handlers /\ {} \in SUBSET Callbacks
      BY <1>1
    <3> DEFINE h == handler[fd]
    <3>2. h \in Handlers
      BY <3>1
    <3> HIDE DEF h
    <3>3. [h EXCEPT !.calls = {}] \in Handlers /\ [h EXCEPT !.calls = {}].calls = {}
      BY <3>1, <3>2 DEF Handlers
    <3>4. QED BY <3>3 DEF Detached, h
  <2>3. UNCHANGED <<Open, Deleting, DeleteListConsistent, NoDup(sockets)>>
    BY <2>1 DEF lists, Open, Deleting, DeleteListConsistent, NoDup
  <2>4. DeleteListConsistent /\ NoDup(sockets)
    BY DEF IInv
  <2>5. QED BY <1>1, <1>3, <2>1, <2>2, <2>3, <2>4 DEF lists
<1>4. QED BY <1>2, <1>3

LEMMA MarkFacts ==
    ASSUME IInv, MarkAll, UNCHANGED sockets
    PROVE  /\ deleting' \in Seq(Fd) /\ DeleteListConsistent'
           /\ Deleting \subseteq Deleting'
           /\ Len(deleting') >= Len(deleting)
           /\ \A k \in 1..Len(deleting) : deleting'[k] = deleting[k]
<1>1. /\ deleting \in Seq(Fd) /\ NoDup(deleting) /\ sockets \in Seq(Fd)
      /\ Deleting \subseteq Open /\ Open \subseteq Fd
  BY ElementFacts DEF IInv, TypeOK, DeleteListConsistent, NoDup
<1>2. PICK p \in SetToSeqs(Open \ Deleting) : deleting' = deleting \o p
  BY DEF MarkAll
<1>3. IsFiniteSet(Open \ Deleting)
  <2>1. IsFiniteSet(1..Len(sockets))
    BY <1>1, FS_Interval
  <2>2. sockets \in Surjection(1..Len(sockets), Open)
    <3>1. /\ \A k \in 1..Len(sockets) : sockets[k] \in Open
          /\ \A e \in Open : \E k \in 1..Len(sockets) : sockets[k] = e
      BY <1>1, ToSetFacts DEF Open
    <3>2. sockets \in [1..Len(sockets) -> Open]
      BY <1>1, <3>1
    <3>3. QED BY <3>1, <3>2 DEF Surjection
  <2>3. IsFiniteSet(Open)
    BY <2>1, <2>2, FS_Surjection
  <2>4. QED BY <2>3, FS_Subset
<1>4. PICK n \in Nat : /\ p \in [1..n -> Open \ Deleting]
                       /\ \A k, l \in 1..n : k # l => p[k] # p[l]
  BY <1>2, <1>3, FS_CardinalityType DEF SetToSeqs
<1>5. p \in Seq(Fd) /\ Len(p) = n
  <2>1. p \in [1..n -> Fd]
    BY <1>1, <1>4
  <2>2. QED BY <2>1
<1> DEFINE d == deleting \o p
<1>6. /\ d \in Seq(Fd) /\ Len(d) = Len(deleting) + n
      /\ \A k \in 1..Len(deleting) + n :
           d[k] = IF k <= Len(deleting) THEN deleting[k] ELSE p[k - Len(deleting)]
  BY <1>1, <1>5, ConcatProperties
<1>7. d = deleting'
  BY <1>2
<1> HIDE DEF d
<1>8. Len(deleting) \in Nat
  BY <1>1
<1>9. \A k \in 1..Len(deleting) : d[k] = deleting[k] /\ d[k] \in Deleting
  BY <1>1, <1>6, <1>8, ElementFacts DEF IInv
<1>10. \A k \in (Len(deleting) + 1)..Len(d) : k - Len(deleting) \in 1..n /\ d[k] = p[k - Len(deleting)]
  BY <1>4, <1>6, <1>8
<1>11. \A k \in (Len(deleting) + 1)..Len(d) : d[k] \in Open \ Deleting
  BY <1>4, <1>10
<1>12. NoDup(d)
  <2>1. ASSUME NEW k \in 1..Len(d), NEW l \in 1..Len(d), d[k] = d[l] PROVE k = l
    <3>1. CASE k <= Len(deleting) /\ l <= Len(deleting)
      BY <1>1, <1>8, <1>9, <2>1, <3>1 DEF NoDup
    <3>2. CASE k <= Len(deleting) /\ l > Len(deleting)
      BY <1>8, <1>9, <1>11, <2>1, <3>2
    <3>3. CASE k > Len(deleting) /\ l <= Len(deleting)
      BY <1>8, <1>9, <1>11, <2>1, <3>3
    <3>4. CASE k > Len(deleting) /\ l > Len(deleting)
      BY <1>4, <1>8, <1>10, <2>1, <3>4
    <3>5. QED BY <1>6, <1>8, <3>1, <3>2, <3>3, <3>4
  <2>2. QED BY <2>1 DEF NoDup
<1>13. \A k \in 1..Len(d) : d[k] \in Open
  <2>1. ASSUME NEW k \in 1..Len(d) PROVE d[k] \in Open
    <3>1. CASE k <= Len(deleting)
      <4>1. k \in 1..Len(deleting)
        BY <1>6, <1>8, <3>1
      <4>2. QED BY <1>1, <1>9, <4>1
    <3>2. CASE k > Len(deleting)
      BY <1>6, <1>8, <1>11, <3>2
    <3>3. QED BY <1>6, <1>8, <3>1, <3>2
  <2>2. QED BY <2>1
<1>14. Deleting' \subseteq Open' /\ Deleting \subseteq Deleting'
  <2>1. Deleting' = ToSet(d) /\ Open' = Open
    BY <1>7 DEF Deleting, Open
  <2>2. \A x \in ToSet(d) : \E k \in 1..Len(d) : d[k] = x
    BY <1>6, ToSetFacts
  <2>3. ASSUME NEW x \in Deleting PROVE x \in ToSet(d)
    <3>1. PICK k \in 1..Len(deleting) : deleting[k] = x
      BY <1>1, ToSetFacts DEF Deleting
    <3>2. k \in 1..Len(d) /\ d[k] = x
      BY <1>6, <1>8, <1>9, <3>1
    <3>3. QED BY <1>6, <3>2, ToSetFacts
  <2>4. QED BY <1>13, <2>1, <2>2, <2>3
<1>15. DeleteListConsistent'
  BY <1>7, <1>12, <1>14 DEF DeleteListConsistent, NoDup
<1>16. QED BY <1>6, <1>7, <1>8, <1>9, <1>14, <1>15

LEMMA AskFacts ==
    ASSUME IInv, NEW fd \in Open, deleting' = AddOnce(deleting, fd), UNCHANGED sockets
    PROVE  /\ deleting' \in Seq(Fd) /\ DeleteListConsistent'
           /\ Deleting \subseteq Deleting'
           /\ Len(deleting') >= Len(deleting)
           /\ \A k \in 1..Len(deleting) : deleting'[k] = deleting[k]
<1>1. /\ deleting \in Seq(Fd) /\ NoDup(deleting) /\ fd \in Fd /\ Deleting \subseteq Open
  BY ElementFacts DEF IInv, TypeOK, DeleteListConsistent, NoDup
<1>2. /\ deleting' \in Seq(Fd) /\ Len(deleting') >= Len(deleting)
      /\ \A k \in 1..Len(deleting) : deleting'[k] = deleting[k]
      /\ Deleting' = Deleting \cup {fd} /\ NoDup(deleting)'
  <2>1. CASE fd \in ToSet(deleting)
    BY <1>1, <2>1 DEF AddOnce, Deleting, NoDup
  <2>2. CASE fd \notin ToSet(deleting)
    <3>1. deleting' = Append(deleting, fd)
      BY <2>2 DEF AddOnce
    <3>2. QED BY <1>1, <2>2, <3>1, AppendFacts DEF Deleting, NoDup
  <2>3. QED BY <2>1, <2>2
<1>3. Open' = Open
  BY DEF Open
<1>4. QED BY <1>1, <1>2, <1>3 DEF DeleteListConsistent, NoDup

\* Same lists, same facts about them.
LEMMA SameLists ==
    ASSUME IInv, UNCHANGED lists
    PROVE  /\ sockets' \in Seq(Fd) /\ deleting' \in Seq(Fd)
           /\ NoDup(sockets)' /\ DeleteListConsistent'
           /\ UNCHANGED <<Open, Deleting>>
BY DEF IInv, TypeOK, lists, NoDup, DeleteListConsistent, Open, Deleting

\* While Process() or a callback of it looks at a handler, it is listed.
LEMMA CurFacts ==
    ASSUME IInv, pc \in {"read", "write", "expire"} \/ cb = "need"
    PROVE  cur \in Open /\ cur \in Fd /\ sockets[i] = cur /\ i \in 1..Len(sockets)
<1>1. cur # NoFd
  BY DEF IInv, Control
<1>2. i \in 1..Len(sockets) /\ sockets[i] = cur
  BY <1>1, ElementFacts DEF IInv, TypeOK, HandlerPointersLive
<1>3. QED BY <1>2, ElementFacts DEF IInv

\* The lists stay lists of handlers without a duplicate.
LEMMA ListsStep ==
    ASSUME IInv, [Next]_vars
    PROVE  ListsOK'
<1> USE DEF lists, ListsOK
<1>1. ASSUME NEW type \in {"stream", "datagram"}, NEW p \in Profiles, CreateHandler(type, p) PROVE ListsOK'
  <2>1. PICK fd \in Fd \ Open : AddHandler(fd, [type |-> type, connected |-> (type = "stream" => ~AutoClose), calls |-> p, accepts |-> {}], type = "datagram")
    BY <1>1 DEF CreateHandler
  <2>2. [type |-> type, connected |-> (type = "stream" => ~AutoClose), calls |-> p, accepts |-> {}] \in Handlers
    BY <1>1, ConstantsAssumption DEF Handlers, Callbacks
  <2>3. /\ sockets' \in Seq(Fd) /\ NoDup(sockets)' /\ DeleteListConsistent' /\ deleting' = deleting
    BY <2>1, <2>2, AddHandlerFacts
  <2>4. QED BY <2>3 DEF IInv, TypeOK
<1>2. ASSUME NEW p \in Profiles, CreateListener(p) PROVE ListsOK'
  <2>1. PICK fd \in Fd \ Open : AddHandler(fd, [type |-> "listener", connected |-> TRUE, calls |-> {"read"}, accepts |-> p], TRUE)
    BY <1>2 DEF CreateListener
  <2>2. [type |-> "listener", connected |-> TRUE, calls |-> {"read"}, accepts |-> p] \in Handlers
    BY <1>2, ConstantsAssumption DEF Handlers, Callbacks
  <2>3. /\ sockets' \in Seq(Fd) /\ NoDup(sockets)' /\ DeleteListConsistent' /\ deleting' = deleting
    BY <2>1, <2>2, AddHandlerFacts
  <2>4. QED BY <2>3 DEF IInv, TypeOK
<1>3. ASSUME NEW fd \in Fd, NEW f \in Settable, SetCallback(fd, f) PROVE ListsOK'
  BY <1>3, SameLists DEF SetCallback
<1>4. ASSUME NEW fd \in Fd, NEW f \in Settable, ClearCallback(fd, f) PROVE ListsOK'
  BY <1>4, SameLists DEF ClearCallback
<1>5. ASSUME NEW fd \in Fd, NEW n \in 1..MaxSendBuffer, WriteSocket(fd, n) PROVE ListsOK'
  BY <1>5, SameLists DEF WriteSocket
<1>6. ASSUME NEW fd \in Fd, DeleteWriteBuffer(fd) PROVE ListsOK'
  BY <1>6, SameLists DEF DeleteWriteBuffer
<1>7. ASSUME NEW fd \in Fd, DeleteHandler(fd) PROVE ListsOK'
  <2>1. fd \in Open /\ deleting' = AddOnce(deleting, fd) /\ UNCHANGED sockets
    BY <1>7 DEF DeleteHandler
  <2>2. QED BY <2>1, AskFacts DEF IInv, TypeOK, NoDup
<1>8. ASSUME DeleteAllHandlers PROVE ListsOK'
  <2>1. MarkAll /\ UNCHANGED sockets
    BY <1>8 DEF DeleteAllHandlers
  <2>2. QED BY <2>1, MarkFacts DEF IInv, TypeOK, NoDup
<1>9. ASSUME Process PROVE ListsOK'
  BY <1>9, SameLists DEF Process
<1>10. ASSUME Destroy PROVE ListsOK'
  <2>1. MarkAll /\ UNCHANGED sockets
    BY <1>10 DEF Destroy
  <2>2. QED BY <2>1, MarkFacts DEF IInv, TypeOK, NoDup
<1>11. ASSUME DestructorReturns PROVE ListsOK'
  <2>1. Dispose(dcur, dmode) /\ dmode \in {"final", "linger"}
    BY <1>11 DEF DestructorReturns, IInv, TypeOK
  <2>2. dcur \in Deleting
    BY SMTT(30), <1>11, ElementFacts DEF DestructorReturns, IInv, TypeOK, Control, HandlerPointersLive
  <2>3. QED BY <2>1, <2>2, DisposeFacts
<1>12. ASSUME NEW need \in BOOLEAN, NeedWriteReturns(need) PROVE ListsOK'
  BY <1>12, SameLists DEF NeedWriteReturns
<1>13. ASSUME CallbackReturns PROVE ListsOK'
  BY <1>13, SameLists DEF CallbackReturns
<1>14. ASSUME ReapHandler PROVE ListsOK'
  <2>1. CASE UNCHANGED lists
    BY <2>1, SameLists
  <2>2. CASE ~ UNCHANGED lists
    <3>1. Dispose(deleting[j], Fate(deleting[j])) /\ deleting[j] \in Deleting
      BY <1>14, <2>2, ElementFacts DEF ReapHandler, IInv, TypeOK
    <3>2. QED BY <3>1, DisposeFacts DEF Fate
  <2>3. QED BY <2>1, <2>2
<1>15. ASSUME ReapDone PROVE ListsOK'
  BY <1>15, SameLists DEF ReapDone
<1>16. ASSUME ProcessBegin PROVE ListsOK'
  BY <1>16, SameLists DEF ProcessBegin
<1>17. ASSUME Gather PROVE ListsOK'
  BY <1>17, SameLists DEF Gather
<1>18. ASSUME NothingToPoll PROVE ListsOK'
  BY <1>18, SameLists DEF NothingToPoll, EndPass
<1>19. ASSUME Gathered PROVE ListsOK'
  BY <1>19, SameLists DEF Gathered
<1>20. ASSUME PollOk PROVE ListsOK'
  BY <1>20, SameLists DEF PollOk
<1>21. ASSUME PollFails PROVE ListsOK'
  BY <1>21, SameLists DEF PollFails
<1>22. ASSUME ScanException PROVE ListsOK'
  <2>1. sockets[i] \in Open /\ deleting' = AddOnce(deleting, sockets[i]) /\ UNCHANGED sockets
    BY <1>22, ElementFacts DEF ScanException, TearDown, IInv, TypeOK
  <2>2. QED BY <2>1, AskFacts DEF IInv, TypeOK, NoDup
<1>23. ASSUME ScanHandler PROVE ListsOK'
  BY <1>23, SameLists DEF ScanHandler
<1>24. ASSUME ScanDone PROVE ListsOK'
  BY <1>24, SameLists DEF ScanDone, EndPass, Dispatching
<1>25. ASSUME ReadReady PROVE ListsOK'
  BY <1>25, SameLists DEF ReadReady
<1>26. ASSUME Accept PROVE ListsOK'
  <2>1. CASE UNCHANGED lists
    BY <2>1, SameLists
  <2>2. CASE ~ UNCHANGED lists
    <3>1. PICK fd \in Fd \ Open : AddHandler(fd, [type |-> "stream", connected |-> TRUE, calls |-> handler[cur].accepts, accepts |-> {}], TRUE)
      BY <1>26, <2>2 DEF Accept
    <3>2. [type |-> "stream", connected |-> TRUE, calls |-> handler[cur].accepts, accepts |-> {}] \in Handlers
      <4>1. handler[cur] \in Handlers
        BY <1>26 DEF IInv, TypeOK, Control, Accept, Dispatching
      <4>2. QED BY <4>1 DEF Handlers
    <3>3. /\ sockets' \in Seq(Fd) /\ NoDup(sockets)' /\ DeleteListConsistent' /\ deleting' = deleting
      BY <3>1, <3>2, AddHandlerFacts
    <3>4. QED BY <3>3 DEF IInv, TypeOK
  <2>3. QED BY <2>1, <2>2
<1>27. ASSUME ReadNotReady PROVE ListsOK'
  BY <1>27, SameLists DEF ReadNotReady
<1>28. ASSUME WriteReady PROVE ListsOK'
  <2>1. CASE UNCHANGED lists
    BY <2>1, SameLists
  <2>2. CASE ~ UNCHANGED lists
    <3>1. cur \in Open /\ deleting' = AddOnce(deleting, cur) /\ UNCHANGED sockets
      BY <1>28, <2>2, CurFacts DEF WriteReady, TearDown, Dispatching, lists
    <3>2. QED BY <3>1, AskFacts DEF IInv, TypeOK, NoDup
  <2>3. QED BY <2>1, <2>2
<1>29. ASSUME WriteCallback PROVE ListsOK'
  BY <1>29, SameLists DEF WriteCallback
<1>30. ASSUME WriteNotReady PROVE ListsOK'
  BY <1>30, SameLists DEF WriteNotReady
<1>31. ASSUME NEW old \in BOOLEAN, Expire(old) PROVE ListsOK'
  <2>1. CASE UNCHANGED lists
    BY <2>1, SameLists
  <2>2. CASE ~ UNCHANGED lists
    <3>1. cur \in Open /\ deleting' = AddOnce(deleting, cur) /\ UNCHANGED sockets
      BY <1>31, <2>2, CurFacts DEF Expire, TearDown, Dispatching, lists
    <3>2. QED BY <3>1, AskFacts DEF IInv, TypeOK, NoDup
  <2>3. QED BY <2>1, <2>2
<1>32. CASE UNCHANGED vars
  BY <1>32, SameLists DEF vars
<1>33. QED
  BY <1>1, <1>2, <1>3, <1>4, <1>5, <1>6, <1>7, <1>8, <1>9, <1>10, <1>11, <1>12, <1>13,
     <1>14, <1>15, <1>16, <1>17, <1>18, <1>19, <1>20, <1>21, <1>22, <1>23, <1>24, <1>25,
     <1>26, <1>27, <1>28, <1>29, <1>30, <1>31, <1>32 DEF Next, Application, CallbackEnds, Server

\* One field of a handler changes.
LEMMA UpdateFacts ==
    ASSUME NEW t \in [Fd -> Handlers], NEW fd
    PROVE  /\ \A f \in Callbacks : /\ [t EXCEPT ![fd].calls = @ \cup {f}] \in [Fd -> Handlers]
                                 /\ [t EXCEPT ![fd].calls = @ \ {f}] \in [Fd -> Handlers]
           /\ [t EXCEPT ![fd].connected = TRUE] \in [Fd -> Handlers]
<1> USE DEF Handlers
<1>1. ASSUME NEW f \in Callbacks
      PROVE  /\ [t EXCEPT ![fd].calls = @ \cup {f}] \in [Fd -> Handlers]
             /\ [t EXCEPT ![fd].calls = @ \ {f}] \in [Fd -> Handlers]
  <2>1. CASE fd \in Fd
    <3>1. t[fd] \in Handlers
      BY <2>1
    <3>2. [t[fd] EXCEPT !.calls = @ \cup {f}] \in Handlers /\ [t[fd] EXCEPT !.calls = @ \ {f}] \in Handlers
      BY <3>1
    <3>3. QED BY <3>2
  <2>2. CASE fd \notin Fd
    BY <2>2
  <2>3. QED BY <2>1, <2>2
<1>2. [t EXCEPT ![fd].connected = TRUE] \in [Fd -> Handlers]
  <2>1. CASE fd \in Fd
    <3>1. t[fd] \in Handlers
      BY <2>1
    <3>2. [t[fd] EXCEPT !.connected = TRUE] \in Handlers
      BY <3>1
    <3>3. QED BY <3>2
  <2>2. CASE fd \notin Fd
    BY <2>2
  <2>3. QED BY <2>1, <2>2
<1>3. QED BY <1>1, <1>2

\* The type invariant.
LEMMA TypeStep ==
    ASSUME IInv, [Next]_vars
    PROVE  TypeOK'
<1> USE DEF TypeOK, lists, frame, reaper, fdsets, ghosts
<1>a. TypeOK
  BY DEF IInv
<1>b. sockets' \in Seq(Fd) /\ deleting' \in Seq(Fd)
  BY ListsStep DEF ListsOK
<1>c. /\ \A k \in 1..Len(sockets) : sockets[k] \in Fd
      /\ \A k \in 1..Len(deleting) : deleting[k] \in Fd /\ deleting[k] \in Deleting
      /\ Len(sockets) \in Nat /\ Len(deleting) \in Nat /\ Deleting \subseteq Fd /\ Open \subseteq Fd
  BY <1>a, ElementFacts
<1>1. ASSUME NEW type \in {"stream", "datagram"}, NEW p \in Profiles, CreateHandler(type, p) PROVE TypeOK'
  <2>1. PICK fd \in Fd \ Open : AddHandler(fd, [type |-> type, connected |-> (type = "stream" => ~AutoClose), calls |-> p, accepts |-> {}], type = "datagram")
    BY <1>1 DEF CreateHandler
  <2>2. [type |-> type, connected |-> (type = "stream" => ~AutoClose), calls |-> p, accepts |-> {}] \in Handlers
    BY <1>1, ConstantsAssumption DEF Handlers, Callbacks
  <2>3. handler' \in [Fd -> Handlers] /\ up' \subseteq Fd /\ fresh' \subseteq fresh \cup {fd}
        /\ UNCHANGED <<pending, dead>>
    BY <2>1, <2>2, <1>a, AddHandlerFacts
  <2>4. QED BY SMTT(30), <1>1, <2>3, <1>a, <1>b DEF CreateHandler
<1>2. ASSUME NEW p \in Profiles, CreateListener(p) PROVE TypeOK'
  <2>1. PICK fd \in Fd \ Open : AddHandler(fd, [type |-> "listener", connected |-> TRUE, calls |-> {"read"}, accepts |-> p], TRUE)
    BY <1>2 DEF CreateListener
  <2>2. [type |-> "listener", connected |-> TRUE, calls |-> {"read"}, accepts |-> p] \in Handlers
    BY <1>2, ConstantsAssumption DEF Handlers, Callbacks
  <2>3. handler' \in [Fd -> Handlers] /\ up' \subseteq Fd /\ fresh' \subseteq fresh \cup {fd}
        /\ UNCHANGED <<pending, dead>>
    BY <2>1, <2>2, <1>a, AddHandlerFacts
  <2>4. QED BY SMTT(30), <1>2, <2>3, <1>a, <1>b DEF CreateListener
<1>3. ASSUME NEW fd \in Fd, NEW f \in Settable, SetCallback(fd, f) PROVE TypeOK'
  <2>1. handler' = [handler EXCEPT ![fd].calls = @ \cup {f}] /\ f \in Callbacks
    BY <1>3, ConstantsAssumption DEF SetCallback
  <2>2. handler' \in [Fd -> Handlers]
    BY <1>a, <2>1, UpdateFacts
  <2>3. QED BY <1>3, <1>a, <1>b, <2>2 DEF SetCallback
<1>4. ASSUME NEW fd \in Fd, NEW f \in Settable, ClearCallback(fd, f) PROVE TypeOK'
  <2>1. handler' = [handler EXCEPT ![fd].calls = @ \ {f}] /\ f \in Callbacks
    BY <1>4, ConstantsAssumption DEF ClearCallback
  <2>2. handler' \in [Fd -> Handlers]
    BY <1>a, <2>1, UpdateFacts
  <2>3. QED BY <1>4, <1>a, <1>b, <2>2 DEF ClearCallback
<1>5. ASSUME NEW fd \in Fd, NEW n \in 1..MaxSendBuffer, WriteSocket(fd, n) PROVE TypeOK'
  BY SMTT(30), <1>5, <1>a, <1>b, <1>c DEF WriteSocket, AcceptsBytes, Accepted
<1>6. ASSUME NEW fd \in Fd, DeleteWriteBuffer(fd) PROVE TypeOK'
  BY SMTT(30), <1>6, <1>a, <1>b, <1>c DEF DeleteWriteBuffer
<1>7. ASSUME NEW fd \in Fd, DeleteHandler(fd) PROVE TypeOK'
  <2>1. depth' \in {0, 1} /\ reap' \in {"off", "on", "force"} /\ j' \in Nat \ {0}
        /\ dmode' \in {"none", "final", "linger"} /\ dcur' \in Fd \cup {NoFd}
    BY <1>7, <1>a DEF DeleteHandler, EnterReap, MayReap
  <2>2. UNCHANGED <<handler, pending, frame, fdsets, up, ghosts>>
    BY <1>7 DEF DeleteHandler
  <2>3. QED BY <1>a, <1>b, <2>1, <2>2
<1>8. ASSUME DeleteAllHandlers PROVE TypeOK'
  BY SMTT(30), <1>8, <1>a, <1>b, <1>c DEF DeleteAllHandlers, EnterReap, MayReap
<1>9. ASSUME Process PROVE TypeOK'
  BY SMTT(30), <1>9, <1>a, <1>b, <1>c DEF Process, EnterReap, MayReap
<1>10. ASSUME Destroy PROVE TypeOK'
  BY SMTT(30), <1>10, <1>a, <1>b, <1>c DEF Destroy, EnterReap, MayReap
<1>11. ASSUME DestructorReturns PROVE TypeOK'
  <2>1. Dispose(dcur, dmode) /\ dmode \in {"final", "linger"}
    BY <1>11, <1>a DEF DestructorReturns
  <2>2. dcur # NoFd
    BY <1>11 DEF DestructorReturns, IInv, Control
  <2>3. dcur \in Deleting
    BY <1>a, <1>c, <2>2 DEF IInv, HandlerPointersLive
  <2>4. /\ handler' \in [Fd -> Handlers] /\ pending' \in [Fd -> 0..MaxSendBuffer]
        /\ j' \in Nat \ {0} /\ up' \subseteq up /\ dead' \subseteq dead \cup {dcur}
    BY <2>1, <2>3, DisposeFacts
  <2>5. dmode' = "none" /\ dcur' = NoFd /\ UNCHANGED <<depth, frame, reap, fdsets, fresh>>
    BY <1>11 DEF DestructorReturns
  <2>6. QED BY <1>a, <1>b, <1>c, <2>3, <2>4, <2>5
<1>12. ASSUME NEW need \in BOOLEAN, NeedWriteReturns(need) PROVE TypeOK'
  <2>1. wr' \subseteq Fd /\ cb' = "none" /\ cur' = NoFd /\ i' \in Nat \ {0}
    BY <1>12, <1>a DEF NeedWriteReturns, IInv, Control
  <2>2. UNCHANGED <<handler, pending, depth, pc, reaper, rd, ex, up, ghosts>>
    BY <1>12 DEF NeedWriteReturns
  <2>3. QED BY <1>a, <1>b, <2>1, <2>2
<1>13. ASSUME CallbackReturns PROVE TypeOK'
  BY <1>13, <1>a, <1>b, <1>c DEF CallbackReturns
<1>14. ASSUME ReapHandler PROVE TypeOK'
  <2>1. UNCHANGED <<depth, frame, fdsets, reap, fresh>>
    BY <1>14 DEF ReapHandler
  <2>2. CASE UNCHANGED <<handler, pending, j, up, ghosts>>
    BY SMTT(30), <1>14, <2>1, <2>2, <1>a, <1>b, <1>c DEF ReapHandler, Fate
  <2>3. CASE ~ UNCHANGED <<handler, pending, j, up, ghosts>>
    <3>1. /\ Dispose(deleting[j], Fate(deleting[j])) /\ deleting[j] \in Deleting
          /\ UNCHANGED <<dmode, dcur>>
      BY <1>14, <1>a, <1>c, <2>3 DEF ReapHandler
    <3>2. /\ handler' \in [Fd -> Handlers] /\ pending' \in [Fd -> 0..MaxSendBuffer]
          /\ j' \in Nat \ {0} /\ up' \subseteq up /\ dead' \subseteq dead \cup {deleting[j]}
      BY SMTT(30), <3>1, <1>a, DisposeFacts DEF Fate
    <3>3. QED BY SMTT(30), <2>1, <3>1, <3>2, <1>a, <1>b, <1>c
  <2>4. QED BY <2>2, <2>3
<1>15. ASSUME ReapDone PROVE TypeOK'
  <2>1. depth' \in {0, 1}
    BY <1>15, <1>a DEF ReapDone, IInv, Control
  <2>2. reap' \in {"off", "on", "force"} /\ j' \in Nat \ {0}
    BY <1>15 DEF ReapDone
  <2>3. pc' \in {pc, "idle", "gone"}
    BY <1>15 DEF ReapDone
  <2>4. UNCHANGED <<handler, pending, i, cur, cb, dmode, dcur, fdsets, up, ghosts>>
    BY <1>15 DEF ReapDone
  <2>5. QED BY <1>a, <1>b, <2>1, <2>2, <2>3, <2>4
<1>16. ASSUME ProcessBegin PROVE TypeOK'
  <2>1. depth' \in {0, 1}
    BY <1>16, <1>a DEF ProcessBegin, IInv, Control, Processing
  <2>2. i' \in Nat \ {0} /\ pc' \in {"idle", "gather"}
    BY <1>16, <1>a DEF ProcessBegin
  <2>3. UNCHANGED <<handler, pending, cur, cb, reaper, fdsets, up, ghosts>>
    BY <1>16 DEF ProcessBegin
  <2>4. QED BY <1>a, <1>b, <2>1, <2>2, <2>3
<1>17. ASSUME Gather PROVE TypeOK'
  <2>1. sockets[i] \in Fd
    BY <1>17, <1>a, <1>c DEF Gather
  <2>2. /\ rd' \subseteq rd \cup {sockets[i]} /\ wr' \subseteq wr \cup {sockets[i]}
        /\ ex' = ex \cup {sockets[i]} /\ fresh' \subseteq fresh
    BY <1>17 DEF Gather
  <2>3. i' \in {i, i + 1} /\ cb' \in {cb, "need"} /\ cur' \in {cur, sockets[i]}
    BY <1>17 DEF Gather
  <2>4. UNCHANGED <<handler, pending, depth, pc, reaper, up, dead>>
    BY <1>17 DEF Gather
  <2>5. rd' \subseteq Fd /\ wr' \subseteq Fd /\ ex' \subseteq Fd /\ fresh' \subseteq Fd
    BY <1>a, <2>1, <2>2
  <2>6. i' \in Nat \ {0} /\ cb' \in {"none", "read", "write", "need", "connect"}
        /\ cur' \in Fd \cup {NoFd}
    BY <1>a, <2>1, <2>3
  <2>7. QED BY <1>a, <1>b, <2>4, <2>5, <2>6
<1>18. ASSUME NothingToPoll PROVE TypeOK'
  BY <1>18, <1>a, <1>b, <1>c DEF NothingToPoll, EndPass
<1>19. ASSUME Gathered PROVE TypeOK'
  BY <1>19, <1>a, <1>b, <1>c DEF Gathered
<1>20. ASSUME PollOk PROVE TypeOK'
  BY <1>20, <1>a, <1>b, <1>c DEF PollOk, Select, Beyond
<1>21. ASSUME PollFails PROVE TypeOK'
  BY <1>21, <1>a, <1>b, <1>c DEF PollFails
<1>22. ASSUME ScanException PROVE TypeOK'
  <2>1. sockets[i] \in Fd
    BY <1>22, <1>a, <1>c DEF ScanException, Dispatching
  <2>2. /\ depth' \in {0, 1} /\ reap' \in {"off", "on", "force"} /\ j' \in Nat \ {0}
        /\ dmode' \in {"none", "final", "linger"} /\ dcur' \in Fd \cup {NoFd}
    BY <1>22, <1>a DEF ScanException, TearDown, EnterReap, MayReap
  <2>3. pending' \in [Fd -> 0..MaxSendBuffer]
    BY <1>22, <1>a, <2>1 DEF ScanException, TearDown
  <2>4. i' \in Nat \ {0}
    BY <1>22, <1>a, <2>1 DEF ScanException
  <2>5. UNCHANGED <<handler, pc, cur, cb, fdsets, up, ghosts>>
    BY <1>22 DEF ScanException
  <2>6. QED BY <1>a, <1>b, <2>2, <2>3, <2>4, <2>5
<1>23. ASSUME ScanHandler PROVE TypeOK'
  BY <1>23, <1>a, <1>b, <1>c DEF ScanHandler, Dispatching
<1>24. ASSUME ScanDone PROVE TypeOK'
  BY <1>24, <1>a, <1>b, <1>c DEF ScanDone, EndPass, Dispatching
<1>25. ASSUME ReadReady PROVE TypeOK'
  <2>1. handler' \in [Fd -> Handlers]
    BY <1>25, <1>a, UpdateFacts DEF ReadReady
  <2>2. cb' = "read" /\ UNCHANGED <<pending, depth, pc, i, cur, reaper, fdsets, up, ghosts>>
    BY <1>25 DEF ReadReady
  <2>3. QED BY <1>a, <1>b, <2>1, <2>2
<1>26. ASSUME Accept PROVE TypeOK'
  <2>1. UNCHANGED <<depth, i, cur, reaper, fdsets>>
    BY <1>26 DEF Accept
  <2>2. CASE UNCHANGED <<handler, pending, up, ghosts>>
    <3>1. pc' \in {pc, "write"} /\ cb' \in {cb, "connect"}
      BY <1>26 DEF Accept
    <3>2. QED BY SMTT(30), <2>1, <2>2, <3>1, <1>a, <1>b
  <2>3. CASE ~ UNCHANGED <<handler, pending, up, ghosts>>
    <3>1. PICK fd \in Fd \ Open : AddHandler(fd, [type |-> "stream", connected |-> TRUE, calls |-> handler[cur].accepts, accepts |-> {}], TRUE)
      BY <1>26, <2>3 DEF Accept
    <3>2. [type |-> "stream", connected |-> TRUE, calls |-> handler[cur].accepts, accepts |-> {}] \in Handlers
      <4>1. handler[cur] \in Handlers
        BY <1>26, <1>a, CurFacts DEF Accept, Dispatching
      <4>2. QED BY <4>1 DEF Handlers
    <3>3. handler' \in [Fd -> Handlers] /\ up' \subseteq Fd /\ fresh' \subseteq fresh \cup {fd}
          /\ UNCHANGED <<pending, dead>>
      BY <3>1, <3>2, <1>a, AddHandlerFacts
    <3>4. pc' \in {"read", "write"} /\ cb' \in {"none", "connect"}
      BY <1>26 DEF Accept, Dispatching
    <3>5. QED BY <1>26, <2>1, <3>3, <3>4, <1>a, <1>b
  <2>4. QED BY <2>2, <2>3
<1>27. ASSUME ReadNotReady PROVE TypeOK'
  BY <1>27, <1>a, <1>b, <1>c DEF ReadNotReady, Dispatching
<1>28. ASSUME WriteReady PROVE TypeOK'
  <2>1. cur \in Fd
    BY <1>28, CurFacts DEF WriteReady, Dispatching
  <2>2. /\ depth' \in {0, 1} /\ reap' \in {"off", "on", "force"} /\ j' \in Nat \ {0}
        /\ dmode' \in {"none", "final", "linger"} /\ dcur' \in Fd \cup {NoFd}
    BY <1>28, <1>a DEF WriteReady, TearDown, EnterReap, MayReap
  <2>3. pending' \in [Fd -> 0..MaxSendBuffer]
    <3>1. CASE pending' = [pending EXCEPT ![cur] = 0]
      BY <1>a, <2>1, <3>1
    <3>2. CASE \E k \in 1..pending[cur] : pending' = [pending EXCEPT ![cur] = @ - k]
      <4>1. PICK k \in 1..pending[cur] : pending' = [pending EXCEPT ![cur] = @ - k]
        BY <3>2
      <4>2. pending[cur] \in 0..MaxSendBuffer
        BY <1>a, <2>1
      <4>3. pending[cur] - k \in 0..MaxSendBuffer
        BY <4>1, <4>2
      <4>4. QED BY <1>a, <4>1, <4>3
    <3>3. QED BY <1>28, <3>1, <3>2 DEF WriteReady, TearDown
  <2>4. handler' \in [Fd -> Handlers] /\ pc' = "expire"
    BY <1>28, <1>a, <2>1, UpdateFacts DEF WriteReady
  <2>5. UNCHANGED <<i, cur, cb, fdsets, up, ghosts>>
    BY <1>28 DEF WriteReady
  <2>6. QED BY <1>a, <1>b, <2>2, <2>3, <2>4, <2>5
<1>29. ASSUME WriteCallback PROVE TypeOK'
  <2>1. handler' \in [Fd -> Handlers]
    BY <1>29, <1>a, UpdateFacts DEF WriteCallback
  <2>2. cb' \in {cb, "write"} /\ pc' \in {pc, "expire"}
        /\ UNCHANGED <<pending, depth, i, cur, reaper, fdsets, up, ghosts>>
    BY <1>29 DEF WriteCallback
  <2>3. QED BY SMTT(30), <1>a, <1>b, <2>1, <2>2
<1>30. ASSUME WriteNotReady PROVE TypeOK'
  BY <1>30, <1>a, <1>b, <1>c DEF WriteNotReady, Dispatching
<1>31. ASSUME NEW old \in BOOLEAN, Expire(old) PROVE TypeOK'
  <2>1. cur \in Fd
    BY <1>31, CurFacts DEF Expire, Dispatching
  <2>2. /\ depth' \in {0, 1} /\ reap' \in {"off", "on", "force"} /\ j' \in Nat \ {0}
        /\ dmode' \in {"none", "final", "linger"} /\ dcur' \in Fd \cup {NoFd}
    BY <1>31, <1>a DEF Expire, TearDown, EnterReap, MayReap
  <2>3. pending' \in [Fd -> 0..MaxSendBuffer]
    <3>1. pending' = pending \/ pending' = [pending EXCEPT ![cur] = 0]
      BY <1>31 DEF Expire, TearDown
    <3>2. QED BY <1>a, <2>1, <3>1
  <2>4. i' \in Nat \ {0} /\ pc' = "scan" /\ cur' = NoFd
    BY <1>31, <1>a, <2>1 DEF Expire
  <2>5. UNCHANGED <<handler, cb, fdsets, up, ghosts>>
    BY <1>31 DEF Expire
  <2>6. QED BY <1>a, <1>b, <2>2, <2>3, <2>4, <2>5
<1>32. CASE UNCHANGED vars
  BY <1>32, <1>a, <1>b DEF vars
<1>33. QED
  BY <1>1, <1>2, <1>3, <1>4, <1>5, <1>6, <1>7, <1>8, <1>9, <1>10, <1>11, <1>12, <1>13,
     <1>14, <1>15, <1>16, <1>17, <1>18, <1>19, <1>20, <1>21, <1>22, <1>23, <1>24, <1>25,
     <1>26, <1>27, <1>28, <1>29, <1>30, <1>31, <1>32 DEF Next, Application, CallbackEnds, Server

\* The pointers held across callbacks.
LEMMA PointersStep ==
    ASSUME IInv, [Next]_vars
    PROVE  HandlerPointersLive'
<1> USE DEF HandlerPointersLive, lists, frame, reaper, fdsets, ghosts
<1>a. TypeOK
  BY DEF IInv
<1>b. HandlerPointersLive
  BY DEF IInv
<1>c. (sockets' = sockets => Open' = Open) /\ (deleting' = deleting => Deleting' = Deleting)
  BY DEF Open, Deleting
<1>d. /\ i \in Nat \ {0} /\ j \in Nat \ {0} /\ Len(deleting) \in Nat /\ Len(sockets) \in Nat
      /\ \A k \in 1..Len(deleting) : deleting[k] \in Open
  BY ElementFacts DEF IInv, TypeOK, DeleteListConsistent
<1>e. Control
  BY DEF IInv
<1>1. ASSUME NEW type \in {"stream", "datagram"}, NEW p \in Profiles, CreateHandler(type, p) PROVE HandlerPointersLive'
  <2>1. UNCHANGED <<cur, dcur, i, j>>
    BY <1>1 DEF CreateHandler
  <2>2. PICK fd \in Fd \ Open : AddHandler(fd, [type |-> type, connected |-> (type = "stream" => ~AutoClose), calls |-> p, accepts |-> {}], type = "datagram")
    BY <1>1 DEF CreateHandler
  <2>3. [type |-> type, connected |-> (type = "stream" => ~AutoClose), calls |-> p, accepts |-> {}] \in Handlers
    BY <1>1, ConstantsAssumption DEF Handlers, Callbacks
  <2>4. /\ Open \subseteq Open' /\ Len(sockets') = Len(sockets) + 1 /\ deleting' = deleting
        /\ \A k \in 1..Len(sockets) : sockets'[k] = sockets[k]
    BY <2>2, <2>3, AddHandlerFacts
  <2>5. QED BY <2>1, <2>4, <1>b, <1>d
<1>2. ASSUME NEW p \in Profiles, CreateListener(p) PROVE HandlerPointersLive'
  <2>1. UNCHANGED <<cur, dcur, i, j>>
    BY <1>2 DEF CreateListener
  <2>2. PICK fd \in Fd \ Open : AddHandler(fd, [type |-> "listener", connected |-> TRUE, calls |-> {"read"}, accepts |-> p], TRUE)
    BY <1>2 DEF CreateListener
  <2>3. [type |-> "listener", connected |-> TRUE, calls |-> {"read"}, accepts |-> p] \in Handlers
    BY <1>2, ConstantsAssumption DEF Handlers, Callbacks
  <2>4. /\ Open \subseteq Open' /\ Len(sockets') = Len(sockets) + 1 /\ deleting' = deleting
        /\ \A k \in 1..Len(sockets) : sockets'[k] = sockets[k]
    BY <2>2, <2>3, AddHandlerFacts
  <2>5. QED BY <2>1, <2>4, <1>b, <1>d
<1>3. ASSUME NEW fd \in Fd, NEW f \in Settable, SetCallback(fd, f) PROVE HandlerPointersLive'
  BY <1>3, <1>a, <1>b, <1>c DEF SetCallback
<1>4. ASSUME NEW fd \in Fd, NEW f \in Settable, ClearCallback(fd, f) PROVE HandlerPointersLive'
  BY <1>4, <1>a, <1>b, <1>c DEF ClearCallback
<1>5. ASSUME NEW fd \in Fd, NEW n \in 1..MaxSendBuffer, WriteSocket(fd, n) PROVE HandlerPointersLive'
  BY <1>5, <1>a, <1>b, <1>c DEF WriteSocket, AcceptsBytes, Accepted
<1>6. ASSUME NEW fd \in Fd, DeleteWriteBuffer(fd) PROVE HandlerPointersLive'
  BY <1>6, <1>a, <1>b, <1>c DEF DeleteWriteBuffer
<1>7. ASSUME NEW fd \in Fd, DeleteHandler(fd) PROVE HandlerPointersLive'
  <2>1. /\ sockets' = sockets /\ cur' = cur /\ i' = i
        /\ dcur' # NoFd => dcur' = dcur /\ j' = j
    BY <1>7 DEF DeleteHandler, EnterReap, MayReap
  <2>2. fd \in Open /\ deleting' = AddOnce(deleting, fd)
    BY <1>7 DEF DeleteHandler
  <2>3. QED BY <2>1, <2>2, <1>a, <1>b, <1>c, <1>d, AskFacts
<1>8. ASSUME DeleteAllHandlers PROVE HandlerPointersLive'
  <2>1. /\ sockets' = sockets /\ cur' = cur /\ i' = i
        /\ dcur' # NoFd => dcur' = dcur /\ j' = j
    BY <1>8 DEF DeleteAllHandlers, EnterReap, MayReap
  <2>2. MarkAll
    BY <1>8 DEF DeleteAllHandlers
  <2>3. QED BY <2>1, <2>2, <1>a, <1>b, <1>c, <1>d, MarkFacts
<1>9. ASSUME Process PROVE HandlerPointersLive'
  <2>1. UNCHANGED <<lists, i, cur>> /\ (dcur' # NoFd => dcur' = dcur /\ j' = j)
    BY <1>9 DEF Process, EnterReap, MayReap
  <2>2. QED BY <2>1, <1>b, <1>c
<1>10. ASSUME Destroy PROVE HandlerPointersLive'
  <2>1. /\ sockets' = sockets /\ cur' = cur /\ i' = i
        /\ dcur' # NoFd => dcur' = dcur /\ j' = j
    BY <1>10 DEF Destroy, EnterReap, MayReap
  <2>2. MarkAll
    BY <1>10 DEF Destroy
  <2>3. QED BY <2>1, <2>2, <1>a, <1>b, <1>c, <1>d, MarkFacts
<1>11. ASSUME DestructorReturns PROVE HandlerPointersLive'
  <2>1. cur' = NoFd /\ dcur' = NoFd
    BY <1>11, <1>e DEF DestructorReturns, Control
  <2>2. QED BY <2>1
<1>12. ASSUME NEW need \in BOOLEAN, NeedWriteReturns(need) PROVE HandlerPointersLive'
  BY <1>12, <1>a, <1>b, <1>c DEF NeedWriteReturns
<1>13. ASSUME CallbackReturns PROVE HandlerPointersLive'
  BY <1>13, <1>a, <1>b, <1>c DEF CallbackReturns
<1>14. ASSUME ReapHandler PROVE HandlerPointersLive'
  <2>1. cur' = NoFd
    BY <1>14, <1>e DEF ReapHandler, Control
  <2>2. dcur' # NoFd => UNCHANGED lists /\ dcur' = deleting[j] /\ j' = j /\ j <= Len(deleting)
    BY <1>14, <1>e DEF ReapHandler, Control
  <2>3. QED BY <1>d, <1>c, <2>1, <2>2
<1>15. ASSUME ReapDone PROVE HandlerPointersLive'
  <2>1. cur' = NoFd /\ dcur' = NoFd
    BY <1>15, <1>e DEF ReapDone, Control
  <2>2. QED BY <2>1
<1>16. ASSUME ProcessBegin PROVE HandlerPointersLive'
  <2>1. cur' = NoFd /\ UNCHANGED <<lists, dcur, j>>
    BY <1>16, <1>e DEF ProcessBegin, Control
  <2>2. QED BY <2>1, <1>b, <1>c
<1>17. ASSUME Gather PROVE HandlerPointersLive'
  <2>1. cur' # NoFd => \/ cur' = sockets[i] /\ i' = i /\ i <= Len(sockets)
                     \/ UNCHANGED <<cur, i>>
    BY <1>17, <1>e DEF Gather, Control
  <2>2. UNCHANGED <<lists, dcur, j>>
    BY <1>17 DEF Gather
  <2>3. QED BY <2>1, <2>2, <1>b, <1>c
<1>18. ASSUME NothingToPoll PROVE HandlerPointersLive'
  <2>1. cur' = NoFd /\ dcur' = NoFd
    BY <1>18 DEF NothingToPoll, EndPass
  <2>2. QED BY <2>1
<1>19. ASSUME Gathered PROVE HandlerPointersLive'
  <2>1. cur' = NoFd /\ UNCHANGED <<lists, dcur, j>>
    BY <1>19, <1>e DEF Gathered, Control
  <2>2. QED BY <2>1, <1>b, <1>c
<1>20. ASSUME PollOk PROVE HandlerPointersLive'
  BY <1>20, <1>a, <1>b, <1>c DEF PollOk, Select, Beyond
<1>21. ASSUME PollFails PROVE HandlerPointersLive'
  BY <1>21, <1>a, <1>b, <1>c DEF PollFails
<1>22. ASSUME ScanException PROVE HandlerPointersLive'
  <2>1. cur' = NoFd \/ UNCHANGED <<sockets, cur, i>>
    BY <1>22, <1>e DEF ScanException, Dispatching, Control
  <2>2. dcur' = NoFd
    BY <1>22, <1>e DEF ScanException, TearDown, EnterReap, MayReap, Dispatching, Control
  <2>3. QED BY <2>1, <2>2, <1>b, <1>c
<1>23. ASSUME ScanHandler PROVE HandlerPointersLive'
  BY <1>23, <1>a, <1>b, <1>c DEF ScanHandler, Dispatching
<1>24. ASSUME ScanDone PROVE HandlerPointersLive'
  <2>1. cur' = NoFd /\ dcur' = NoFd
    BY <1>24 DEF ScanDone, EndPass
  <2>2. QED BY <2>1
<1>25. ASSUME ReadReady PROVE HandlerPointersLive'
  BY <1>25, <1>a, <1>b, <1>c DEF ReadReady, Dispatching
<1>26. ASSUME Accept PROVE HandlerPointersLive'
  <2>1. UNCHANGED <<cur, dcur, i, j>>
    BY <1>26 DEF Accept
  <2>2. CASE UNCHANGED lists
    BY <2>1, <2>2, <1>b, <1>c
  <2>3. CASE ~ UNCHANGED lists
    <3>1. PICK fd \in Fd \ Open : AddHandler(fd, [type |-> "stream", connected |-> TRUE, calls |-> handler[cur].accepts, accepts |-> {}], TRUE)
      BY <1>26, <2>3 DEF Accept
    <3>2. [type |-> "stream", connected |-> TRUE, calls |-> handler[cur].accepts, accepts |-> {}] \in Handlers
      <4>1. handler[cur] \in Handlers
        BY <1>26, <1>a, CurFacts DEF Accept, Dispatching, TypeOK
      <4>2. QED BY <4>1 DEF Handlers
    <3>3. /\ Open \subseteq Open' /\ Len(sockets') = Len(sockets) + 1 /\ deleting' = deleting
          /\ \A k \in 1..Len(sockets) : sockets'[k] = sockets[k]
      BY <3>1, <3>2, AddHandlerFacts
    <3>4. QED BY <2>1, <3>3, <1>b, <1>d
  <2>4. QED BY <2>2, <2>3
<1>27. ASSUME ReadNotReady PROVE HandlerPointersLive'
  BY <1>27, <1>a, <1>b, <1>c DEF ReadNotReady, Dispatching
<1>28. ASSUME WriteReady PROVE HandlerPointersLive'
  <2>1. cur' = NoFd \/ UNCHANGED <<sockets, cur, i>>
    BY <1>28, <1>e DEF WriteReady, Dispatching, Control
  <2>2. dcur' = NoFd
    BY <1>28, <1>e DEF WriteReady, TearDown, EnterReap, MayReap, Dispatching, Control
  <2>3. QED BY <2>1, <2>2, <1>b, <1>c
<1>29. ASSUME WriteCallback PROVE HandlerPointersLive'
  BY <1>29, <1>a, <1>b, <1>c DEF WriteCallback, Dispatching
<1>30. ASSUME WriteNotReady PROVE HandlerPointersLive'
  BY <1>30, <1>a, <1>b, <1>c DEF WriteNotReady, Dispatching
<1>31. ASSUME NEW old \in BOOLEAN, Expire(old) PROVE HandlerPointersLive'
  <2>1. cur' = NoFd \/ UNCHANGED <<sockets, cur, i>>
    BY <1>31, <1>e DEF Expire, Dispatching, Control
  <2>2. dcur' = NoFd
    BY <1>31, <1>e DEF Expire, TearDown, EnterReap, MayReap, Dispatching, Control
  <2>3. QED BY <2>1, <2>2, <1>b, <1>c
<1>32. CASE UNCHANGED vars
  BY <1>32, <1>b, <1>c DEF vars
<1>33. QED
  BY <1>1, <1>2, <1>3, <1>4, <1>5, <1>6, <1>7, <1>8, <1>9, <1>10, <1>11, <1>12, <1>13,
     <1>14, <1>15, <1>16, <1>17, <1>18, <1>19, <1>20, <1>21, <1>22, <1>23, <1>24, <1>25,
     <1>26, <1>27, <1>28, <1>29, <1>30, <1>31, <1>32 DEF Next, Application, CallbackEnds, Server

\* The descriptor sets follow the pass.
LEMMA SetsStep ==
    ASSUME IInv, [Next]_vars
    PROVE  SetsCurrent'
<1> USE DEF SetsCurrent, ReadinessIsCurrent, Processing, lists, frame, reaper, fdsets, ghosts
<1>a. TypeOK /\ Open \subseteq Fd /\ \A k \in 1..Len(sockets) : sockets[k] \in Open
  BY ElementFacts DEF IInv
<1>b. SetsCurrent
  BY DEF IInv
<1>c. sockets' = sockets => Open' = Open
  BY DEF Open
<1>e. Control
  BY DEF IInv
<1>1. ASSUME NEW type \in {"stream", "datagram"}, NEW p \in Profiles, CreateHandler(type, p) PROVE SetsCurrent'
  <2>1. UNCHANGED <<frame, fdsets>>
    BY <1>1 DEF CreateHandler
  <2>2. PICK fd \in Fd \ Open : AddHandler(fd, [type |-> type, connected |-> (type = "stream" => ~AutoClose), calls |-> p, accepts |-> {}], type = "datagram")
    BY <1>1 DEF CreateHandler
  <2>3. [type |-> type, connected |-> (type = "stream" => ~AutoClose), calls |-> p, accepts |-> {}] \in Handlers
    BY <1>1, ConstantsAssumption DEF Handlers, Callbacks
  <2>4. /\ Open \subseteq Open' /\ fresh' \subseteq fresh \cup {fd} /\ (~Processing => fresh' = fresh)
        /\ \A f \in Fd \ {fd} : handler'[f] = handler[f]
    BY <2>2, <2>3, AddHandlerFacts
  <2>5. QED BY <2>1, <2>4, <1>a, <1>b
<1>2. ASSUME NEW p \in Profiles, CreateListener(p) PROVE SetsCurrent'
  <2>1. UNCHANGED <<frame, fdsets>>
    BY <1>2 DEF CreateListener
  <2>2. PICK fd \in Fd \ Open : AddHandler(fd, [type |-> "listener", connected |-> TRUE, calls |-> {"read"}, accepts |-> p], TRUE)
    BY <1>2 DEF CreateListener
  <2>3. [type |-> "listener", connected |-> TRUE, calls |-> {"read"}, accepts |-> p] \in Handlers
    BY <1>2, ConstantsAssumption DEF Handlers, Callbacks
  <2>4. /\ Open \subseteq Open' /\ fresh' \subseteq fresh \cup {fd} /\ (~Processing => fresh' = fresh)
        /\ \A f \in Fd \ {fd} : handler'[f] = handler[f]
    BY <2>2, <2>3, AddHandlerFacts
  <2>5. QED BY <2>1, <2>4, <1>a, <1>b
<1>3. ASSUME NEW fd \in Fd, NEW f \in Settable, SetCallback(fd, f) PROVE SetsCurrent'
  BY <1>3, <1>a, <1>b, <1>c, <1>e DEF SetCallback
<1>4. ASSUME NEW fd \in Fd, NEW f \in Settable, ClearCallback(fd, f) PROVE SetsCurrent'
  <2>1. UNCHANGED <<lists, frame, fdsets, ghosts>> /\ handler' = [handler EXCEPT ![fd].calls = @ \ {f}]
    BY <1>4 DEF ClearCallback
  <2>2. f = "read" => rd = {}
    BY <1>4, <1>b, IdleFacts DEF ClearCallback
  <2>3. f # "read" => \A h \in rd : "read" \in handler'[h].calls
    BY <2>1, <1>a, <1>b DEF TypeOK
  <2>4. QED BY <2>1, <2>2, <2>3, <1>b, <1>c
<1>5. ASSUME NEW fd \in Fd, NEW n \in 1..MaxSendBuffer, WriteSocket(fd, n) PROVE SetsCurrent'
  BY <1>5, <1>a, <1>b, <1>c, <1>e DEF WriteSocket, AcceptsBytes, Accepted
<1>6. ASSUME NEW fd \in Fd, DeleteWriteBuffer(fd) PROVE SetsCurrent'
  BY <1>6, <1>a, <1>b, <1>c, <1>e DEF DeleteWriteBuffer
<1>7. ASSUME NEW fd \in Fd, DeleteHandler(fd) PROVE SetsCurrent'
  BY <1>7, <1>a, <1>b, <1>c, <1>e DEF DeleteHandler, EnterReap, MayReap
<1>8. ASSUME DeleteAllHandlers PROVE SetsCurrent'
  BY <1>8, <1>a, <1>b, <1>c, <1>e DEF DeleteAllHandlers, EnterReap, MayReap, MarkAll
<1>9. ASSUME Process PROVE SetsCurrent'
  BY <1>9, <1>a, <1>b, <1>c, <1>e DEF Process, EnterReap, MayReap
<1>10. ASSUME Destroy PROVE SetsCurrent'
  BY <1>10, <1>a, <1>b, <1>c, <1>e DEF Destroy, EnterReap, MayReap, MarkAll
<1>11. ASSUME DestructorReturns PROVE SetsCurrent'
  <2>1. UNCHANGED <<frame, fdsets, fresh>> /\ ~Processing /\ ~Processing' /\ cb # "need"
    BY <1>11, <1>e DEF DestructorReturns, Control
  <2>2. QED BY <2>1, <1>b
<1>12. ASSUME NEW need \in BOOLEAN, NeedWriteReturns(need) PROVE SetsCurrent'
  BY <1>12, <1>a, <1>b, <1>c, <1>e DEF NeedWriteReturns
<1>13. ASSUME CallbackReturns PROVE SetsCurrent'
  BY <1>13, <1>a, <1>b, <1>c, <1>e DEF CallbackReturns
<1>14. ASSUME ReapHandler PROVE SetsCurrent'
  <2>1. UNCHANGED <<frame, fdsets, fresh>> /\ ~Processing /\ ~Processing' /\ cb # "need"
    BY <1>14, <1>e DEF ReapHandler, Control
  <2>2. QED BY <2>1, <1>b
<1>15. ASSUME ReapDone PROVE SetsCurrent'
  <2>1. UNCHANGED <<sockets, handler, cur, cb, fdsets, fresh>>
    BY <1>15 DEF ReapDone
  <2>2. Processing' = Processing
    BY <1>15, <1>e DEF ReapDone, Control
  <2>3. QED BY <2>1, <2>2, <1>b, <1>c
<1>16. ASSUME ProcessBegin PROVE SetsCurrent'
  BY <1>16, <1>a, <1>b, <1>c, <1>e DEF ProcessBegin
<1>17. ASSUME Gather PROVE SetsCurrent'
  <2>1. /\ sockets[i] \in Open /\ pc = "gather" /\ cb = "none" /\ pc' = pc
        /\ UNCHANGED <<sockets, handler>>
    BY <1>17, <1>a DEF Gather, TypeOK
  <2>2. /\ rd' \subseteq rd \cup {sockets[i]} /\ wr' \subseteq wr \cup {sockets[i]}
        /\ ex' = ex \cup {sockets[i]} /\ fresh' = fresh \ {sockets[i]}
        /\ sockets[i] \in rd' => sockets[i] \in rd \/ "read" \in handler[sockets[i]].calls
    BY <1>17 DEF Gather, WantsRead
  <2>3. cb' = "need" => cur' = sockets[i]
    BY <1>17 DEF Gather
  <2>4. QED BY <2>1, <2>2, <2>3, <1>b, <1>c
<1>18. ASSUME NothingToPoll PROVE SetsCurrent'
  BY <1>18, <1>a, <1>b, <1>c, <1>e DEF NothingToPoll, EndPass
<1>19. ASSUME Gathered PROVE SetsCurrent'
  BY <1>19, <1>a, <1>b, <1>c, <1>e DEF Gathered
<1>20. ASSUME PollOk PROVE SetsCurrent'
  <2>1. rd' \subseteq rd /\ wr' \subseteq wr /\ ex' \subseteq ex
    BY <1>20 DEF PollOk, Select
  <2>2. Processing /\ cb # "need"
    BY <1>20, <1>e DEF PollOk, Control
  <2>3. QED BY <1>20, <2>1, <2>2, <1>b, <1>c DEF PollOk
<1>21. ASSUME PollFails PROVE SetsCurrent'
  BY <1>21, <1>a, <1>b, <1>c, <1>e DEF PollFails
<1>22. ASSUME ScanException PROVE SetsCurrent'
  BY <1>22, <1>a, <1>b, <1>c, <1>e DEF ScanException, TearDown, EnterReap, MayReap, Dispatching
<1>23. ASSUME ScanHandler PROVE SetsCurrent'
  BY <1>23, <1>a, <1>b, <1>c, <1>e DEF ScanHandler, Dispatching
<1>24. ASSUME ScanDone PROVE SetsCurrent'
  BY <1>24, <1>a, <1>b, <1>c, <1>e DEF ScanDone, EndPass, Dispatching
<1>25. ASSUME ReadReady PROVE SetsCurrent'
  BY <1>25, <1>a, <1>b, <1>c, <1>e DEF ReadReady, Dispatching
<1>26. ASSUME Accept PROVE SetsCurrent'
  <2>1. UNCHANGED <<fdsets, cur>> /\ cb' # "need" /\ Processing /\ Processing'
    BY <1>26 DEF Accept, Dispatching
  <2>2. CASE UNCHANGED <<lists, handler, ghosts>>
    BY <2>1, <2>2, <1>b, <1>c
  <2>3. CASE ~ UNCHANGED <<lists, handler, ghosts>>
    <3>1. PICK fd \in Fd \ Open : AddHandler(fd, [type |-> "stream", connected |-> TRUE, calls |-> handler[cur].accepts, accepts |-> {}], TRUE)
      BY <1>26, <2>3 DEF Accept
    <3>2. [type |-> "stream", connected |-> TRUE, calls |-> handler[cur].accepts, accepts |-> {}] \in Handlers
      <4>1. handler[cur] \in Handlers
        BY <1>26, <1>a, CurFacts DEF Accept, Dispatching, TypeOK
      <4>2. QED BY <4>1 DEF Handlers
    <3>3. /\ Open \subseteq Open' /\ fresh' \subseteq fresh \cup {fd}
          /\ \A f \in Fd \ {fd} : handler'[f] = handler[f]
      BY <3>1, <3>2, AddHandlerFacts
    <3>4. QED BY <2>1, <3>3, <1>a, <1>b
  <2>4. QED BY <2>2, <2>3
<1>27. ASSUME ReadNotReady PROVE SetsCurrent'
  BY <1>27, <1>a, <1>b, <1>c, <1>e DEF ReadNotReady, Dispatching
<1>28. ASSUME WriteReady PROVE SetsCurrent'
  BY <1>28, <1>a, <1>b, <1>c, <1>e DEF WriteReady, TearDown, EnterReap, MayReap, Dispatching
<1>29. ASSUME WriteCallback PROVE SetsCurrent'
  BY <1>29, <1>a, <1>b, <1>c, <1>e DEF WriteCallback, Dispatching
<1>30. ASSUME WriteNotReady PROVE SetsCurrent'
  BY <1>30, <1>a, <1>b, <1>c, <1>e DEF WriteNotReady, Dispatching
<1>31. ASSUME NEW old \in BOOLEAN, Expire(old) PROVE SetsCurrent'
  BY <1>31, <1>a, <1>b, <1>c, <1>e DEF Expire, TearDown, EnterReap, MayReap, Dispatching
<1>32. CASE UNCHANGED vars
  BY <1>32, <1>b, <1>c DEF vars
<1>33. QED
  BY <1>1, <1>2, <1>3, <1>4, <1>5, <1>6, <1>7, <1>8, <1>9, <1>10, <1>11, <1>12, <1>13,
     <1>14, <1>15, <1>16, <1>17, <1>18, <1>19, <1>20, <1>21, <1>22, <1>23, <1>24, <1>25,
     <1>26, <1>27, <1>28, <1>29, <1>30, <1>31, <1>32 DEF Next, Application, CallbackEnds, Server

\* A handler past its destructor callback stays silent.
LEMMA DeadStep ==
    ASSUME IInv, [Next]_vars
    PROVE  DeadSilent'
<1> USE DEF DeadSilent, DeadDetached, NoCallbackAfterDestructor, lists, frame, reaper, fdsets, ghosts
<1>a. TypeOK /\ Deleting \subseteq Open /\ Open \subseteq Fd /\ \A k \in 1..Len(sockets) : sockets[k] \in Open
  BY ElementFacts DEF IInv, DeleteListConsistent
<1>b. DeadSilent
  BY DEF IInv
<1>c. deleting' = deleting => Deleting' = Deleting
  BY DEF Deleting
<1>d. HandlerPointersLive /\ \A k \in 1..Len(deleting) : deleting[k] \in Deleting
  BY ElementFacts DEF IInv
<1>e. Control /\ \A fd \in rd : "read" \in handler[fd].calls
  BY DEF IInv, SetsCurrent
<1>1. ASSUME NEW type \in {"stream", "datagram"}, NEW p \in Profiles, CreateHandler(type, p) PROVE DeadSilent'
  <2>1. UNCHANGED <<frame, reaper>>
    BY <1>1 DEF CreateHandler
  <2>2. PICK fd \in Fd \ Open : AddHandler(fd, [type |-> type, connected |-> (type = "stream" => ~AutoClose), calls |-> p, accepts |-> {}], type = "datagram")
    BY <1>1 DEF CreateHandler
  <2>3. [type |-> type, connected |-> (type = "stream" => ~AutoClose), calls |-> p, accepts |-> {}] \in Handlers
    BY <1>1, ConstantsAssumption DEF Handlers, Callbacks
  <2>4. UNCHANGED <<Deleting, dead>> /\ \A f \in Fd \ {fd} : handler'[f] = handler[f]
    BY <2>2, <2>3, AddHandlerFacts
  <2>5. QED BY <2>1, <2>4, <1>a, <1>b
<1>2. ASSUME NEW p \in Profiles, CreateListener(p) PROVE DeadSilent'
  <2>1. UNCHANGED <<frame, reaper>>
    BY <1>2 DEF CreateListener
  <2>2. PICK fd \in Fd \ Open : AddHandler(fd, [type |-> "listener", connected |-> TRUE, calls |-> {"read"}, accepts |-> p], TRUE)
    BY <1>2 DEF CreateListener
  <2>3. [type |-> "listener", connected |-> TRUE, calls |-> {"read"}, accepts |-> p] \in Handlers
    BY <1>2, ConstantsAssumption DEF Handlers, Callbacks
  <2>4. UNCHANGED <<Deleting, dead>> /\ \A f \in Fd \ {fd} : handler'[f] = handler[f]
    BY <2>2, <2>3, AddHandlerFacts
  <2>5. QED BY <2>1, <2>4, <1>a, <1>b
<1>3. ASSUME NEW fd \in Fd, NEW f \in Settable, SetCallback(fd, f) PROVE DeadSilent'
  BY <1>3, <1>a, <1>b, <1>c, <1>e DEF SetCallback
<1>4. ASSUME NEW fd \in Fd, NEW f \in Settable, ClearCallback(fd, f) PROVE DeadSilent'
  BY <1>4, <1>a, <1>b, <1>c, <1>e DEF ClearCallback
<1>5. ASSUME NEW fd \in Fd, NEW n \in 1..MaxSendBuffer, WriteSocket(fd, n) PROVE DeadSilent'
  BY <1>5, <1>a, <1>b, <1>c, <1>e DEF WriteSocket, AcceptsBytes, Accepted
<1>6. ASSUME NEW fd \in Fd, DeleteWriteBuffer(fd) PROVE DeadSilent'
  BY <1>6, <1>a, <1>b, <1>c, <1>e DEF DeleteWriteBuffer
<1>7. ASSUME NEW fd \in Fd, DeleteHandler(fd) PROVE DeadSilent'
  <2>1. UNCHANGED <<handler, dead, cur, cb>> /\ (dmode' # "none" => UNCHANGED <<dmode, dcur>>)
    BY <1>7 DEF DeleteHandler, EnterReap, MayReap
  <2>2. Deleting \subseteq Deleting'
    <3>1. UNCHANGED sockets /\ fd \in Open /\ deleting' = AddOnce(deleting, fd)
      BY <1>7 DEF DeleteHandler
    <3>2. QED BY <3>1, AskFacts
  <2>3. QED BY <2>1, <2>2, <1>b
<1>8. ASSUME DeleteAllHandlers PROVE DeadSilent'
  <2>1. UNCHANGED <<handler, dead, cur, cb>> /\ (dmode' # "none" => UNCHANGED <<dmode, dcur>>)
    BY <1>8 DEF DeleteAllHandlers, EnterReap, MayReap
  <2>2. Deleting \subseteq Deleting'
    <3>1. UNCHANGED sockets /\ MarkAll
      BY <1>8 DEF DeleteAllHandlers
    <3>2. QED BY <3>1, MarkFacts
  <2>3. QED BY <2>1, <2>2, <1>b
<1>9. ASSUME Process PROVE DeadSilent'
  BY <1>9, <1>a, <1>b, <1>c, <1>e DEF Process, EnterReap, MayReap
<1>10. ASSUME Destroy PROVE DeadSilent'
  <2>1. UNCHANGED <<handler, dead, cur, cb>> /\ (dmode' # "none" => UNCHANGED <<dmode, dcur>>)
    BY <1>10 DEF Destroy, EnterReap, MayReap
  <2>2. Deleting \subseteq Deleting'
    <3>1. UNCHANGED sockets /\ MarkAll
      BY <1>10 DEF Destroy
    <3>2. QED BY <3>1, MarkFacts
  <2>3. QED BY <2>1, <2>2, <1>b
<1>11. ASSUME DestructorReturns PROVE DeadSilent'
  <2>1. Dispose(dcur, dmode) /\ dmode \in {"final", "linger"} /\ dmode' = "none" /\ cb' = "none"
    BY <1>11, <1>a, <1>e DEF DestructorReturns, TypeOK, Control
  <2>2. dcur \in Deleting
    BY <1>11, <1>a, <1>d, <1>e DEF DestructorReturns, Control, HandlerPointersLive, TypeOK
  <2>3. /\ \A f \in Fd \ {dcur} : handler'[f] = handler[f]
        /\ dmode = "final" => Deleting' = Deleting \ {dcur} /\ dead' = dead \ {dcur}
        /\ dmode = "linger" => Deleting' = Deleting /\ dead' \subseteq dead \cup {dcur} /\ handler'[dcur].calls = {}
    BY <2>1, <2>2, DisposeFacts
  <2>4. QED BY <2>1, <2>2, <2>3, <1>a, <1>b
<1>12. ASSUME NEW need \in BOOLEAN, NeedWriteReturns(need) PROVE DeadSilent'
  BY <1>12, <1>a, <1>b, <1>c, <1>e DEF NeedWriteReturns
<1>13. ASSUME CallbackReturns PROVE DeadSilent'
  BY <1>13, <1>a, <1>b, <1>c, <1>e DEF CallbackReturns
<1>14. ASSUME ReapHandler PROVE DeadSilent'
  <2>1. cb' = "none" /\ dmode = "none"
    BY <1>14, <1>a, <1>e DEF ReapHandler, Control, TypeOK
  <2>2. deleting[j] \in Deleting
    BY <1>14, <1>a, <1>d DEF ReapHandler, TypeOK
  <2>3. CASE "destr" \in handler[deleting[j]].calls
    <3>1. UNCHANGED <<lists, handler, dead>> /\ dcur' = deleting[j]
      BY <1>14, <2>3 DEF ReapHandler
    <3>2. QED BY <2>1, <2>3, <3>1, <1>b, <1>c
  <2>4. CASE "destr" \notin handler[deleting[j]].calls
    <3>1. UNCHANGED <<dmode, dcur>> /\ Dispose(deleting[j], Fate(deleting[j]))
      BY <1>14, <2>4 DEF ReapHandler
    <3>2. Fate(deleting[j]) \in {"final", "linger"}
      BY DEF Fate
    <3>3. /\ \A f \in Fd \ {deleting[j]} : handler'[f] = handler[f]
          /\ Fate(deleting[j]) = "final" => Deleting' = Deleting \ {deleting[j]} /\ dead' = dead \ {deleting[j]}
          /\ Fate(deleting[j]) = "linger" =>
               Deleting' = Deleting /\ dead' \subseteq dead \cup {deleting[j]} /\ handler'[deleting[j]].calls = {}
      BY <2>2, <3>1, <3>2, DisposeFacts
    <3>4. QED BY <2>1, <2>2, <3>1, <3>2, <3>3, <1>a, <1>b
  <2>5. QED BY <2>3, <2>4
<1>15. ASSUME ReapDone PROVE DeadSilent'
  BY <1>15, <1>a, <1>b, <1>c, <1>e DEF ReapDone
<1>16. ASSUME ProcessBegin PROVE DeadSilent'
  BY <1>16, <1>a, <1>b, <1>c, <1>e DEF ProcessBegin
<1>17. ASSUME Gather PROVE DeadSilent'
  BY <1>17, <1>a, <1>b, <1>c, <1>e DEF Gather, WantsRead, WantsWrite
<1>18. ASSUME NothingToPoll PROVE DeadSilent'
  BY <1>18, <1>a, <1>b, <1>c, <1>e DEF NothingToPoll, EndPass
<1>19. ASSUME Gathered PROVE DeadSilent'
  BY <1>19, <1>a, <1>b, <1>c, <1>e DEF Gathered
<1>20. ASSUME PollOk PROVE DeadSilent'
  BY <1>20, <1>a, <1>b, <1>c, <1>e DEF PollOk, Select, Beyond
<1>21. ASSUME PollFails PROVE DeadSilent'
  BY <1>21, <1>a, <1>b, <1>c, <1>e DEF PollFails
<1>22. ASSUME ScanException PROVE DeadSilent'
  <2>1. /\ UNCHANGED <<dead, sockets>> /\ (dmode' # "none" => UNCHANGED <<dmode, dcur>>)
        /\ cb' = "none"
    BY <1>22, <1>e DEF ScanException, Dispatching, TearDown, EnterReap, MayReap, Control
  <2>2. \A f \in dead : handler'[f].calls = handler[f].calls
    BY <1>22, <1>a DEF ScanException, TypeOK
  <2>3. Deleting \subseteq Deleting'
    <3>1. sockets[i] \in Open
      BY <1>22, <1>a, CurFacts DEF ScanException, Dispatching, TypeOK
    <3>2. deleting' = deleting \/ deleting' = AddOnce(deleting, sockets[i])
      BY <1>22 DEF ScanException, TearDown
    <3>3. QED BY <2>1, <3>1, <3>2, <1>c, AskFacts
  <2>4. QED BY <2>1, <2>2, <2>3, <1>b
<1>23. ASSUME ScanHandler PROVE DeadSilent'
  BY <1>23, <1>a, <1>b, <1>c, <1>e DEF ScanHandler, Dispatching
<1>24. ASSUME ScanDone PROVE DeadSilent'
  BY <1>24, <1>a, <1>b, <1>c, <1>e DEF ScanDone, EndPass, Dispatching
<1>25. ASSUME ReadReady PROVE DeadSilent'
  BY <1>25, <1>a, <1>b, <1>c, <1>e DEF ReadReady, Dispatching
<1>26. ASSUME Accept PROVE DeadSilent'
  <2>1. UNCHANGED reaper /\ cb' \in {"none", "connect"}
    BY <1>26 DEF Accept, Dispatching
  <2>2. CASE UNCHANGED <<lists, handler, ghosts>>
    BY <2>1, <2>2, <1>b, <1>c
  <2>3. CASE ~ UNCHANGED <<lists, handler, ghosts>>
    <3>1. PICK fd \in Fd \ Open : AddHandler(fd, [type |-> "stream", connected |-> TRUE, calls |-> handler[cur].accepts, accepts |-> {}], TRUE)
      BY <1>26, <2>3 DEF Accept
    <3>2. [type |-> "stream", connected |-> TRUE, calls |-> handler[cur].accepts, accepts |-> {}] \in Handlers
      <4>1. handler[cur] \in Handlers
        BY <1>26, <1>a, CurFacts DEF Accept, Dispatching, TypeOK
      <4>2. QED BY <4>1 DEF Handlers
    <3>3. UNCHANGED <<Deleting, dead>> /\ \A f \in Fd \ {fd} : handler'[f] = handler[f]
      BY <3>1, <3>2, AddHandlerFacts
    <3>4. QED BY <2>1, <3>3, <1>a, <1>b
  <2>4. QED BY <2>2, <2>3
<1>27. ASSUME ReadNotReady PROVE DeadSilent'
  BY <1>27, <1>a, <1>b, <1>c, <1>e DEF ReadNotReady, Dispatching
<1>28. ASSUME WriteReady PROVE DeadSilent'
  <2>1. /\ UNCHANGED <<dead, sockets>> /\ (dmode' # "none" => UNCHANGED <<dmode, dcur>>)
        /\ cb' = "none"
    BY <1>28, <1>e DEF WriteReady, Dispatching, TearDown, EnterReap, MayReap, Control
  <2>2. \A f \in dead : handler'[f].calls = handler[f].calls
    BY <1>28, <1>a DEF WriteReady, TypeOK
  <2>3. Deleting \subseteq Deleting'
    <3>1. cur \in Open
      BY <1>28, <1>a, CurFacts DEF WriteReady, Dispatching, TypeOK
    <3>2. deleting' = deleting \/ deleting' = AddOnce(deleting, cur)
      BY <1>28 DEF WriteReady, TearDown
    <3>3. QED BY <2>1, <3>1, <3>2, <1>c, AskFacts
  <2>4. QED BY <2>1, <2>2, <2>3, <1>b
<1>29. ASSUME WriteCallback PROVE DeadSilent'
  BY <1>29, <1>a, <1>b, <1>c, <1>e DEF WriteCallback, Dispatching
<1>30. ASSUME WriteNotReady PROVE DeadSilent'
  BY <1>30, <1>a, <1>b, <1>c, <1>e DEF WriteNotReady, Dispatching
<1>31. ASSUME NEW old \in BOOLEAN, Expire(old) PROVE DeadSilent'
  <2>1. /\ UNCHANGED <<dead, sockets>> /\ (dmode' # "none" => UNCHANGED <<dmode, dcur>>)
        /\ cb' = "none"
    BY <1>31, <1>e DEF Expire, Dispatching, TearDown, EnterReap, MayReap, Control
  <2>2. \A f \in dead : handler'[f].calls = handler[f].calls
    BY <1>31, <1>a DEF Expire, TypeOK
  <2>3. Deleting \subseteq Deleting'
    <3>1. cur \in Open
      BY <1>31, <1>a, CurFacts DEF Expire, Dispatching, TypeOK
    <3>2. deleting' = deleting \/ deleting' = AddOnce(deleting, cur)
      BY <1>31 DEF Expire, TearDown
    <3>3. QED BY <2>1, <3>1, <3>2, <1>c, AskFacts
  <2>4. QED BY <2>1, <2>2, <2>3, <1>b
<1>32. CASE UNCHANGED vars
  BY <1>32, <1>b, <1>c DEF vars
<1>33. QED
  BY <1>1, <1>2, <1>3, <1>4, <1>5, <1>6, <1>7, <1>8, <1>9, <1>10, <1>11, <1>12, <1>13,
     <1>14, <1>15, <1>16, <1>17, <1>18, <1>19, <1>20, <1>21, <1>22, <1>23, <1>24, <1>25,
     <1>26, <1>27, <1>28, <1>29, <1>30, <1>31, <1>32 DEF Next, Application, CallbackEnds, Server

\* Bytes wait only for a handler that exists.
LEMMA BufferStep ==
    ASSUME IInv, [Next]_vars
    PROVE  NoBufferWithoutHandler'
<1> USE DEF NoBufferWithoutHandler, lists, frame, reaper, fdsets, ghosts
<1>a. TypeOK /\ Deleting \subseteq Open /\ Open \subseteq Fd
  BY ElementFacts DEF IInv, DeleteListConsistent
<1>b. NoBufferWithoutHandler
  BY DEF IInv
<1>c. sockets' = sockets => Open' = Open
  BY DEF Open
<1>d. Control /\ HandlerPointersLive /\ \A k \in 1..Len(deleting) : deleting[k] \in Deleting
  BY ElementFacts DEF IInv
<1>1. ASSUME NEW type \in {"stream", "datagram"}, NEW p \in Profiles, CreateHandler(type, p) PROVE NoBufferWithoutHandler'
  <2>1. PICK fd \in Fd \ Open : AddHandler(fd, [type |-> type, connected |-> (type = "stream" => ~AutoClose), calls |-> p, accepts |-> {}], type = "datagram")
    BY <1>1 DEF CreateHandler
  <2>2. [type |-> type, connected |-> (type = "stream" => ~AutoClose), calls |-> p, accepts |-> {}] \in Handlers
    BY <1>1, ConstantsAssumption DEF Handlers, Callbacks
  <2>3. UNCHANGED pending /\ Open \subseteq Open'
    BY <2>1, <2>2, AddHandlerFacts
  <2>4. QED BY <2>3, <1>b
<1>2. ASSUME NEW p \in Profiles, CreateListener(p) PROVE NoBufferWithoutHandler'
  <2>1. PICK fd \in Fd \ Open : AddHandler(fd, [type |-> "listener", connected |-> TRUE, calls |-> {"read"}, accepts |-> p], TRUE)
    BY <1>2 DEF CreateListener
  <2>2. [type |-> "listener", connected |-> TRUE, calls |-> {"read"}, accepts |-> p] \in Handlers
    BY <1>2, ConstantsAssumption DEF Handlers, Callbacks
  <2>3. UNCHANGED pending /\ Open \subseteq Open'
    BY <2>1, <2>2, AddHandlerFacts
  <2>4. QED BY <2>3, <1>b
<1>3. ASSUME NEW fd \in Fd, NEW f \in Settable, SetCallback(fd, f) PROVE NoBufferWithoutHandler'
  BY <1>3, <1>a, <1>b, <1>c DEF SetCallback
<1>4. ASSUME NEW fd \in Fd, NEW f \in Settable, ClearCallback(fd, f) PROVE NoBufferWithoutHandler'
  BY <1>4, <1>a, <1>b, <1>c DEF ClearCallback
<1>5. ASSUME NEW fd \in Fd, NEW n \in 1..MaxSendBuffer, WriteSocket(fd, n) PROVE NoBufferWithoutHandler'
  <2>1. UNCHANGED sockets /\ fd \in Open
    BY <1>5 DEF WriteSocket, AcceptsBytes
  <2>2. \A g \in Fd \ {fd} : pending'[g] = pending[g]
    BY <1>5, <1>a DEF WriteSocket, TypeOK
  <2>3. QED BY <2>1, <2>2, <1>b, <1>c
<1>6. ASSUME NEW fd \in Fd, DeleteWriteBuffer(fd) PROVE NoBufferWithoutHandler'
  BY <1>6, <1>a, <1>b, <1>c DEF DeleteWriteBuffer
<1>7. ASSUME NEW fd \in Fd, DeleteHandler(fd) PROVE NoBufferWithoutHandler'
  BY <1>7, <1>a, <1>b, <1>c DEF DeleteHandler, EnterReap, MayReap
<1>8. ASSUME DeleteAllHandlers PROVE NoBufferWithoutHandler'
  BY <1>8, <1>b, <1>c DEF DeleteAllHandlers
<1>9. ASSUME Process PROVE NoBufferWithoutHandler'
  BY <1>9, <1>a, <1>b, <1>c DEF Process, EnterReap, MayReap
<1>10. ASSUME Destroy PROVE NoBufferWithoutHandler'
  BY <1>10, <1>b, <1>c DEF Destroy
<1>11. ASSUME DestructorReturns PROVE NoBufferWithoutHandler'
  <2>1. PICK fd \in Deleting, mode \in {"final", "linger"} : Dispose(fd, mode)
    BY <1>11, <1>a, <1>d DEF DestructorReturns, Control, HandlerPointersLive, TypeOK
  <2>2. /\ \A f \in Fd \ {fd} : pending'[f] = pending[f]
        /\ mode = "final" => Open' = Open \ {fd} /\ pending'[fd] = 0
        /\ mode = "linger" => UNCHANGED <<Open, pending>>
    BY SMTT(30), <2>1, DisposeFacts
  <2>3. QED BY <2>1, <2>2, <1>a, <1>b
<1>12. ASSUME NEW need \in BOOLEAN, NeedWriteReturns(need) PROVE NoBufferWithoutHandler'
  BY <1>12, <1>a, <1>b, <1>c DEF NeedWriteReturns
<1>13. ASSUME CallbackReturns PROVE NoBufferWithoutHandler'
  BY <1>13, <1>a, <1>b, <1>c DEF CallbackReturns
<1>14. ASSUME ReapHandler PROVE NoBufferWithoutHandler'
  <2>1. CASE UNCHANGED <<lists, pending>>
    BY <2>1, <1>b, <1>c
  <2>2. CASE ~ UNCHANGED <<lists, pending>>
    <3>1. PICK fd \in Deleting, mode \in {"final", "linger"} : Dispose(fd, mode)
      <4>1. deleting[j] \in Deleting
        BY <1>14, <1>a, <1>d DEF ReapHandler, TypeOK
      <4>2. Dispose(deleting[j], Fate(deleting[j]))
        BY <1>14, <2>2 DEF ReapHandler
      <4>3. Fate(deleting[j]) \in {"final", "linger"}
        BY DEF Fate
      <4>4. QED BY <4>1, <4>2, <4>3
    <3>2. /\ \A f \in Fd \ {fd} : pending'[f] = pending[f]
          /\ mode = "final" => Open' = Open \ {fd} /\ pending'[fd] = 0
          /\ mode = "linger" => UNCHANGED <<Open, pending>>
      BY SMTT(30), <3>1, DisposeFacts
    <3>3. QED BY <3>1, <3>2, <1>a, <1>b
  <2>3. QED BY <2>1, <2>2
<1>15. ASSUME ReapDone PROVE NoBufferWithoutHandler'
  BY <1>15, <1>a, <1>b, <1>c DEF ReapDone
<1>16. ASSUME ProcessBegin PROVE NoBufferWithoutHandler'
  BY <1>16, <1>a, <1>b, <1>c DEF ProcessBegin
<1>17. ASSUME Gather PROVE NoBufferWithoutHandler'
  BY <1>17, <1>a, <1>b, <1>c DEF Gather, WantsRead, WantsWrite
<1>18. ASSUME NothingToPoll PROVE NoBufferWithoutHandler'
  BY <1>18, <1>a, <1>b, <1>c DEF NothingToPoll, EndPass
<1>19. ASSUME Gathered PROVE NoBufferWithoutHandler'
  BY <1>19, <1>a, <1>b, <1>c DEF Gathered
<1>20. ASSUME PollOk PROVE NoBufferWithoutHandler'
  BY <1>20, <1>a, <1>b, <1>c DEF PollOk, Select, Beyond
<1>21. ASSUME PollFails PROVE NoBufferWithoutHandler'
  BY <1>21, <1>a, <1>b, <1>c DEF PollFails
<1>22. ASSUME ScanException PROVE NoBufferWithoutHandler'
  BY <1>22, <1>a, <1>b, <1>c DEF ScanException, TearDown, EnterReap, MayReap, Dispatching
<1>23. ASSUME ScanHandler PROVE NoBufferWithoutHandler'
  BY <1>23, <1>a, <1>b, <1>c DEF ScanHandler, Dispatching
<1>24. ASSUME ScanDone PROVE NoBufferWithoutHandler'
  BY <1>24, <1>a, <1>b, <1>c DEF ScanDone, EndPass, Dispatching
<1>25. ASSUME ReadReady PROVE NoBufferWithoutHandler'
  BY <1>25, <1>a, <1>b, <1>c DEF ReadReady, Dispatching
<1>26. ASSUME Accept PROVE NoBufferWithoutHandler'
  <2>1. CASE UNCHANGED <<lists, pending>>
    BY <2>1, <1>b, <1>c
  <2>2. CASE ~ UNCHANGED <<lists, pending>>
    <3>1. PICK fd \in Fd \ Open : AddHandler(fd, [type |-> "stream", connected |-> TRUE, calls |-> handler[cur].accepts, accepts |-> {}], TRUE)
      BY <1>26, <2>2 DEF Accept
    <3>2. [type |-> "stream", connected |-> TRUE, calls |-> handler[cur].accepts, accepts |-> {}] \in Handlers
      <4>1. handler[cur] \in Handlers
        BY <1>26, <1>a, CurFacts DEF Accept, Dispatching, TypeOK
      <4>2. QED BY <4>1 DEF Handlers
    <3>3. UNCHANGED pending /\ Open \subseteq Open'
      BY <3>1, <3>2, AddHandlerFacts
    <3>4. QED BY <3>3, <1>b
  <2>3. QED BY <2>1, <2>2
<1>27. ASSUME ReadNotReady PROVE NoBufferWithoutHandler'
  BY <1>27, <1>a, <1>b, <1>c DEF ReadNotReady, Dispatching
<1>28. ASSUME WriteReady PROVE NoBufferWithoutHandler'
  <2>1. UNCHANGED sockets /\ cur \in Open
    BY <1>28, CurFacts DEF WriteReady, Dispatching
  <2>2. \A f \in Fd \ {cur} : pending'[f] = pending[f]
    BY <1>28, <1>a DEF WriteReady, TearDown, TypeOK
  <2>3. QED BY <2>1, <2>2, <1>b, <1>c
<1>29. ASSUME WriteCallback PROVE NoBufferWithoutHandler'
  BY <1>29, <1>a, <1>b, <1>c DEF WriteCallback, Dispatching
<1>30. ASSUME WriteNotReady PROVE NoBufferWithoutHandler'
  BY <1>30, <1>a, <1>b, <1>c DEF WriteNotReady, Dispatching
<1>31. ASSUME NEW old \in BOOLEAN, Expire(old) PROVE NoBufferWithoutHandler'
  <2>1. UNCHANGED sockets
    BY <1>31 DEF Expire
  <2>2. pending' = pending \/ pending' = [pending EXCEPT ![cur] = 0]
    BY <1>31 DEF Expire, TearDown
  <2>3. \A f \in Fd : pending'[f] = pending[f] \/ pending'[f] = 0
    BY <2>2, <1>a DEF TypeOK
  <2>4. QED BY <2>1, <2>3, <1>b, <1>c
<1>32. CASE UNCHANGED vars
  BY <1>32, <1>b, <1>c DEF vars
<1>33. QED
  BY <1>1, <1>2, <1>3, <1>4, <1>5, <1>6, <1>7, <1>8, <1>9, <1>10, <1>11, <1>12, <1>13,
     <1>14, <1>15, <1>16, <1>17, <1>18, <1>19, <1>20, <1>21, <1>22, <1>23, <1>24, <1>25,
     <1>26, <1>27, <1>28, <1>29, <1>30, <1>31, <1>32 DEF Next, Application, CallbackEnds, Server

-----------------------------------------------------------------------------
(* Theorems *)

\* The invariant holds in every reachable state.
THEOREM Inductive == Spec => []IInv
<1>1. IInv /\ [Next]_vars => IInv'
  <2> SUFFICES ASSUME IInv, [Next]_vars PROVE IInv'
    OBVIOUS
  <2>1. TypeOK' /\ Control'
    BY TypeStep, ControlStep
  <2>2. ListsOK'
    BY ListsStep
  <2>3. HandlerPointersLive' /\ SetsCurrent'
    BY PointersStep, SetsStep
  <2>4. DeadSilent' /\ NoBufferWithoutHandler'
    BY DeadStep, BufferStep
  <2>5. QED BY <2>1, <2>2, <2>3, <2>4 DEF IInv, ListsOK
<1>2. QED BY InitIInv, <1>1, PTL DEF Spec

\* Every variable keeps its type, for any descriptors and buffer size.
THEOREM TypeCorrect == Spec => []TypeOK
<1>1. IInv => TypeOK
  BY DEF IInv
<1>2. QED BY Inductive, <1>1, PTL

\* Process() and DeleteSockets() never hold a pointer to a freed or moved
\* handler across a callback, whatever the callback does.
THEOREM PointersLive == Spec => []HandlerPointersLive
<1>1. IInv => HandlerPointersLive
  BY DEF IInv
<1>2. QED BY Inductive, <1>1, PTL

\* The unconditional call of readcallback in Process() meets no NULL.
THEOREM ReadCallbackSet == Spec => []NoNullReadCallback
<1>1. IInv => NoNullReadCallback
  BY DEF IInv, SetsCurrent, NoNullReadCallback
<1>2. QED BY Inductive, <1>1, PTL

\* After its destructor callback a handler's context is never used again.
THEOREM SilentAfterDestructor == Spec => []NoCallbackAfterDestructor
<1>1. IInv => NoCallbackAfterDestructor
  BY DEF IInv, DeadSilent
<1>2. QED BY Inductive, <1>1, PTL

\* No readiness bit outlives the handler it was set for.
THEOREM Readiness == Spec => []ReadinessIsCurrent
<1>1. IInv => ReadinessIsCurrent
  BY DEF IInv, SetsCurrent
<1>2. QED BY Inductive, <1>1, PTL

\* No buffered bytes outlive their handler.
THEOREM BuffersOwned == Spec => []NoBufferWithoutHandler
<1>1. IInv => NoBufferWithoutHandler
  BY DEF IInv
<1>2. QED BY Inductive, <1>1, PTL

\* A handler is in DeleteSocketList at most once, and only while it is listed.
THEOREM DeleteListSound == Spec => []DeleteListConsistent
<1>1. IInv => DeleteListConsistent
  BY DEF IInv
<1>2. QED BY Inductive, <1>1, PTL
-----------------------------------------------------------------------------
(* The bytes a handler has accepted *)

\* Only WriteSocket() puts bytes into a buffer.
LEMMA PendingStep ==
    ASSUME IInv, [Next]_vars, \A fd \in Fd, n \in 1..MaxSendBuffer : ~WriteSocket(fd, n)
    PROVE  \A fd \in Fd : pending'[fd] <= pending[fd]
<1> USE DEF lists, frame, reaper, fdsets, ghosts
<1>a. pending \in [Fd -> 0..MaxSendBuffer] /\ MaxSendBuffer \in Nat
  BY DEF IInv, TypeOK
<1>b. UNCHANGED pending => \A fd \in Fd : pending'[fd] <= pending[fd]
  BY <1>a
<1>c. ASSUME NEW g, pending' = [pending EXCEPT ![g] = 0]
      PROVE \A fd \in Fd : pending'[fd] <= pending[fd]
  BY <1>a, <1>c
<1>1. CASE \/ \E p \in Profiles : \/ CreateHandler("stream", p) \/ CreateHandler("datagram", p)
                                  \/ CreateListener(p)
           \/ \E fd \in Fd, f \in Settable : SetCallback(fd, f) \/ ClearCallback(fd, f)
           \/ \E fd \in Fd : DeleteHandler(fd)
           \/ DeleteAllHandlers \/ Process \/ Destroy
  BY <1>1, <1>b DEF CreateHandler, CreateListener, AddHandler, SetCallback, ClearCallback, DeleteHandler,
     DeleteAllHandlers, Process, Destroy
<1>2. ASSUME NEW fd \in Fd, DeleteWriteBuffer(fd) PROVE \A g \in Fd : pending'[g] <= pending[g]
  BY <1>2, <1>c DEF DeleteWriteBuffer
<1>3. CASE CallbackReturns \/ \E need \in BOOLEAN : NeedWriteReturns(need)
  BY <1>3, <1>b DEF CallbackReturns, NeedWriteReturns
<1>4. CASE DestructorReturns \/ ReapHandler
  <2>1. UNCHANGED pending \/ \E g : pending' = [pending EXCEPT ![g] = 0]
    BY <1>4 DEF DestructorReturns, ReapHandler, Dispose
  <2>2. QED BY <2>1, <1>b, <1>c
<1>5. CASE ReapDone \/ ProcessBegin \/ Gather \/ NothingToPoll \/ Gathered \/ PollOk \/ PollFails
  BY <1>5, <1>b DEF ReapDone, ProcessBegin, Gather, NothingToPoll, Gathered, PollOk, PollFails, EndPass
<1>6. CASE ScanHandler \/ ScanDone \/ ReadReady \/ Accept \/ ReadNotReady \/ WriteCallback \/ WriteNotReady
  BY <1>6, <1>b DEF ScanHandler, ScanDone, ReadReady, Accept, ReadNotReady, WriteCallback, WriteNotReady,
     EndPass, AddHandler
<1>7. CASE ScanException \/ \E old \in BOOLEAN : Expire(old)
  <2>1. UNCHANGED pending \/ \E g : pending' = [pending EXCEPT ![g] = 0]
    BY <1>7 DEF ScanException, Expire, TearDown
  <2>2. QED BY <2>1, <1>b, <1>c
<1>8. CASE WriteReady
  <2>1. CASE TearDown(cur)
    BY <2>1, <1>c DEF TearDown
  <2>2. CASE \E k \in 1..pending[cur] : pending' = [pending EXCEPT ![cur] = @ - k]
    BY <2>2, <1>a
  <2>3. QED BY <1>8, <2>1, <2>2 DEF WriteReady
<1>9. CASE UNCHANGED vars
  BY <1>9, <1>b DEF vars
<1>10. QED
  BY <1>1, <1>2, <1>3, <1>4, <1>5, <1>6, <1>7, <1>8, <1>9 DEF Next, Application, CallbackEnds, Server

\* After DeleteHandler() no call adds to the buffer.
LEMMA DrainStep ==
    ASSUME IInv, [Next]_vars
    PROVE  \A fd \in Deleting : pending'[fd] <= pending[fd]
<1>1. Deleting \subseteq Fd
  BY ElementFacts DEF IInv
<1>2. ASSUME NEW g \in Fd, NEW n \in 1..MaxSendBuffer, WriteSocket(g, n)
      PROVE  \A fd \in Deleting : pending'[fd] <= pending[fd]
  <2>1. g \notin Deleting /\ pending' = [pending EXCEPT ![g] = @ + Accepted(n, @)]
    BY <1>2 DEF WriteSocket, AcceptsBytes
  <2>2. pending \in [Fd -> 0..MaxSendBuffer]
    BY DEF IInv, TypeOK
  <2>3. QED BY <1>1, <2>1, <2>2
<1>3. QED BY <1>1, <1>2, PendingStep

\* DeleteSockets() decides that a handler goes only when its buffer is empty or
\* the server is being destroyed, and the decision still holds after the callback.
FinalDrained ==
    /\ reap = "force" => pc = "destroy"
    /\ dmode = "final" => pending[dcur] = 0 \/ pc = "destroy"

DInv == IInv /\ FinalDrained

\* A step that leaves the frame of DeleteSockets() alone keeps its decision.
LEMMA FinalKept ==
    ASSUME DInv, [Next]_vars, reap' = reap, dmode' = dmode, dcur' = dcur,
           pc = "destroy" => pc' = "destroy"
    PROVE  FinalDrained'
<1>1. CASE dmode = "final" /\ pc # "destroy"
  <2>1. dcur \in Deleting
    BY <1>1, ElementFacts DEF DInv, IInv, TypeOK, Control, HandlerPointersLive
  <2>2. pending[dcur] = 0 /\ pending'[dcur] <= pending[dcur]
    BY <1>1, <2>1, DrainStep DEF DInv, FinalDrained
  <2>3. pending' \in [Fd -> 0..MaxSendBuffer] /\ Deleting \subseteq Fd
    BY TypeStep, ElementFacts DEF DInv, IInv, TypeOK
  <2>4. QED BY <1>1, <2>1, <2>2, <2>3 DEF DInv, FinalDrained
<1>2. QED BY <1>1 DEF DInv, FinalDrained

LEMMA FinalStep ==
    ASSUME DInv, [Next]_vars
    PROVE  FinalDrained'
<1> USE DEF lists, frame, reaper, fdsets, ghosts
<1>a. IInv /\ FinalDrained /\ Control
  BY DEF DInv, IInv
<1>b. ASSUME EnterReap(FALSE), UNCHANGED pc \/ pc = "idle" PROVE FinalDrained'
  <2>1. CASE MayReap
    BY <1>b, <2>1 DEF EnterReap, FinalDrained
  <2>2. CASE ~MayReap
    <3>1. UNCHANGED reaper
      BY <1>b, <2>2 DEF EnterReap
    <3>2. QED BY <1>b, <3>1, FinalKept
  <2>3. QED BY <2>1, <2>2
<1>1. CASE \/ \E p \in Profiles : \/ CreateHandler("stream", p) \/ CreateHandler("datagram", p)
                                  \/ CreateListener(p)
           \/ \E fd \in Fd, f \in Settable : SetCallback(fd, f) \/ ClearCallback(fd, f)
           \/ \E fd \in Fd, n \in 1..MaxSendBuffer : WriteSocket(fd, n)
           \/ \E fd \in Fd : DeleteWriteBuffer(fd)
  BY <1>1, FinalKept DEF CreateHandler, CreateListener, SetCallback, ClearCallback, WriteSocket, DeleteWriteBuffer
<1>2. CASE DeleteAllHandlers \/ \E fd \in Fd : DeleteHandler(fd)
  BY <1>2, <1>b DEF DeleteAllHandlers, DeleteHandler
<1>3. CASE Process \/ Destroy
  BY <1>3, <1>b DEF Process, Destroy
<1>4. CASE CallbackReturns \/ \E need \in BOOLEAN : NeedWriteReturns(need)
  BY <1>4, <1>a, FinalKept DEF CallbackReturns, NeedWriteReturns, Control
<1>5. CASE DestructorReturns
  BY <1>5, <1>a DEF DestructorReturns, FinalDrained
<1>6. CASE ReapHandler
  <2>1. UNCHANGED <<reap, pc>>
    BY <1>6 DEF ReapHandler
  <2>2. CASE dmode' = "none"
    BY <2>1, <2>2, <1>a DEF FinalDrained
  <2>3. CASE dmode' # "none"
    <3>1. dmode' = Fate(deleting[j]) /\ dcur' = deleting[j] /\ UNCHANGED pending
      BY <1>6, <2>3 DEF ReapHandler
    <3>2. QED BY <2>1, <3>1, <1>a DEF Fate, FinalDrained
  <2>4. QED BY <2>2, <2>3
<1>7. CASE ReapDone
  BY <1>7, <1>a DEF ReapDone, FinalDrained
<1>8. CASE NothingToPoll \/ ScanDone
  BY <1>8 DEF NothingToPoll, ScanDone, EndPass, FinalDrained
<1>9. CASE ProcessBegin \/ Gather \/ Gathered \/ PollOk \/ PollFails
  BY <1>9, <1>a, FinalKept DEF ProcessBegin, Gather, Gathered, PollOk, PollFails
<1>10. CASE ScanHandler \/ ReadReady \/ Accept \/ ReadNotReady \/ WriteCallback \/ WriteNotReady
  BY <1>10, <1>a, FinalKept DEF ScanHandler, ReadReady, Accept, ReadNotReady, WriteCallback, WriteNotReady, Dispatching
<1>11. CASE ScanException \/ WriteReady \/ \E old \in BOOLEAN : Expire(old)
  <2>1. reap = "off" /\ dmode = "none" /\ depth = 1 /\ depth \in Nat
    BY <1>11, <1>a DEF ScanException, WriteReady, Expire, Dispatching, Control, Processing
  <2>2. UNCHANGED reaper
    BY <1>11, <2>1 DEF ScanException, WriteReady, Expire, TearDown, EnterReap, MayReap
  <2>3. QED BY <2>1, <2>2 DEF FinalDrained
<1>12. CASE UNCHANGED vars
  BY <1>12, FinalKept DEF vars
<1>13. QED
  BY <1>1, <1>2, <1>3, <1>4, <1>5, <1>6, <1>7, <1>8, <1>9, <1>10, <1>11, <1>12
     DEF Next, Application, CallbackEnds, Server

\* What may take bytes out of a buffer.
Cause(fd) ==
    \/ Dispatching("write") /\ cur = fd /\ fd \in wr
    \/ Dispatching("scan") /\ fd \in ex
    \/ Dispatching("expire") /\ cur = fd /\ ~handler[fd].connected
    \/ InControl /\ fd \in Open'
    \/ pc = "destroy"

LEMMA CauseStep ==
    ASSUME DInv, [Next]_vars, NEW fd \in Fd, pending'[fd] < pending[fd]
    PROVE  Cause(fd)
<1> USE DEF lists, frame, reaper, fdsets, ghosts
<1>a. /\ IInv /\ FinalDrained
      /\ pending \in [Fd -> 0..MaxSendBuffer] /\ pending' \in [Fd -> 0..MaxSendBuffer]
      /\ MaxSendBuffer \in Nat
  <2>1. pending' \in [Fd -> 0..MaxSendBuffer]
    BY TypeStep DEF DInv, IInv, TypeOK
  <2>2. QED BY <2>1 DEF DInv, IInv, TypeOK
<1>b. ~UNCHANGED pending
  BY <1>a
<1>c. ASSUME NEW g, pending' = [pending EXCEPT ![g] = 0] PROVE g = fd
  BY <1>a, <1>c
<1>d. pending[fd] # 0
  BY <1>a
<1>1. ASSUME NEW g \in Fd, DeleteWriteBuffer(g) PROVE Cause(fd)
  <2>1. g = fd
    BY <1>1, <1>c DEF DeleteWriteBuffer
  <2>2. InControl /\ fd \in Open /\ UNCHANGED sockets
    BY <1>1, <2>1 DEF DeleteWriteBuffer
  <2>3. QED BY <2>2 DEF Cause, Open
<1>2. ASSUME NEW g \in Fd, NEW n \in 1..MaxSendBuffer, WriteSocket(g, n) PROVE FALSE
  <2>1. pending' = [pending EXCEPT ![g] = @ + Accepted(n, @)] /\ pending[g] < MaxSendBuffer
    BY <1>2 DEF WriteSocket
  <2>2. pending'[g] >= pending[g]
    BY <1>a, <2>1 DEF Accepted
  <2>3. g # fd => pending'[fd] = pending[fd]
    BY <1>a, <2>1
  <2>4. QED BY <1>a, <2>2, <2>3
<1>3. CASE ReapHandler
  <2>1. Dispose(deleting[j], Fate(deleting[j]))
    BY <1>3, <1>b DEF ReapHandler
  <2>2. Fate(deleting[j]) = "final" /\ pending' = [pending EXCEPT ![deleting[j]] = 0]
    BY <2>1, <1>b DEF Dispose
  <2>3. deleting[j] = fd
    BY <1>c, <2>2
  <2>4. reap = "force"
    BY <1>d, <2>2, <2>3 DEF Fate
  <2>5. QED BY <1>a, <2>4 DEF FinalDrained, Cause
<1>4. CASE DestructorReturns
  <2>1. Dispose(dcur, dmode)
    BY <1>4 DEF DestructorReturns
  <2>2. dmode = "final" /\ pending' = [pending EXCEPT ![dcur] = 0]
    BY <2>1, <1>b DEF Dispose
  <2>3. dcur = fd
    BY <1>c, <2>2
  <2>4. QED BY <1>a, <1>d, <2>2, <2>3 DEF FinalDrained, Cause
<1>5. CASE ScanException
  <2>1. Dispatching("scan") /\ sockets[i] \in ex /\ pending' = [pending EXCEPT ![sockets[i]] = 0]
    BY <1>5 DEF ScanException, TearDown
  <2>2. sockets[i] = fd
    BY <1>c, <2>1
  <2>3. QED BY <2>1, <2>2 DEF Cause
<1>6. CASE WriteReady
  <2>1. Dispatching("write") /\ cur \in wr
    BY <1>6 DEF WriteReady
  <2>2. cur = fd
    <3>1. CASE TearDown(cur)
      BY <3>1, <1>c DEF TearDown
    <3>2. CASE \E k \in 1..pending[cur] : pending' = [pending EXCEPT ![cur] = @ - k]
      BY <3>2, <1>a
    <3>3. QED BY <1>6, <3>1, <3>2 DEF WriteReady
  <2>3. QED BY <2>1, <2>2 DEF Cause
<1>7. ASSUME NEW old \in BOOLEAN, Expire(old) PROVE Cause(fd)
  <2>1. Dispatching("expire") /\ ~handler[cur].connected /\ TearDown(cur)
    BY <1>7, <1>b DEF Expire
  <2>2. cur = fd
    BY <1>c, <2>1 DEF TearDown
  <2>3. QED BY <2>1, <2>2 DEF Cause
<1>8. \A p \in Profiles : ~CreateHandler("stream", p) /\ ~CreateHandler("datagram", p) /\ ~CreateListener(p)
  BY <1>b DEF CreateHandler, CreateListener, AddHandler
<1>9. \A g \in Fd : ~DeleteHandler(g) /\ \A f \in Settable : ~SetCallback(g, f) /\ ~ClearCallback(g, f)
  BY <1>b DEF SetCallback, ClearCallback, DeleteHandler
<1>10. /\ ~DeleteAllHandlers /\ ~Process /\ ~Destroy /\ ~CallbackReturns /\ ~ReapDone /\ ~ProcessBegin /\ ~Gather
       /\ ~NothingToPoll /\ ~Gathered /\ ~PollOk /\ ~PollFails
       /\ \A need \in BOOLEAN : ~NeedWriteReturns(need)
  BY <1>b DEF DeleteAllHandlers, Process, Destroy, CallbackReturns, ReapDone, ProcessBegin, Gather, NothingToPoll,
     Gathered, PollOk, PollFails, NeedWriteReturns, EndPass
<1>11. /\ ~ScanHandler /\ ~ScanDone /\ ~ReadReady /\ ~Accept /\ ~ReadNotReady /\ ~WriteCallback /\ ~WriteNotReady
  BY <1>b DEF ScanHandler, ScanDone, ReadReady, Accept, ReadNotReady, WriteCallback, WriteNotReady, EndPass,
     AddHandler
<1>12. ~UNCHANGED vars
  BY <1>b DEF vars
<1>13. QED
  BY <1>1, <1>2, <1>3, <1>4, <1>5, <1>6, <1>7, <1>8, <1>9, <1>10, <1>11, <1>12
     DEF Next, Application, CallbackEnds, Server

LEMMA InductiveDrained == Spec => []DInv
<1>1. Init => FinalDrained
  BY DEF Init, FinalDrained
<1>2. IInv /\ FinalDrained /\ [Next]_vars => FinalDrained'
  BY FinalStep DEF DInv
<1>3. IInv /\ FinalDrained => DInv
  BY DEF DInv
<1>4. QED BY Inductive, <1>1, <1>2, <1>3, PTL DEF Spec

\* WriteSocket() refuses a handler that is in DeleteSocketList: from then on its
\* buffer only gets smaller.
THEOREM OnlyDrains == Spec => DeletedOnlyDrains
<1>1. IInv /\ [Next]_vars => [\A fd \in Deleting : pending'[fd] <= pending[fd]]_vars
  BY DrainStep
<1>2. QED BY Inductive, <1>1, PTL DEF Spec, DeletedOnlyDrains

\* Bytes that WriteSocket() accepted leave the buffer only for one of the causes
\* that UnsentOnlyByCause names; above all, neither DeleteHandler() nor the
\* destructor callback costs any.
THEOREM UnsentByCause == Spec => UnsentOnlyByCause
<1>1. DInv /\ [Next]_vars => [\A fd \in Fd : pending'[fd] < pending[fd] => Cause(fd)]_vars
  BY CauseStep
<1>2. [\A fd \in Fd : pending'[fd] < pending[fd] => Cause(fd)]_vars
        => [\A fd \in Fd : pending'[fd] < pending[fd] =>
              \/ Dispatching("write") /\ cur = fd /\ fd \in wr
              \/ Dispatching("scan") /\ fd \in ex
              \/ Dispatching("expire") /\ cur = fd /\ ~handler[fd].connected
              \/ InControl /\ fd \in Open'
              \/ pc = "destroy"]_vars
  BY Zenon DEF Cause
<1>3. QED BY InductiveDrained, <1>1, <1>2, PTL DEF Spec, UnsentOnlyByCause
=============================================================================
