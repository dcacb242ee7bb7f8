-------------------------- MODULE TextServerProofs --------------------------
(***************************************************************************)
(* Proofs about TextServer for any clients, buffer size and commands: the  *)
(* handlers that callbacks reach are alive, no client outlives the server  *)
(* unless Delete(true) left it, and a connection is closed by this side    *)
(* only when everything written to it has been taken by the kernel.        *)
(***************************************************************************)
EXTENDS TextServer, ListFacts

-----------------------------------------------------------------------------
(* The invariant *)

\* What a handler still has to hand to the socket server.
Unsent(w, c) == IF w.object[c].open THEN w.object[c].senddata ELSE 0

\* The books of a connection: what was written is with the kernel, in the
\* buffer or in senddata; a socket that is being deleted without an excuse has
\* a closed handler, and only sockets in SocketList have bytes or are deleted.
Account(w, c) ==
    /\ w.owed[c] >= w.pend[c] + Unsent(w, c)
    /\ w.excused[c] = {} => w.owed[c] = w.pend[c] + Unsent(w, c)
    /\ w.excused[c] = {} /\ c \in ToSet(w.deleting) => ~w.object[c].open
    /\ ~w.object[c].live => w.object[c] = NoObject
    /\ w.pend[c] > 0 \/ c \in ToSet(w.deleting) => c \in attached \cup draining

Sound(w) ==
    /\ w \in World
    /\ NoDup(w.deleting)
    /\ \A c \in Client : Account(w, c)

\* The calls on one handler leave the lists of the server alone.
Kept(w, v) ==
    /\ v.clientlist = w.clientlist
    /\ v.valid = w.valid /\ v.creator = w.creator /\ v.cut = w.cut
    /\ v.closewhendone = w.closewhendone /\ v.waits = w.waits
    /\ \A c \in Client : v.object[c].live = w.object[c].live

Attached == \A c \in Client : context[c] = "handler" => c \in attached

\* A server that is gone has no creator and no clients but those left behind.
Gone(w) == (w.creator => w.valid) /\ (~w.valid => ToSet(w.clientlist) \subseteq w.cut)

Core == Sound(world) /\ Gone(world) /\ HandlersLive /\ Attached

Frame ==
    /\ attached \cup draining \subseteq Client /\ attached \cap draining = {}
    /\ bound \in BOOLEAN
    /\ context \in [Client -> {"handler", "null"}]
    /\ mode \in {"idle", "pass", "call", "reap"} /\ caller \in {"idle", "call"}
    /\ n \in Nat \ {0} /\ j \in Nat \ {0} /\ forced \in BOOLEAN
    /\ connects \in 0..MaxConnects /\ writes \in [Client -> 0..MaxWrites]

IInv == Frame /\ Core

-----------------------------------------------------------------------------
(* What the calls of a handler keep *)

LEMMA DeleteHandlerFacts ==
    ASSUME NEW w \in World, NoDup(w.deleting), NEW s \in Client \cup {Listener}
    PROVE  /\ DeleteHandler(w, s) \in World
           /\ NoDup(DeleteHandler(w, s).deleting)
           /\ ToSet(DeleteHandler(w, s).deleting) = ToSet(w.deleting) \cup {s}
           /\ DeleteHandler(w, s) = [w EXCEPT !.deleting = DeleteHandler(w, s).deleting]
<1> DEFINE q == IF s \in ToSet(w.deleting) THEN w.deleting ELSE Append(w.deleting, s)
<1>1. w.deleting \in Seq(Client \cup {Listener})
  BY DEF World
<1>2. q \in Seq(Client \cup {Listener}) /\ NoDup(q) /\ ToSet(q) = ToSet(w.deleting) \cup {s}
  BY <1>1, AppendFacts
<1>3. DeleteHandler(w, s) = [w EXCEPT !.deleting = q]
  BY DEF DeleteHandler
<1> HIDE DEF q
<1>4. [w EXCEPT !.deleting = q] \in World /\ [w EXCEPT !.deleting = q].deleting = q
  BY <1>2 DEF World
<1>5. QED BY <1>2, <1>3, <1>4

\* A call that changes only the records of one socket.
Touches(w, v, c) ==
    \A d \in Client \ {c} :
      /\ v.object[d] = w.object[d] /\ v.pend[d] = w.pend[d]
      /\ v.owed[d] = w.owed[d] /\ v.excused[d] = w.excused[d]
      /\ d \in ToSet(v.deleting) => d \in ToSet(w.deleting)

LEMMA SoundAfter ==
    ASSUME NEW w, NEW v, NEW c \in Client,
           Sound(w), v \in World, NoDup(v.deleting), Touches(w, v, c), Account(v, c)
    PROVE  Sound(v)
<1>1. ASSUME NEW d \in Client \ {c} PROVE Account(v, d)
  BY <1>1 DEF Sound, Account, Unsent, Touches
<1>2. QED BY <1>1 DEF Sound

LEMMA WorldFacts ==
    ASSUME NEW w \in World
    PROVE  /\ w.object \in [Client -> Objects] /\ w.pend \in [Client -> Nat]
           /\ w.owed \in [Client -> Nat]
           /\ w.excused \in [Client -> SUBSET {"peer", "forced", "full"}]
           /\ w.deleting \in Seq(Client \cup {Listener})
           /\ w.clientlist \in Seq(Client)
BY DEF World

LEMMA SoundFacts ==
    ASSUME NEW w, Sound(w), NEW c \in Client
    PROVE  /\ w \in World /\ NoDup(w.deleting) /\ Account(w, c)
           /\ w.object[c] \in Objects /\ w.pend[c] \in Nat /\ w.owed[c] \in Nat
           /\ w.excused[c] \in SUBSET {"peer", "forced", "full"}
           /\ w.object[c].senddata \in Nat /\ w.object[c].open \in BOOLEAN
<1>1. w \in World /\ NoDup(w.deleting) /\ Account(w, c)
  BY DEF Sound
<1>2. /\ w.object[c] \in Objects /\ w.pend[c] \in Nat /\ w.owed[c] \in Nat
      /\ w.excused[c] \in SUBSET {"peer", "forced", "full"}
  BY <1>1, WorldFacts
<1>3. QED BY <1>1, <1>2 DEF Objects

\* A world with other records of its sockets.
With(w, b, p, m, e, q) ==
    [w EXCEPT !.object = b, !.pend = p, !.owed = m, !.excused = e, !.deleting = q]

\* A world with other records of one socket.
One(w, c, u, k, m, e, q) ==
    With(w, [w.object EXCEPT ![c] = u], [w.pend EXCEPT ![c] = k],
         [w.owed EXCEPT ![c] = m], [w.excused EXCEPT ![c] = e], q)

\* What a world has in which one client is changed.
OneGives(w, c, u, k, m, e, q) ==
    /\ One(w, c, u, k, m, e, q) \in World
    /\ One(w, c, u, k, m, e, q).object[c] = u
    /\ One(w, c, u, k, m, e, q).pend[c] = k
    /\ One(w, c, u, k, m, e, q).owed[c] = m
    /\ One(w, c, u, k, m, e, q).excused[c] = e
    /\ One(w, c, u, k, m, e, q).deleting = q
    /\ ToSet(q) \subseteq ToSet(w.deleting) \cup {c}
         => Touches(w, One(w, c, u, k, m, e, q), c)
    /\ u.live = w.object[c].live => Kept(w, One(w, c, u, k, m, e, q))

LEMMA OneHolds ==
    ASSUME NEW w \in World, NEW c \in Client, NEW u \in Objects,
           NEW k \in Nat, NEW m \in Nat, NEW e \in SUBSET {"peer", "forced", "full"},
           NEW q \in Seq(Client \cup {Listener})
    PROVE  OneGives(w, c, u, k, m, e, q)
<1> DEFINE v == One(w, c, u, k, m, e, q)
           b == [w.object EXCEPT ![c] = u]
           p == [w.pend EXCEPT ![c] = k]
           l == [w.owed EXCEPT ![c] = m]
           x == [w.excused EXCEPT ![c] = e]
<1>1. /\ b \in [Client -> Objects] /\ p \in [Client -> Nat] /\ l \in [Client -> Nat]
      /\ x \in [Client -> SUBSET {"peer", "forced", "full"}]
      /\ b[c] = u /\ p[c] = k /\ l[c] = m /\ x[c] = e
      /\ \A d \in Client \ {c} :
           b[d] = w.object[d] /\ p[d] = w.pend[d] /\ l[d] = w.owed[d] /\ x[d] = w.excused[d]
  BY WorldFacts
<1>2. v = [w EXCEPT !.object = b, !.pend = p, !.owed = l, !.excused = x, !.deleting = q]
  BY DEF One, With
<1> HIDE DEF b, p, l, x, v
<1>3. /\ v \in World
      /\ v.object = b /\ v.pend = p /\ v.owed = l /\ v.excused = x /\ v.deleting = q
      /\ v.clientlist = w.clientlist /\ v.valid = w.valid /\ v.creator = w.creator
      /\ v.cut = w.cut /\ v.closewhendone = w.closewhendone /\ v.waits = w.waits
  BY <1>1, <1>2 DEF World
<1>4. ToSet(q) \subseteq ToSet(w.deleting) \cup {c} => Touches(w, v, c)
  BY <1>1, <1>3 DEF Touches
<1>5. u.live = w.object[c].live => Kept(w, v)
  BY <1>1, <1>3 DEF Kept
<1>6. QED BY <1>1, <1>3, <1>4, <1>5 DEF OneGives, v

\* The forms the calls have.
SetSent(w, c, u, k) == [w EXCEPT !.object[c] = u, !.pend[c] = k]
SetOwed(w, c, u, m) == [w EXCEPT !.object[c] = u, !.owed[c] = m]
SetObject(w, c, u) == [w EXCEPT !.object[c] = u]
SetExcused(w, c, e) == [w EXCEPT !.excused[c] = e]
SetTaken(w, c, k, m) == [w EXCEPT !.pend[c] = k, !.owed[c] = m]
SetFailed(w, c, k, e) == [w EXCEPT !.pend[c] = k, !.excused[c] = e]
SetDeleting(w, q) == [w EXCEPT !.deleting = q]

LEMMA OneForms ==
    ASSUME NEW w \in World, NEW c \in Client
    PROVE  \A u, k, m, e, q :
             /\ SetSent(w, c, u, k) = One(w, c, u, k, w.owed[c], w.excused[c], w.deleting)
             /\ SetOwed(w, c, u, m) = One(w, c, u, w.pend[c], m, w.excused[c], w.deleting)
             /\ SetObject(w, c, u)
                  = One(w, c, u, w.pend[c], w.owed[c], w.excused[c], w.deleting)
             /\ SetExcused(w, c, e)
                  = One(w, c, w.object[c], w.pend[c], w.owed[c], e, w.deleting)
             /\ SetTaken(w, c, k, m)
                  = One(w, c, w.object[c], k, m, w.excused[c], w.deleting)
             /\ SetFailed(w, c, k, e)
                  = One(w, c, w.object[c], k, w.owed[c], e, w.deleting)
             /\ SetDeleting(w, q)
                  = One(w, c, w.object[c], w.pend[c], w.owed[c], w.excused[c], q)
<1>1. /\ [w.object EXCEPT ![c] = w.object[c]] = w.object
      /\ [w.pend EXCEPT ![c] = w.pend[c]] = w.pend
      /\ [w.owed EXCEPT ![c] = w.owed[c]] = w.owed
      /\ [w.excused EXCEPT ![c] = w.excused[c]] = w.excused
  BY WorldFacts
<1> TAKE u, k, m, e, q
<1> DEFINE b == [w.object EXCEPT ![c] = u]
           p == [w.pend EXCEPT ![c] = k]
           l == [w.owed EXCEPT ![c] = m]
           x == [w.excused EXCEPT ![c] = e]
<1>2. /\ [w EXCEPT !.object = b, !.pend = p] = With(w, b, p, w.owed, w.excused, w.deleting)
      /\ [w EXCEPT !.object = b, !.owed = l] = With(w, b, w.pend, l, w.excused, w.deleting)
      /\ [w EXCEPT !.object = b] = With(w, b, w.pend, w.owed, w.excused, w.deleting)
      /\ [w EXCEPT !.excused = x] = With(w, w.object, w.pend, w.owed, x, w.deleting)
      /\ [w EXCEPT !.pend = p, !.owed = l] = With(w, w.object, p, l, w.excused, w.deleting)
      /\ [w EXCEPT !.pend = p, !.excused = x] = With(w, w.object, p, w.owed, x, w.deleting)
      /\ [w EXCEPT !.deleting = q] = With(w, w.object, w.pend, w.owed, w.excused, q)
  <2> HIDE DEF b, p, l, x
  <2>1. QED BY DEF World, With
<1>3. /\ [w EXCEPT !.object[c] = u, !.pend[c] = k] = [w EXCEPT !.object = b, !.pend = p]
      /\ [w EXCEPT !.object[c] = u, !.owed[c] = m] = [w EXCEPT !.object = b, !.owed = l]
      /\ [w EXCEPT !.object[c] = u] = [w EXCEPT !.object = b]
      /\ [w EXCEPT !.excused[c] = e] = [w EXCEPT !.excused = x]
      /\ [w EXCEPT !.pend[c] = k, !.owed[c] = m] = [w EXCEPT !.pend = p, !.owed = l]
      /\ [w EXCEPT !.pend[c] = k, !.excused[c] = e] = [w EXCEPT !.pend = p, !.excused = x]
  BY DEF World
<1>4. /\ One(w, c, u, k, w.owed[c], w.excused[c], w.deleting)
           = With(w, b, p, w.owed, w.excused, w.deleting)
      /\ One(w, c, u, w.pend[c], m, w.excused[c], w.deleting)
           = With(w, b, w.pend, l, w.excused, w.deleting)
      /\ One(w, c, u, w.pend[c], w.owed[c], w.excused[c], w.deleting)
           = With(w, b, w.pend, w.owed, w.excused, w.deleting)
      /\ One(w, c, w.object[c], w.pend[c], w.owed[c], e, w.deleting)
           = With(w, w.object, w.pend, w.owed, x, w.deleting)
      /\ One(w, c, w.object[c], k, m, w.excused[c], w.deleting)
           = With(w, w.object, p, l, w.excused, w.deleting)
      /\ One(w, c, w.object[c], k, w.owed[c], e, w.deleting)
           = With(w, w.object, p, w.owed, x, w.deleting)
      /\ One(w, c, w.object[c], w.pend[c], w.owed[c], w.excused[c], q)
           = With(w, w.object, w.pend, w.owed, w.excused, q)
  BY <1>1 DEF One
<1>5. QED
  BY Zenon, <1>2, <1>3, <1>4
     DEF SetSent, SetOwed, SetObject, SetExcused, SetTaken, SetFailed, SetDeleting

\* A call on the handler of a socket, and what its records are afterwards.
Step(w, v, c) == v \in World /\ NoDup(v.deleting) /\ Touches(w, v, c) /\ Kept(w, v)

At(v, c, u, k, m, e) ==
    v.object[c] = u /\ v.pend[c] = k /\ v.owed[c] = m /\ v.excused[c] = e

LEMMA StepTrans ==
    ASSUME NEW w, NEW z, NEW v, NEW c \in Client, Step(w, z, c), Step(z, v, c)
    PROVE  Step(w, v, c)
<1>1. Touches(w, v, c)
  BY DEF Step, Touches
<1>2. Kept(w, v)
  BY DEF Step, Kept
<1>3. QED BY <1>1, <1>2 DEF Step

LEMMA StepSound ==
    ASSUME NEW w, NEW v, NEW c \in Client, Sound(w), Step(w, v, c), Account(v, c)
    PROVE  Sound(v) /\ Kept(w, v)
BY SoundAfter DEF Step

LEMMA DeleteStep ==
    ASSUME NEW w \in World, NoDup(w.deleting), NEW c \in Client
    PROVE  /\ Step(w, DeleteHandler(w, c), c)
           /\ At(DeleteHandler(w, c), c, w.object[c], w.pend[c], w.owed[c], w.excused[c])
           /\ ToSet(DeleteHandler(w, c).deleting) = ToSet(w.deleting) \cup {c}
<1> DEFINE z == DeleteHandler(w, c)
           q == z.deleting
<1>1. /\ z \in World /\ NoDup(q) /\ ToSet(q) = ToSet(w.deleting) \cup {c}
      /\ z = [w EXCEPT !.deleting = q]
  BY DeleteHandlerFacts
<1> HIDE DEF z, q
<1>2. z = One(w, c, w.object[c], w.pend[c], w.owed[c], w.excused[c], q)
  <2>1. SetDeleting(w, q) = One(w, c, w.object[c], w.pend[c], w.owed[c], w.excused[c], q)
    BY OneForms
  <2>2. QED BY Zenon, <1>1, <2>1 DEF SetDeleting
<1>3. /\ w.object[c] \in Objects /\ w.pend[c] \in Nat /\ w.owed[c] \in Nat
      /\ w.excused[c] \in SUBSET {"peer", "forced", "full"}
      /\ q \in Seq(Client \cup {Listener})
  BY <1>1, WorldFacts DEF q
<1>4. Touches(w, z, c) /\ Kept(w, z)
      /\ At(z, c, w.object[c], w.pend[c], w.owed[c], w.excused[c])
  BY <1>1, <1>2, <1>3, OneHolds DEF OneGives, At
<1>5. z.deleting = q
  BY DEF q
<1>6. QED BY <1>1, <1>4, <1>5 DEF Step, z

LEMMA ExcuseStep ==
    ASSUME NEW w \in World, NoDup(w.deleting), NEW c \in Client,
           NEW e \in SUBSET {"peer", "forced", "full"}
    PROVE  /\ Step(w, SetExcused(w, c, e), c)
           /\ At(SetExcused(w, c, e), c, w.object[c], w.pend[c], w.owed[c], e)
           /\ SetExcused(w, c, e).deleting = w.deleting
<1> DEFINE v == SetExcused(w, c, e)
<1>1. v = One(w, c, w.object[c], w.pend[c], w.owed[c], e, w.deleting)
  BY OneForms
<1>2. /\ w.object[c] \in Objects /\ w.pend[c] \in Nat /\ w.owed[c] \in Nat
      /\ w.deleting \in Seq(Client \cup {Listener})
  BY WorldFacts
<1> HIDE DEF v
<1> DEFINE z == One(w, c, w.object[c], w.pend[c], w.owed[c], e, w.deleting)
<1>3. OneGives(w, c, w.object[c], w.pend[c], w.owed[c], e, w.deleting)
  BY <1>2, OneHolds
<1>4. ToSet(w.deleting) \subseteq ToSet(w.deleting) \cup {c}
  OBVIOUS
<1>5. /\ z \in World /\ z.deleting = w.deleting /\ Touches(w, z, c) /\ Kept(w, z)
      /\ At(z, c, w.object[c], w.pend[c], w.owed[c], e)
  BY <1>3, <1>4 DEF OneGives, At
<1> HIDE DEF z
<1>6. QED BY <1>1, <1>5 DEF Step, v, z

LEMMA ObjectStep ==
    ASSUME NEW w \in World, NoDup(w.deleting), NEW c \in Client,
           NEW u \in Objects, u.live = w.object[c].live
    PROVE  /\ Step(w, SetObject(w, c, u), c)
           /\ At(SetObject(w, c, u), c, u, w.pend[c], w.owed[c], w.excused[c])
           /\ SetObject(w, c, u).deleting = w.deleting
<1> DEFINE v == SetObject(w, c, u)
<1>1. v = One(w, c, u, w.pend[c], w.owed[c], w.excused[c], w.deleting)
  BY OneForms
<1>2. /\ w.pend[c] \in Nat /\ w.owed[c] \in Nat
      /\ w.excused[c] \in SUBSET {"peer", "forced", "full"}
      /\ w.deleting \in Seq(Client \cup {Listener})
  BY WorldFacts
<1> HIDE DEF v
<1>3. /\ v \in World /\ v.deleting = w.deleting /\ Touches(w, v, c) /\ Kept(w, v)
      /\ At(v, c, u, w.pend[c], w.owed[c], w.excused[c])
  BY <1>1, <1>2, OneHolds DEF OneGives, At
<1>4. QED BY <1>3 DEF Step, v

LEMMA SendDataSound ==
    ASSUME NEW w, Sound(w), NEW c \in Client, c \in attached, w.object[c].live
    PROVE  Sound(SendData(w, c)) /\ Kept(w, SendData(w, c))
<1> DEFINE o == w.object[c]
           sent == IF o.open THEN WriteSocket(w, c, o.senddata) ELSE -1
           v == SendData(w, c)
<1>1. /\ w \in World /\ NoDup(w.deleting) /\ Account(w, c)
      /\ o \in Objects /\ w.pend[c] \in Nat /\ w.owed[c] \in Nat
      /\ w.excused[c] \in SUBSET {"peer", "forced", "full"}
      /\ o.senddata \in Nat /\ o.open \in BOOLEAN
  BY SoundFacts
<1>2. /\ sent \in Int /\ sent <= o.senddata
      /\ sent > 0 => o.open
      /\ o.open /\ sent <= 0 => c \in ToSet(w.deleting) \/ Reachable(w, c)
  <2> DEFINE room == MaxSendBuffer - w.pend[c]
             taken == IF o.senddata < room THEN o.senddata ELSE room
  <2>1. room \in Int
    BY <1>1, TextServerAssumption DEF TextServerAssumption
  <2>2. taken \in Int /\ taken <= o.senddata
    <3> HIDE DEF room, o
    <3>1. QED BY <1>1, <2>1
  <2>3. sent = IF o.open /\ Reachable(w, c) THEN taken ELSE -1
    BY DEF WriteSocket
  <2>4. ~Reachable(w, c) => c \in ToSet(w.deleting)
    BY DEF Reachable
  <2> HIDE DEF taken, sent, o
  <2>5. QED BY <1>1, <2>2, <2>3, <2>4
<1>3. CASE o.senddata > 0 /\ sent > 0
  <2> DEFINE u == [o EXCEPT !.senddata = @ - sent]
             k == w.pend[c] + sent
  <2>1. v = One(w, c, u, k, w.owed[c], w.excused[c], w.deleting)
    <3>1. /\ ~(o.senddata = 0) /\ o.senddata > 0 /\ sent > 0 /\ ~(sent <= 0)
      <4> HIDE DEF o, sent
      <4>1. QED BY <1>1, <1>2, <1>3
    <3>2. v = [w EXCEPT !.object[c].senddata = @ - sent, !.pend[c] = @ + sent]
      BY Zenon, <3>1 DEF SendData
    <3>3. v = [w EXCEPT !.object[c] = u, !.pend[c] = k]
      BY Zenon, <3>2
    <3>4. SetSent(w, c, u, k) = One(w, c, u, k, w.owed[c], w.excused[c], w.deleting)
      BY <1>1, OneForms
    <3>5. QED BY Zenon, <3>3, <3>4 DEF SetSent
  <2> HIDE DEF v, sent, o
  <2>2. /\ u \in Objects /\ u.senddata = o.senddata - sent
        /\ u.open = o.open /\ u.live = o.live
    <3>1. o.senddata - sent \in Nat
      BY <1>1, <1>2
    <3>2. QED BY <1>1, <3>1 DEF Objects
  <2>3. k \in Nat /\ w.deleting \in Seq(Client \cup {Listener}) /\ u.live = w.object[c].live
    <3>1. k \in Nat
      BY <1>1, <1>2, <1>3
    <3>2. QED BY <1>1, <2>2, <3>1, WorldFacts DEF o
  <2> HIDE DEF u, k
  <2>4. Step(w, v, c) /\ At(v, c, u, k, w.owed[c], w.excused[c]) /\ v.deleting = w.deleting
    <3> DEFINE t == One(w, c, u, k, w.owed[c], w.excused[c], w.deleting)
    <3>1. /\ t \in World /\ Touches(w, t, c) /\ Kept(w, t) /\ t.deleting = w.deleting
          /\ At(t, c, u, k, w.owed[c], w.excused[c])
      <4>1. ToSet(w.deleting) \subseteq ToSet(w.deleting) \cup {c}
        OBVIOUS
      <4> HIDE DEF t
      <4>2. t = One(w, c, u, k, w.owed[c], w.excused[c], w.deleting)
        BY DEF t
      <4>3. /\ w \in World /\ u \in Objects /\ k \in Nat /\ w.owed[c] \in Nat
            /\ w.excused[c] \in SUBSET {"peer", "forced", "full"}
            /\ w.deleting \in Seq(Client \cup {Listener}) /\ u.live = w.object[c].live
        BY <1>1, <2>2, <2>3
      <4>4. /\ t \in World /\ t.object[c] = u /\ t.pend[c] = k /\ t.owed[c] = w.owed[c]
            /\ t.excused[c] = w.excused[c] /\ t.deleting = w.deleting
            /\ Touches(w, t, c) /\ Kept(w, t)
        <5>1. t.object[c] = u
          BY <4>1, <4>2, <4>3, OneHolds DEF OneGives
        <5>2. t.pend[c] = k
          BY <4>1, <4>2, <4>3, OneHolds DEF OneGives
        <5>3. t.deleting = w.deleting
          BY <4>1, <4>2, <4>3, OneHolds DEF OneGives
        <5>4. Kept(w, t)
          BY ZenonT(60), <4>1, <4>2, <4>3, OneHolds DEF OneGives
        <5>5. t.owed[c] = w.owed[c]
          BY <4>1, <4>2, <4>3, OneHolds DEF OneGives
        <5>6. t.excused[c] = w.excused[c] 
          BY <4>1, <4>2, <4>3, OneHolds DEF OneGives
        <5>7. Touches(w, t, c)
          BY <4>1, <4>2, <4>3, OneHolds DEF OneGives
        <5>8. t \in World
          BY <4>1, <4>2, <4>3, OneHolds DEF OneGives
        <5> QED BY <5>1, <5>2, <5>3, <5>4, <5>5, <5>6, <5>7, <5>8
      <4>5. QED BY <4>4 DEF At
    <3> HIDE DEF t
    <3>2. v = t
      BY <2>1 DEF t
    <3>3. QED BY <1>1, <3>1, <3>2 DEF Step
  <2>5. Account(v, c)
    <3>1. o.open /\ u.open /\ sent \in Int
      BY <1>2, <1>3, <2>2
    <3>2. /\ w.owed[c] >= w.pend[c] + o.senddata
          /\ w.excused[c] = {} => w.owed[c] = w.pend[c] + o.senddata
      BY <1>1, <3>1 DEF Account, Unsent, o
    <3>3. w.pend[c] + o.senddata = k + (o.senddata - sent)
      BY <1>1, <3>1 DEF k
    <3>4. Unsent(v, c) = o.senddata - sent
      BY <2>2, <2>4, <3>1 DEF Unsent, At
    <3>5. u.live /\ (w.excused[c] = {} => c \notin ToSet(w.deleting))
      BY <1>1, <2>2, <3>1 DEF o, Account
    <3>6. QED
      BY <1>1, <2>2, <2>3, <2>4, <3>1, <3>2, <3>3, <3>4, <3>5 DEF Account, At
  <2>6. QED BY <2>4, <2>5, StepSound DEF v
<1>4. CASE o.senddata > 0 /\ sent <= 0 /\ o.open
  <2> DEFINE z == DeleteHandler(w, c)
             e == IF Reachable(w, c) THEN z.excused[c] \cup {"full"} ELSE z.excused[c]
  <2>1. v = SetExcused(z, c, e)
    <3>1. ~(o.senddata = 0) /\ ~(sent > 0)
      <4> HIDE DEF o, sent
      <4>1. QED BY <1>2, <1>4
    <3>2. v = [z EXCEPT !.excused[c] = IF Reachable(w, c) THEN @ \cup {"full"} ELSE @]
      BY Zenon, <1>4, <3>1 DEF SendData
    <3>3. QED BY Zenon, <3>2 DEF SetExcused
  <2>2. Step(w, z, c) /\ At(z, c, o, w.pend[c], w.owed[c], w.excused[c])
        /\ ToSet(z.deleting) = ToSet(w.deleting) \cup {c}
    BY <1>1, DeleteStep
  <2> HIDE DEF z, v
  <2>3. e \in SUBSET {"peer", "forced", "full"}
    BY <1>1, <2>2 DEF At
  <2>4. e # {}
    BY <1>1, <1>2, <1>4, <2>2 DEF Account, At
  <2> HIDE DEF e, o, sent
  <2>5. Step(z, v, c) /\ At(v, c, o, w.pend[c], w.owed[c], e)
    BY <2>1, <2>2, <2>3, ExcuseStep DEF Step, At
  <2>6. Step(w, v, c)
    BY <2>2, <2>5, StepTrans
  <2>7. Account(v, c)
    BY <1>1, <2>4, <2>5 DEF Account, Unsent, At, o
  <2>8. QED BY <2>6, <2>7, StepSound DEF v
<1>5. CASE o.senddata = 0
  <2>1. ~(o.senddata > 0)
    BY <1>5
  <2>2. v = w
    BY Zenon, <1>5, <2>1 DEF SendData
  <2>3. QED BY <2>2 DEF Kept
<1>6. CASE o.senddata > 0 /\ sent <= 0 /\ ~o.open
  <2>1. ~(o.senddata = 0) /\ ~(sent > 0)
    <3> HIDE DEF o, sent
    <3>1. QED BY <1>2, <1>6
  <2>2. v = w
    BY Zenon, <1>6, <2>1 DEF SendData
  <2>3. QED BY <2>2 DEF Kept
<1>7. QED
  <2> HIDE DEF o, sent
  <2>1. QED BY <1>1, <1>2, <1>3, <1>4, <1>5, <1>6

LEMMA WriteSound ==
    ASSUME NEW w, Sound(w), NEW c \in Client, c \in attached, w.object[c].live, NEW size \in Nat
    PROVE  Sound(Write(w, c, size)) /\ Kept(w, Write(w, c, size))
<1> DEFINE o == w.object[c]
           u == [o EXCEPT !.senddata = @ + size]
           m == IF o.open THEN w.owed[c] + size ELSE w.owed[c]
           v == SetOwed(w, c, u, m)
<1>1. /\ w \in World /\ NoDup(w.deleting) /\ Account(w, c)
      /\ o \in Objects /\ w.pend[c] \in Nat /\ w.owed[c] \in Nat
      /\ w.excused[c] \in SUBSET {"peer", "forced", "full"}
      /\ o.senddata \in Nat /\ o.open \in BOOLEAN
  BY SoundFacts
<1>2. Write(w, c, size) = SendData(v, c)
  <2>1. [w EXCEPT !.object[c].senddata = @ + size,
                  !.owed[c] = IF w.object[c].open THEN @ + size ELSE @] = v
    BY Zenon DEF SetOwed
  <2>2. QED BY Zenon, <2>1 DEF Write
<1>3. /\ m \in Nat /\ w.deleting \in Seq(Client \cup {Listener})
      /\ u \in Objects /\ u.senddata = o.senddata + size
      /\ u.open = o.open /\ u.live = o.live
  <2> HIDE DEF o
  <2>1. m \in Nat
    BY <1>1
  <2>2. o.senddata + size \in Nat
    BY <1>1
  <2>3. QED BY <1>1, <2>1, <2>2, WorldFacts DEF Objects
<1>4. v = One(w, c, u, w.pend[c], m, w.excused[c], w.deleting)
  <2> HIDE DEF u, m
  <2>1. QED BY <1>1, OneForms
<1> HIDE DEF v, u
<1>5. v \in World /\ v.deleting = w.deleting
  BY SMTT(30), <1>1, <1>3, <1>4, OneHolds DEF OneGives
<1>6. v.object[c] = u /\ v.pend[c] = w.pend[c]
  BY SMTT(30), <1>1, <1>3, <1>4, OneHolds DEF OneGives
<1>7. v.owed[c] = m /\ v.excused[c] = w.excused[c]
  BY SMTT(30), <1>1, <1>3, <1>4, OneHolds DEF OneGives
<1>8. Touches(w, v, c)
  BY <1>1, <1>3, <1>4, OneHolds DEF OneGives
<1>9. Kept(w, v)
  BY <1>1, <1>3, <1>4, OneHolds DEF OneGives
<1>10. Account(v, c)
  <2>1. /\ w.owed[c] >= w.pend[c] + Unsent(w, c)
        /\ w.excused[c] = {} => w.owed[c] = w.pend[c] + Unsent(w, c)
        /\ w.excused[c] = {} /\ c \in ToSet(w.deleting) => ~o.open
        /\ w.pend[c] > 0 \/ c \in ToSet(w.deleting) => c \in attached \cup draining
    BY <1>1 DEF Account
  <2>2. Unsent(w, c) = (IF o.open THEN o.senddata ELSE 0)
        /\ Unsent(v, c) = (IF o.open THEN o.senddata + size ELSE 0)
    BY <1>3, <1>6 DEF Unsent
  <2>3. v.object[c].live /\ v.object[c].open = o.open
    BY <1>3, <1>6
  <2> HIDE DEF o, m
  <2>4. v.owed[c] >= v.pend[c] + Unsent(v, c)
        /\ (v.excused[c] = {} => v.owed[c] = v.pend[c] + Unsent(v, c))
    BY <1>1, <1>6, <1>7, <2>1, <2>2 DEF m
  <2>5. QED
    BY <1>5, <1>6, <1>7, <2>1, <2>3, <2>4 DEF Account
<1>11. Sound(v) /\ v.object[c].live
  BY <1>1, <1>5, <1>8, <1>9, <1>10, StepSound DEF Step, Kept
<1>12. Sound(SendData(v, c)) /\ Kept(v, SendData(v, c))
  BY <1>11, SendDataSound
<1>13. Kept(w, SendData(v, c))
  BY <1>9, <1>12 DEF Kept
<1>14. QED BY <1>2, <1>12, <1>13

\* Close() queues the deletion and leaves the buffers to the socket server.
SamePend(w, v) == \A c \in Client : v.pend[c] = w.pend[c]

LEMMA CloseSound ==
    ASSUME NEW w, Sound(w), NEW c \in Client, c \in attached, w.object[c].live,
           NEW force \in BOOLEAN
    PROVE  /\ Sound(Close(w, c, force)) /\ Kept(w, Close(w, c, force))
           /\ SamePend(w, Close(w, c, force))
<1> DEFINE o == w.object[c]
           e == IF force THEN w.excused[c] \cup {"forced"} ELSE w.excused[c]
           v == SetExcused(w, c, e)
           z == DeleteHandler(v, c)
           shut == [o EXCEPT !.open = FALSE, !.closewhendone = FALSE]
           wait == [o EXCEPT !.closewhendone = @ \/ o.open]
           r == Close(w, c, force)
<1>1. /\ w \in World /\ NoDup(w.deleting) /\ Account(w, c)
      /\ o \in Objects /\ w.pend[c] \in Nat /\ w.owed[c] \in Nat
      /\ w.excused[c] \in SUBSET {"peer", "forced", "full"}
      /\ o.senddata \in Nat /\ o.open \in BOOLEAN
  BY SoundFacts
<1>2. e \in SUBSET {"peer", "forced", "full"} /\ (e = {} => ~force /\ w.excused[c] = {})
  BY <1>1
<1>3. v = [w EXCEPT !.excused[c] = IF force THEN @ \cup {"forced"} ELSE @]
  BY Zenon DEF SetExcused
<1> HIDE DEF e
<1>4. /\ Step(w, v, c) /\ At(v, c, o, w.pend[c], w.owed[c], e)
      /\ v.deleting = w.deleting
  BY <1>1, <1>2, ExcuseStep
<1>5. v \in World /\ NoDup(v.deleting) /\ v.object[c] = o
  BY <1>4 DEF Step, At
<1> HIDE DEF v
<1>6. CASE CanClose(w, c, force)
  <2>1. r = SetObject(z, c, [z.object[c] EXCEPT !.open = FALSE, !.closewhendone = FALSE])
    <3>1. r = [z EXCEPT !.object[c].open = FALSE, !.object[c].closewhendone = FALSE]
      BY Zenon, <1>3, <1>6 DEF Close
    <3>2. [z EXCEPT !.object[c].open = FALSE, !.object[c].closewhendone = FALSE]
            = [z EXCEPT !.object[c] = [z.object[c] EXCEPT !.open = FALSE, !.closewhendone = FALSE]]
      OBVIOUS
    <3>3. QED BY Zenon, <3>1, <3>2 DEF SetObject
  <2>2. Step(v, z, c) /\ At(z, c, o, w.pend[c], w.owed[c], e)
        /\ ToSet(z.deleting) = ToSet(w.deleting) \cup {c}
    BY <1>4, <1>5, DeleteStep DEF At
  <2>3. z \in World /\ NoDup(z.deleting) /\ z.object[c] = o
    BY <2>2 DEF Step, At
  <2> HIDE DEF z, r
  <2>4. /\ shut \in Objects /\ ~shut.open /\ shut.live = o.live
    BY <1>1 DEF Objects
  <2>5. r = SetObject(z, c, shut)
    BY <2>1, <2>3
  <2>6. o.live /\ (e = {} => o.senddata = 0)
    BY <1>2, <1>6 DEF CanClose
  <2> HIDE DEF shut, o
  <2>7. Step(z, r, c) /\ At(r, c, shut, w.pend[c], w.owed[c], e) /\ r.deleting = z.deleting
    BY <2>2, <2>3, <2>4, <2>5, ObjectStep DEF At
  <2>8. Step(w, r, c)
    BY <1>4, <2>2, <2>7, StepTrans
  <2>9. w.owed[c] >= w.pend[c] /\ (e = {} => w.owed[c] = w.pend[c])
    <3>1. /\ w.owed[c] >= w.pend[c] + Unsent(w, c)
          /\ w.excused[c] = {} => w.owed[c] = w.pend[c] + Unsent(w, c)
      BY <1>1 DEF Account
    <3>2. Unsent(w, c) \in Nat /\ (e = {} => Unsent(w, c) = 0)
      BY <1>1, <2>6 DEF Unsent, o
    <3>3. QED BY <1>1, <1>2, <3>1, <3>2
  <2>10. Unsent(r, c) = 0 /\ r.object[c].live /\ ~r.object[c].open
    BY <2>4, <2>6, <2>7 DEF Unsent, At
  <2>11. Account(r, c)
    BY <1>1, <2>7, <2>9, <2>10 DEF Account, At
  <2>12. SamePend(w, r)
    BY <2>7, <2>8 DEF SamePend, Step, Touches, At
  <2>13. QED BY <2>8, <2>11, <2>12, StepSound DEF r
<1>7. CASE ~CanClose(w, c, force)
  <2>1. r = SetObject(v, c, wait)
    <3>1. r = [v EXCEPT !.object[c].closewhendone = @ \/ o.open]
      BY Zenon, <1>3, <1>7 DEF Close
    <3>2. QED BY Zenon, <1>5, <3>1 DEF SetObject
  <2> HIDE DEF r
  <2>2. /\ wait \in Objects /\ wait.open = o.open /\ wait.live = o.live
        /\ wait.senddata = o.senddata
    BY <1>1 DEF Objects
  <2> HIDE DEF wait
  <2>3. Step(v, r, c) /\ At(r, c, wait, w.pend[c], w.owed[c], e) /\ r.deleting = v.deleting
    BY <1>4, <1>5, <2>1, <2>2, ObjectStep DEF At
  <2>4. Step(w, r, c)
    BY <1>4, <2>3, StepTrans
  <2>5. Unsent(r, c) = Unsent(w, c) /\ r.object[c].live /\ r.object[c].open = o.open
    BY <2>2, <2>3 DEF Unsent, At
  <2>6. Account(r, c)
    BY <1>1, <1>2, <1>4, <2>3, <2>5 DEF Account, At
  <2>7. SamePend(w, r)
    BY <2>3, <2>4 DEF SamePend, Step, Touches, At
  <2>8. QED BY <2>4, <2>6, <2>7, StepSound DEF r
<1>8. QED BY <1>6, <1>7

LEMMA CloseIfNeededSound ==
    ASSUME NEW w, Sound(w), NEW c \in Client, c \in attached, w.object[c].live
    PROVE  Sound(CloseIfNeeded(w, c)) /\ Kept(w, CloseIfNeeded(w, c))
<1>1. CASE w.object[c].closewhendone
  BY <1>1, CloseSound DEF CloseIfNeeded
<1>2. CASE ~w.object[c].closewhendone
  BY <1>2 DEF CloseIfNeeded, Kept
<1>3. QED BY <1>1, <1>2

-----------------------------------------------------------------------------
(* The loops over the client list *)

Listed(w) == \A d \in ToSet(w.clientlist) : d \in attached /\ w.object[d].live

LEMMA ListedFacts ==
    ASSUME NEW w \in World, NEW v, Listed(w), Kept(w, v), NEW k \in 1..Len(w.clientlist)
    PROVE  /\ w.clientlist[k] \in Client /\ w.clientlist[k] \in attached
           /\ v.object[w.clientlist[k]].live
<1>1. w.clientlist \in Seq(Client)
  BY WorldFacts
<1>2. w.clientlist[k] \in Client /\ w.clientlist[k] \in ToSet(w.clientlist)
  BY <1>1, ToSetFacts
<1>3. QED BY <1>2 DEF Listed, Kept

LEMMA WriteToOthersSound ==
    ASSUME NEW w, Sound(w), Listed(w), NEW c \in Client, NEW size \in Nat
    PROVE  Sound(WriteToOthers(w, c, size)) /\ Kept(w, WriteToOthers(w, c, size))
<1> DEFINE list == w.clientlist
           m == Len(list)
           G(v, d) == IF d = c THEN v ELSE Write(v, d, size)
           D == {v \in World : Sound(v) /\ Kept(w, v)}
           Eq(f) == f = [s \in SUBSET (DOMAIN list) |->
                           IF s = {} THEN w ELSE G(f[s \ {Max(s)}], list[Max(s)])]
           chosen == CHOOSE f : Eq(f)
<1>1. w \in World /\ w \in D
  BY DEF Sound, Kept
<1>2. m \in Nat /\ DOMAIN list = 1..m
  BY <1>1, WorldFacts
<1>3. ASSUME NEW k \in 1..m, NEW v \in D PROVE G(v, list[k]) \in D
  <2>1. list[k] \in Client /\ list[k] \in attached /\ v.object[list[k]].live
    BY <1>1, <1>3, ListedFacts
  <2>2. Sound(Write(v, list[k], size)) /\ Kept(v, Write(v, list[k], size))
    BY <2>1, WriteSound
  <2>3. Kept(w, Write(v, list[k], size)) /\ Write(v, list[k], size) \in World
    BY <2>2 DEF Kept, Sound
  <2>4. QED BY <2>2, <2>3
<1> HIDE DEF D, G, m
<1>4. \E f : Eq(f)
  <2> DEFINE step == [k \in 1..m |-> [v \in D |-> G(v, list[k])]]
  <2>1. step \in [1..m -> [D -> D]]
    BY <1>3
  <2>2. \A k \in 1..m, v \in D : step[k][v] = G(v, list[k])
    OBVIOUS
  <2> HIDE DEF step
  <2>3. PICK f \in [SUBSET (1..m) -> D] : Folding(f, w, step, m)
    <3>1. w \in D /\ m \in Nat
      BY <1>1, <1>2
    <3>2. QED BY <2>1, <3>1, FoldSolution
  <2>4. ASSUME NEW s \in SUBSET (1..m), s # {}
        PROVE  f[s] = G(f[s \ {Max(s)}], list[Max(s)])
    <3>1. Max(s) \in 1..m
      BY <1>2, <2>4, MaxFacts
    <3>2. f[s \ {Max(s)}] \in D
      OBVIOUS
    <3>3. QED BY <2>2, <2>3, <2>4, <3>1, <3>2 DEF Folding
  <2>5. Eq(f)
    BY <1>2, <2>3, <2>4 DEF Folding
  <2>6. QED BY <2>5
<1>5. Eq(chosen)
  <2> HIDE DEF Eq
  <2>1. QED BY <1>4
<1>6. WriteToOthers(w, c, size) = chosen[DOMAIN list]
  BY Zenon DEF WriteToOthers, FoldLeft, MapThenFoldSet, G
<1> HIDE DEF chosen
<1>7. chosen[{}] \in D
  BY <1>1, <1>5
<1>8. ASSUME NEW s \in SUBSET (1..m), s # {}, chosen[s \ {Max(s)}] \in D
      PROVE  chosen[s] \in D
  <2>1. Max(s) \in 1..m
    BY <1>2, <1>8, MaxFacts
  <2>2. chosen[s] = G(chosen[s \ {Max(s)}], list[Max(s)])
    BY <1>2, <1>5, <1>8
  <2>3. QED BY <1>3, <1>8, <2>1, <2>2
<1>9. chosen[1..m] \in D
  BY <1>2, <1>7, <1>8, FoldStays
<1>10. QED BY <1>2, <1>6, <1>9 DEF D

CloseAll(w) == FoldLeft(LAMBDA v, c : Close(v, c, FALSE), w, w.clientlist)

LEMMA CloseAllSound ==
    ASSUME NEW w, Sound(w), Listed(w)
    PROVE  Sound(CloseAll(w)) /\ Kept(w, CloseAll(w)) /\ SamePend(w, CloseAll(w))
<1> DEFINE list == w.clientlist
           m == Len(list)
           G(v, d) == Close(v, d, FALSE)
           D == {v \in World : Sound(v) /\ Kept(w, v) /\ SamePend(w, v)}
           Eq(f) == f = [s \in SUBSET (DOMAIN list) |->
                           IF s = {} THEN w ELSE G(f[s \ {Max(s)}], list[Max(s)])]
           chosen == CHOOSE f : Eq(f)
<1>1. w \in World /\ w \in D
  BY DEF Sound, Kept, SamePend
<1>2. m \in Nat /\ DOMAIN list = 1..m
  BY <1>1, WorldFacts
<1>3. ASSUME NEW k \in 1..m, NEW v \in D PROVE G(v, list[k]) \in D
  <2>1. list[k] \in Client /\ list[k] \in attached /\ v.object[list[k]].live
    BY <1>1, <1>3, ListedFacts
  <2>2. /\ Sound(Close(v, list[k], FALSE)) /\ Kept(v, Close(v, list[k], FALSE))
        /\ SamePend(v, Close(v, list[k], FALSE))
    BY <2>1, CloseSound
  <2>3. /\ Kept(w, Close(v, list[k], FALSE)) /\ Close(v, list[k], FALSE) \in World
        /\ SamePend(w, Close(v, list[k], FALSE))
    BY <2>2 DEF Kept, Sound, SamePend
  <2>4. QED BY <2>2, <2>3
<1> HIDE DEF D, G, m
<1>4. \E f : Eq(f)
  <2> DEFINE step == [k \in 1..m |-> [v \in D |-> G(v, list[k])]]
  <2>1. step \in [1..m -> [D -> D]]
    BY <1>3
  <2>2. \A k \in 1..m, v \in D : step[k][v] = G(v, list[k])
    OBVIOUS
  <2> HIDE DEF step
  <2>3. PICK f \in [SUBSET (1..m) -> D] : Folding(f, w, step, m)
    <3>1. w \in D /\ m \in Nat
      BY <1>1, <1>2
    <3>2. QED BY <2>1, <3>1, FoldSolution
  <2>4. ASSUME NEW s \in SUBSET (1..m), s # {}
        PROVE  f[s] = G(f[s \ {Max(s)}], list[Max(s)])
    <3>1. Max(s) \in 1..m
      BY <1>2, <2>4, MaxFacts
    <3>2. f[s \ {Max(s)}] \in D
      OBVIOUS
    <3>3. QED BY <2>2, <2>3, <2>4, <3>1, <3>2 DEF Folding
  <2>5. Eq(f)
    BY <1>2, <2>3, <2>4 DEF Folding
  <2>6. QED BY <2>5
<1>5. Eq(chosen)
  <2> HIDE DEF Eq
  <2>1. QED BY <1>4
<1>6. CloseAll(w) = chosen[DOMAIN list]
  BY Zenon DEF CloseAll, FoldLeft, MapThenFoldSet, G
<1> HIDE DEF chosen
<1>7. chosen[{}] \in D
  BY <1>1, <1>5
<1>8. ASSUME NEW s \in SUBSET (1..m), s # {}, chosen[s \ {Max(s)}] \in D
      PROVE  chosen[s] \in D
  <2>1. Max(s) \in 1..m
    BY <1>2, <1>8, MaxFacts
  <2>2. chosen[s] = G(chosen[s \ {Max(s)}], list[Max(s)])
    BY <1>2, <1>5, <1>8
  <2>3. QED BY <1>3, <1>8, <2>1, <2>2
<1>9. chosen[1..m] \in D
  BY <1>2, <1>7, <1>8, FoldStays
<1>10. QED BY <1>2, <1>6, <1>9 DEF D

\* What Delete() keeps: the objects and the client list, but not the server.
Lives(w, v) ==
    /\ v.clientlist = w.clientlist
    /\ \A c \in Client : v.object[c].live = w.object[c].live

LEMMA DeleteServerSound ==
    ASSUME NEW w, Sound(w), NEW force \in BOOLEAN, NEW from \in {"no", "idle", "callback"}
    PROVE  /\ Sound(DeleteServer(w, force, from)) /\ Lives(w, DeleteServer(w, force, from))
           /\ SamePend(w, DeleteServer(w, force, from))
           /\ Gone(w) => Gone(DeleteServer(w, force, from))
<1> DEFINE v == DeleteServer(w, force, from)
           z == IF w.valid THEN DeleteHandler(w, Listener) ELSE w
           q == z.deleting
<1>1. w \in World /\ NoDup(w.deleting) /\ w.clientlist \in Seq(Client)
  BY WorldFacts DEF Sound
<1>2. /\ z = SetDeleting(w, q) /\ q \in Seq(Client \cup {Listener}) /\ NoDup(q)
      /\ ToSet(q) \subseteq ToSet(w.deleting) \cup {Listener}
  <2>1. CASE w.valid
    <3>1. z = DeleteHandler(w, Listener)
      BY <2>1
    <3>2. /\ z \in World /\ NoDup(q) /\ ToSet(q) = ToSet(w.deleting) \cup {Listener}
          /\ z = [w EXCEPT !.deleting = q]
      BY <1>1, <3>1, DeleteHandlerFacts
    <3> HIDE DEF z
    <3>3. q \in Seq(Client \cup {Listener})
      BY <3>2, WorldFacts
    <3> HIDE DEF q
    <3>4. QED BY Zenon, <3>2, <3>3 DEF SetDeleting
  <2>2. CASE ~w.valid
    <3>1. z = w
      BY <2>2
    <3>2. w = [w EXCEPT !.deleting = w.deleting]
      BY <1>1 DEF World
    <3>3. w.deleting \in Seq(Client \cup {Listener})
      BY <1>1, WorldFacts
    <3>4. QED BY <1>1, <3>1, <3>2, <3>3 DEF SetDeleting
  <2>3. QED BY <2>1, <2>2
<1> HIDE DEF z, q
<1>3. ASSUME NEW r \in World, NoDup(r.deleting), r.object = w.object, r.pend = w.pend,
             r.owed = w.owed, r.excused = w.excused, r.clientlist = w.clientlist,
             ToSet(r.deleting) \subseteq ToSet(w.deleting) \cup {Listener}
      PROVE  Sound(r) /\ Lives(w, r) /\ SamePend(w, r)
  <2>1. ASSUME NEW c \in Client PROVE Account(r, c)
    <3>1. Account(w, c) /\ (c \in ToSet(r.deleting) => c \in ToSet(w.deleting))
      BY <1>3, TextServerAssumption DEF Sound, TextServerAssumption
    <3>2. QED BY <1>3, <3>1 DEF Account, Unsent
  <2>2. QED BY <1>3, <2>1 DEF Sound, Lives, SamePend
<1>4. CASE force \/ w.clientlist = <<>>
  <2> DEFINE k == ToSet(w.clientlist)
  <2>1. k \in SUBSET Client
    BY <1>1, ToSetFacts
  <2>2. v = [[z EXCEPT !.creator = FALSE] EXCEPT !.valid = FALSE, !.closewhendone = FALSE,
                                                !.waits = "no", !.cut = k]
    BY Zenon, <1>4 DEF DeleteServer, ForgetCreator, z
  <2>3. v = [[[w EXCEPT !.deleting = q] EXCEPT !.creator = FALSE]
                EXCEPT !.valid = FALSE, !.closewhendone = FALSE, !.waits = "no", !.cut = k]
    BY Zenon, <1>2, <2>2 DEF SetDeleting
  <2> HIDE DEF v, k
  <2>4. /\ v \in World /\ v.deleting = q /\ v.object = w.object /\ v.pend = w.pend
        /\ v.owed = w.owed /\ v.excused = w.excused /\ v.clientlist = w.clientlist
        /\ ~v.creator /\ ~v.valid /\ v.cut = k
    BY <1>1, <1>2, <2>1, <2>3 DEF World
  <2>5. Sound(v) /\ Lives(w, v) /\ SamePend(w, v)
    BY <1>2, <1>3, <2>4
  <2>6. Gone(v)
    BY <2>4 DEF Gone, k
  <2>7. QED BY <2>5, <2>6 DEF v
<1>5. CASE ~(force \/ w.clientlist = <<>>)
  <2>1. v = [w EXCEPT !.closewhendone = TRUE, !.waits = from]
    BY Zenon, <1>5 DEF DeleteServer
  <2> HIDE DEF v
  <2>2. /\ v \in World /\ v.deleting = w.deleting /\ v.object = w.object /\ v.pend = w.pend
        /\ v.owed = w.owed /\ v.excused = w.excused /\ v.clientlist = w.clientlist
        /\ v.creator = w.creator /\ v.valid = w.valid /\ v.cut = w.cut
    BY <1>1, <2>1 DEF World
  <2>3. Sound(v) /\ Lives(w, v) /\ SamePend(w, v)
    BY <1>1, <1>3, <2>2
  <2>4. Gone(w) => Gone(v)
    BY <2>2 DEF Gone
  <2>5. QED BY <2>3, <2>4 DEF v
<1>6. QED BY <1>4, <1>5

LEMMA DeleteSound ==
    ASSUME NEW w, Sound(w), Listed(w), NEW force \in BOOLEAN,
           NEW from \in {"no", "idle", "callback"}
    PROVE  /\ Sound(Delete(w, force, from)) /\ Lives(w, Delete(w, force, from))
           /\ SamePend(w, Delete(w, force, from))
           /\ Gone(w) => Gone(Delete(w, force, from))
<1>1. Sound(CloseAll(w)) /\ Kept(w, CloseAll(w)) /\ SamePend(w, CloseAll(w))
  BY CloseAllSound
<1>2. Delete(w, force, from) = DeleteServer(CloseAll(w), force, from)
  BY Zenon DEF Delete, CloseAll
<1>3. Lives(w, CloseAll(w)) /\ (Gone(w) => Gone(CloseAll(w)))
  BY <1>1 DEF Kept, Lives, Gone
<1> DEFINE z == CloseAll(w)
           v == DeleteServer(z, force, from)
<1> HIDE DEF z
<1>4. Sound(v) /\ Lives(z, v) /\ SamePend(z, v) /\ (Gone(z) => Gone(v))
  BY <1>1, DeleteServerSound DEF z
<1>5. Lives(w, v) /\ SamePend(w, v) /\ (Gone(w) => Gone(v))
  BY <1>1, <1>3, <1>4 DEF Lives, SamePend, z
<1>6. QED BY <1>2, <1>4, <1>5 DEF z

-----------------------------------------------------------------------------
(* The steps *)

LEMMA InitIInv == Init => IInv
<1> SUFFICES ASSUME Init PROVE IInv
  OBVIOUS
<1>1. world \in World
  BY DEF Init, World, Objects, NoObject
<1>2. NoDup(world.deleting) /\ ToSet(world.deleting) = {} /\ ToSet(world.clientlist) = {}
  BY DEF Init, NoDup, ToSet
<1>3. \A c \in Client : Account(world, c)
  BY <1>2 DEF Init, Account, Unsent, NoObject
<1>4. Sound(world) /\ Gone(world)
  BY <1>1, <1>2, <1>3 DEF Sound, Gone, Init
<1>5. HandlersLive
  BY <1>2 DEF Init, HandlersLive, NoObject, IsInjective
<1>6. Attached
  BY DEF Init, Attached
<1>7. Frame
  <2>1. 0 \in 0..MaxConnects /\ 0 \in 0..MaxWrites
    BY TextServerAssumption DEF TextServerAssumption
  <2>2. context \in [Client -> {"handler", "null"}] /\ writes \in [Client -> 0..MaxWrites]
    BY <2>1 DEF Init
  <2>3. /\ attached = {} /\ draining = {} /\ bound \in BOOLEAN /\ forced \in BOOLEAN
        /\ mode = "idle" /\ caller = "idle" /\ n = 1 /\ j = 1 /\ connects = 0
    BY DEF Init
  <2>4. QED BY <2>1, <2>2, <2>3 DEF Frame
<1>8. QED BY <1>4, <1>5, <1>6, <1>7 DEF IInv, Core

LEMMA FrameStep == Frame /\ [Next]_vars => Frame'
<1> SUFFICES ASSUME Frame, [Next]_vars PROVE Frame'
  OBVIOUS
<1> USE DEF Frame, sockets, frame, bounds
<1>1. CASE Create
  BY <1>1 DEF Create
<1>2. CASE Process
  BY <1>2 DEF Process
<1>3. CASE EndPass
  BY <1>3 DEF EndPass, Reap
<1>4. ASSUME NEW force \in BOOLEAN, CallDelete(force) PROVE Frame'
  BY <1>4 DEF CallDelete
<1>5. CASE DeleteClient
  <2>1. \/ mode' = "reap" /\ caller' = "call" /\ j' = 1
        \/ mode' = mode /\ caller' = caller /\ j' = j
    BY Zenon, <1>5 DEF DeleteClient, Reap
  <2>2. n' = n + 1 /\ UNCHANGED <<sockets, forced, bounds>>
    BY <1>5 DEF DeleteClient
  <2>3. QED BY <2>1, <2>2
<1>6. CASE DeleteEnds
  <2>1. \/ mode' = "reap" /\ caller' = "idle" /\ j' = 1
        \/ mode' = "idle" /\ caller' = caller /\ j' = j
    BY Zenon, <1>6 DEF DeleteEnds, Reap
  <2>2. n' = 1 /\ forced' \in BOOLEAN /\ UNCHANGED <<sockets, bounds>>
    BY <1>6 DEF DeleteEnds
  <2>3. QED BY <2>1, <2>2
<1>7. CASE ReapListener
  BY <1>7 DEF ReapListener
<1>8. CASE ReapEnds
  BY <1>8 DEF ReapEnds
<1>9. ASSUME NEW c \in Client, ReapClient(c) PROVE Frame'
  BY <1>9, TextServerAssumption DEF ReapClient, TextServerAssumption
<1>10. ASSUME NEW c \in Client, NEW made \in BOOLEAN, Accept(c, made) PROVE Frame'
  BY <1>10, TextServerAssumption DEF Accept, TextServerAssumption
<1>11. ASSUME NEW c \in Client, NEW size \in WriteSizes, CommandWrites(c, size) PROVE Frame'
  BY <1>11, TextServerAssumption DEF CommandWrites, ReadCallback, TextServerAssumption
<1>12. ASSUME NEW c \in Client, NEW force \in BOOLEAN, CloseClient(c, force) PROVE Frame'
  BY <1>12 DEF CloseClient, Reap
<1>13. ASSUME NEW c \in Client, NEW force \in BOOLEAN,
              CommandCloses(c, force) \/ CommandDeletesServer(c, force)
       PROVE  Frame'
  BY <1>13 DEF CommandCloses, CommandDeletesServer, ReadCallback
<1>14. ASSUME NEW c \in Client, ReadNothing(c) \/ ReadFails(c) \/ WriteCallback(c) \/ NeedWrite(c)
                                 \/ SendFails(c)
       PROVE  Frame'
  BY <1>14 DEF ReadNothing, ReadCallback, ReadFails, WriteCallback, NeedWrite, SendFails
<1>15. ASSUME NEW c \in Client, NEW k \in 1..MaxSendBuffer, Send(c, k) PROVE Frame'
  BY <1>15 DEF Send
<1>16. CASE UNCHANGED vars
  BY <1>16 DEF vars
<1>17. QED
  BY <1>1, <1>2, <1>3, <1>4, <1>5, <1>6, <1>7, <1>8, <1>9, <1>10, <1>11, <1>12, <1>13,
     <1>14, <1>15, <1>16 DEF Next

\* A call that leaves SocketList and the objects' lives alone.
LEMMA CallStep ==
    ASSUME Core, UNCHANGED <<attached, draining, context>>,
           Sound(world'), Lives(world, world'), Gone(world) => Gone(world')
    PROVE  Core'
<1>1. Sound(world)'
  BY DEF Sound, Account
<1>2. Gone(world)'
  BY DEF Core, Gone
<1>3. HandlersLive'
  BY DEF Core, HandlersLive, Lives
<1>4. Attached'
  BY DEF Core, Attached
<1>5. QED BY <1>1, <1>2, <1>3, <1>4 DEF Core

LEMMA KeptLives ==
    ASSUME NEW w, NEW v, Kept(w, v)
    PROVE  Lives(w, v) /\ (Gone(w) => Gone(v))
BY DEF Kept, Lives, Gone

LEMMA LiveFacts ==
    ASSUME Core
    PROVE  /\ world \in World /\ NoDup(world.deleting) /\ NoDup(world.clientlist)
           /\ world.clientlist \in Seq(Client) /\ Listed(world)
           /\ \A c \in Client :
                /\ world.object[c].live => c \in attached
                /\ (c \in attached /\ context[c] = "handler") <=> world.object[c].live
                /\ world.object[c].live <=> c \in ToSet(world.clientlist)
<1>1. world \in World /\ NoDup(world.deleting) /\ world.clientlist \in Seq(Client)
  BY WorldFacts DEF Core, Sound
<1>2. NoDup(world.clientlist)
  BY <1>1 DEF Core, HandlersLive, IsInjective, NoDup
<1>3. ToSet(world.clientlist) \subseteq Client
  BY <1>1, ToSetFacts
<1>4. \A c \in Client :
        /\ world.object[c].live => c \in attached
        /\ (c \in attached /\ context[c] = "handler") <=> world.object[c].live
        /\ world.object[c].live <=> c \in ToSet(world.clientlist)
  BY DEF Core, HandlersLive
<1>5. Listed(world)
  BY <1>3, <1>4 DEF Listed
<1>6. QED BY <1>1, <1>2, <1>4, <1>5

LEMMA ReadStep ==
    ASSUME Core, NEW c \in Client, NEW processed, ReadCallback(c, processed),
           world.object[c].live => Sound(processed) /\ Lives(world, processed),
           Gone(world) => Gone(processed)
    PROVE  Core'
<1>1. world.object[c].live /\ c \in attached
  BY LiveFacts DEF ReadCallback, Reachable
<1>2. Sound(processed) /\ Lives(world, processed) /\ processed.object[c].live
  BY <1>1 DEF Lives
<1>3. Sound(SendData(processed, c)) /\ Kept(processed, SendData(processed, c))
  BY <1>1, <1>2, SendDataSound
<1>4. world' = SendData(processed, c) /\ UNCHANGED <<attached, draining, context>>
  BY DEF ReadCallback, sockets
<1>5. Lives(processed, world') /\ (Gone(processed) => Gone(world'))
  BY <1>3, <1>4, KeptLives
<1>6. Lives(world, world')
  BY <1>2, <1>5 DEF Lives
<1>7. QED BY <1>3, <1>4, <1>5, <1>6, CallStep

LEMMA BooksStep ==
    ASSUME Core, NEW c \in Client, UNCHANGED <<attached, draining, context>>,
           Step(world, world', c), Account(world', c)
    PROVE  Core'
<1>1. Sound(world') /\ Kept(world, world')
  <2>1. Sound(world)
    BY DEF Core
  <2>2. QED BY <2>1, StepSound
<1>2. QED BY <1>1, KeptLives, CallStep

\* The kernel takes bytes of a buffer.
LEMMA SendStep ==
    ASSUME Core, NEW c \in Client, NEW k, Send(c, k)
    PROVE  Core'
<1> DEFINE p == world.pend[c] - k
           m == world.owed[c] - k
<1>1. /\ world \in World /\ NoDup(world.deleting) /\ Account(world, c)
      /\ world.object[c] \in Objects /\ world.pend[c] \in Nat /\ world.owed[c] \in Nat
      /\ world.excused[c] \in SUBSET {"peer", "forced", "full"}
      /\ world.deleting \in Seq(Client \cup {Listener})
      /\ world.object[c].senddata \in Nat /\ world.object[c].open \in BOOLEAN
  BY SoundFacts, WorldFacts DEF Core
<1>2. k \in 1..world.pend[c] /\ UNCHANGED <<attached, draining, context>>
  BY DEF Send, sockets
<1>3. Unsent(world, c) \in Nat
  BY <1>1 DEF Unsent
<1>4. p \in Nat /\ m \in Nat
  <2>1. world.owed[c] >= world.pend[c] + Unsent(world, c)
    BY <1>1 DEF Account
  <2>2. QED BY <1>1, <1>2, <1>3, <2>1
<1>5. world' = One(world, c, world.object[c], p, m, world.excused[c], world.deleting)
  <2>1. world' = SetTaken(world, c, p, m)
    BY Zenon DEF Send, SetTaken
  <2> HIDE DEF p, m
  <2>2. QED BY <1>1, <2>1, OneForms
<1> HIDE DEF p, m
<1>6. world' \in World /\ world'.deleting = world.deleting
  BY <1>1, <1>4, <1>5, OneHolds DEF OneGives
<1>7. world'.object[c] = world.object[c] /\ world'.excused[c] = world.excused[c]
  BY <1>1, <1>4, <1>5, OneHolds DEF OneGives
<1>8. world'.pend[c] = p /\ world'.owed[c] = m
  BY <1>1, <1>4, <1>5, OneHolds DEF OneGives
<1>9. Touches(world, world', c)
  BY <1>1, <1>4, <1>5, OneHolds DEF OneGives
<1>10. Kept(world, world')
  BY <1>1, <1>4, <1>5, OneHolds DEF OneGives
<1>11. Account(world', c)
  <2>1. Unsent(world', c) = Unsent(world, c)
    BY <1>7 DEF Unsent
  <2>2. /\ m >= p + Unsent(world, c)
        /\ world.excused[c] = {} => m = p + Unsent(world, c)
    BY <1>1, <1>2, <1>3 DEF Account, p, m
  <2>3. p > 0 => world.pend[c] > 0
    BY <1>1, <1>2 DEF p
  <2>4. QED BY <1>1, <1>6, <1>7, <1>8, <2>1, <2>2, <2>3 DEF Account
<1>12. QED BY <1>1, <1>2, <1>6, <1>9, <1>10, <1>11, BooksStep DEF Step

\* The peer fails while bytes are buffered, or when it is read.
LEMMA FailStep ==
    ASSUME Core, NEW c \in Client, ReadFails(c) \/ SendFails(c)
    PROVE  Core'
<1> DEFINE z == DeleteHandler(world, c)
           e == world.excused[c] \cup {"peer"}
<1>1. /\ world \in World /\ NoDup(world.deleting) /\ Account(world, c)
      /\ world.object[c] \in Objects /\ world.pend[c] \in Nat /\ world.owed[c] \in Nat
      /\ world.excused[c] \in SUBSET {"peer", "forced", "full"}
      /\ world.object[c].senddata \in Nat /\ world.object[c].open \in BOOLEAN
  BY SoundFacts DEF Core
<1>2. /\ Step(world, z, c) /\ ToSet(z.deleting) = ToSet(world.deleting) \cup {c}
      /\ At(z, c, world.object[c], world.pend[c], world.owed[c], world.excused[c])
  BY <1>1, DeleteStep
<1>3. /\ z \in World /\ NoDup(z.deleting) /\ z.excused[c] = world.excused[c]
      /\ z.object[c] = world.object[c] /\ z.pend[c] = world.pend[c] /\ z.owed[c] = world.owed[c]
      /\ z.deleting \in Seq(Client \cup {Listener})
  BY <1>2, WorldFacts DEF Step, At
<1>4. c \in attached \cup draining /\ UNCHANGED <<attached, draining, context>>
  BY <1>1 DEF ReadFails, SendFails, sockets, Account
<1>5. e \in SUBSET {"peer", "forced", "full"} /\ e # {}
  BY <1>1
<1>6. \E p \in Nat : p <= world.pend[c] /\
        world' = One(z, c, world.object[c], p, world.owed[c], e, z.deleting)
  <2>1. CASE ReadFails(c)
    <3>1. world' = SetExcused(z, c, e)
      <4>1. world' = [z EXCEPT !.excused[c] = z.excused[c] \cup {"peer"}]
        BY Zenon, <2>1 DEF ReadFails
      <4>2. QED BY Zenon, <1>3, <4>1 DEF SetExcused
    <3> HIDE DEF z, e
    <3>2. world' = One(z, c, z.object[c], z.pend[c], z.owed[c], e, z.deleting)
      BY <1>3, <3>1, OneForms
    <3>3. QED BY <1>1, <1>3, <3>2
  <2>2. CASE SendFails(c)
    <3>1. world' = SetFailed(z, c, 0, e)
      <4>1. world' = [z EXCEPT !.pend[c] = 0, !.excused[c] = z.excused[c] \cup {"peer"}]
        BY Zenon, <2>2 DEF SendFails
      <4>2. QED BY Zenon, <1>3, <4>1 DEF SetFailed
    <3> HIDE DEF z, e
    <3>2. world' = One(z, c, z.object[c], 0, z.owed[c], e, z.deleting)
      BY <1>3, <3>1, OneForms
    <3>3. QED BY <1>1, <1>3, <3>2
  <2>3. QED BY <2>1, <2>2
<1>7. PICK p \in Nat : p <= world.pend[c] /\
        world' = One(z, c, world.object[c], p, world.owed[c], e, z.deleting)
  BY <1>6
<1> HIDE DEF z, e
<1>8. world' \in World /\ world'.deleting = z.deleting
  BY <1>1, <1>3, <1>5, <1>7, OneHolds DEF OneGives
<1>9. world'.object[c] = world.object[c] /\ world'.excused[c] = e
  BY <1>1, <1>3, <1>5, <1>7, OneHolds DEF OneGives
<1>10. world'.pend[c] = p /\ world'.owed[c] = world.owed[c]
  BY <1>1, <1>3, <1>5, <1>7, OneHolds DEF OneGives
<1>11. Touches(z, world', c)
  BY <1>1, <1>3, <1>5, <1>7, OneHolds DEF OneGives
<1>12. Kept(z, world')
  BY <1>1, <1>3, <1>5, <1>7, OneHolds DEF OneGives
<1>13. Step(world, world', c)
  BY <1>2, <1>3, <1>8, <1>11, <1>12, StepTrans DEF Step
<1>14. Account(world', c)
  <2>1. Unsent(world', c) = Unsent(world, c) /\ Unsent(world, c) \in Nat
    BY <1>1, <1>9 DEF Unsent
  <2>2. world.owed[c] >= p + Unsent(world, c)
    BY <1>1, <1>7, <2>1 DEF Account
  <2>3. QED BY <1>1, <1>4, <1>5, <1>9, <1>10, <2>1, <2>2 DEF Account
<1>15. QED BY <1>4, <1>13, <1>14, BooksStep

\* A handler's own calls, from a callback or from the application's loop.
LEMMA HandlerStep ==
    ASSUME Core, NEW c \in Client, UNCHANGED <<attached, draining, context>>,
           world.object[c].live,
           \/ world' = SendData(world, c)
           \/ \E force \in BOOLEAN : world' = Close(world, c, force)
           \/ world' = CloseIfNeeded(world, c)
    PROVE  Core'
<1>1. Sound(world) /\ c \in attached
  BY LiveFacts DEF Core
<1>2. Sound(world') /\ Kept(world, world')
  BY <1>1, SendDataSound, CloseSound, CloseIfNeededSound
<1>3. QED BY <1>2, KeptLives, CallStep

LEMMA CommandStep ==
    ASSUME Core, NEW c \in Client,
           \/ \E size \in WriteSizes : CommandWrites(c, size)
           \/ \E force \in BOOLEAN : CommandCloses(c, force) \/ CommandDeletesServer(c, force)
           \/ ReadNothing(c)
    PROVE  Core'
<1>1. Sound(world) /\ Listed(world) /\ (world.object[c].live => c \in attached)
  BY LiveFacts DEF Core
<1>2. ASSUME NEW size \in WriteSizes, CommandWrites(c, size) PROVE Core'
  <2>1. size \in Nat
    BY TextServerAssumption DEF TextServerAssumption
  <2> DEFINE one == Write(world, c, size)
             others == WriteToOthers(world, c, size)
  <2>2. world.object[c].live => Sound(one) /\ Kept(world, one)
    BY <1>1, <2>1, WriteSound
  <2>3. Sound(others) /\ Kept(world, others)
    BY <1>1, <2>1, WriteToOthersSound
  <2>4. ReadCallback(c, one) \/ ReadCallback(c, others)
    BY <1>2 DEF CommandWrites
  <2>5. world.object[c].live
    BY <2>4, LiveFacts DEF ReadCallback, Reachable
  <2> HIDE DEF one, others
  <2>6. CASE ReadCallback(c, one)
    BY <2>2, <2>5, <2>6, KeptLives, ReadStep
  <2>7. CASE ReadCallback(c, others)
    BY <2>3, <2>7, KeptLives, ReadStep
  <2>8. QED BY <2>4, <2>6, <2>7
<1>3. ASSUME NEW force \in BOOLEAN, CommandCloses(c, force) PROVE Core'
  <2> DEFINE r == Close(world, c, force)
  <2>1. world.object[c].live => Sound(r) /\ Kept(world, r)
    BY <1>1, CloseSound
  <2>2. ReadCallback(c, r)
    BY <1>3 DEF CommandCloses
  <2>3. world.object[c].live
    BY <2>2, LiveFacts DEF ReadCallback, Reachable
  <2> HIDE DEF r
  <2>4. QED BY <2>1, <2>2, <2>3, KeptLives, ReadStep
<1>4. ASSUME NEW force \in BOOLEAN, CommandDeletesServer(c, force) PROVE Core'
  <2> DEFINE r == Delete(world, force, "callback")
  <2>1. Sound(r) /\ Lives(world, r) /\ (Gone(world) => Gone(r))
    BY <1>1, DeleteSound
  <2>2. ReadCallback(c, r)
    BY <1>4 DEF CommandDeletesServer
  <2> HIDE DEF r
  <2>3. QED BY <2>1, <2>2, ReadStep
<1>5. CASE ReadNothing(c)
  <2>1. ReadCallback(c, world) /\ Lives(world, world)
    BY <1>5 DEF ReadNothing, Lives
  <2>2. QED BY <1>1, <2>1, ReadStep
<1>6. QED BY <1>2, <1>3, <1>4, <1>5

\* The application's loop and the frames of Delete().
LEMMA LoopStep ==
    ASSUME IInv,
           Create \/ DeleteClient \/ DeleteEnds \/ ReapListener
    PROVE  Core'
<1>1. /\ world \in World /\ NoDup(world.deleting) /\ Listed(world) /\ Core /\ Sound(world)
      /\ world.clientlist \in Seq(Client)
  BY LiveFacts DEF IInv, Core
<1>2. CASE Create
  <2>1. world' = [world EXCEPT !.valid = TRUE, !.creator = TRUE]
        /\ UNCHANGED <<attached, draining, context>>
    BY <1>2 DEF Create
  <2>2. /\ world' \in World /\ world'.deleting = world.deleting /\ world'.object = world.object
        /\ world'.pend = world.pend /\ world'.owed = world.owed /\ world'.valid
        /\ world'.excused = world.excused /\ world'.clientlist = world.clientlist
    BY <1>1, <2>1 DEF World
  <2>3. \A c \in Client : Account(world', c)
    BY <1>1, <2>2 DEF Sound, Account, Unsent
  <2>4. Sound(world') /\ Lives(world, world') /\ Gone(world')
    BY <1>1, <2>2, <2>3 DEF Sound, Lives, Gone
  <2>5. QED BY <1>1, <2>1, <2>4, CallStep
<1>3. CASE DeleteClient
  <2>1. n \in 1..Len(world.clientlist)
    BY <1>1, <1>3 DEF DeleteClient, IInv, Frame
  <2> DEFINE c == world.clientlist[n]
  <2>2. c \in Client /\ world.object[c].live
    BY <1>1, <2>1, ToSetFacts DEF Listed
  <2>3. world' = Close(world, c, FALSE) /\ UNCHANGED <<attached, draining, context>>
    BY <1>3 DEF DeleteClient, sockets
  <2> HIDE DEF c
  <2>4. QED BY <1>1, <2>2, <2>3, HandlerStep
<1>4. CASE DeleteEnds
  <2> DEFINE from == IF world.waits = "no" THEN "idle" ELSE world.waits
  <2>1. from \in {"no", "idle", "callback"} /\ forced \in BOOLEAN
    BY <1>1 DEF World, IInv, Frame
  <2>2. world' = DeleteServer(world, forced, from) /\ UNCHANGED <<attached, draining, context>>
    BY <1>4 DEF DeleteEnds, sockets
  <2> HIDE DEF from
  <2>3. Sound(world') /\ Lives(world, world') /\ (Gone(world) => Gone(world'))
    BY <1>1, <2>1, <2>2, DeleteServerSound
  <2>4. QED BY <1>1, <2>2, <2>3, CallStep
<1>5. CASE ReapListener
  <2> DEFINE q == RemoveFirst(world.deleting, Listener)
  <2>1. world' = [world EXCEPT !.deleting = q] /\ UNCHANGED <<attached, draining, context>>
    BY <1>5 DEF ReapListener
  <2>2. /\ q \in Seq(Client \cup {Listener}) /\ NoDup(q)
        /\ ToSet(q) \subseteq ToSet(world.deleting)
    <3>1. world.deleting \in Seq(Client \cup {Listener})
      BY <1>1, WorldFacts
    <3>2. j \in 1..Len(world.deleting) /\ world.deleting[j] = Listener
      BY <1>5, <3>1 DEF ReapListener, IInv, Frame
    <3>3. Listener \in ToSet(world.deleting)
      BY <3>1, <3>2, ToSetFacts
    <3>4. QED BY <1>1, <3>1, <3>3, RemoveFirstFacts
  <2> HIDE DEF q
  <2>3. /\ world' \in World /\ world'.deleting = q /\ world'.object = world.object
        /\ world'.pend = world.pend /\ world'.owed = world.owed
        /\ world'.excused = world.excused /\ world'.clientlist = world.clientlist
        /\ world'.valid = world.valid /\ world'.creator = world.creator /\ world'.cut = world.cut
    BY <1>1, <2>1, <2>2 DEF World
  <2>4. \A c \in Client : Account(world', c)
    BY <1>1, <2>2, <2>3 DEF Sound, Account, Unsent
  <2>5. Sound(world') /\ Lives(world, world') /\ (Gone(world) => Gone(world'))
    BY <2>2, <2>3, <2>4 DEF Sound, Lives, Gone
  <2>6. QED BY <1>1, <2>1, <2>5, CallStep
<1>6. QED BY <1>2, <1>3, <1>4, <1>5

LEMMA AcceptStep ==
    ASSUME IInv, NEW c \in Client, NEW made, Accept(c, made)
    PROVE  Core'
<1>0. Core /\ context \in [Client -> {"handler", "null"}]
  BY DEF IInv, Frame
<1>1. /\ world \in World /\ NoDup(world.deleting) /\ NoDup(world.clientlist)
      /\ world.clientlist \in Seq(Client) /\ Sound(world) /\ Account(world, c)
      /\ world.pend[c] \in Nat /\ world.owed[c] \in Nat
  BY <1>0, LiveFacts, SoundFacts DEF Core
<1>2. /\ c \notin attached \cup draining /\ attached' = attached \cup {c}
      /\ draining' = draining
  BY DEF Accept
<1>3. ~world.object[c].live /\ c \notin ToSet(world.clientlist) /\ context[c] # "handler"
  BY <1>0, <1>2, LiveFacts DEF Core, Attached
<1>4. world.pend[c] = 0 /\ c \notin ToSet(world.deleting)
  BY <1>1, <1>2 DEF Account
<1>5. world.object[c] = NoObject /\ Unsent(world, c) = 0
  BY <1>1, <1>3 DEF Account, Unsent, NoObject
<1>6. world.excused[c] = {} => world.owed[c] = 0
  BY <1>1, <1>4, <1>5 DEF Account
<1>7. CASE world.creator /\ made
  <2> DEFINE b == [world.object EXCEPT ![c] = NewObject]
             l == Append(world.clientlist, c)
  <2>1. world' = [world EXCEPT !.object = b, !.clientlist = l]
        /\ context' = [context EXCEPT ![c] = "handler"]
    BY <1>7 DEF Accept
  <2>2. /\ b \in [Client -> Objects] /\ b[c] = NewObject
        /\ \A d \in Client \ {c} : b[d] = world.object[d]
    <3>1. NewObject \in Objects
      BY DEF NewObject, Objects
    <3>2. QED BY <1>1, <3>1, WorldFacts
  <2>3. /\ l \in Seq(Client) /\ NoDup(l) /\ ToSet(l) = ToSet(world.clientlist) \cup {c}
    BY <1>1, <1>3, AppendFacts
  <2> HIDE DEF b, l
  <2>4. /\ world' \in World /\ world'.deleting = world.deleting /\ world'.object = b
        /\ world'.pend = world.pend /\ world'.owed = world.owed
        /\ world'.excused = world.excused /\ world'.clientlist = l
        /\ world'.valid = world.valid /\ world'.creator = world.creator /\ world'.cut = world.cut
    BY <1>1, <2>1, <2>2, <2>3 DEF World
  <2>5. \A d \in Client : Account(world, d)'
    <3>1. Account(world, c)'
      BY <1>1, <1>2, <1>4, <1>5, <1>6, <2>2, <2>4 DEF Account, Unsent, NewObject
    <3>2. ASSUME NEW d \in Client \ {c} PROVE Account(world, d)'
      <4>1. Account(world, d)
        BY <1>0 DEF Core, Sound
      <4>2. world'.object[d] = world.object[d]
        BY <2>2, <2>4
      <4>3. QED BY <1>2, <2>4, <4>1, <4>2 DEF Account, Unsent
    <3>3. QED BY <3>1, <3>2
  <2>6. Sound(world)'
    BY <1>1, <2>4, <2>5 DEF Sound
  <2>7. Gone(world)'
    BY <1>0, <1>7, <2>4 DEF Core, Gone
  <2>8. HandlersLive'
    <3>1. IsInjective(world'.clientlist)
      BY <2>3, <2>4 DEF IsInjective, NoDup
    <3>2. ASSUME NEW d \in Client
          PROVE  /\ world'.object[d].live <=> d \in ToSet(world'.clientlist)
                 /\ world'.object[d].live <=> (d \in attached' /\ context'[d] = "handler")
      <4>1. CASE d = c
        <5>1. world'.object[c].live /\ c \in ToSet(world'.clientlist) /\ c \in attached'
          BY <1>2, <2>2, <2>3, <2>4 DEF NewObject
        <5>2. context'[c] = "handler"
          BY <1>0, <2>1
        <5>3. QED BY <4>1, <5>1, <5>2
      <4>2. CASE d # c
        <5>1. world'.object[d] = world.object[d] /\ context'[d] = context[d]
          BY <1>0, <2>1, <2>2, <2>4, <4>2
        <5>2. /\ world.object[d].live <=> d \in ToSet(world.clientlist)
              /\ world.object[d].live <=> (d \in attached /\ context[d] = "handler")
          BY <1>0, LiveFacts
        <5>3. QED BY <1>2, <2>3, <2>4, <4>2, <5>1, <5>2
      <4>3. QED BY <4>1, <4>2
    <3>3. QED BY <3>1, <3>2 DEF HandlersLive
  <2>9. Attached'
    BY <1>0, <1>2, <2>1 DEF Core, Attached
  <2>10. QED BY <2>6, <2>7, <2>8, <2>9 DEF Core
<1>8. CASE ~(world.creator /\ made)
  <2> DEFINE z == DeleteHandler(world, c)
  <2>1. world' = z /\ context' = context
    BY <1>8 DEF Accept
  <2>2. /\ Step(world, z, c) /\ ToSet(z.deleting) = ToSet(world.deleting) \cup {c}
        /\ At(z, c, world.object[c], world.pend[c], world.owed[c], world.excused[c])
    BY <1>1, DeleteStep
  <2> HIDE DEF z
  <2>3. Account(world, c)'
    BY <1>1, <1>2, <1>4, <1>5, <1>6, <2>1, <2>2 DEF Account, Unsent, At, NoObject
  <2>4. ASSUME NEW d \in Client \ {c} PROVE Account(world, d)'
    <3>1. Account(world, d)
      BY <1>0 DEF Core, Sound
    <3>2. QED BY <1>2, <2>1, <2>2, <3>1 DEF Account, Unsent, Step, Touches
  <2>5. Sound(world)'
    BY <2>1, <2>2, <2>3, <2>4 DEF Sound, Step
  <2>6. Kept(world, world')
    BY <2>1, <2>2 DEF Step
  <2>7. Gone(world)'
    BY <1>0, <2>6 DEF Core, Gone, Kept
  <2>8. HandlersLive'
    BY <1>0, <1>2, <1>3, <2>1, <2>6 DEF Core, HandlersLive, Kept
  <2>9. Attached'
    BY <1>0, <1>2, <2>1 DEF Core, Attached
  <2>10. QED BY <2>5, <2>7, <2>8, <2>9 DEF Core
<1>9. QED BY <1>7, <1>8

\* The destructor callback: the handler is gone from the list and from memory.
LEMMA DestructorFacts ==
    ASSUME Core, NEW c \in Client, c \in ToSet(world.deleting)
    PROVE  /\ Sound(Destructor(world, c)) /\ Gone(Destructor(world, c))
           /\ NoDup(Destructor(world, c).clientlist)
           /\ ToSet(Destructor(world, c).clientlist) = ToSet(world.clientlist) \ {c}
           /\ \A d \in Client :
                Destructor(world, c).object[d].live <=> (world.object[d].live /\ d # c)
           /\ SamePend(world, Destructor(world, c))
<1> DEFINE r == Destructor(world, c)
<1>1. /\ world \in World /\ NoDup(world.deleting) /\ NoDup(world.clientlist)
      /\ world.clientlist \in Seq(Client) /\ Sound(world) /\ Listed(world) /\ Gone(world)
      /\ Account(world, c) /\ world.waits \in {"no", "idle", "callback"}
      /\ world.excused[c] \in SUBSET {"peer", "forced", "full"}
      /\ world.pend[c] \in Nat /\ world.owed[c] \in Nat
  BY LiveFacts, SoundFacts DEF Core, World
<1>2. CASE c \in attached /\ context[c] = "handler"
  <2> DEFINE l == RemoveFirst(world.clientlist, c)
             b == [world.object EXCEPT ![c] = NoObject]
             v == [Unlist(world, c) EXCEPT !.object[c] = NoObject]
  <2>1. /\ l \in Seq(Client) /\ ToSet(l) = ToSet(world.clientlist) \ {c} /\ NoDup(l)
    <3>1. c \in ToSet(world.clientlist)
      BY <1>2, LiveFacts
    <3>2. QED BY <1>1, <3>1, RemoveFirstFacts
  <2>2. /\ b \in [Client -> Objects] /\ b[c] = NoObject
        /\ \A d \in Client \ {c} : b[d] = world.object[d]
    <3>1. NoObject \in Objects
      BY DEF NoObject, Objects
    <3>2. QED BY <1>1, <3>1, WorldFacts
  <2>3. v = [world EXCEPT !.clientlist = l, !.object = b]
    <3>1. Unlist(world, c) = [world EXCEPT !.clientlist = l]
      BY Zenon DEF Unlist
    <3> HIDE DEF l
    <3>2. [world EXCEPT !.clientlist = l].object = world.object
      BY <1>1 DEF World
    <3>3. v = [[world EXCEPT !.clientlist = l] EXCEPT !.object = b]
      BY Zenon, <3>1, <3>2
    <3> HIDE DEF b, v
    <3>4. QED BY <1>1, <3>3 DEF World
  <2> HIDE DEF l, b, v
  <2>4. /\ v \in World /\ v.deleting = world.deleting /\ v.object = b /\ v.clientlist = l
        /\ v.pend = world.pend /\ v.owed = world.owed /\ v.excused = world.excused
        /\ v.valid = world.valid /\ v.creator = world.creator /\ v.cut = world.cut
        /\ v.closewhendone = world.closewhendone /\ v.waits = world.waits
    BY <1>1, <2>1, <2>2, <2>3 DEF World
  <2>5. Account(v, c)
    <3>1. Unsent(v, c) = 0 /\ Unsent(world, c) \in Nat
      BY <1>1, <2>2, <2>4, SoundFacts DEF Unsent, NoObject
    <3>2. world.excused[c] = {} => Unsent(world, c) = 0
      BY <1>1 DEF Account, Unsent
    <3>3. QED BY <1>1, <2>2, <2>4, <3>1, <3>2 DEF Account, NoObject
  <2>6. ASSUME NEW d \in Client \ {c} PROVE Account(v, d)
    <3>1. Account(world, d) /\ v.object[d] = world.object[d]
      BY <1>1, <2>2, <2>4 DEF Sound
    <3>2. QED BY <2>4, <3>1 DEF Account, Unsent
  <2>7. Sound(v) /\ Gone(v) /\ SamePend(world, v)
    BY <1>1, <2>1, <2>4, <2>5, <2>6 DEF Sound, Gone, SamePend
  <2>8. \A d \in Client : v.object[d].live <=> (world.object[d].live /\ d # c)
    BY <2>2, <2>4 DEF NoObject
  <2>9. Listed(v)
    BY <1>1, <2>1, <2>2, <2>4, ToSetFacts DEF Listed
  <2>10. r = (IF world.closewhendone THEN Delete(v, FALSE, world.waits) ELSE v)
    BY Zenon, <1>2 DEF Destructor, v
  <2> HIDE DEF r
  <2>11. Sound(r) /\ Gone(r) /\ SamePend(world, r) /\ Lives(v, r)
    <3>1. CASE world.closewhendone
      <4> DEFINE u == Delete(v, FALSE, world.waits)
      <4>1. Sound(u) /\ Lives(v, u) /\ SamePend(v, u) /\ (Gone(v) => Gone(u))
        BY <1>1, <2>7, <2>9, DeleteSound
      <4>2. r = u
        BY <2>10, <3>1
      <4> HIDE DEF u
      <4>3. QED BY <2>7, <4>1, <4>2 DEF SamePend
    <3>2. CASE ~world.closewhendone
      <4>1. r = v
        BY <2>10, <3>2
      <4>2. QED BY <2>7, <4>1 DEF Lives
    <3>3. QED BY <3>1, <3>2
  <2>12. QED BY <2>1, <2>4, <2>8, <2>11 DEF Lives, r
<1>3. CASE ~(c \in attached /\ context[c] = "handler")
  <2>1. r = world
    BY Zenon, <1>3 DEF Destructor
  <2>2. ~world.object[c].live /\ c \notin ToSet(world.clientlist)
    BY <1>3, LiveFacts
  <2> HIDE DEF r
  <2>3. QED BY <1>1, <2>1, <2>2 DEF SamePend, r
<1>4. QED BY <1>2, <1>3

LEMMA ReapClientStep ==
    ASSUME IInv, NEW c \in Client, ReapClient(c)
    PROVE  Core'
<1> DEFINE r == Destructor(world, c)
<1>1. /\ Core /\ world \in World /\ NoDup(world.deleting)
      /\ world.deleting \in Seq(Client \cup {Listener}) /\ context \in [Client -> {"handler", "null"}]
      /\ world.pend[c] \in Nat
  BY LiveFacts, WorldFacts DEF IInv, Frame
<1>2. c \in ToSet(world.deleting)
  <2>1. j \in 1..Len(world.deleting) /\ world.deleting[j] = c
    BY <1>1 DEF ReapClient, IInv, Frame
  <2>2. QED BY <1>1, <2>1, ToSetFacts
<1>3. /\ Sound(r) /\ Gone(r) /\ NoDup(r.clientlist) /\ SamePend(world, r)
      /\ ToSet(r.clientlist) = ToSet(world.clientlist) \ {c}
      /\ \A d \in Client : r.object[d].live <=> (world.object[d].live /\ d # c)
  BY <1>1, <1>2, DestructorFacts
<1>4. /\ attached' = attached \ {c} /\ context' = [context EXCEPT ![c] = "null"]
  BY DEF ReapClient
<1>5. \/ /\ world.pend[c] = 0 /\ draining' = draining \ {c}
         /\ world' = [r EXCEPT !.deleting = RemoveFirst(@, c),
                               !.owed[c] = 0, !.excused[c] = {}, !.cut = @ \ {c}]
      \/ world.pend[c] # 0 /\ draining' = draining \cup {c} /\ world' = r
  BY Zenon DEF ReapClient
<1> HIDE DEF r
<1>6. /\ r \in World /\ r.pend[c] = world.pend[c] /\ r.clientlist \in Seq(Client)
      /\ NoDup(r.deleting) /\ r.deleting \in Seq(Client \cup {Listener})
      /\ r.object[c] = NoObject /\ Account(r, c)
  BY <1>3, SoundFacts, WorldFacts DEF SamePend, Account
<1>7. /\ \A d \in Client : world'.object[d] = r.object[d]
      /\ world'.clientlist = r.clientlist /\ Sound(world)' /\ Gone(world)'
  <2>1. CASE /\ world.pend[c] = 0 /\ draining' = draining \ {c}
             /\ world' = [r EXCEPT !.deleting = RemoveFirst(@, c),
                                   !.owed[c] = 0, !.excused[c] = {}, !.cut = @ \ {c}]
    <3> DEFINE q == RemoveFirst(r.deleting, c)
               m == [r.owed EXCEPT ![c] = 0]
               e == [r.excused EXCEPT ![c] = {}]
               k == r.cut \ {c}
    <3>1. /\ q \in Seq(Client \cup {Listener}) /\ NoDup(q) /\ c \notin ToSet(q)
          /\ ToSet(q) \subseteq ToSet(r.deleting)
      <4>1. CASE c \in ToSet(r.deleting)
        BY <1>6, <4>1, RemoveFirstFacts
      <4>2. CASE c \notin ToSet(r.deleting)
        <5>1. q = r.deleting
          BY <1>6, <4>2 DEF RemoveFirst, ToSet
        <5>2. QED BY <1>6, <4>2, <5>1
      <4>3. QED BY <4>1, <4>2
    <3>2. /\ m \in [Client -> Nat] /\ m[c] = 0 /\ e[c] = {}
          /\ e \in [Client -> SUBSET {"peer", "forced", "full"}] /\ k \in SUBSET Client
          /\ \A d \in Client \ {c} : m[d] = r.owed[d] /\ e[d] = r.excused[d]
      BY <1>6 DEF World
    <3>3. world' = [r EXCEPT !.deleting = q, !.owed = m, !.excused = e, !.cut = k]
      <4>1. world' = [r EXCEPT !.deleting = q, !.owed[c] = 0, !.excused[c] = {}, !.cut = k]
        BY Zenon, <2>1
      <4> HIDE DEF q, k
      <4>2. [r EXCEPT !.deleting = q, !.owed[c] = 0, !.excused[c] = {}, !.cut = k]
              = [r EXCEPT !.deleting = q, !.owed = m, !.excused = e, !.cut = k]
        BY <1>6 DEF World
      <4>3. QED BY Zenon, <4>1, <4>2
    <3> HIDE DEF q, m, e, k
    <3>4. /\ world' \in World /\ world'.deleting = q /\ world'.object = r.object
          /\ world'.pend = r.pend /\ world'.owed = m /\ world'.excused = e
          /\ world'.clientlist = r.clientlist /\ world'.valid = r.valid
          /\ world'.creator = r.creator /\ world'.cut = k
      BY <1>6, <3>1, <3>2, <3>3 DEF World
    <3>5. Account(world, c)'
      BY <1>6, <2>1, <3>1, <3>2, <3>4 DEF Account, Unsent, NoObject
    <3>6. ASSUME NEW d \in Client \ {c} PROVE Account(world, d)'
      <4>1. Account(r, d)
        BY <1>3 DEF Sound
      <4>2. QED BY <1>4, <2>1, <3>1, <3>2, <3>4, <4>1 DEF Account, Unsent
    <3>7. Gone(world)'
      BY <1>3, <3>4 DEF Gone, k
    <3>8. QED BY <3>1, <3>4, <3>5, <3>6, <3>7 DEF Sound
  <2>2. CASE world.pend[c] # 0 /\ draining' = draining \cup {c} /\ world' = r
    <3>1. ASSUME NEW d \in Client PROVE Account(world, d)'
      <4>1. Account(r, d)
        BY <1>3 DEF Sound
      <4>2. QED BY <1>4, <2>2, <4>1 DEF Account, Unsent
    <3>2. Sound(world)' /\ Gone(world)'
      BY <1>3, <1>6, <2>2, <3>1 DEF Sound, Gone
    <3>3. QED BY <2>2, <3>2
  <2>3. QED BY <1>5, <2>1, <2>2
<1>8. HandlersLive'
  <2>1. IsInjective(world'.clientlist)
    BY SMTT(30), <1>3, <1>7 DEF IsInjective, NoDup
  <2>2. ASSUME NEW d \in Client
        PROVE  /\ world'.object[d].live <=> d \in ToSet(world'.clientlist)
               /\ world'.object[d].live <=> (d \in attached' /\ context'[d] = "handler")
    <3>1. world'.object[d].live <=> (world.object[d].live /\ d # c)
      BY <1>3, <1>7
    <3>2. /\ world.object[d].live <=> d \in ToSet(world.clientlist)
          /\ world.object[d].live <=> (d \in attached /\ context[d] = "handler")
      BY <1>1, LiveFacts
    <3>3. QED BY <1>1, <1>3, <1>4, <1>7, <3>1, <3>2
  <2>3. QED BY <2>1, <2>2 DEF HandlersLive
<1>9. Attached'
  BY <1>1, <1>4 DEF Core, Attached
<1>10. QED BY <1>7, <1>8, <1>9 DEF Core

LEMMA InductiveStep == IInv /\ [Next]_vars => IInv'
<1> SUFFICES ASSUME IInv, [Next]_vars PROVE Core'
  BY FrameStep DEF IInv
<1>1. Core /\ Sound(world)
  BY DEF IInv, Core
<1>2. ASSUME UNCHANGED <<attached, draining, context, world>> PROVE Core'
  <2>1. Sound(world') /\ Lives(world, world') /\ (Gone(world) => Gone(world'))
    BY <1>1, <1>2 DEF Lives
  <2>2. QED BY <1>1, <1>2, <2>1, CallStep
<1>3. CASE UNCHANGED vars \/ Process \/ EndPass \/ ReapEnds
  BY <1>2, <1>3 DEF vars, sockets, Process, EndPass, ReapEnds
<1>4. ASSUME NEW force \in BOOLEAN, CallDelete(force) PROVE Core'
  BY <1>2, <1>4 DEF sockets, CallDelete
<1>5. CASE Create \/ DeleteClient \/ DeleteEnds \/ ReapListener
  BY <1>5, LoopStep
<1>6. ASSUME NEW c \in Client, ReapClient(c) PROVE Core'
  BY <1>6, ReapClientStep
<1>7. ASSUME NEW c \in Client, NEW made \in BOOLEAN, Accept(c, made) PROVE Core'
  BY <1>7, AcceptStep
<1>8. ASSUME NEW c \in Client, NEW size \in WriteSizes, CommandWrites(c, size) PROVE Core'
  BY <1>1, <1>8, CommandStep
<1>9. ASSUME NEW c \in Client, NEW force \in BOOLEAN,
              CommandCloses(c, force) \/ CommandDeletesServer(c, force)
       PROVE  Core'
  BY <1>1, <1>9, CommandStep
<1>10. ASSUME NEW c \in Client, ReadNothing(c) PROVE Core'
  BY <1>1, <1>10, CommandStep
<1>11. ASSUME NEW c \in Client, NEW force \in BOOLEAN, CloseClient(c, force) PROVE Core'
  <2>1. /\ world.object[c].live /\ world' = Close(world, c, force)
        /\ UNCHANGED <<attached, draining, context>>
    BY <1>11 DEF CloseClient, sockets
  <2>2. QED BY <1>1, <2>1, HandlerStep
<1>12. ASSUME NEW c \in Client, WriteCallback(c) \/ NeedWrite(c) PROVE Core'
  <2>1. /\ world' = SendData(world, c) \/ world' = CloseIfNeeded(world, c)
        /\ c \in attached /\ context[c] = "handler"
        /\ UNCHANGED <<attached, draining, context>>
    BY <1>12 DEF WriteCallback, NeedWrite, sockets
  <2>2. world.object[c].live
    BY <1>1, <2>1, LiveFacts
  <2>3. QED BY <1>1, <2>1, <2>2, HandlerStep
<1>13. ASSUME NEW c \in Client, ReadFails(c) \/ SendFails(c) PROVE Core'
  BY <1>1, <1>13, FailStep
<1>14. ASSUME NEW c \in Client, NEW k \in 1..MaxSendBuffer, Send(c, k) PROVE Core'
  BY <1>1, <1>14, SendStep
<1>15. QED
  BY <1>3, <1>4, <1>5, <1>6, <1>7, <1>8, <1>9, <1>10, <1>11, <1>12, <1>13, <1>14 DEF Next

-----------------------------------------------------------------------------
(* What holds of every text server *)

LEMMA Inductive == Spec => []IInv
BY InitIInv, InductiveStep, PTL DEF Spec

\* Every list, object, counter and loop index of ATextServer, ATextHandler and
\* the socket list stays within its type.
THEOREM TypeCorrect == Spec => []TypeOK
<1>1. IInv => TypeOK
  BY DEF IInv, Frame, Core, Sound, TypeOK
<1>2. QED BY <1>1, Inductive, PTL

\* However commands, closes, accepts, failures and deletions of the server
\* interleave, a callback reaches only a live handler, and the client list
\* holds every live handler once and no freed one.
THEOREM NoFreedHandler == Spec => []HandlersLive
<1>1. IInv => HandlersLive
  BY DEF IInv, Core
<1>2. QED BY <1>1, Inductive, PTL

\* A server that has been deleted has no client it does not know of: the ones
\* still listed are those Delete(true) could not close.
THEOREM NoOrphans == Spec => []NoClientWithoutServer
<1>1. IInv => NoClientWithoutServer
  BY DEF IInv, Core, Gone, NoClientWithoutServer
<1>2. QED BY <1>1, Inductive, PTL

\* Only DeleteSockets() ends a connection, and only with an empty buffer; a
\* socket being deleted without an excuse has a closed handler with nothing
\* left to send, so all that was ever written to it is with the kernel.
THEOREM NothingLost == Spec => ClosedOnlyWhenSent
<1> DEFINE Leaves(c) == /\ c \in attached \cup draining
                        /\ c \notin attached' \cup draining'
           Ends == \A c \in Client : Leaves(c) => world.owed[c] = 0 \/ world.excused[c] # {}
<1>1. ASSUME IInv, [Next]_vars PROVE Ends
  <2>1. SUFFICES ASSUME NEW c \in Client, Leaves(c)
                 PROVE  world.owed[c] = 0 \/ world.excused[c] # {}
    OBVIOUS
  <2>2. ReapClient(c) /\ world.pend[c] = 0
    <3>1. ASSUME NEW d \in Client, ReapClient(d) PROVE ReapClient(c) /\ world.pend[c] = 0
      <4>1. attached' = attached \ {d}
            /\ \/ world.pend[d] = 0 /\ draining' = draining \ {d}
               \/ draining' = draining \cup {d}
        BY Zenon, <3>1 DEF ReapClient
      <4>2. d = c
        BY <2>1, <4>1
      <4>3. QED BY <2>1, <3>1, <4>1, <4>2
    <3>2. ASSUME attached \subseteq attached', draining \subseteq draining' PROVE FALSE
      BY <2>1, <3>2
    <3> USE DEF sockets
    <3>3. CASE \/ Create \/ Process \/ EndPass \/ DeleteClient \/ DeleteEnds \/ ReapListener
               \/ ReapEnds \/ UNCHANGED vars
      BY <3>2, <3>3 DEF Create, Process, EndPass, DeleteClient, DeleteEnds, ReapListener,
                        ReapEnds, vars
    <3>4. ASSUME NEW force \in BOOLEAN, CallDelete(force) PROVE FALSE
      BY <3>2, <3>4 DEF CallDelete
    <3>5. ASSUME NEW d \in Client, NEW made \in BOOLEAN, Accept(d, made) PROVE FALSE
      BY <3>2, <3>5 DEF Accept
    <3>6. ASSUME NEW d \in Client, NEW size \in WriteSizes, CommandWrites(d, size) PROVE FALSE
      BY <3>2, <3>6 DEF CommandWrites, ReadCallback
    <3>7. ASSUME NEW d \in Client, NEW force \in BOOLEAN,
                 CloseClient(d, force) \/ CommandCloses(d, force) \/ CommandDeletesServer(d, force)
          PROVE  FALSE
      BY <3>2, <3>7 DEF CloseClient, CommandCloses, CommandDeletesServer, ReadCallback
    <3>8. ASSUME NEW d \in Client, ReadNothing(d) \/ ReadFails(d) \/ WriteCallback(d)
                                    \/ NeedWrite(d) \/ SendFails(d)
          PROVE  FALSE
      BY <3>2, <3>8 DEF ReadNothing, ReadCallback, ReadFails, WriteCallback, NeedWrite, SendFails
    <3>9. ASSUME NEW d \in Client, NEW k \in 1..MaxSendBuffer, Send(d, k) PROVE FALSE
      BY <3>2, <3>9 DEF Send
    <3>10. QED
      BY <1>1, <3>1, <3>3, <3>4, <3>5, <3>6, <3>7, <3>8, <3>9 DEF Next
  <2>3. /\ c \in ToSet(world.deleting) /\ Account(world, c)
        /\ world.object[c].senddata \in Nat /\ world.owed[c] \in Nat
    <3>1. j \in 1..Len(world.deleting) /\ world.deleting[j] = c
          /\ world.deleting \in Seq(Client \cup {Listener})
      BY <1>1, <2>2, SoundFacts, WorldFacts DEF IInv, Core, Frame, ReapClient
    <3>2. Sound(world)
      BY <1>1 DEF IInv, Core
    <3>3. QED BY <3>1, <3>2, ToSetFacts, SoundFacts
  <2>4. world.excused[c] = {} => world.owed[c] = 0
    BY <2>2, <2>3 DEF Account, Unsent
  <2>5. QED BY <2>4
<1>2. Spec => [][Ends]_vars
  BY <1>1, Inductive, PTL DEF Spec
<1>3. QED BY <1>2 DEF ClosedOnlyWhenSent
=============================================================================
