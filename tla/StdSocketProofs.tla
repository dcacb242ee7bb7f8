--------------------------- MODULE StdSocketProofs ---------------------------
(***************************************************************************)
(* Proofs about StdSocket for any peers and bounds: the bytes of a peer    *)
(* are read in order, each once, and the end of a connection is reported   *)
(* only behind the last of them.                                           *)
(***************************************************************************)
EXTENDS StdSocket, SequenceTheorems, TLAPS

-----------------------------------------------------------------------------
(* The invariant of the bytes *)

\* l and then b are the bytes 1..m of a peer.
Split(l, b, c, m) ==
    /\ Len(l) + Len(b) = m
    /\ \A k \in 1..Len(l) : l[k] = <<c, k>>
    /\ \A k \in 1..Len(b) : b[k] = <<c, Len(l) + k>>

\* A stream without a connection holds nothing; one with a connection holds
\* what has been taken from the kernel and not yet been read.
Holds(s) ==
    IF stream[s].fd = "none" THEN stream[s].buffer = <<>>
    ELSE /\ peer[stream[s].fd].state \in {"up", "gone"}
         /\ stream[s].closed => peer[stream[s].fd].state = "gone"
         /\ Split(log[stream[s].fd], stream[s].buffer, stream[s].fd, peer[stream[s].fd].taken)

Known(c) ==
    /\ peer[c].taken <= peer[c].sent
    /\ peer[c].state \in {"away", "backlog"} => peer[c].taken = 0 /\ log[c] = <<>>
    /\ \A k \in 1..Len(log[c]) : log[c][k] = <<c, k>>

Backlogged == \E c \in Conn : peer[c].state = "backlog"

\* Which stream has a connection in which mode.
Apart ==
    /\ mode = "client" <=> stream["outer"].fd # "none"
    /\ HasClient => mode = "server"
    /\ Backlogged => mode = "server"

Held == (\A s \in {"outer", "client"} : Holds(s)) /\ (\A c \in Conn : Known(c))

-----------------------------------------------------------------------------
(* The invariant of the calls *)

Rests == {"available", "queued", "read", "write", "close"}
Lasts == Rests \cup {"clientavailable", "clientqueued", "closed"}
PartNames == Lasts \cup {"pass", "flush", "unhandle", "forget", "closeclient"}

\* Where in a call its parts stand, counted from its end.
Part(t, k) ==
    /\ t[k] \in Lasts => k = Len(t)
    /\ t[k] = "pass" => k = Len(t) \/ t[k + 1] # "close"
    /\ t[k] = "flush" => k = Len(t) \/ t[k + 1] \in {"unhandle", "closeclient"}
    /\ t[k] = "unhandle" =>
         k + 3 = Len(t) /\ t[k + 1] = "pass" /\ t[k + 2] = "forget"
    /\ t[k] = "forget" => k + 1 = Len(t) /\ t[k + 1] \in Rests
    /\ t[k] = "closeclient" => k + 1 = Len(t) /\ t[k + 1] = "close"

\* A client stream has not yet returned anything.
Unanswered == mode = "client" => result = 0

\* What a part relies on when it is reached.
Relies(t, k) ==
    /\ t[k] \in {"unhandle", "forget", "clientavailable", "clientqueued"} => HasClient
    /\ t[k] = "forget" /\ t[k + 1] \notin GivesUp => Ends("client")
    /\ t[k] = "close" /\ k = 1 => ~HasClient
    /\ t[k] = "closed" => ~HasClient /\ ~Backlogged
    /\ t[k] \in {"read", "available"} => Unanswered

Calls ==
    /\ todo \in Seq(PartNames)
    /\ mode = "closed" => todo = <<>>
    /\ \A k \in 1..Len(todo) : Part(todo, k) /\ Relies(todo, k)

IInv == TypeOK /\ Held /\ Apart /\ Calls

-----------------------------------------------------------------------------
(* Numbered bytes *)

Following(x, c, m) == \A i \in 1..Len(x) : x[i] = <<c, m + i>>

\* readcallback: the next bytes go behind those in the buffer.
LEMMA SplitStored ==
    ASSUME NEW S, NEW l \in Seq(S), NEW b \in Seq(S), NEW x \in Seq(S),
           NEW c, NEW m \in Nat, Split(l, b, c, m), Following(x, c, m)
    PROVE  Stored(b, x) \in Seq(S) /\ Split(l, Stored(b, x), c, m + Len(x))
<1> DEFINE k == Len(x)
<1>1. Stored(b, x) \in Seq(S) /\ Len(Stored(b, x)) = Len(b) + k
  BY DEF Stored
<1>2. ASSUME NEW i \in 1..(Len(b) + k) PROVE Stored(b, x)[i] = <<c, Len(l) + i>>
  <2>1. Len(l) \in Nat /\ Len(b) \in Nat /\ Len(l) + Len(b) = m
    BY DEF Split
  <2>2. CASE i <= Len(b)
    <3>1. Stored(b, x)[i] = b[i] /\ i \in 1..Len(b)
      BY <2>1, <2>2 DEF Stored
    <3>2. QED BY <3>1 DEF Split
  <2>3. CASE i > Len(b)
    <3>1. Stored(b, x)[i] = x[i - Len(b)] /\ i - Len(b) \in 1..k
      BY <2>1, <2>3 DEF Stored
    <3>2. m + (i - Len(b)) = Len(l) + i
      BY <2>1
    <3>3. QED BY <3>1, <3>2 DEF Following
  <2>4. QED BY <2>1, <2>2, <2>3
<1> HIDE DEF k
<1>3. Len(l) + (Len(b) + k) = m + k
  BY DEF Split, k
<1>4. \A i \in 1..Len(l) : l[i] = <<c, i>>
  BY DEF Split
<1>5. QED BY <1>1, <1>2, <1>3, <1>4 DEF Split, k

\* readdata(): a byte moves from the buffer to the application.
LEMMA SplitTaken ==
    ASSUME NEW S, NEW l \in Seq(S), NEW b \in Seq(S), NEW c, NEW m \in Nat,
           Split(l, b, c, m), b # <<>>
    PROVE  /\ Head(b) = <<c, Len(l) + 1>> /\ Head(b) \in S /\ Tail(b) \in Seq(S)
           /\ Append(l, Head(b)) \in Seq(S)
           /\ Split(Append(l, Head(b)), Tail(b), c, m)
<1>1. Len(b) \in Nat /\ Len(b) # 0 /\ Head(b) = b[1] /\ Head(b) \in S /\ Tail(b) \in Seq(S)
      /\ Len(Tail(b)) = Len(b) - 1
      /\ \A k \in 1..(Len(b) - 1) : Tail(b)[k] = b[k + 1]
  OBVIOUS
<1>2. Head(b) = <<c, Len(l) + 1>>
  BY <1>1 DEF Split
<1> DEFINE a == Append(l, Head(b))
<1>3. a \in Seq(S) /\ Len(a) = Len(l) + 1 /\ a[Len(l) + 1] = Head(b)
      /\ \A k \in 1..Len(l) : a[k] = l[k]
  BY <1>1
<1> HIDE DEF a
<1>4. ASSUME NEW k \in 1..(Len(l) + 1) PROVE a[k] = <<c, k>>
  <2>1. CASE k \in 1..Len(l)
    BY <1>3, <2>1 DEF Split
  <2>2. CASE k = Len(l) + 1
    BY <1>2, <1>3, <2>2
  <2>3. QED BY <2>1, <2>2
<1>5. ASSUME NEW k \in 1..(Len(b) - 1) PROVE Tail(b)[k] = <<c, Len(l) + 1 + k>>
  <2>1. k + 1 \in 1..Len(b) /\ Tail(b)[k] = b[k + 1] /\ Len(l) + (k + 1) = Len(l) + 1 + k
    BY <1>1
  <2>2. QED BY <2>1 DEF Split
<1>6. Split(a, Tail(b), c, m)
  <2>1. Len(a) + Len(Tail(b)) = m
    <3>1. Len(l) \in Nat /\ Len(l) + Len(b) = m
      BY DEF Split
    <3>2. QED BY <1>1, <1>3, <3>1
  <2>2. QED BY <1>1, <1>3, <1>4, <1>5, <2>1 DEF Split
<1>7. QED BY <1>1, <1>2, <1>3, <1>6 DEF a

\* What Split() says of the two together.
LEMMA SplitWhole ==
    ASSUME NEW S, NEW l \in Seq(S), NEW b \in Seq(S), NEW c, NEW m \in Nat, Split(l, b, c, m)
    PROVE  l \o b = [k \in 1..m |-> <<c, k>>]
<1> DEFINE w == l \o b
<1>1. w \in Seq(S) /\ Len(w) = m
  BY DEF Split
<1>2. ASSUME NEW k \in 1..m PROVE w[k] = <<c, k>>
  <2>1. CASE k <= Len(l)
    BY <2>1 DEF Split
  <2>2. CASE k > Len(l)
    <3>1. w[k] = b[k - Len(l)] /\ k - Len(l) \in 1..Len(b)
      BY <2>2 DEF Split
    <3>2. Len(l) + (k - Len(l)) = k
      OBVIOUS
    <3> DEFINE i == k - Len(l)
    <3>3. b[i] = <<c, Len(l) + i>>
      BY <3>1 DEF Split
    <3>4. QED BY <3>1, <3>2, <3>3
  <2>3. Len(l) \in Nat
    OBVIOUS
  <2> HIDE DEF w
  <2>4. QED BY <2>1, <2>2, <2>3
<1> HIDE DEF w
<1>3. w = [k \in 1..Len(w) |-> w[k]]
  BY <1>1
<1>4. QED BY <1>1, <1>2, <1>3 DEF w

-----------------------------------------------------------------------------
(* Types *)

LEMMA Fields ==
    ASSUME TypeOK
    PROVE  /\ \A c \in Conn :
                /\ peer[c] \in Peers /\ peer[c].state \in {"away", "backlog", "up", "gone"}
                /\ peer[c].sent \in 0..MaxSent /\ peer[c].taken \in 0..MaxSent
                /\ peer[c].fin \in {"no", "eof", "reset"}
                /\ pend[c] \in 0..MaxOut /\ log[c] \in Seq(Conn \X (1..MaxSent))
           /\ \A s \in {"outer", "client"} :
                /\ stream[s] \in Streams /\ stream[s].fd \in Conn \cup {"none"}
                /\ stream[s].closed \in BOOLEAN
                /\ stream[s].buffer \in Seq(Conn \X (1..MaxSent))
           /\ DOMAIN stream = {"outer", "client"}
<1>1. \A c \in Conn : peer[c] \in Peers /\ pend[c] \in 0..MaxOut
                      /\ log[c] \in Seq(Conn \X (1..MaxSent))
  BY DEF TypeOK
<1>2. \A s \in {"outer", "client"} : stream[s] \in Streams
  BY DEF TypeOK
<1>3. DOMAIN stream = {"outer", "client"}
  BY DEF TypeOK
<1>4. QED BY <1>1, <1>2, <1>3 DEF Peers, Streams

\* A buffer holds no more than a peer has sent.
LEMMA BufferRange ==
    ASSUME TypeOK, Held, NEW s \in {"outer", "client"}
    PROVE  Len(stream[s].buffer) \in 0..MaxSent
<1>1. Holds(s) /\ stream[s].buffer \in Seq(Conn \X (1..MaxSent))
  BY Fields DEF Held
<1>2. CASE stream[s].fd = "none"
  <2>1. stream[s].buffer = <<>>
    BY <1>1, <1>2 DEF Holds
  <2>2. QED BY <2>1, StdSocketAssumption DEF StdSocketAssumption
<1>3. CASE stream[s].fd # "none"
  <2> DEFINE c == stream[s].fd
  <2>1. c \in Conn /\ log[c] \in Seq(Conn \X (1..MaxSent)) /\ peer[c].taken \in 0..MaxSent
    BY <1>3, Fields
  <2>2. Len(log[c]) + Len(stream[s].buffer) = peer[c].taken
    BY <1>1, <1>3 DEF Holds, Split
  <2> DEFINE p == Len(log[c])
             q == Len(stream[s].buffer)
             m == peer[c].taken
  <2>3. p \in Nat
    BY <2>1
  <2>4. q \in Nat
    BY <1>1
  <2>5. p + q = m /\ m \in 0..MaxSent /\ MaxSent \in Nat
    BY <2>1, <2>2, StdSocketAssumption DEF StdSocketAssumption
  <2> HIDE DEF p, q, m
  <2>6. q \in 0..MaxSent
    BY <2>3, <2>4, <2>5
  <2>7. QED BY <2>6 DEF q
<1>4. QED BY <1>2, <1>3

LEMMA NewStream ==
    ASSUME NEW c \in Conn
    PROVE  /\ [NoStream EXCEPT !.fd = c] \in Streams
           /\ [NoStream EXCEPT !.fd = c].fd = c
           /\ [NoStream EXCEPT !.fd = c].closed = FALSE
           /\ [NoStream EXCEPT !.fd = c].buffer = <<>>
<1>1. NoStream \in Streams /\ NoStream.closed = FALSE /\ NoStream.buffer = <<>>
  BY DEF NoStream, Streams
<1>2. QED BY <1>1 DEF Streams

\* What actions do to the record of a peer.
SetState(c, x) == [peer EXCEPT ![c].state = x]
SetSent(c, x) == [peer EXCEPT ![c].sent = x]
SetTaken(c, x) == [peer EXCEPT ![c].taken = x]

LEMMA PeerFacts ==
    ASSUME TypeOK, NEW c \in Conn
    PROVE  /\ \A x \in {"away", "backlog", "up", "gone"} : SetState(c, x) \in [Conn -> Peers]
           /\ \A x \in 0..MaxSent : SetSent(c, x) \in [Conn -> Peers]
           /\ \A x \in 0..MaxSent : SetTaken(c, x) \in [Conn -> Peers]
<1>1. peer \in [Conn -> Peers]
  BY DEF TypeOK
<1>2. ASSUME NEW x \in {"away", "backlog", "up", "gone"}
      PROVE  SetState(c, x) \in [Conn -> Peers]
  BY <1>1 DEF SetState, Peers
<1>3. ASSUME NEW x \in 0..MaxSent PROVE SetSent(c, x) \in [Conn -> Peers]
  BY <1>1 DEF SetSent, Peers
<1>4. ASSUME NEW x \in 0..MaxSent PROVE SetTaken(c, x) \in [Conn -> Peers]
  BY <1>1 DEF SetTaken, Peers
<1>5. QED BY <1>2, <1>3, <1>4

LEMMA TypeStep == IInv /\ [Next]_vars => TypeOK'
<1> SUFFICES ASSUME TypeOK, Held, Apart, Calls, [Next]_vars PROVE TypeOK'
  BY DEF IInv
<1>0. /\ peer \in [Conn -> Peers] /\ pend \in [Conn -> 0..MaxOut] /\ deleting \subseteq Conn
      /\ mode \in {"closed", "client", "server"}
      /\ stream \in [{"outer", "client"} -> Streams]
      /\ result \in -1..(MaxSent + MaxOut)
      /\ log \in [Conn -> Seq(Conn \X (1..MaxSent))]
      /\ MaxSent \in Nat /\ MaxOut \in Nat /\ "none" \notin Conn
  BY StdSocketAssumption DEF TypeOK, StdSocketAssumption
<1>1. /\ -1 \in -1..(MaxSent + MaxOut) /\ 0 \in -1..(MaxSent + MaxOut)
      /\ \A k \in 0..MaxSent : k \in -1..(MaxSent + MaxOut)
      /\ \A k \in 0..MaxOut : k \in -1..(MaxSent + MaxOut)
  BY <1>0
<1>2. NoStream \in Streams
  BY DEF NoStream, Streams
<1>3. ASSUME UNCHANGED <<peer, pend, deleting, mode, stream, log>>,
             result' \in -1..(MaxSent + MaxOut)
      PROVE  TypeOK'
  BY <1>0, <1>3 DEF TypeOK
<1>4. ASSUME NEW c \in Conn, Connect(c) \/ PeerSends(c) PROVE TypeOK'
  <2>1. UNCHANGED <<pend, deleting, mode, stream, result, log>>
    BY <1>4 DEF Connect, PeerSends
  <2>2. peer' \in [Conn -> Peers]
    <3>1. CASE Connect(c)
      BY <3>1, PeerFacts DEF Connect, SetState
    <3>2. CASE PeerSends(c)
      <4>1. peer' = SetSent(c, peer[c].sent + 1)
        BY Zenon, <3>2 DEF PeerSends, SetSent
      <4>2. peer[c].sent + 1 \in 0..MaxSent
        BY SMTT(30), <1>0, <3>2, Fields DEF PeerSends
      <4>3. QED BY <4>1, <4>2, PeerFacts
    <3>3. QED BY <1>4, <3>1, <3>2
  <2>3. QED BY <1>0, <2>1, <2>2 DEF TypeOK
<1>5. ASSUME NEW c \in Conn, NEW how \in {"eof", "reset"}, PeerEnds(c, how) PROVE TypeOK'
  <2>1. peer' = [peer EXCEPT ![c].fin = how]
        /\ UNCHANGED <<pend, deleting, mode, stream, result, log>>
    BY <1>5 DEF PeerEnds
  <2>2. peer' \in [Conn -> Peers]
    BY ZenonT(60), <1>0, <2>1 DEF Peers
  <2>3. QED BY <1>0, <2>1, <2>2 DEF TypeOK
<1>6. ASSUME NEW c \in Conn, OpenClient(c) PROVE TypeOK'
  <2>1. /\ mode' = "client" /\ stream' = [stream EXCEPT !["outer"] = [NoStream EXCEPT !.fd = c]]
        /\ peer' = [peer EXCEPT ![c].state = "up"]
        /\ UNCHANGED <<pend, deleting, result, log>>
    BY <1>6 DEF OpenClient
  <2>2. peer' \in [Conn -> Peers] /\ [NoStream EXCEPT !.fd = c] \in Streams
    BY <2>1, PeerFacts, NewStream DEF SetState
  <2>3. stream' \in [{"outer", "client"} -> Streams]
    BY <1>0, <2>1, <2>2
  <2>4. QED BY <1>0, <2>1, <2>2, <2>3 DEF TypeOK
<1>7. CASE OpenServer \/ Closed
  <2>1. /\ mode' \in {"closed", "client", "server"}
        /\ stream' = [stream EXCEPT !["outer"] = NoStream]
        /\ result' \in {0, result}
        /\ UNCHANGED <<peer, pend, deleting, log>>
    BY <1>7 DEF OpenServer, Closed, Returns
  <2>2. stream' \in [{"outer", "client"} -> Streams]
    BY <1>0, <1>2, <2>1
  <2>3. QED BY <1>0, <1>1, <2>1, <2>2 DEF TypeOK
<1>8. CASE BytesAvailable \/ BytesQueued \/ Flush \/ Read \/ Write \/ Close
  BY <1>1, <1>3, <1>8 DEF BytesAvailable, BytesQueued, Flush, Read, Write, Close, Call
<1>9. CASE EndPass
  <2>1. /\ peer' = [c \in Conn |-> IF c \in deleting THEN [peer[c] EXCEPT !.state = "gone"] ELSE peer[c]]
        /\ pend' = [c \in Conn |-> IF c \in deleting THEN 0 ELSE pend[c]]
        /\ stream' = [s \in DOMAIN stream |->
                    IF stream[s].fd \in deleting THEN [stream[s] EXCEPT !.closed = TRUE]
                    ELSE stream[s]]
        /\ deleting' = {} /\ UNCHANGED <<mode, result, log>>
    BY <1>9 DEF EndPass
  <2>2. peer' \in [Conn -> Peers]
    BY ZenonT(60), <1>0, <2>1 DEF Peers
  <2>3. pend' \in [Conn -> 0..MaxOut]
    BY <1>0, <2>1
  <2>4. stream' \in [{"outer", "client"} -> Streams]
    BY ZenonT(60), <1>0, <2>1 DEF Streams
  <2>5. QED BY <1>0, <2>1, <2>2, <2>3, <2>4 DEF TypeOK
<1>10. ASSUME NEW s \in {"outer", "client"}, NEW k \in 1..MaxSent, ReadCallback(s, k) PROVE TypeOK'
  <2> DEFINE c == stream[s].fd
             x == [i \in 1..k |-> <<c, peer[c].taken + i>>]
  <2>1. /\ c \in Conn /\ k \in 1..(peer[c].sent - peer[c].taken)
        /\ stream' = [stream EXCEPT ![s].buffer = Stored(stream[s].buffer, x)]
        /\ peer' = [peer EXCEPT ![c].taken = @ + k]
        /\ UNCHANGED <<pend, deleting, mode, result, log>>
    BY <1>0, <1>10, Fields DEF ReadCallback
  <2>2. peer[c].taken \in 0..MaxSent /\ peer[c].sent \in 0..MaxSent
    BY <2>1, Fields
  <2>3. x \in Seq(Conn \X (1..MaxSent))
    <3> DEFINE m == peer[c].taken
    <3>1. m \in 0..MaxSent /\ k \in 1..(peer[c].sent - m) /\ peer[c].sent \in 0..MaxSent
      BY <2>1, <2>2
    <3> HIDE DEF m, c
    <3>2. \A i \in 1..k : m + i \in 1..MaxSent
      BY <1>0, <3>1
    <3>3. \A i \in 1..k : <<c, m + i>> \in Conn \X (1..MaxSent)
      BY <2>1, <3>2
    <3>4. k \in Nat
      OBVIOUS
    <3>5. QED BY <3>3, <3>4 DEF m
  <2> HIDE DEF x
  <2>4. Stored(stream[s].buffer, x) \in Seq(Conn \X (1..MaxSent))
    BY <2>3, Fields DEF Stored
  <2>5. stream' \in [{"outer", "client"} -> Streams]
    BY ZenonT(60), <1>0, <2>1, <2>4 DEF Streams
  <2>6. peer' \in [Conn -> Peers]
    <3>1. peer' = SetTaken(c, peer[c].taken + k)
      BY Zenon, <2>1 DEF SetTaken
    <3> HIDE DEF c
    <3>2. c \in Conn /\ peer[c].taken + k \in 0..MaxSent
      BY SMTT(30), <1>0, <2>1, <2>2
    <3>3. QED BY <3>1, <3>2, PeerFacts
  <2>7. QED BY <1>0, <2>1, <2>5, <2>6 DEF TypeOK
<1>11. ASSUME NEW c \in Conn, Accept(c) PROVE TypeOK'
  <2>1. /\ peer' = [peer EXCEPT ![c].state = "up"]
        /\ \/ deleting' = deleting \cup {c} /\ stream' = stream
           \/ /\ stream' = [stream EXCEPT !["client"] = [NoStream EXCEPT !.fd = c]]
              /\ deleting' = deleting
        /\ UNCHANGED <<pend, mode, result, log>>
    BY <1>11 DEF Accept
  <2>2. peer' \in [Conn -> Peers] /\ [NoStream EXCEPT !.fd = c] \in Streams
    BY <2>1, PeerFacts, NewStream DEF SetState
  <2>3. stream' \in [{"outer", "client"} -> Streams]
    BY <1>0, <2>1, <2>2
  <2>4. QED BY <1>0, <2>1, <2>2, <2>3 DEF TypeOK
<1>12. ASSUME NEW c \in Conn, Fails(c) \/ Send(c) PROVE TypeOK'
  <2>1. /\ pend' = [pend EXCEPT ![c] = 0] \/ (pend[c] > 0 /\ pend' = [pend EXCEPT ![c] = @ - 1])
        /\ deleting' \subseteq Conn /\ UNCHANGED <<peer, mode, stream, result, log>>
    BY <1>0, <1>12 DEF Fails, Send
  <2>2. pend' \in [Conn -> 0..MaxOut]
    <3>1. pend[c] \in 0..MaxOut
      BY Fields
    <3>2. CASE pend' = [pend EXCEPT ![c] = 0]
      BY <1>0, <3>2
    <3>3. CASE pend[c] > 0 /\ pend' = [pend EXCEPT ![c] = @ - 1]
      BY <1>0, <3>1, <3>3
    <3>4. QED BY <2>1, <3>2, <3>3
  <2>3. QED BY <1>0, <2>1, <2>2 DEF TypeOK
<1>13. CASE Unhandle \/ CloseHandler
  <2>1. /\ \/ \E c \in Conn \cup {"none"} : Gone(c)
           \/ /\ peer' = [c \in Conn |-> IF peer[c].state = "backlog"
                                        THEN [peer[c] EXCEPT !.state = "gone"] ELSE peer[c]]
              /\ UNCHANGED <<pend, stream>>
        /\ UNCHANGED <<deleting, mode, result, log>>
    BY <1>13, Fields DEF Unhandle, CloseHandler
  <2>2. ASSUME NEW c \in Conn \cup {"none"}, Gone(c) PROVE TypeOK'
    <3>1. /\ peer' = [peer EXCEPT ![c].state = "gone"]
          /\ pend' = [pend EXCEPT ![c] = 0]
          /\ stream' = [s \in DOMAIN stream |->
                    IF stream[s].fd = c THEN [stream[s] EXCEPT !.closed = TRUE] ELSE stream[s]]
      BY <2>2 DEF Gone
    <3>2. peer' \in [Conn -> Peers]
      <4>1. CASE c \in Conn
        BY <3>1, <4>1, PeerFacts DEF SetState
      <4>2. CASE c \notin Conn
        BY <1>0, <3>1, <4>2
      <4>3. QED BY <4>1, <4>2
    <3>3. pend' \in [Conn -> 0..MaxOut]
      <4>1. CASE c \in Conn
        BY <1>0, <3>1, <4>1
      <4>2. CASE c \notin Conn
        BY <1>0, <3>1, <4>2
      <4>3. QED BY <4>1, <4>2
    <3>4. stream' \in [{"outer", "client"} -> Streams]
      BY ZenonT(60), <1>0, <3>1 DEF Streams
    <3>5. QED BY <1>0, <2>1, <3>2, <3>3, <3>4 DEF TypeOK
  <2>3. CASE /\ peer' = [c \in Conn |-> IF peer[c].state = "backlog"
                                        THEN [peer[c] EXCEPT !.state = "gone"] ELSE peer[c]]
             /\ UNCHANGED <<pend, stream>>
    <3>1. peer' \in [Conn -> Peers]
      BY ZenonT(60), <1>0, <2>3 DEF Peers
    <3>2. QED BY <1>0, <2>1, <2>3, <3>1 DEF TypeOK
  <2>4. QED BY <2>1, <2>2, <2>3
<1>14. CASE Forget
  <2>1. stream' = [stream EXCEPT !["client"] = NoStream]
        /\ UNCHANGED <<peer, pend, deleting, mode, result, log>>
    BY <1>14 DEF Forget
  <2>2. stream' \in [{"outer", "client"} -> Streams]
    BY <1>0, <1>2, <2>1
  <2>3. QED BY <1>0, <2>1, <2>2 DEF TypeOK
<1>15. CASE Available \/ AskClient \/ ClientAvailable
  <2>1. Len(stream["outer"].buffer) \in 0..MaxSent /\ Len(stream["client"].buffer) \in 0..MaxSent
    BY BufferRange
  <2>2. result' \in {-1, Len(stream["outer"].buffer), Len(stream["client"].buffer), result}
    BY <1>15 DEF Available, AskClient, ClientAvailable, Returns
  <2>3. UNCHANGED <<peer, pend, deleting, mode, stream, log>>
    BY <1>15 DEF Available, AskClient, ClientAvailable
  <2>4. QED BY <1>0, <1>1, <1>3, <2>1, <2>2, <2>3
<1>16. ASSUME NEW s \in {"outer", "client"}
       PROVE  Queued(s) \in -1..(MaxSent + MaxOut)
  <2>1. stream[s].fd \in Conn => pend[stream[s].fd] \in 0..MaxOut
    BY Fields
  <2>2. QED BY <1>1, <2>1, Fields DEF Queued, BytesLeftToWrite
<1>17. CASE OuterQueued \/ AskClientQueued \/ ClientQueued
  <2>1. result' \in {0, Queued("outer"), Queued("client"), result}
    BY <1>17 DEF OuterQueued, AskClientQueued, ClientQueued, Returns
  <2>2. UNCHANGED <<peer, pend, deleting, mode, stream, log>>
    BY <1>17 DEF OuterQueued, AskClientQueued, ClientQueued
  <2>3. QED BY <1>0, <1>1, <1>3, <1>16, <2>1, <2>2
<1>18. CASE ReadData
  <2>1. \/ result' \in {-1, 0, result} /\ UNCHANGED <<stream, log>>
        \/ \E s \in {"outer", "client"} : stream[s].buffer # <<>> /\ TakeByte(s)
    BY <1>18 DEF ReadData, Returns
  <2>2. UNCHANGED <<peer, pend, deleting, mode>>
    BY <1>18 DEF ReadData
  <2>3. CASE result' \in {-1, 0, result} /\ UNCHANGED <<stream, log>>
    BY <1>0, <1>1, <1>3, <2>2, <2>3
  <2>4. ASSUME NEW s \in {"outer", "client"}, stream[s].buffer # <<>>, TakeByte(s)
        PROVE  TypeOK'
    <3> DEFINE b == stream[s].buffer
               byte == Head(b)
    <3>1. b \in Seq(Conn \X (1..MaxSent)) /\ Len(b) \in 0..MaxSent
      BY BufferRange, Fields
    <3>2. /\ byte \in Conn \X (1..MaxSent) /\ Tail(b) \in Seq(Conn \X (1..MaxSent))
          /\ 1 \in -1..(MaxSent + MaxOut)
      BY <1>0, <2>4, <3>1
    <3>3. log' = [log EXCEPT ![byte[1]] = Append(@, byte)]
          /\ stream' = [stream EXCEPT ![s].buffer = Tail(b)] /\ result' = 1
      BY <2>4 DEF TakeByte, Returns
    <3> HIDE DEF byte, b
    <3>4. log' \in [Conn -> Seq(Conn \X (1..MaxSent))]
      BY SMTT(30), <1>0, <3>2, <3>3
    <3>5. stream' \in [{"outer", "client"} -> Streams]
      BY ZenonT(60), <1>0, <3>2, <3>3 DEF Streams
    <3>6. QED BY <1>0, <2>2, <3>2, <3>3, <3>4, <3>5 DEF TypeOK
  <2>5. QED BY <2>1, <2>3, <2>4
<1>19. CASE WriteClient \/ WriteOuter
  <2>1. UNCHANGED <<peer, deleting, mode, stream, log>>
    BY <1>19 DEF WriteClient, WriteOuter
  <2>2. \/ result' = 0 /\ pend' = pend
        \/ \E s \in {"outer", "client"} : stream[s].fd # "none" /\ PutByte(s)
        \/ result' = -1 /\ pend' = pend
    <3>1. CASE WriteClient
      BY <3>1 DEF WriteClient, HasClient
    <3>2. CASE WriteOuter /\ mode = "client"
      BY <3>2 DEF WriteOuter, Apart
    <3>3. CASE WriteOuter /\ mode = "server"
      BY <3>3 DEF WriteOuter
    <3>4. mode # "closed"
      BY <1>19 DEF WriteClient, WriteOuter, At, Calls
    <3>5. QED BY <1>0, <1>19, <3>1, <3>2, <3>3, <3>4
  <2>3. ASSUME NEW s \in {"outer", "client"}, stream[s].fd # "none", PutByte(s)
        PROVE  pend' \in [Conn -> 0..MaxOut] /\ result' \in -1..(MaxSent + MaxOut)
    <3> DEFINE c == stream[s].fd
    <3>1. c \in Conn /\ pend[c] \in 0..MaxOut
      BY <2>3, Fields
    <3>2. \/ pend[c] < MaxOut /\ pend' = [pend EXCEPT ![c] = @ + 1] /\ result' = 1
          \/ pend' = pend /\ result' \in {-1, 0}
      BY Zenon, <2>3 DEF PutByte
    <3> HIDE DEF c
    <3>3. QED BY <1>0, <1>1, <3>1, <3>2
  <2>4. pend' \in [Conn -> 0..MaxOut] /\ result' \in -1..(MaxSent + MaxOut)
    BY <1>0, <1>1, <2>2, <2>3
  <2>5. QED BY <1>0, <2>1, <2>4 DEF TypeOK
<1>20. CASE FlushData \/ CloseClient
  <2>1. result' \in {-1, 0, result} /\ UNCHANGED <<peer, pend, deleting, mode, stream, log>>
    BY <1>20 DEF FlushData, CloseClient, Returns
  <2>2. QED BY <1>0, <1>1, <1>3, <2>1
<1>21. CASE UNCHANGED vars
  BY <1>0, <1>3, <1>21 DEF vars
<1>22. DOMAIN stream = {"outer", "client"}
  BY Fields
<1>23. QED
  BY <1>4, <1>5, <1>6, <1>7, <1>8, <1>9, <1>10, <1>11, <1>12, <1>13, <1>14, <1>15, <1>17,
     <1>18, <1>19, <1>20, <1>21, <1>22 DEF Next, Callbacks, Parts

-----------------------------------------------------------------------------
(* The bytes *)

\* Steps that move no byte: connections come, go and end, streams are closed.
QuietPeer(c) ==
    /\ peer'[c].taken = peer[c].taken /\ peer'[c].sent >= peer[c].sent
    /\ peer'[c].state \in {"away", "backlog"} => peer[c].state \in {"away", "backlog"}
    /\ peer[c].state \in {"up", "gone"} => peer'[c].state \in {"up", "gone"}
    /\ peer[c].state = "gone" => peer'[c].state = "gone"

QuietStream(s) ==
    /\ stream'[s].fd = stream[s].fd /\ stream'[s].buffer = stream[s].buffer
    /\ stream'[s].closed /\ ~stream[s].closed /\ stream[s].fd \in Conn
         => peer'[stream[s].fd].state = "gone"

\* What a stream's connection looks like.
Connected(s, c) ==
    /\ peer[c].state \in {"up", "gone"}
    /\ stream[s].closed => peer[c].state = "gone"
    /\ Split(log[c], stream[s].buffer, c, peer[c].taken)

LEMMA HoldsForms ==
    /\ \A s : stream[s].fd = "none" => (Holds(s) <=> stream[s].buffer = <<>>)
    /\ \A s : stream[s].fd # "none" => (Holds(s) <=> Connected(s, stream[s].fd))
<1>1. ASSUME NEW s, stream[s].fd = "none" PROVE Holds(s) <=> stream[s].buffer = <<>>
  BY Zenon, <1>1 DEF Holds
<1>2. ASSUME NEW s, stream[s].fd # "none" PROVE Holds(s) <=> Connected(s, stream[s].fd)
  BY Zenon, <1>2 DEF Holds, Connected
<1>3. QED BY <1>1, <1>2

LEMMA QuietHolds ==
    ASSUME TypeOK, NEW s \in {"outer", "client"}, Holds(s), UNCHANGED log, QuietStream(s),
           \A c \in Conn : QuietPeer(c)
    PROVE  Holds(s)'
<1>1. stream[s].fd \in Conn \cup {"none"} /\ stream[s].closed \in BOOLEAN
  BY Fields
<1>2. stream'[s].fd = stream[s].fd /\ stream'[s].buffer = stream[s].buffer
  BY DEF QuietStream
<1>3. CASE stream[s].fd = "none"
  BY <1>2, <1>3, HoldsForms DEF Holds
<1>4. CASE stream[s].fd # "none"
  <2>1. PICK c \in Conn : c = stream[s].fd /\ Connected(s, c) /\ QuietPeer(c)
    BY <1>1, <1>4, HoldsForms
  <2>2. /\ peer'[c].state \in {"up", "gone"} /\ peer'[c].taken = peer[c].taken
        /\ stream'[s].closed => peer'[c].state = "gone"
    BY <1>1, <2>1 DEF Connected, QuietPeer, QuietStream
  <2>3. Split(log'[c], stream'[s].buffer, c, peer'[c].taken)
    BY <1>2, <2>1, <2>2 DEF Connected
  <2>4. QED BY <1>2, <1>4, <2>1, <2>2, <2>3 DEF Holds
<1>5. QED BY <1>3, <1>4

LEMMA QuietKnown ==
    ASSUME TypeOK, NEW c \in Conn, Known(c), UNCHANGED log, QuietPeer(c), peer'[c].sent \in Int
    PROVE  Known(c)'
<1>1. /\ peer[c].taken \in Int /\ peer[c].sent \in Int /\ peer'[c].sent >= peer[c].sent
      /\ peer'[c].taken = peer[c].taken
      /\ peer'[c].state \in {"away", "backlog"} => peer[c].state \in {"away", "backlog"}
  BY Fields DEF QuietPeer
<1>2. peer'[c].taken <= peer'[c].sent
  BY <1>1 DEF Known
<1>3. log'[c] = log[c]
  OBVIOUS
<1>4. QED BY <1>1, <1>2, <1>3 DEF Known

LEMMA Quiet ==
    ASSUME TypeOK, TypeOK', Held, UNCHANGED log, \A c \in Conn : QuietPeer(c),
           \A s \in {"outer", "client"} : QuietStream(s)
    PROVE  Held'
<1>1. \A c \in Conn : peer'[c].sent \in Int
  BY DEF TypeOK, Peers
<1>2. \A s \in {"outer", "client"} : Holds(s)'
  BY QuietHolds DEF Held
<1>3. \A c \in Conn : Known(c)'
  BY <1>1, QuietKnown DEF Held
<1>4. QED BY <1>2, <1>3 DEF Held

\* A stream that gets a new value, while no other byte moves.
LEMMA Replaced ==
    ASSUME TypeOK, TypeOK', Held, UNCHANGED log, NEW s \in {"outer", "client"},
           \A c \in Conn : QuietPeer(c),
           \A t \in {"outer", "client"} \ {s} : QuietStream(t),
           Holds(s)'
    PROVE  Held'
<1>1. \A c \in Conn : peer'[c].sent \in Int
  BY DEF TypeOK, Peers
<1>2. ASSUME NEW t \in {"outer", "client"} PROVE Holds(t)'
  <2>1. CASE t = s
    BY <2>1
  <2>2. CASE t # s
    BY <2>2, QuietHolds DEF Held
  <2>3. QED BY <2>1, <2>2
<1>3. \A c \in Conn : Known(c)'
  BY <1>1, QuietKnown DEF Held
<1>4. QED BY <1>2, <1>3 DEF Held

\* A stream of a connection that nothing has been read from.
LEMMA Fresh ==
    ASSUME TypeOK, NEW c \in Conn, Known(c), peer[c].state \in {"away", "backlog"},
           NEW s \in {"outer", "client"}, stream' = [stream EXCEPT ![s] = [NoStream EXCEPT !.fd = c]],
           peer' = [peer EXCEPT ![c].state = "up"], UNCHANGED log
    PROVE  Holds(s)'
<1> DEFINE r == [NoStream EXCEPT !.fd = c]
<1>1. r.fd = c /\ ~r.closed /\ r.buffer = <<>>
  BY NewStream
<1>2. stream'[s] = r
  BY DEF TypeOK
<1> HIDE DEF r
<1>3. stream'[s].fd = c /\ ~stream'[s].closed /\ stream'[s].buffer = <<>>
  BY <1>1, <1>2
<1>4. peer'[c].state = "up" /\ peer'[c].taken = 0 /\ log'[c] = <<>>
  BY DEF TypeOK, Known, Peers
<1>5. Split(<<>>, <<>>, c, 0)
  BY DEF Split
<1>6. c # "none"
  BY StdSocketAssumption DEF StdSocketAssumption
<1>7. QED BY <1>3, <1>4, <1>5, <1>6 DEF Holds

LEMMA Emptied ==
    ASSUME TypeOK, NEW s \in {"outer", "client"}, stream' = [stream EXCEPT ![s] = NoStream]
    PROVE  Holds(s)'
<1>1. stream'[s].fd = "none" /\ stream'[s].buffer = <<>>
  BY DEF TypeOK, NoStream
<1>2. QED BY <1>1 DEF Holds

\* The two streams never have the same connection.
LEMMA Differ ==
    ASSUME Apart, NEW s \in {"outer", "client"}, NEW t \in {"outer", "client"}, s # t,
           stream[s].fd # "none"
    PROVE  stream[t].fd = "none"
BY DEF Apart, HasClient

LEMMA HeldStep == IInv /\ [Next]_vars => Held'
<1> SUFFICES ASSUME TypeOK, TypeOK', Held, Apart, Calls, [Next]_vars PROVE Held'
  BY TypeStep DEF IInv
<1>0. /\ peer \in [Conn -> Peers] /\ log \in [Conn -> Seq(Conn \X (1..MaxSent))]
      /\ stream \in [{"outer", "client"} -> Streams]
      /\ MaxSent \in Nat /\ "none" \notin Conn
      /\ \A c \in Conn : Known(c)
      /\ \A s \in {"outer", "client"} : Holds(s)
  BY StdSocketAssumption DEF TypeOK, StdSocketAssumption, Held
<1>1. ASSUME UNCHANGED <<peer, stream, log>> PROVE Held'
  <2>1. (\A c \in Conn : QuietPeer(c)) /\ (\A s \in {"outer", "client"} : QuietStream(s))
    BY <1>1, Fields DEF QuietPeer, QuietStream
  <2>2. QED BY <1>1, <2>1, Quiet
<1>2. ASSUME UNCHANGED <<stream, log>>, \A c \in Conn : QuietPeer(c) PROVE Held'
  <2>1. \A s \in {"outer", "client"} : QuietStream(s)
    BY <1>2 DEF QuietStream
  <2>2. QED BY <1>2, <2>1, Quiet
<1>3. ASSUME NEW c \in Conn, Connect(c) \/ PeerSends(c) PROVE Held'
  <2>1. ASSUME NEW d \in Conn PROVE QuietPeer(d)
    <3>1. CASE Connect(c)
      BY SMTT(30), <1>0, <3>1, Fields DEF Connect, QuietPeer, Peers
    <3>2. CASE PeerSends(c)
      BY SMTT(30), <1>0, <3>2, Fields DEF PeerSends, QuietPeer, Peers
    <3>3. QED BY <1>3, <3>1, <3>2
  <2>2. QED BY <1>2, <1>3, <2>1 DEF Connect, PeerSends
<1>4. ASSUME NEW c \in Conn, NEW how \in {"eof", "reset"}, PeerEnds(c, how) PROVE Held'
  <2>1. ASSUME NEW d \in Conn PROVE QuietPeer(d)
    BY <1>0, <1>4, Fields DEF PeerEnds, QuietPeer, Peers
  <2>2. QED BY <1>2, <1>4, <2>1 DEF PeerEnds
<1>5. ASSUME NEW c \in Conn, peer' = [peer EXCEPT ![c].state = "up"],
             peer[c].state \in {"away", "backlog"},
             NEW d \in Conn
      PROVE  QuietPeer(d)
  BY <1>0, <1>5, Fields DEF QuietPeer, Peers
<1>6. ASSUME NEW c \in Conn, OpenClient(c) PROVE Held'
  <2>1. /\ stream' = [stream EXCEPT !["outer"] = [NoStream EXCEPT !.fd = c]]
        /\ peer' = [peer EXCEPT ![c].state = "up"] /\ UNCHANGED log
        /\ peer[c].state \in {"away", "backlog"}
    BY <1>6 DEF OpenClient
  <2>2. QuietStream("client")
    BY <1>0, <2>1 DEF QuietStream
  <2>3. Holds("outer")'
    BY <1>0, <2>1, Fresh
  <2>4. QED BY <1>5, <2>1, <2>2, <2>3, Replaced
<1>7. CASE OpenServer \/ Closed
  <2>1. stream' = [stream EXCEPT !["outer"] = NoStream] /\ UNCHANGED <<peer, log>>
    BY <1>7 DEF OpenServer, Closed
  <2>2. QuietStream("client") /\ \A c \in Conn : QuietPeer(c)
    BY <1>0, <2>1, Fields DEF QuietStream, QuietPeer
  <2>3. Holds("outer")'
    BY <2>1, Emptied
  <2>4. QED BY <2>1, <2>2, <2>3, Replaced
<1>8. CASE Forget
  <2>1. stream' = [stream EXCEPT !["client"] = NoStream] /\ UNCHANGED <<peer, log>>
    BY <1>8 DEF Forget
  <2>2. QuietStream("outer") /\ \A c \in Conn : QuietPeer(c)
    BY <1>0, <2>1, Fields DEF QuietStream, QuietPeer
  <2>3. Holds("client")'
    BY <2>1, Emptied
  <2>4. QED BY <2>1, <2>2, <2>3, Replaced
<1>9. CASE EndPass
  <2>1. /\ peer' = [c \in Conn |-> IF c \in deleting THEN [peer[c] EXCEPT !.state = "gone"] ELSE peer[c]]
        /\ stream' = [s \in DOMAIN stream |->
                    IF stream[s].fd \in deleting THEN [stream[s] EXCEPT !.closed = TRUE]
                    ELSE stream[s]]
        /\ UNCHANGED log
    BY <1>9 DEF EndPass
  <2>2. ASSUME NEW c \in Conn PROVE QuietPeer(c)
    BY <1>0, <2>1, Fields DEF QuietPeer, Peers
  <2>3. ASSUME NEW s \in {"outer", "client"} PROVE QuietStream(s)
    BY <1>0, <2>1, Fields DEF QuietStream, Streams, Peers
  <2>4. QED BY <2>1, <2>2, <2>3, Quiet
<1>10. ASSUME NEW s \in {"outer", "client"}, NEW k \in 1..MaxSent, ReadCallback(s, k) PROVE Held'
  <2> DEFINE c == stream[s].fd
             m == peer[c].taken
             x == [i \in 1..k |-> <<c, m + i>>]
  <2>1. /\ c \in Conn /\ k \in 1..(peer[c].sent - m) /\ peer[c].state = "up"
        /\ stream' = [stream EXCEPT ![s].buffer = Stored(stream[s].buffer, x)]
        /\ peer' = [peer EXCEPT ![c].taken = m + k]
        /\ UNCHANGED log
    BY <1>0, <1>10, Fields DEF ReadCallback
  <2>2. m \in 0..MaxSent /\ peer[c].sent \in 0..MaxSent
    BY <2>1, Fields
  <2>3. Connected(s, c) /\ c # "none" /\ ~stream[s].closed
    BY <1>0, <2>1, HoldsForms, Fields DEF Connected
  <2>4. c # "none" /\ Split(log[c], stream[s].buffer, c, m)
    BY <2>3 DEF Connected
  <2>5. x \in Seq(Conn \X Int) /\ Len(x) = k
    BY <2>1, <2>2
  <2>6. Following(x, c, m)
    BY <2>5 DEF Following
  <2>7. stream[s].buffer \in Seq(Conn \X Int) /\ log[c] \in Seq(Conn \X Int)
    <3>1. stream[s].buffer \in Seq(Conn \X (1..MaxSent)) /\ log[c] \in Seq(Conn \X (1..MaxSent))
      BY <2>1, Fields
    <3>2. Conn \X (1..MaxSent) \subseteq Conn \X Int
      OBVIOUS
    <3>3. QED BY <3>1, <3>2, SeqMonotonic
  <2> HIDE DEF x, c
  <2>8. Split(log[c], Stored(stream[s].buffer, x), c, m + k)
    <3>1. m \in Nat
      BY <2>2
    <3> HIDE DEF m
    <3>2. Split(log[c], Stored(stream[s].buffer, x), c, m + Len(x))
      BY <2>4, <2>5, <2>6, <2>7, <3>1, SplitStored
    <3>3. QED BY <2>5, <3>2
  <2>9. /\ stream'[s].fd = c /\ stream'[s].closed = stream[s].closed
        /\ stream'[s].buffer = Stored(stream[s].buffer, x)
    BY <1>0, <2>1 DEF Streams, c
  <2>10. peer'[c].taken = m + k /\ peer'[c].state = "up" /\ peer'[c].sent = peer[c].sent
    BY <1>0, <2>1 DEF Peers
  <2>11. Holds(s)'
    BY <2>1, <2>3, <2>4, <2>8, <2>9, <2>10 DEF Holds
  <2>12. ASSUME NEW t \in {"outer", "client"}, t # s PROVE Holds(t)'
    <3>1. stream'[t] = stream[t] /\ stream[t].fd = "none"
      BY <1>0, <2>1, <2>4, <2>12, Differ DEF c
    <3>2. QED BY <1>0, <3>1 DEF Holds
  <2>13. ASSUME NEW d \in Conn PROVE Known(d)'
    <3>1. CASE d = c
      <4>1. Known(c) /\ log'[c] = log[c] /\ m + k <= peer[c].sent
        BY <1>0, <2>1, <2>2
      <4>2. QED BY <2>10, <3>1, <4>1 DEF Known
    <3>2. CASE d # c
      <4>1. peer'[d] = peer[d] /\ log'[d] = log[d] /\ Known(d)
        BY <1>0, <2>1, <3>2
      <4>2. QED BY <4>1 DEF Known
    <3>3. QED BY <3>1, <3>2
  <2>14. QED BY <2>11, <2>12, <2>13 DEF Held
<1>11. ASSUME NEW c \in Conn, Accept(c) PROVE Held'
  <2>1. /\ peer' = [peer EXCEPT ![c].state = "up"] /\ peer[c].state = "backlog" /\ UNCHANGED log
        /\ \/ stream' = stream
           \/ stream' = [stream EXCEPT !["client"] = [NoStream EXCEPT !.fd = c]]
    BY <1>11 DEF Accept
  <2>2. \A d \in Conn : QuietPeer(d)
    BY <1>5, <2>1
  <2>3. CASE stream' = stream
    BY <1>2, <2>1, <2>2, <2>3
  <2>4. CASE stream' = [stream EXCEPT !["client"] = [NoStream EXCEPT !.fd = c]]
    <3>1. QuietStream("outer")
      BY <1>0, <2>4 DEF QuietStream
    <3>2. Holds("client")'
      BY <1>0, <2>1, <2>4, Fresh
    <3>3. QED BY <2>1, <2>2, <3>1, <3>2, Replaced
  <2>5. QED BY <2>1, <2>3, <2>4
<1>12. ASSUME NEW c \in Conn, Fails(c) \/ Send(c) PROVE Held'
  BY <1>1, <1>12 DEF Fails, Send
<1>13. CASE Unhandle \/ CloseHandler
  <2>1. /\ \/ \E c \in Conn \cup {"none"} : Gone(c)
           \/ /\ peer' = [c \in Conn |-> IF peer[c].state = "backlog"
                                        THEN [peer[c] EXCEPT !.state = "gone"] ELSE peer[c]]
              /\ UNCHANGED stream
        /\ UNCHANGED log
    BY <1>13, Fields DEF Unhandle, CloseHandler
  <2>2. ASSUME NEW c \in Conn \cup {"none"}, Gone(c) PROVE Held'
    <3>1. /\ peer' = [peer EXCEPT ![c].state = "gone"]
          /\ stream' = [s \in DOMAIN stream |->
                    IF stream[s].fd = c THEN [stream[s] EXCEPT !.closed = TRUE] ELSE stream[s]]
      BY <2>2 DEF Gone
    <3>2. ASSUME NEW d \in Conn PROVE QuietPeer(d)
      <4>1. peer'[d] = IF d = c THEN [peer[d] EXCEPT !.state = "gone"] ELSE peer[d]
        BY <1>0, <3>1
      <4>2. QED BY <1>0, <4>1, Fields DEF QuietPeer, Peers
    <3>3. ASSUME NEW s \in {"outer", "client"} PROVE QuietStream(s)
      <4>1. stream[s].fd = c /\ c \in Conn => peer'[c].state = "gone"
        BY <1>0, <3>1 DEF Peers
      <4>2. QED BY <1>0, <3>1, <4>1, Fields DEF QuietStream, Streams
    <3>4. QED BY <2>1, <3>2, <3>3, Quiet
  <2>3. CASE /\ peer' = [c \in Conn |-> IF peer[c].state = "backlog"
                                        THEN [peer[c] EXCEPT !.state = "gone"] ELSE peer[c]]
             /\ UNCHANGED stream
    <3>1. ASSUME NEW d \in Conn PROVE QuietPeer(d)
      BY <1>0, <2>3, Fields DEF QuietPeer, Peers
    <3>2. QED BY <1>2, <2>1, <2>3, <3>1
  <2>4. QED BY <2>1, <2>2, <2>3
<1>14. CASE ReadData
  <2>1. \/ UNCHANGED <<stream, log>>
        \/ \E s \in {"outer", "client"} : stream[s].buffer # <<>> /\ TakeByte(s)
    BY <1>14 DEF ReadData
  <2>2. UNCHANGED peer
    BY <1>14 DEF ReadData
  <2>3. ASSUME NEW s \in {"outer", "client"}, stream[s].buffer # <<>>, TakeByte(s)
        PROVE  Held'
    <3> DEFINE b == stream[s].buffer
               c == stream[s].fd
               l == log[c]
               m == peer[c].taken
    <3>1. c # "none" /\ c \in Conn
      BY <1>0, <2>3, Fields DEF Holds
    <3>2. Connected(s, c)
      BY <1>0, <3>1, HoldsForms
    <3>3. /\ Split(l, b, c, m) /\ m \in Nat
          /\ b \in Seq(Conn \X (1..MaxSent)) /\ l \in Seq(Conn \X (1..MaxSent))
      BY <3>1, <3>2, Fields DEF Connected
    <3>4. /\ log' = [log EXCEPT ![Head(b)[1]] = Append(@, Head(b))]
          /\ stream' = [stream EXCEPT ![s].buffer = Tail(b)]
      BY <2>3 DEF TakeByte
    <3>5. b # <<>>
      BY <2>3
    <3> HIDE DEF b, l, m
    <3>6. Head(b) = <<c, Len(l) + 1>>
      BY <3>3, <3>5, SplitTaken
    <3>7. Append(l, Head(b)) \in Seq(Conn \X (1..MaxSent)) /\ Split(Append(l, Head(b)), Tail(b), c, m)
      BY <3>3, <3>5, SplitTaken
    <3>8. Head(b)[1] = c
      BY <3>6
    <3> HIDE DEF c
    <3>9. log' = [log EXCEPT ![c] = Append(l, Head(b))]
      BY <3>4, <3>8 DEF l
    <3>10. log'[c] = Append(l, Head(b)) /\ \A d \in Conn \ {c} : log'[d] = log[d]
      BY <1>0, <3>1, <3>9
    <3>11. /\ stream'[s].fd = c /\ stream'[s].closed = stream[s].closed
           /\ stream'[s].buffer = Tail(b)
      BY <1>0, <3>4 DEF Streams, c
    <3>12. Holds(s)'
      <4>1. Split(log'[c], stream'[s].buffer, c, peer'[c].taken)
        BY <2>2, <3>7, <3>10, <3>11 DEF m
      <4>2. QED BY <2>2, <3>1, <3>2, <3>11, <4>1 DEF Holds, Connected
    <3>13. ASSUME NEW t \in {"outer", "client"}, t # s PROVE Holds(t)'
      <4>1. stream'[t] = stream[t] /\ stream[t].fd = "none"
        BY <1>0, <3>1, <3>4, <3>13, Differ DEF c
      <4>2. QED BY <1>0, <4>1 DEF Holds
    <3>14. ASSUME NEW d \in Conn PROVE Known(d)'
      <4>1. CASE d = c
        <5>1. Known(c) /\ peer[c].state \in {"up", "gone"} /\ peer' = peer
          BY <1>0, <2>2, <3>1, <3>2 DEF Connected
        <5>2. \A k \in 1..Len(log'[c]) : log'[c][k] = <<c, k>>
          BY <3>7, <3>10 DEF Split
        <5>3. QED BY <4>1, <5>1, <5>2 DEF Known
      <4>2. CASE d # c
        BY <1>0, <2>2, <3>10, <4>2 DEF Known
      <4>3. QED BY <4>1, <4>2
    <3>15. QED BY <3>12, <3>13, <3>14 DEF Held
  <2>4. QED BY <1>1, <2>1, <2>2, <2>3
<1>15. CASE \/ BytesAvailable \/ BytesQueued \/ Flush \/ Read \/ Write \/ Close
            \/ Available \/ AskClient \/ ClientAvailable \/ OuterQueued \/ AskClientQueued
            \/ ClientQueued \/ WriteClient \/ WriteOuter \/ FlushData \/ CloseClient
            \/ UNCHANGED vars
  BY <1>1, <1>15 DEF BytesAvailable, BytesQueued, Flush, Read, Write, Close, Call, Available,
                     AskClient, ClientAvailable, OuterQueued, AskClientQueued, ClientQueued,
                     WriteClient, WriteOuter, FlushData, CloseClient, vars
<1>16. DOMAIN stream = {"outer", "client"}
  BY Fields
<1>17. QED
  BY <1>3, <1>4, <1>6, <1>7, <1>8, <1>9, <1>10, <1>11, <1>12, <1>13, <1>14, <1>15, <1>16
     DEF Next, Callbacks, Parts

-----------------------------------------------------------------------------
(* The calls *)

WellFormed(t) == t \in Seq(PartNames) /\ \A k \in 1..Len(t) : Part(t, k)

\* The parts a method begins with, and what a part goes on with.
LEMMA Beginnings ==
    /\ WellFormed(<<>>) /\ WellFormed(<<"pass">>)
    /\ \A p \in {"read", "write", "flush"} : WellFormed(<<p>>)
    /\ \A p \in {"pass", "available", "queued", "clientavailable", "clientqueued", "closed"} :
         WellFormed(<<"pass", p>>)
    /\ WellFormed(<<"flush", "closeclient", "close">>)
BY DEF WellFormed, Part, PartNames, Lasts, Rests

\* A part says nothing of what stands before it.
LEMMA PartMoves ==
    ASSUME NEW t, NEW u, NEW k \in Int, NEW i \in Int, Len(t) \in Nat, Len(u) \in Nat,
           k <= Len(t),
           Len(u) - i = Len(t) - k, Part(t, k), u[i] = t[k],
           k + 1 <= Len(t) => u[i + 1] = t[k + 1],
           k + 2 <= Len(t) => u[i + 2] = t[k + 2]
    PROVE  Part(u, i)
<1> DEFINE m == Len(t)
           n == Len(u)
<1>1. m \in Nat /\ n \in Nat /\ n - i = m - k /\ k <= m
  OBVIOUS
<1>2. /\ t[k] \in Lasts => k = m
      /\ t[k] = "pass" => k = m \/ t[k + 1] # "close"
      /\ t[k] = "flush" => k = m \/ t[k + 1] \in {"unhandle", "closeclient"}
      /\ t[k] = "unhandle" => k + 3 = m /\ t[k + 1] = "pass" /\ t[k + 2] = "forget"
      /\ t[k] = "forget" => k + 1 = m /\ t[k + 1] \in Rests
      /\ t[k] = "closeclient" => k + 1 = m /\ t[k + 1] = "close"
  BY DEF Part
<1>3. /\ u[i] = t[k]
      /\ k + 1 <= m => u[i + 1] = t[k + 1]
      /\ k + 2 <= m => u[i + 2] = t[k + 2]
  OBVIOUS
<1> SUFFICES /\ u[i] \in Lasts => i = n
             /\ u[i] = "pass" => i = n \/ u[i + 1] # "close"
             /\ u[i] = "flush" => i = n \/ u[i + 1] \in {"unhandle", "closeclient"}
             /\ u[i] = "unhandle" => i + 3 = n /\ u[i + 1] = "pass" /\ u[i + 2] = "forget"
             /\ u[i] = "forget" => i + 1 = n /\ u[i + 1] \in Rests
             /\ u[i] = "closeclient" => i + 1 = n /\ u[i + 1] = "close"
  BY DEF Part
<1> HIDE DEF m, n
<1>4. u[i] \in Lasts => i = n
  BY <1>1, <1>2, <1>3
<1>5. u[i] = "flush" => i = n \/ u[i + 1] \in {"unhandle", "closeclient"}
  <2>1. CASE k = m
    BY <1>1, <2>1
  <2>2. CASE k < m
    BY <1>1, <1>2, <1>3, <2>2
  <2>3. QED BY <1>1, <2>1, <2>2
<1>10. u[i] = "pass" => i = n \/ u[i + 1] # "close"
  <2>1. CASE k = m
    BY <1>1, <2>1
  <2>2. CASE k < m
    BY <1>1, <1>2, <1>3, <2>2
  <2>3. QED BY <1>1, <2>1, <2>2
<1>6. u[i] = "unhandle" => i + 3 = n /\ u[i + 1] = "pass" /\ u[i + 2] = "forget"
  BY <1>1, <1>2, <1>3
<1>7. u[i] = "forget" => i + 1 = n /\ u[i + 1] \in Rests
  BY <1>1, <1>2, <1>3
<1>8. u[i] = "closeclient" => i + 1 = n /\ u[i + 1] = "close"
  BY <1>1, <1>2, <1>3
<1>9. QED BY <1>4, <1>5, <1>6, <1>7, <1>8, <1>10

\* Concatenation, element by element.
Joined(x, y) == x \o y

\* w is x and then y.
Pasted(w, x, y) ==
    /\ w \in Seq(PartNames) /\ Len(w) = Len(x) + Len(y)
    /\ \A k \in 1..Len(x) : w[k] = x[k]
    /\ \A k \in 1..Len(y) : w[Len(x) + k] = y[k]

LEMMA JoinedFacts ==
    ASSUME NEW x \in Seq(PartNames), NEW y \in Seq(PartNames)
    PROVE  Pasted(Joined(x, y), x, y)
<1> HIDE DEF PartNames
<1>1. Joined(x, y) \in Seq(PartNames) /\ Len(Joined(x, y)) = Len(x) + Len(y)
  BY DEF Joined
<1>2. \A k \in 1..Len(x) : Joined(x, y)[k] = x[k]
  BY DEF Joined
<1>3. \A k \in 1..Len(y) : Joined(x, y)[Len(x) + k] = y[k]
  BY DEF Joined
<1>4. QED BY <1>1, <1>2, <1>3 DEF Pasted

LEMMA Dropping ==
    ASSUME NEW p \in Rests
    PROVE  /\ DropClient \o <<p>> = <<"flush", "unhandle", "pass", "forget", p>>
           /\ <<"pass">> \o (DropClient \o <<p>>)
                = <<"pass", "flush", "unhandle", "pass", "forget", p>>
           /\ WellFormed(<<"flush", "unhandle", "pass", "forget", p>>)
           /\ WellFormed(<<"pass", "flush", "unhandle", "pass", "forget", p>>)
<1> DEFINE d == DropClient
           w == d \o <<p>>
           y == <<"flush", "unhandle", "pass", "forget", p>>
           v == <<"pass">> \o y
           z == <<"pass", "flush", "unhandle", "pass", "forget", p>>
<1>1. /\ d \in Seq(PartNames) /\ Len(d) = 4 /\ <<p>> \in Seq(PartNames) /\ Len(<<p>>) = 1
      /\ d[1] = "flush" /\ d[2] = "unhandle" /\ d[3] = "pass" /\ d[4] = "forget" /\ <<p>>[1] = p
  BY DEF DropClient, PartNames, Lasts, Rests
<1>2. /\ y \in Seq(PartNames) /\ Len(y) = 5
      /\ y[1] = "flush" /\ y[2] = "unhandle" /\ y[3] = "pass" /\ y[4] = "forget" /\ y[5] = p
  BY DEF PartNames, Lasts, Rests
<1>3. /\ z \in Seq(PartNames) /\ Len(z) = 6
      /\ z[1] = "pass" /\ z[2] = "flush" /\ z[3] = "unhandle" /\ z[4] = "pass"
      /\ z[5] = "forget" /\ z[6] = p
  BY DEF PartNames, Lasts, Rests
<1>4. <<"pass">> \in Seq(PartNames) /\ Len(<<"pass">>) = 1 /\ <<"pass">>[1] = "pass"
  BY DEF PartNames
<1>5. w = y
  <2> DEFINE e == <<p>>
  <2>0. w = Joined(d, e)
    BY DEF Joined
  <2> HIDE DEF d, y, w, e
  <2>1. /\ d \in Seq(PartNames) /\ e \in Seq(PartNames) /\ Len(d) = 4 /\ Len(e) = 1
        /\ e[1] = p
    BY <1>1 DEF e
  <2>2. /\ w \in Seq(PartNames) /\ Len(w) = Len(d) + Len(e)
        /\ \A k \in 1..Len(d) : w[k] = d[k]
        /\ \A k \in 1..Len(e) : w[Len(d) + k] = e[k]
    <3>1. d \in Seq(PartNames) /\ e \in Seq(PartNames)
      BY <2>1
    <3>2. Pasted(Joined(d, e), d, e)
      BY Zenon, <3>1, JoinedFacts
    <3>3. QED BY <2>0, <3>2 DEF Pasted
  <2>3. w \in Seq(PartNames) /\ Len(w) = 5
    BY <2>1, <2>2
  <2>4. w[5] = p
    BY <2>1, <2>2
  <2>5. \A k \in 1..4 : w[k] = d[k]
    BY <2>1, <2>2
  <2>6. \A k \in 1..5 : w[k] = y[k]
    BY <1>1, <1>2, <2>4, <2>5
  <2>7. QED BY <1>2, <2>3, <2>6, SeqEqual
<1>6. v = z
  <2> DEFINE e == <<"pass">>
  <2>0. v = Joined(e, y)
    BY DEF Joined
  <2> HIDE DEF y, z, v, e
  <2>1. /\ y \in Seq(PartNames) /\ e \in Seq(PartNames) /\ Len(y) = 5 /\ Len(e) = 1
        /\ e[1] = "pass"
    BY <1>2, <1>4 DEF e
  <2>2. /\ v \in Seq(PartNames) /\ Len(v) = Len(e) + Len(y)
        /\ \A k \in 1..Len(e) : v[k] = e[k]
        /\ \A k \in 1..Len(y) : v[Len(e) + k] = y[k]
    <3>1. e \in Seq(PartNames) /\ y \in Seq(PartNames)
      BY <2>1
    <3>2. Pasted(Joined(e, y), e, y)
      BY Zenon, <3>1, JoinedFacts
    <3>3. QED BY <2>0, <3>2 DEF Pasted
  <2>3. v \in Seq(PartNames) /\ Len(v) = 6
    BY <2>1, <2>2
  <2>4. v[1] = "pass"
    BY <2>1, <2>2
  <2>5. \A k \in 1..5 : v[1 + k] = y[k]
    BY <2>1, <2>2
  <2>6. \A k \in 1..6 : v[k] = z[k]
    <3>1. v[2] = y[1] /\ v[3] = y[2] /\ v[4] = y[3] /\ v[5] = y[4] /\ v[6] = y[5]
      BY <2>5
    <3>2. QED BY <1>2, <1>3, <2>4, <3>1
  <2>7. QED BY <1>3, <2>3, <2>6, SeqEqual
<1>7. WellFormed(y)
  BY <1>2 DEF WellFormed, Part, PartNames, Lasts, Rests
<1>8. WellFormed(z)
  BY <1>3 DEF WellFormed, Part, PartNames, Lasts, Rests
<1>9. QED BY <1>5, <1>6, <1>7, <1>8

\* The rest of a call after its first part.
LEMMA TailFormed ==
    ASSUME NEW t, WellFormed(t), t # <<>>
    PROVE  /\ Tail(t) \in Seq(PartNames) /\ Len(Tail(t)) = Len(t) - 1 /\ Len(t) \in Nat \ {0}
           /\ Head(t) = t[1] /\ \A k \in 1..(Len(t) - 1) : Tail(t)[k] = t[k + 1]
           /\ WellFormed(Tail(t))
           /\ t[1] \in Lasts => Tail(t) = <<>>
<1>1. /\ Tail(t) \in Seq(PartNames) /\ Len(Tail(t)) = Len(t) - 1 /\ Len(t) \in Nat \ {0}
      /\ Head(t) = t[1] /\ \A k \in 1..(Len(t) - 1) : Tail(t)[k] = t[k + 1]
  BY DEF WellFormed
<1>2. ASSUME NEW k \in 1..Len(Tail(t)) PROVE Part(Tail(t), k)
  <2>1. Part(t, k + 1) /\ Tail(t)[k] = t[k + 1] /\ k + 1 \in 1..Len(t)
    BY <1>1 DEF WellFormed
  <2>2. /\ k + 1 + 1 <= Len(t) => Tail(t)[k + 1] = t[k + 1 + 1]
        /\ k + 1 + 2 <= Len(t) => Tail(t)[k + 2] = t[k + 1 + 2]
    BY <1>1
  <2>3. Len(Tail(t)) - k = Len(t) - (k + 1)
    BY <1>1
  <2>4. Len(t) \in Nat /\ Len(Tail(t)) \in Nat /\ k \in Int /\ k + 1 \in Int /\ k + 1 <= Len(t)
    BY <1>1
  <2> DEFINE u == Tail(t)
             j == k + 1
  <2>5. /\ Len(t) \in Nat /\ Len(u) \in Nat /\ k \in Int /\ j \in Int /\ j <= Len(t)
        /\ Len(u) - k = Len(t) - j /\ Part(t, j) /\ u[k] = t[j]
        /\ j + 1 <= Len(t) => u[k + 1] = t[j + 1]
        /\ j + 2 <= Len(t) => u[k + 2] = t[j + 2]
    BY <2>1, <2>2, <2>3, <2>4
  <2> HIDE DEF u, j
  <2>6. Part(u, k)
    BY <2>5, PartMoves
  <2>7. QED BY <2>6 DEF u
<1>3. t[1] \in Lasts => Len(Tail(t)) = 0
  <2>1. Part(t, 1)
    BY <1>1 DEF WellFormed
  <2>2. t[1] \in Lasts => Len(t) = 1
    BY <2>1 DEF Part
  <2>3. QED BY <1>1, <2>2
<1>4. Len(Tail(t)) = 0 => Tail(t) = <<>>
  BY <1>1, EmptySeq
<1>5. QED BY <1>1, <1>2, <1>3, <1>4 DEF WellFormed

\* flush() calls Process() and looks again.
LEMMA FlushFormed ==
    ASSUME NEW t, WellFormed(t), t # <<>>, t[1] = "flush"
    PROVE  /\ WellFormed(<<"pass", "flush">> \o Tail(t))
           /\ Len(<<"pass", "flush">> \o Tail(t)) = Len(t) + 1
           /\ (<<"pass", "flush">> \o Tail(t))[1] = "pass"
           /\ \A k \in 1..Len(t) : (<<"pass", "flush">> \o Tail(t))[k + 1] = t[k]
<1> DEFINE x == <<"pass", "flush">>
           y == Tail(t)
           u == x \o y
<1>1. /\ y \in Seq(PartNames) /\ Len(y) = Len(t) - 1 /\ Len(t) \in Nat \ {0}
      /\ \A k \in 1..(Len(t) - 1) : y[k] = t[k + 1]
  BY TailFormed
<1>2. x \in Seq(PartNames) /\ Len(x) = 2 /\ x[1] = "pass" /\ x[2] = "flush"
  BY DEF PartNames
<1>0. u = Joined(x, y)
  BY DEF Joined
<1> HIDE DEF x, y, u
<1>3. /\ u \in Seq(PartNames) /\ Len(u) = Len(x) + Len(y)
      /\ \A k \in 1..Len(x) : u[k] = x[k]
      /\ \A k \in 1..Len(y) : u[Len(x) + k] = y[k]
  <2>1. x \in Seq(PartNames) /\ y \in Seq(PartNames)
    BY <1>1, <1>2
  <2>2. Pasted(Joined(x, y), x, y)
    BY Zenon, <2>1, JoinedFacts
  <2>3. QED BY <1>0, <2>2 DEF Pasted
<1>4. /\ u \in Seq(PartNames) /\ Len(u) = Len(t) + 1
      /\ u[1] = "pass" /\ u[2] = "flush"
      /\ \A k \in 1..(Len(t) - 1) : u[2 + k] = y[k]
  BY <1>1, <1>2, <1>3
<1>6. ASSUME NEW k \in 1..Len(t) PROVE u[k + 1] = t[k]
  <2>1. CASE k = 1
    BY <1>4, <2>1
  <2>2. CASE k # 1
    <3>1. k - 1 \in 1..(Len(t) - 1) /\ 2 + (k - 1) = k + 1 /\ (k - 1) + 1 = k
      BY <1>1, <2>2
    <3>3. u[k + 1] = y[k - 1] /\ y[k - 1] = t[k]
      BY <1>1, <1>4, <3>1
    <3>2. QED BY <3>3
  <2>3. QED BY <2>1, <2>2
<1>7. ASSUME NEW i \in 1..Len(u) PROVE Part(u, i)
  <2>1. CASE i = 1
    BY <1>4, <2>1 DEF Part, Lasts, Rests
  <2>2. CASE i # 1
    <3> DEFINE k == i - 1
    <3>1. k \in 1..Len(t) /\ i = k + 1
      BY <1>1, <1>4, <2>2
    <3>2. Part(t, k)
      BY <3>1 DEF WellFormed
    <3> HIDE DEF k
    <3>3. /\ u[i] = t[k]
          /\ k + 1 <= Len(t) => u[i + 1] = t[k + 1]
          /\ k + 2 <= Len(t) => u[i + 2] = t[k + 2]
      BY <1>1, <1>6, <3>1
    <3>4. Len(u) - i = Len(t) - k /\ Len(u) \in Nat /\ Len(t) \in Nat /\ k <= Len(t)
          /\ k \in Int /\ i \in Int
      BY <1>1, <1>4, <3>1
    <3>5. QED BY <3>2, <3>3, <3>4, PartMoves
  <2>3. QED BY <2>1, <2>2
<1>8. QED BY <1>4, <1>6, <1>7 DEF WellFormed, u, x, y

-----------------------------------------------------------------------------
(* What steps leave alone *)

Kept ==
    /\ mode' = mode
    /\ \A s \in {"outer", "client"} : stream'[s].fd = stream[s].fd
    /\ Ends("client") => Ends("client")'
    /\ Backlogged' => Backlogged

LEMMA GoneKeeps ==
    ASSUME TypeOK, NEW c, Gone(c), mode' = mode
    PROVE  Kept
<1>0. /\ stream \in [{"outer", "client"} -> Streams] /\ DOMAIN stream = {"outer", "client"}
      /\ peer \in [Conn -> Peers]
  BY Fields DEF TypeOK
<1>1. peer' = [peer EXCEPT ![c].state = "gone"]
      /\ stream' = [s \in DOMAIN stream |->
                      IF stream[s].fd = c THEN [stream[s] EXCEPT !.closed = TRUE] ELSE stream[s]]
  BY DEF Gone
<1>2. ASSUME NEW s \in {"outer", "client"}
      PROVE  /\ stream'[s].fd = stream[s].fd /\ stream'[s].buffer = stream[s].buffer
             /\ stream[s].closed => stream'[s].closed
  BY <1>0, <1>1 DEF Streams
<1>3. ASSUME NEW d \in Conn, peer'[d].state = "backlog" PROVE peer[d].state = "backlog"
  BY <1>0, <1>1, <1>3 DEF Peers
<1>4. Ends("client") => Ends("client")'
  BY <1>2 DEF Ends
<1>5. QED BY <1>2, <1>3, <1>4 DEF Kept, Backlogged

LEMMA PassKeeps ==
    ASSUME TypeOK, EndPass
    PROVE  Kept
<1>0. /\ stream \in [{"outer", "client"} -> Streams] /\ DOMAIN stream = {"outer", "client"}
      /\ peer \in [Conn -> Peers]
  BY Fields DEF TypeOK
<1>1. /\ peer' = [c \in Conn |-> IF c \in deleting THEN [peer[c] EXCEPT !.state = "gone"]
                                                ELSE peer[c]]
      /\ stream' = [s \in DOMAIN stream |->
                      IF stream[s].fd \in deleting THEN [stream[s] EXCEPT !.closed = TRUE]
                      ELSE stream[s]]
      /\ mode' = mode
  BY DEF EndPass
<1>2. ASSUME NEW s \in {"outer", "client"}
      PROVE  /\ stream'[s].fd = stream[s].fd /\ stream'[s].buffer = stream[s].buffer
             /\ stream[s].closed => stream'[s].closed
  BY <1>0, <1>1 DEF Streams
<1>3. ASSUME NEW d \in Conn, peer'[d].state = "backlog" PROVE peer[d].state = "backlog"
  BY <1>0, <1>1, <1>3 DEF Peers
<1>4. Ends("client") => Ends("client")'
  BY <1>2 DEF Ends
<1>5. QED BY <1>1, <1>2, <1>3, <1>4 DEF Kept, Backlogged

\* Bytes come only while the connection is up, so not into a closed stream.
LEMMA ReadKeeps ==
    ASSUME TypeOK, Held, NEW s \in {"outer", "client"}, NEW k \in 1..MaxSent, ReadCallback(s, k)
    PROVE  Kept
<1> DEFINE c == stream[s].fd
<1>0. /\ stream \in [{"outer", "client"} -> Streams] /\ peer \in [Conn -> Peers]
      /\ "none" \notin Conn
  BY StdSocketAssumption DEF TypeOK, StdSocketAssumption
<1>1. /\ c # "none" /\ peer[c].state = "up" /\ mode' = mode
      /\ stream' = [stream EXCEPT ![s].buffer =
                      Stored(stream[s].buffer, [i \in 1..k |-> <<c, peer[c].taken + i>>])]
      /\ peer' = [peer EXCEPT ![c].taken = @ + k]
  BY DEF ReadCallback
<1>2. ~stream[s].closed
  BY <1>1, HoldsForms DEF Held, Connected
<1>3. \A t \in {"outer", "client"} : stream'[t].fd = stream[t].fd
  BY <1>0, <1>1 DEF Streams
<1>4. ASSUME NEW d \in Conn, peer'[d].state = "backlog" PROVE peer[d].state = "backlog"
  BY <1>0, <1>1, <1>4 DEF Peers
<1>5. ASSUME Ends("client") PROVE Ends("client")'
  <2>1. s # "client"
    BY <1>2, <1>5 DEF Ends
  <2>2. stream'["client"] = stream["client"]
    BY <1>0, <1>1, <2>1
  <2>3. QED BY <1>5, <2>2 DEF Ends
<1>6. QED BY <1>1, <1>3, <1>4, <1>5 DEF Kept, Backlogged

LEMMA CloseKeeps ==
    ASSUME TypeOK, CloseHandler
    PROVE  Kept /\ (mode = "server" => ~Backlogged')
<1>0. peer \in [Conn -> Peers]
  BY DEF TypeOK
<1>1. CASE mode = "client"
  BY <1>1, GoneKeeps DEF CloseHandler
<1>2. CASE mode # "client"
  <2>1. /\ peer' = [c \in Conn |-> IF peer[c].state = "backlog"
                                   THEN [peer[c] EXCEPT !.state = "gone"] ELSE peer[c]]
        /\ UNCHANGED <<mode, stream>>
    BY <1>2 DEF CloseHandler
  <2>2. \A d \in Conn : peer'[d].state # "backlog"
    BY <1>0, <2>1 DEF Peers
  <2>3. QED BY <2>1, <2>2 DEF Kept, Backlogged, Ends
<1>3. QED BY <1>1, <1>2

LEMMA PeersKeep ==
    ASSUME TypeOK, NEW c \in Conn,
           PeerSends(c) \/ (\E how \in {"eof", "reset"} : PeerEnds(c, how))
    PROVE  Kept
<1>0. peer \in [Conn -> Peers]
  BY DEF TypeOK
<1>1. UNCHANGED <<mode, stream>>
  BY DEF PeerSends, PeerEnds
<1>2. \A d \in Conn : peer'[d].state = peer[d].state
  BY <1>0 DEF PeerSends, PeerEnds, Peers
<1>3. QED BY <1>1, <1>2 DEF Kept, Backlogged, Ends

LEMMA StillKeeps ==
    ASSUME UNCHANGED <<peer, mode, stream>>
    PROVE  Kept
BY DEF Kept, Backlogged, Ends

\* Of a read the stream of the client is what it was, or not at its end.
LEMMA TakeKeeps ==
    ASSUME TypeOK, NEW s \in {"outer", "client"}, stream[s].buffer # <<>>, TakeByte(s),
           UNCHANGED <<peer, mode>>
    PROVE  Kept
<1>0. stream \in [{"outer", "client"} -> Streams]
  BY DEF TypeOK
<1>1. stream' = [stream EXCEPT ![s].buffer = Tail(@)]
  BY DEF TakeByte
<1>2. \A t \in {"outer", "client"} : stream'[t].fd = stream[t].fd
  BY <1>0, <1>1 DEF Streams
<1>3. ASSUME Ends("client") PROVE Ends("client")'
  <2>1. s # "client"
    BY <1>3 DEF Ends
  <2>2. stream'["client"] = stream["client"]
    BY <1>0, <1>1, <2>1
  <2>3. QED BY <1>3, <2>2 DEF Ends
<1>4. QED BY <1>2, <1>3 DEF Kept, Backlogged

LEMMA KeptApart ==
    ASSUME Apart, Kept
    PROVE  Apart'
BY DEF Apart, Kept, HasClient

LEMMA ApartStep == IInv /\ [Next]_vars => Apart'
<1> SUFFICES ASSUME TypeOK, Held, Apart, Calls, [Next]_vars PROVE Apart'
  BY DEF IInv
<1>0. /\ stream \in [{"outer", "client"} -> Streams] /\ DOMAIN stream = {"outer", "client"}
      /\ peer \in [Conn -> Peers]
      /\ "none" \notin Conn
  BY Fields, StdSocketAssumption DEF TypeOK, StdSocketAssumption
<1>1. ASSUME NEW c \in Conn, Connect(c) PROVE Apart'
  BY <1>1 DEF Connect, Apart, HasClient
<1>2. ASSUME NEW c \in Conn, OpenClient(c) PROVE Apart'
  <2>1. /\ mode = "closed" /\ mode' = "client" /\ peer' = [peer EXCEPT ![c].state = "up"]
        /\ stream' = [stream EXCEPT !["outer"] = [NoStream EXCEPT !.fd = c]]
    BY <1>2 DEF OpenClient
  <2>2. stream'["outer"].fd = c /\ stream'["client"] = stream["client"]
    BY <1>0, <2>1, NewStream
  <2>3. ~Backlogged'
    BY <1>0, <2>1 DEF Apart, Backlogged, Peers
  <2>4. QED BY <1>0, <2>1, <2>2, <2>3 DEF Apart, HasClient
<1>3. CASE OpenServer
  <2>1. mode' = "server" /\ stream'["outer"] = NoStream
    BY <1>0, <1>3 DEF OpenServer
  <2>2. QED BY <2>1 DEF Apart, NoStream
<1>4. ASSUME NEW c \in Conn, Accept(c) PROVE Apart'
  <2>1. mode = "server" /\ mode' = "server" /\ stream'["outer"] = stream["outer"]
    BY <1>0, <1>4 DEF Accept
  <2>2. QED BY <2>1 DEF Apart
<1>5. CASE Forget
  <2>1. /\ UNCHANGED <<peer, mode>> /\ stream'["outer"] = stream["outer"]
        /\ stream'["client"] = NoStream
    BY <1>0, <1>5 DEF Forget
  <2>2. QED BY <2>1 DEF Apart, HasClient, NoStream, Backlogged
<1>6. CASE Closed
  <2>1. /\ UNCHANGED peer /\ mode' = "closed" /\ stream'["outer"] = NoStream
        /\ stream'["client"] = stream["client"]
    BY <1>0, <1>6 DEF Closed
  <2>2. ~HasClient /\ ~Backlogged
    BY <1>6 DEF Closed, At, Calls, Relies
  <2>3. QED BY <2>1, <2>2 DEF Apart, HasClient, NoStream, Backlogged
<1>7. ASSUME NEW c \in Conn, \/ PeerSends(c) \/ Fails(c) \/ Send(c)
                             \/ \E how \in {"eof", "reset"} : PeerEnds(c, how)
      PROVE  Apart'
  BY <1>7, PeersKeep, StillKeeps, KeptApart DEF Fails, Send
<1>8. ASSUME NEW s \in {"outer", "client"}, NEW k \in 1..MaxSent, ReadCallback(s, k) PROVE Apart'
  BY <1>8, ReadKeeps, KeptApart
<1>9. CASE EndPass \/ CloseHandler
  BY <1>9, PassKeeps, CloseKeeps, KeptApart
<1>10. CASE Unhandle
  BY <1>10, GoneKeeps, KeptApart DEF Unhandle
<1>11. CASE ReadData
  <2>1. UNCHANGED <<peer, mode>>
    BY <1>11 DEF ReadData
  <2>2. \/ UNCHANGED stream
        \/ \E s \in {"outer", "client"} : stream[s].buffer # <<>> /\ TakeByte(s)
    BY <1>11 DEF ReadData
  <2>3. QED BY <2>1, <2>2, TakeKeeps, StillKeeps, KeptApart
<1>12. CASE \/ BytesAvailable \/ BytesQueued \/ Flush \/ Read \/ Write \/ Close
            \/ Available \/ AskClient \/ ClientAvailable \/ OuterQueued \/ AskClientQueued
            \/ ClientQueued \/ WriteClient \/ WriteOuter \/ FlushData \/ CloseClient
            \/ UNCHANGED vars
  <2>1. UNCHANGED <<peer, mode, stream>>
    BY <1>12 DEF BytesAvailable, BytesQueued, Flush, Read, Write, Close, Call, Available,
                 AskClient, ClientAvailable, OuterQueued, AskClientQueued, ClientQueued,
                 WriteClient, WriteOuter, FlushData, CloseClient, vars
  <2>2. QED BY <2>1, StillKeeps, KeptApart
<1>13. QED
  BY <1>0, <1>1, <1>2, <1>3, <1>4, <1>5, <1>6, <1>7, <1>8, <1>9, <1>10, <1>11, <1>12
     DEF Next, Callbacks, Parts

-----------------------------------------------------------------------------
(* The parts left of a call *)

NeedsClient == {"unhandle", "forget", "clientavailable", "clientqueued"}

\* What a part relies on, after the step.
Relied(t, k) ==
    /\ t[k] \in NeedsClient => HasClient'
    /\ t[k] = "forget" /\ t[k + 1] \notin GivesUp => Ends("client")'
    /\ t[k] = "close" /\ k = 1 => ~HasClient'
    /\ t[k] = "closed" => ~HasClient' /\ ~Backlogged'
    /\ t[k] \in {"read", "available"} => Unanswered'

\* A step keeps what part p, i-th of what is then left, relies on.
Carries(p, i) ==
    /\ p \in NeedsClient /\ HasClient => HasClient'
    /\ p = "forget" /\ HasClient /\ Ends("client") => Ends("client")'
    /\ p = "close" /\ i = 1 => ~HasClient'
    /\ p = "closed" /\ ~HasClient /\ ~Backlogged => ~HasClient' /\ ~Backlogged'
    /\ p \in {"read", "available"} /\ Unanswered => Unanswered'

LEMMA ReliesMoves ==
    ASSUME NEW t, NEW u, NEW k, NEW i, Relies(t, k), u[i] = t[k],
           t[k] = "forget" => u[i + 1] = t[k + 1],
           Carries(t[k], i)
    PROVE  Relied(u, i)
<1>1. /\ t[k] \in NeedsClient => HasClient
      /\ t[k] = "forget" /\ t[k + 1] \notin GivesUp => Ends("client")
      /\ t[k] = "closed" => ~HasClient /\ ~Backlogged
      /\ t[k] \in {"read", "available"} => Unanswered
  BY DEF Relies, NeedsClient
<1>2. "forget" \in NeedsClient
  BY DEF NeedsClient
<1>3. QED BY <1>1, <1>2 DEF Relied, Carries

LEMMA CallsNext ==
    ASSUME WellFormed(todo'), mode' = "closed" => todo' = <<>>,
           \A k \in 1..Len(todo') : Relied(todo', k)
    PROVE  Calls'
<1>1. \A k \in 1..Len(todo') : Relies(todo, k)'
  BY DEF Relies, Relied, NeedsClient
<1>2. todo' \in Seq(PartNames) /\ \A k \in 1..Len(todo') : Part(todo', k)
  BY DEF WellFormed
<1>3. QED BY <1>1, <1>2 DEF Calls, Part

LEMMA CallsEmpty ==
    ASSUME todo' = <<>>
    PROVE  Calls'
<1>1. WellFormed(todo')
  BY Beginnings
<1>2. Len(todo') = 0
  OBVIOUS
<1>3. \A k \in 1..Len(todo') : Relied(todo', k)
  BY <1>2
<1>4. QED BY <1>1, <1>3, CallsNext

\* Nothing of the call is done.
LEMMA CallsSame ==
    ASSUME Calls, todo' = todo, mode' = "closed" => todo = <<>>,
           \A k \in 1..Len(todo) : Carries(todo[k], k)
    PROVE  Calls'
<1>1. WellFormed(todo')
  BY DEF Calls, WellFormed
<1>2. ASSUME NEW k \in 1..Len(todo) PROVE Relied(todo', k)
  <2>1. Relies(todo, k) /\ Carries(todo[k], k)
    BY DEF Calls
  <2>2. QED BY <2>1, ReliesMoves
<1>3. QED BY <1>1, <1>2, CallsNext

\* The first part is done.
LEMMA CallsTail ==
    ASSUME Calls, todo # <<>>, todo' = Tail(todo), mode' = mode,
           \A k \in 2..Len(todo) : Carries(todo[k], k - 1)
    PROVE  Calls'
<1>1. WellFormed(todo) /\ mode' # "closed"
  BY DEF Calls, WellFormed
<1>2. /\ WellFormed(todo') /\ Len(todo) \in Nat \ {0} /\ Len(todo') = Len(todo) - 1
      /\ \A k \in 1..(Len(todo) - 1) : todo'[k] = todo[k + 1]
  BY <1>1, TailFormed
<1>3. ASSUME NEW i \in 1..Len(todo') PROVE Relied(todo', i)
  <2>1. i + 1 \in 2..Len(todo) /\ i + 1 \in 1..Len(todo) /\ (i + 1) - 1 = i
    BY <1>2
  <2>2. Relies(todo, i + 1) /\ Part(todo, i + 1) /\ Carries(todo[i + 1], i)
    BY <2>1 DEF Calls
  <2>3. todo[i + 1] = "forget" => (i + 1) + 1 = Len(todo)
    BY <2>2 DEF Part
  <2>4. todo'[i] = todo[i + 1]
    BY <1>2, <2>1
  <2>5. todo[i + 1] = "forget" => todo'[i + 1] = todo[(i + 1) + 1]
    BY <1>2, <2>1, <2>3
  <2> DEFINE j == i + 1
  <2>6. Relies(todo, j) /\ Carries(todo[j], i) /\ todo'[i] = todo[j]
        /\ (todo[j] = "forget" => todo'[i + 1] = todo[j + 1])
    BY <2>2, <2>4, <2>5
  <2> HIDE DEF j
  <2>7. QED BY <2>6, ReliesMoves
<1>4. QED BY <1>1, <1>2, <1>3, CallsNext

\* A part on its own, or behind a pass, that relies on nothing but `has'.
LEMMA CallsOne ==
    ASSUME mode' # "closed", NEW p \in PartNames,
           todo' = <<p>> \/ todo' = <<"pass", p>>, WellFormed(todo'),
           p # "forget", p # "close",
           p \in NeedsClient => HasClient',
           p = "closed" => ~HasClient' /\ ~Backlogged',
           p \in {"read", "available"} => Unanswered'
    PROVE  Calls'
<1>1. ASSUME NEW k \in 1..Len(todo') PROVE Relied(todo', k)
  <2>1. \/ todo'[k] = p
        \/ todo'[k] = "pass"
    OBVIOUS
  <2>2. "pass" \notin NeedsClient
    BY DEF NeedsClient
  <2>3. CASE todo'[k] = p
    BY <2>3 DEF Relied
  <2>4. CASE todo'[k] = "pass"
    BY <2>2, <2>4 DEF Relied
  <2>5. QED BY <2>1, <2>3, <2>4
<1>2. QED BY <1>1, CallsNext

\* The client is given up.
LEMMA CallsDrop ==
    ASSUME mode' = "server", HasClient', NEW p \in Rests, p \notin GivesUp => Ends("client")',
           \/ todo' = <<"flush", "unhandle", "pass", "forget", p>>
           \/ todo' = <<"pass", "flush", "unhandle", "pass", "forget", p>>
    PROVE  Calls'
<1>1. WellFormed(todo')
  BY Dropping
<1>2. Unanswered'
  BY DEF Unanswered
<1>3. p \notin NeedsClient /\ p # "closed" /\ p # "forget"
  BY DEF NeedsClient, Rests
<1>4. CASE todo' = <<"flush", "unhandle", "pass", "forget", p>>
  <2>1. Len(todo') = 5 /\ todo'[1] = "flush" /\ todo'[2] = "unhandle" /\ todo'[3] = "pass"
        /\ todo'[4] = "forget" /\ todo'[5] = p
    BY <1>4
  <2>2. ASSUME NEW k \in 1..5 PROVE Relied(todo', k)
    <3>1. CASE k = 5
      BY <1>2, <1>3, <2>1, <3>1 DEF Relied
    <3>2. CASE k = 4
      BY <2>1, <3>2 DEF Relied
    <3>3. CASE k \in 1..3
      BY <2>1, <3>3 DEF Relied, NeedsClient
    <3>4. QED BY <3>1, <3>2, <3>3
  <2>3. QED BY <1>1, <2>1, <2>2, CallsNext
<1>5. CASE todo' = <<"pass", "flush", "unhandle", "pass", "forget", p>>
  <2>1. Len(todo') = 6 /\ todo'[1] = "pass" /\ todo'[2] = "flush" /\ todo'[3] = "unhandle"
        /\ todo'[4] = "pass" /\ todo'[5] = "forget" /\ todo'[6] = p
    BY <1>5
  <2>2. ASSUME NEW k \in 1..6 PROVE Relied(todo', k)
    <3>1. CASE k = 6
      BY <1>2, <1>3, <2>1, <3>1 DEF Relied
    <3>2. CASE k = 5
      BY <2>1, <3>2 DEF Relied
    <3>3. CASE k \in 1..4
      BY <2>1, <3>3 DEF Relied, NeedsClient
    <3>4. QED BY <3>1, <3>2, <3>3
  <2>3. QED BY <1>1, <2>1, <2>2, CallsNext
<1>6. QED BY <1>4, <1>5

\* The last part is the only one left.
LEMMA AtLast ==
    ASSUME Calls, NEW p \in Lasts, At(p)
    PROVE  /\ todo[1] = p /\ Len(todo) = 1 /\ Tail(todo) = <<>> /\ Relies(todo, 1)
           /\ mode # "closed"
<1>1. WellFormed(todo) /\ todo # <<>> /\ Head(todo) = p /\ mode # "closed"
  BY DEF Calls, WellFormed, At
<1>2. todo[1] = p /\ Len(todo) \in Nat \ {0} /\ Tail(todo) = <<>> /\ Len(Tail(todo)) = Len(todo) - 1
  BY <1>1, TailFormed
<1>3. Relies(todo, 1)
  BY <1>2 DEF Calls
<1>4. QED BY <1>1, <1>2, <1>3, EmptySeq

LEMMA Single ==
    ASSUME NEW S, NEW t \in Seq(S), Len(t) = 1, NEW x \in S, t[1] = x
    PROVE  t = <<x>>
<1> DEFINE u == <<x>>
<1>1. u \in Seq(S) /\ Len(u) = 1 /\ u[1] = x
  OBVIOUS
<1> HIDE DEF u
<1>2. \A k \in 1..1 : t[k] = u[k]
  BY <1>1
<1>3. t = u
  BY <1>1, <1>2, SeqEqual
<1>4. QED BY <1>3 DEF u

LEMMA TwoPasses == <<"pass">> \o <<"pass">> = <<"pass", "pass">>
<1> DEFINE e == <<"pass">>
           w == e \o e
           z == <<"pass", "pass">>
<1>1. e \in Seq(PartNames) /\ Len(e) = 1 /\ e[1] = "pass"
  BY DEF PartNames
<1>2. z \in Seq(PartNames) /\ Len(z) = 2 /\ z[1] = "pass" /\ z[2] = "pass"
  BY DEF PartNames
<1>3. w = Joined(e, e)
  BY DEF Joined
<1> HIDE DEF e, w, z
<1>4. Pasted(w, e, e)
  BY Zenon, <1>1, <1>3, JoinedFacts
<1>5. /\ w \in Seq(PartNames) /\ Len(w) = Len(e) + Len(e)
      /\ \A k \in 1..Len(e) : w[k] = e[k]
      /\ \A k \in 1..Len(e) : w[Len(e) + k] = e[k]
  BY <1>4 DEF Pasted
<1>6. Len(w) = 2 /\ w[1] = "pass" /\ w[2] = "pass"
  BY <1>1, <1>5
<1>7. \A k \in 1..2 : w[k] = z[k]
  BY <1>2, <1>6
<1>8. w = z
  BY <1>2, <1>5, <1>6, <1>7, SeqEqual
<1>9. QED BY <1>8 DEF e, w, z

\* Then() behind the last part, and with nothing to do.
LEMMA ThenLast ==
    ASSUME NEW next \in Seq(PartNames), Tail(todo) = <<>>, Then(next)
    PROVE  todo' = next
BY ConcatEmptySeq DEF Then

LEMMA ThenNothing ==
    ASSUME Calls, todo # <<>>, Then(<<>>)
    PROVE  todo' = Tail(todo)
<1>1. Tail(todo) \in Seq(PartNames)
  BY TailFormed DEF Calls, WellFormed
<1>2. QED BY <1>1, ConcatEmptySeq DEF Then

LEMMA LastReturns ==
    ASSUME Calls, NEW p \in Lasts, At(p), NEW r, Returns(r)
    PROVE  Calls'
<1>1. todo # <<>> /\ Tail(todo) = <<>>
  BY AtLast DEF At
<1>2. todo' = <<>>
  BY <1>1, ThenNothing DEF Returns
<1>3. QED BY <1>2, CallsEmpty

\* A step that keeps the streams, and what the call returns.
LEMMA KeptCarries ==
    ASSUME Kept, UNCHANGED result, NEW p, NEW i, p = "close" /\ i = 1 => ~HasClient
    PROVE  Carries(p, i)
BY DEF Kept, Carries, HasClient, Unanswered

LEMMA CallsStep == IInv /\ [Next]_vars => Calls'
<1> SUFFICES ASSUME TypeOK, Held, Apart, Calls, [Next]_vars PROVE Calls'
  BY DEF IInv
<1>0. DOMAIN stream = {"outer", "client"}
  BY Fields
<1>1. WellFormed(todo) /\ (mode = "closed" => todo = <<>>)
  BY DEF Calls, WellFormed
<1>2. todo # <<>> => /\ Len(todo) \in Nat \ {0} /\ Head(todo) = todo[1]
                     /\ 1 \in 1..Len(todo) /\ Relies(todo, 1) /\ Part(todo, 1)
  BY <1>1, TailFormed DEF Calls
\* The parts go on as they are: callbacks, and what peers do.
<1>3. ASSUME Kept, UNCHANGED <<todo, result>> PROVE Calls'
  <2>1. ASSUME NEW k \in 1..Len(todo) PROVE Carries(todo[k], k)
    <3>1. todo[k] = "close" /\ k = 1 => ~HasClient
      BY DEF Calls, Relies
    <3>2. QED BY <1>3, <3>1, KeptCarries
  <2>2. mode' = mode
    BY <1>3 DEF Kept
  <2>3. QED BY <1>1, <1>3, <2>1, <2>2, CallsSame
<1>4. ASSUME NEW c \in Conn, Connect(c) PROVE Calls'
  <2>1. /\ \A k \in 1..Len(todo) : todo[k] # "closed"
        /\ UNCHANGED <<mode, stream, todo, result>>
    BY <1>1, <1>4 DEF Connect, WellFormed
  <2>2. ASSUME NEW k \in 1..Len(todo) PROVE Carries(todo[k], k)
    <3>1. todo[k] = "close" /\ k = 1 => ~HasClient
      BY DEF Calls, Relies
    <3>2. QED BY <2>1, <3>1 DEF Carries, HasClient, Ends, Unanswered
  <2>3. QED BY <1>1, <2>1, <2>2, CallsSame
<1>5. ASSUME NEW c \in Conn, Accept(c) PROVE Calls'
  <2>1. /\ todo # <<>> /\ Head(todo) = "pass" /\ peer[c].state = "backlog"
        /\ UNCHANGED <<mode, todo, result>> /\ (HasClient => UNCHANGED stream)
    BY <1>5 DEF Accept, InPass
  <2>2. ASSUME NEW k \in 1..Len(todo) PROVE Carries(todo[k], k)
    <3>1. ~(todo[k] = "close" /\ k = 1)
      BY <1>2, <2>1
    <3>2. todo[k] # "closed"
      BY <2>1 DEF Calls, Relies, Backlogged
    <3>3. QED BY <2>1, <3>1, <3>2 DEF Carries, HasClient, Ends, Unanswered
  <2>3. QED BY <1>1, <2>1, <2>2, CallsSame
<1>6. ASSUME NEW c \in Conn, PeerSends(c) PROVE Calls'
  BY <1>3, <1>6, PeersKeep DEF PeerSends
<1>7. ASSUME NEW c \in Conn, NEW how \in {"eof", "reset"}, PeerEnds(c, how) PROVE Calls'
  BY <1>3, <1>7, PeersKeep DEF PeerEnds
<1>8. ASSUME NEW c \in Conn, Fails(c) \/ Send(c) PROVE Calls'
  BY <1>3, <1>8, StillKeeps DEF Fails, Send
<1>9. ASSUME NEW s \in {"outer", "client"}, NEW k \in 1..MaxSent, ReadCallback(s, k) PROVE Calls'
  BY <1>3, <1>9, ReadKeeps DEF ReadCallback
<1>10. CASE UNCHANGED vars
  BY <1>3, <1>10, StillKeeps DEF vars
\* No call is in progress.
<1>11. CASE OpenServer \/ \E c \in Conn : OpenClient(c)
  BY <1>11, CallsEmpty DEF OpenServer, OpenClient
<1>12. CASE \/ BytesAvailable \/ BytesQueued \/ Flush \/ Read \/ Write
  <2>1. /\ mode' # "closed" /\ result' = 0
        /\ \/ todo' = <<"pass", "available">> \/ todo' = <<"pass", "queued">>
           \/ todo' = <<"flush">> \/ todo' = <<"read">> \/ todo' = <<"write">>
    BY <1>12 DEF BytesAvailable, BytesQueued, Flush, Read, Write, Call, IsOpen
  <2>2. Unanswered'
    BY <2>1 DEF Unanswered
  <2>3. PICK p \in {"available", "queued", "flush", "read", "write"} :
           \/ todo' = <<p>> /\ p \in {"flush", "read", "write"}
           \/ todo' = <<"pass", p>> /\ p \in {"available", "queued"}
    BY <2>1
  <2>4. WellFormed(todo')
    BY <2>3, Beginnings
  <2>5. p \in PartNames /\ p \notin NeedsClient /\ p # "closed"
    BY DEF PartNames, Lasts, Rests, NeedsClient
  <2>6. QED BY <2>1, <2>2, <2>3, <2>4, <2>5, CallsOne
<1>13. CASE Close
  <2>1. mode' # "closed" /\ todo' = <<"flush", "closeclient", "close">>
    BY <1>13 DEF Close, Call, IsOpen
  <2>2. WellFormed(todo')
    BY <2>1, Beginnings
  <2>3. ASSUME NEW k \in 1..Len(todo') PROVE Relied(todo', k)
    <3>1. /\ k = 1 => todo'[k] = "flush"
          /\ k # 1 => todo'[k] \in {"closeclient", "close"}
      BY <2>1
    <3>2. QED BY <3>1 DEF Relied, NeedsClient
  <2>4. QED BY <2>1, <2>2, <2>3, CallsNext
\* The first part is done and another one comes.
<1>14. CASE EndPass
  <2>1. /\ todo # <<>> /\ todo[1] = "pass" /\ todo' = Tail(todo) /\ mode' = mode
        /\ UNCHANGED result
    BY <1>2, <1>14 DEF EndPass, InPass
  <2>2. Kept
    BY <1>14, PassKeeps
  <2>3. ASSUME NEW k \in 2..Len(todo) PROVE Carries(todo[k], k - 1)
    <3>1. ~(todo[k] = "close" /\ k - 1 = 1)
      BY <1>2, <2>1 DEF Part
    <3> DEFINE i == k - 1
               p == todo[k]
    <3>2. p = "close" /\ i = 1 => ~HasClient
      BY <3>1
    <3> HIDE DEF i, p
    <3>3. Carries(p, i)
      BY <2>1, <2>2, <3>2, KeptCarries
    <3>4. QED BY <3>3 DEF i, p
  <2>4. QED BY <2>1, <2>3, CallsTail
<1>15. CASE Unhandle
  <2>1. todo # <<>> /\ todo[1] = "unhandle" /\ mode' = mode /\ UNCHANGED result
    BY <1>2, <1>15 DEF Unhandle, At
  <2>2. todo' = Tail(todo)
    BY <1>15, <2>1, ThenNothing DEF Unhandle
  <2>3. Kept
    BY <1>15, GoneKeeps DEF Unhandle
  <2>4. ASSUME NEW k \in 2..Len(todo) PROVE Carries(todo[k], k - 1)
    <3>1. ~(todo[k] = "close" /\ k - 1 = 1)
      BY <1>2, <2>1 DEF Part
    <3> DEFINE i == k - 1
               p == todo[k]
    <3>2. p = "close" /\ i = 1 => ~HasClient
      BY <3>1
    <3> HIDE DEF i, p
    <3>3. Carries(p, i)
      BY <2>1, <2>3, <3>2, KeptCarries
    <3>4. QED BY <3>3 DEF i, p
  <2>5. QED BY <2>1, <2>2, <2>4, CallsTail
<1>16. CASE Forget
  <2>1. /\ todo # <<>> /\ todo[1] = "forget" /\ UNCHANGED <<mode, result, peer>>
        /\ stream' = [stream EXCEPT !["client"] = NoStream]
    BY <1>2, <1>16 DEF Forget, At
  <2>2. todo' = Tail(todo)
    BY <1>16, <2>1, ThenNothing DEF Forget
  <2>3. ~HasClient'
    BY <2>1 DEF TypeOK, HasClient, NoStream
  <2>4. Len(todo) = 2 /\ todo[2] \in Rests
    BY <1>2, <2>1 DEF Part
  <2>5. ASSUME NEW k \in 2..Len(todo) PROVE Carries(todo[k], k - 1)
    <3>1. todo[k] \in Rests
      BY <2>4, <2>5
    <3>2. todo[k] \notin NeedsClient /\ todo[k] # "forget" /\ todo[k] # "closed"
      BY <3>1 DEF Rests, NeedsClient
    <3>3. Unanswered => Unanswered'
      BY <2>1 DEF Unanswered
    <3>4. QED BY <2>3, <3>2, <3>3 DEF Carries
  <2>6. QED BY <2>1, <2>2, <2>5, CallsTail
<1>17. CASE FlushData
  <2>1. /\ todo # <<>> /\ todo[1] = "flush" /\ UNCHANGED <<peer, mode, stream>>
        /\ \/ Then(<<"pass", "flush">>) /\ UNCHANGED result
           \/ \E r \in {-1, 0} : Returns(r)
    BY <1>2, <1>17 DEF FlushData, At
  <2>2. Kept
    BY <2>1, StillKeeps
  <2>3. CASE Then(<<"pass", "flush">>) /\ UNCHANGED result
    <3>1. todo' = <<"pass", "flush">> \o Tail(todo)
      BY <2>3 DEF Then
    <3>2. /\ WellFormed(todo') /\ Len(todo') = Len(todo) + 1 /\ todo'[1] = "pass"
          /\ \A k \in 1..Len(todo) : todo'[k + 1] = todo[k]
      BY <1>1, <2>1, <3>1, FlushFormed
    <3>3. ASSUME NEW i \in 1..Len(todo') PROVE Relied(todo', i)
      <4>1. CASE i = 1
        BY <3>2, <4>1 DEF Relied, NeedsClient
      <4>2. CASE i # 1
        <5> DEFINE k == i - 1
        <5>1. k \in 1..Len(todo) /\ i = k + 1
          BY <1>2, <2>1, <3>2, <4>2
        <5> HIDE DEF k
        <5>2. Relies(todo, k) /\ Part(todo, k) /\ todo'[i] = todo[k]
          BY <3>2, <5>1 DEF Calls
        <5>3. todo[k] = "forget" => k + 1 \in 1..Len(todo)
          BY <5>1, <5>2 DEF Part
        <5>4. todo[k] = "forget" => todo'[i + 1] = todo[k + 1]
          BY <3>2, <5>1, <5>3
        <5>5. Carries(todo[k], i)
          BY <2>2, <2>3, <4>2, KeptCarries
        <5>6. QED BY <5>2, <5>4, <5>5, ReliesMoves
      <4>3. QED BY <4>1, <4>2
    <3>4. mode' # "closed"
      BY <1>1, <2>1
    <3>5. QED BY <3>2, <3>3, <3>4, CallsNext
  <2>4. CASE \E r \in {-1, 0} : Returns(r)
    <3>1. todo' = Tail(todo)
      BY <2>1, <2>4, ThenNothing DEF Returns
    <3>2. Len(todo) = 1 \/ todo[2] \in {"unhandle", "closeclient"}
      BY <1>2, <2>1 DEF Part
    <3>3. ASSUME NEW k \in 2..Len(todo) PROVE Carries(todo[k], k - 1)
      <4>1. 2 \in 1..Len(todo) /\ k \in 1..Len(todo) /\ Len(todo) # 1
        BY <1>2, <2>1
      <4>2. Part(todo, 2) /\ Relies(todo, 2) /\ Part(todo, k)
        BY <4>1 DEF Calls
      <4>3. CASE todo[2] = "unhandle"
        <5>1. HasClient /\ mode = "server"
          BY <4>2, <4>3 DEF Relies, Apart
        <5>2. Unanswered'
          BY <2>1, <5>1 DEF Unanswered
        <5>3. ~(todo[k] = "close" /\ k - 1 = 1)
          BY <4>3
        <5>4. QED BY <2>1, <5>2, <5>3 DEF Carries, HasClient, Ends, Backlogged
      <4>4. CASE todo[2] = "closeclient"
        <5>1. Len(todo) = 3 /\ todo[3] = "close"
          BY <4>2, <4>4 DEF Part
        <5>2. k = 2 \/ k = 3
          BY <5>1
        <5>3. todo[k] \in {"closeclient", "close"} /\ ~(todo[k] = "close" /\ k - 1 = 1)
          BY <4>4, <5>1, <5>2
        <5>4. QED BY <5>3 DEF Carries, NeedsClient
      <4>5. QED BY <3>2, <4>1, <4>3, <4>4
    <3>4. QED BY <2>1, <3>1, <3>3, CallsTail
  <2>5. QED BY <2>1, <2>3, <2>4
<1>18. CASE CloseClient
  <2>1. /\ todo # <<>> /\ todo[1] = "closeclient" /\ UNCHANGED <<peer, mode, stream, result>>
        /\ Then(IF HasClient THEN DropClient ELSE <<>>)
    BY <1>2, <1>18 DEF CloseClient, At
  <2>2. Len(todo) = 2 /\ todo[2] = "close"
    BY <1>2, <2>1 DEF Part
  <2>3. Tail(todo) = <<"close">>
    <3>1. /\ Tail(todo) \in Seq(PartNames) /\ Len(Tail(todo)) = Len(todo) - 1
          /\ \A k \in 1..(Len(todo) - 1) : Tail(todo)[k] = todo[k + 1]
      BY <1>1, <2>1, TailFormed
    <3>2. Len(Tail(todo)) = 1 /\ Tail(todo)[1] = "close"
      BY SMTT(30), <2>2, <3>1
    <3>3. "close" \in PartNames
      BY DEF PartNames, Lasts, Rests
    <3>4. QED BY <3>1, <3>2, <3>3, Single
  <2>4. CASE HasClient
    <3>1. todo' = DropClient \o <<"close">>
      BY <2>1, <2>3, <2>4 DEF Then
    <3>2. todo' = <<"flush", "unhandle", "pass", "forget", "close">>
      BY <3>1, Dropping DEF Rests
    <3>3. mode' = "server" /\ HasClient' /\ "close" \in Rests /\ "close" \in GivesUp
      BY <2>1, <2>4 DEF Apart, HasClient, Rests, GivesUp
    <3>4. QED BY <3>2, <3>3, CallsDrop
  <2>5. CASE ~HasClient
    <3>1. todo' = Tail(todo)
      BY <2>1, <2>5, ThenNothing
    <3>2. Kept
      BY <2>1, StillKeeps
    <3>3. \A k \in 2..Len(todo) : Carries(todo[k], k - 1)
      BY <2>1, <2>5, <3>2, KeptCarries
    <3>4. QED BY <2>1, <3>1, <3>3, CallsTail
  <2>6. QED BY <2>4, <2>5
\* The last part is done.
<1>19. CASE OuterQueued \/ Available \/ Closed
  BY <1>19, LastReturns DEF OuterQueued, Available, Closed, Lasts, Rests
<1>20. CASE CloseHandler
  <2>1. At("close") /\ "close" \in Lasts /\ Then(<<"pass", "closed">>) /\ UNCHANGED mode
    BY <1>20 DEF CloseHandler, Lasts, Rests
  <2>2. Tail(todo) = <<>> /\ Relies(todo, 1) /\ todo[1] = "close" /\ mode # "closed"
    BY <2>1, AtLast
  <2>3. todo' = <<"pass", "closed">>
    BY <2>1, <2>2, Beginnings, ThenLast DEF WellFormed
  <2>4. Kept /\ (mode = "server" => ~Backlogged')
    BY <1>20, CloseKeeps
  <2>5. ~HasClient' /\ ~Backlogged'
    BY <2>2, <2>4 DEF Relies, Kept, HasClient, Apart
  <2>6. "closed" \in PartNames /\ "closed" \notin NeedsClient /\ mode' # "closed"
    BY <2>1, <2>2 DEF PartNames, Lasts, NeedsClient
  <2>7. QED BY <2>3, <2>5, <2>6, Beginnings, CallsOne
<1>21. CASE AskClient \/ AskClientQueued
  <2>1. PICK p \in {"clientavailable", "clientqueued"} :
          (At("available") \/ At("queued")) /\ HasClient /\ Then(<<"pass", p>>)
          /\ UNCHANGED <<mode, stream>>
    BY <1>21 DEF AskClient, AskClientQueued
  <2>2. Tail(todo) = <<>> /\ mode # "closed"
    BY <2>1, AtLast DEF Lasts, Rests
  <2>3. todo' = <<"pass", p>>
    BY <2>1, <2>2, Beginnings, ThenLast DEF WellFormed
  <2>4. HasClient' /\ mode' # "closed" /\ p \in PartNames
    BY <2>1, <2>2 DEF HasClient, PartNames, Lasts
  <2>5. QED BY <2>3, <2>4, Beginnings, CallsOne
\* Of a client, that may be at its end.
<1>22. ASSUME NEW p \in Lasts, NEW q \in Rests, At(p), HasClient, Then(DropClient \o <<q>>),
              q \notin GivesUp => Ends("client"), UNCHANGED <<mode, stream>>
       PROVE  Calls'
  <2>1. Tail(todo) = <<>>
    BY <1>22, AtLast
  <2>2. DropClient \o <<q>> = <<"flush", "unhandle", "pass", "forget", q>>
    BY Dropping
  <2>3. Then(<<"flush", "unhandle", "pass", "forget", q>>)
    BY <1>22, <2>2
  <2>4. <<"flush", "unhandle", "pass", "forget", q>> \in Seq(PartNames)
    BY Dropping DEF WellFormed
  <2>5. todo' = <<"flush", "unhandle", "pass", "forget", q>>
    BY <2>1, <2>3, <2>4, ThenLast
  <2>6. mode' = "server" /\ HasClient' /\ (q \notin GivesUp => Ends("client")')
    BY <1>22 DEF Apart, HasClient, Ends
  <2>7. QED BY <2>5, <2>6, CallsDrop
<1>23. CASE ClientAvailable
  <2>1. At("clientavailable") /\ "clientavailable" \in Lasts /\ "available" \in Rests
    BY <1>23 DEF ClientAvailable, Lasts, Rests
  <2>2. HasClient
    BY <2>1, AtLast DEF Relies
  <2>3. CASE Ends("client")
    BY <1>22, <1>23, <2>1, <2>2, <2>3 DEF ClientAvailable
  <2>4. CASE ~Ends("client")
    BY <1>23, <2>1, <2>4, LastReturns DEF ClientAvailable
  <2>5. QED BY <2>3, <2>4
<1>24. CASE ClientQueued
  <2>1. At("clientqueued") /\ "clientqueued" \in Lasts /\ "queued" \in Rests
        /\ "queued" \in GivesUp
    BY <1>24 DEF ClientQueued, Lasts, Rests, GivesUp
  <2>2. HasClient
    BY <2>1, AtLast DEF Relies
  <2>3. CASE Queued("client") < 0
    BY <1>22, <1>24, <2>1, <2>2, <2>3 DEF ClientQueued
  <2>4. CASE ~(Queued("client") < 0)
    BY <1>24, <2>1, <2>4, LastReturns DEF ClientQueued
  <2>5. QED BY <2>3, <2>4
<1>25. CASE ReadData
  <2>1. At("read") /\ "read" \in Lasts /\ "read" \in Rests /\ UNCHANGED mode
    BY <1>25 DEF ReadData, Lasts, Rests
  <2>2. \/ HasClient /\ Ends("client") /\ Then(DropClient \o <<"read">>) /\ UNCHANGED stream
        \/ \E r \in {-1, 0, 1} : Returns(r)
    BY <1>25 DEF ReadData, TakeByte
  <2>3. QED BY <1>22, <2>1, <2>2, LastReturns
<1>26. CASE WriteOuter
  <2>1. At("write") /\ "write" \in Lasts /\ Then(<<"pass">>) /\ UNCHANGED mode
    BY <1>26 DEF WriteOuter, Lasts, Rests
  <2>2. Tail(todo) = <<>> /\ mode # "closed"
    BY <2>1, AtLast
  <2>3. todo' = <<"pass">>
    BY <2>1, <2>2, Beginnings, ThenLast DEF WellFormed
  <2>4. "pass" \in PartNames /\ "pass" \notin NeedsClient /\ mode' # "closed"
    BY <2>1, <2>2 DEF PartNames, NeedsClient
  <2>5. QED BY <2>3, <2>4, Beginnings, CallsOne
<1>27. CASE WriteClient
  <2>1. /\ At("write") /\ "write" \in Lasts /\ "write" \in Rests /\ "write" \in GivesUp
        /\ HasClient /\ UNCHANGED <<mode, stream>>
        /\ \/ Then(<<"pass">> \o (DropClient \o <<"write">>))
           \/ Then(<<"pass">> \o <<"pass">>)
    BY <1>27 DEF WriteClient, Lasts, Rests, GivesUp
  <2>2. Tail(todo) = <<>> /\ mode # "closed"
    BY <2>1, AtLast
  <2>3. CASE Then(<<"pass">> \o (DropClient \o <<"write">>))
    <3>1. Then(<<"pass", "flush", "unhandle", "pass", "forget", "write">>)
      BY <2>1, <2>3, Dropping
    <3>2. <<"pass", "flush", "unhandle", "pass", "forget", "write">> \in Seq(PartNames)
      BY <2>1, Dropping DEF WellFormed
    <3>3. todo' = <<"pass", "flush", "unhandle", "pass", "forget", "write">>
      BY <2>2, <3>1, <3>2, ThenLast
    <3>4. mode' = "server" /\ HasClient'
      BY <2>1 DEF Apart, HasClient
    <3>5. QED BY <2>1, <3>3, <3>4, CallsDrop
  <2>4. CASE Then(<<"pass">> \o <<"pass">>)
    <3>1. <<"pass">> \o <<"pass">> = <<"pass", "pass">>
      BY TwoPasses
    <3>4. <<"pass", "pass">> \in Seq(PartNames)
      BY Beginnings DEF WellFormed
    <3>5. Then(<<"pass", "pass">>)
      BY <2>4, <3>1
    <3>2. todo' = <<"pass", "pass">>
      BY <2>2, <3>4, <3>5, ThenLast
    <3>3. "pass" \in PartNames /\ "pass" \notin NeedsClient /\ mode' # "closed"
      BY <2>1, <2>2 DEF PartNames, NeedsClient
    <3>6. QED BY <3>2, <3>3, Beginnings, CallsOne
  <2>5. QED BY <2>1, <2>3, <2>4
<1>28. QED
  BY <1>0, <1>4, <1>5, <1>6, <1>7, <1>8, <1>9, <1>10, <1>11, <1>12, <1>13, <1>14, <1>15,
     <1>16, <1>17, <1>18, <1>19, <1>20, <1>21, <1>23, <1>24, <1>25, <1>26, <1>27
     DEF Next, Callbacks, Parts

-----------------------------------------------------------------------------
(* The theorems *)

LEMMA InitInv == Init => IInv
<1> SUFFICES ASSUME Init PROVE IInv
  OBVIOUS
<1>0. MaxSent \in Nat /\ MaxOut \in Nat
  BY StdSocketAssumption DEF StdSocketAssumption
<1>1. NoStream \in Streams
  BY DEF NoStream, Streams
<1>2. [state |-> "away", sent |-> 0, taken |-> 0, fin |-> "no"] \in Peers
  BY <1>0 DEF Peers
<1>3. 0 \in 0..MaxOut /\ 0 \in -1..(MaxSent + MaxOut) /\ <<>> \in Seq(Conn \X (1..MaxSent))
  BY <1>0
<1>4. TypeOK
  BY <1>1, <1>2, <1>3 DEF Init, TypeOK
<1>5. ASSUME NEW s \in {"outer", "client"}
      PROVE  stream[s].fd = "none" /\ stream[s].buffer = <<>>
  BY DEF Init, NoStream
<1>6. ASSUME NEW c \in Conn PROVE peer[c].state = "away" /\ Known(c)
  <2>1. /\ peer[c] = [state |-> "away", sent |-> 0, taken |-> 0, fin |-> "no"]
        /\ log[c] = <<>>
    BY DEF Init
  <2>2. QED BY <2>1 DEF Known
<1>7. Held
  BY <1>5, <1>6 DEF Held, Holds
<1>8. Apart
  BY <1>5, <1>6 DEF Apart, HasClient, Backlogged, Init
<1>9. Calls
  BY DEF Init, Calls
<1>10. QED BY <1>4, <1>7, <1>8, <1>9 DEF IInv

LEMMA Invariance == Spec => []IInv
<1>1. IInv /\ [Next]_vars => IInv'
  BY TypeStep, HeldStep, ApartStep, CallsStep DEF IInv
<1>2. QED BY InitInv, <1>1, PTL DEF Spec

\* The kernel's side of every connection, the streams and the bytes read keep
\* their types, whatever callbacks run inside the calls: buffers hold bytes of
\* connections only and no part of a call is left to run on a closed stream.
THEOREM TypeCorrect == Spec => []TypeOK
<1>1. IInv => TypeOK
  BY DEF IInv
<1>2. QED BY <1>1, Invariance, PTL

\* The application reads the bytes of every connection in the order in which
\* the peer sent them, each once and none left out, and what is not yet read is
\* in the buffer: whatever readcallback, connectcallback and the deletions do
\* inside Process() between the parts of a call.
THEOREM InOrder == Spec => []StreamInOrder
<1>1. ASSUME IInv PROVE StreamInOrder
  <2>1. TypeOK /\ Held
    BY <1>1 DEF IInv
  <2>2. ASSUME NEW c \in Conn, NEW k \in DOMAIN log[c] PROVE log[c][k] = <<c, k>>
    <3>1. log[c] \in Seq(Conn \X (1..MaxSent)) /\ Known(c)
      BY <2>1, Fields DEF Held
    <3>2. k \in 1..Len(log[c])
      BY <3>1
    <3>3. QED BY <3>1, <3>2 DEF Known
  <2>3. ASSUME NEW s \in {"outer", "client"}, stream[s].fd # "none"
        PROVE  log[stream[s].fd] \o stream[s].buffer
                 = [k \in 1..peer[stream[s].fd].taken |-> <<stream[s].fd, k>>]
    <3>1. PICK c \in Conn : c = stream[s].fd
      BY <2>1, <2>3, Fields
    <3>2. Split(log[c], stream[s].buffer, c, peer[c].taken)
      BY <2>1, <2>3, <3>1, HoldsForms DEF Held, Connected
    <3>3. /\ log[c] \in Seq(Conn \X (1..MaxSent)) /\ peer[c].taken \in Nat
          /\ stream[s].buffer \in Seq(Conn \X (1..MaxSent))
      BY <2>1, Fields
    <3>4. log[c] \o stream[s].buffer = [k \in 1..peer[c].taken |-> <<c, k>>]
      <4> DEFINE l == log[c]
                 b == stream[s].buffer
                 m == peer[c].taken
                 S == Conn \X (1..MaxSent)
      <4>1. l \in Seq(S) /\ b \in Seq(S) /\ m \in Nat /\ Split(l, b, c, m)
        BY <3>2, <3>3
      <4> HIDE DEF l, b, m, S
      <4>2. l \o b = [k \in 1..m |-> <<c, k>>]
        BY <4>1, SplitWhole
      <4>3. QED BY <4>2 DEF l, b, m
    <3>5. QED BY <3>1, <3>4
  <2>4. DOMAIN stream = {"outer", "client"}
    BY <2>1, Fields
  <2>5. QED BY <2>2, <2>3, <2>4 DEF StreamInOrder
<1>2. QED BY <1>1, Invariance, PTL

\* readdata() and bytesavailable() return -1 only when everything that was
\* received has been read, and they drop a client only then.
THEOREM NothingLostAtEnd == Spec => EndsAfterLastByte
<1> DEFINE A == /\ (At("read") \/ At("available")) /\ result' = -1
                    => stream["outer"].buffer = <<>>
                /\ At("forget") /\ ~(Len(todo) > 1 /\ todo[2] \in GivesUp)
                    => stream["client"].buffer = <<>>
<1>1. IInv /\ [Next]_vars => [A]_vars
  <2> SUFFICES ASSUME TypeOK, Held, Apart, Calls, Next PROVE A
    BY DEF IInv
  <2>0. DOMAIN stream = {"outer", "client"}
    BY Fields
  <2>1. ASSUME At("forget"), ~(Len(todo) > 1 /\ todo[2] \in GivesUp)
        PROVE  stream["client"].buffer = <<>>
    <3>1. WellFormed(todo) /\ todo # <<>> /\ Head(todo) = "forget"
      BY <2>1 DEF Calls, WellFormed, At
    <3>2. Len(todo) \in Nat \ {0} /\ todo[1] = "forget"
      BY <3>1, TailFormed
    <3>3. Part(todo, 1) /\ Relies(todo, 1)
      BY <3>2 DEF Calls
    <3>4. Len(todo) = 2
      BY <3>2, <3>3 DEF Part
    <3>5. Ends("client")
      BY <2>1, <3>2, <3>3, <3>4 DEF Relies
    <3>6. QED BY <3>5 DEF Ends
  <2>2. ASSUME At("read") \/ At("available"), result' = -1
        PROVE  stream["outer"].buffer = <<>>
    <3>1. CASE mode # "client"
      <4>1. stream["outer"].fd = "none"
        BY <3>1 DEF Apart
      <4>2. QED BY <4>1, HoldsForms DEF Held
    <3>2. CASE mode = "client"
      <4>1. ~HasClient /\ result = 0
        <5>1. Relies(todo, 1) /\ (todo[1] = "read" \/ todo[1] = "available")
          BY <2>2, AtLast DEF Lasts, Rests
        <5>2. QED BY <3>2, <5>1 DEF Relies, Unanswered, Apart
      <4>2. todo # <<>> /\ Head(todo) \in {"read", "available"}
        BY <2>2 DEF At
      <4>3. result' # result
        BY <2>2, <4>1
      <4>4. Available \/ ReadData
        BY <2>0, <4>2, <4>3
           DEF Next, Callbacks, Parts, Connect, PeerSends, OpenClient, PeerEnds, OpenServer,
               BytesAvailable, BytesQueued, Flush, Read, Write, Close, Call, EndPass,
               ReadCallback, Accept, Fails, Send, InPass, At, Unhandle, Forget, AskClient,
               ClientAvailable, OuterQueued, AskClientQueued, ClientQueued, WriteClient,
               WriteOuter, FlushData, CloseClient, CloseHandler, Closed
      <4>5. CASE Available
        <5>1. result' = IF Ends("outer") THEN -1 ELSE Len(stream["outer"].buffer)
          BY <4>5 DEF Available, Returns
        <5>2. Len(stream["outer"].buffer) \in 0..MaxSent
          BY BufferRange
        <5>3. Ends("outer")
          BY <2>2, <5>1, <5>2
        <5>4. QED BY <5>3 DEF Ends
      <4>6. CASE ReadData
        <5>1. Ends("outer") \/ result' \in {0, 1}
          BY <4>1, <4>6 DEF ReadData, TakeByte, Returns
        <5>2. QED BY <2>2, <5>1 DEF Ends
      <4>7. QED BY <4>4, <4>5, <4>6
    <3>3. QED BY <3>1, <3>2
  <2>3. QED BY <2>1, <2>2
<1>2. [][A]_vars => EndsAfterLastByte
  BY PTL DEF EndsAfterLastByte
<1>3. QED BY <1>1, <1>2, Invariance, PTL DEF Spec
=============================================================================
