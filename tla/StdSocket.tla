------------------------------ MODULE StdSocket ------------------------------
(***************************************************************************)
(* AStdSocket (src/src/StdSocket.cpp): a stream over ASocketServer with a  *)
(* receive buffer.  A client stream owns its connection; a server stream   *)
(* owns a listening socket and, in `client', a stream for one accepted     *)
(* connection at a time, through which its own calls go.                   *)
(*                                                                         *)
(* The methods call Process(), and callbacks change what they have just    *)
(* looked at.  `todo' is what is left of the call in progress: "pass" is a *)
(* Process() inside it, any callbacks followed by the deletions; the other *)
(* parts are the stretches of code between.  Bytes are numbered per peer.  *)
(***************************************************************************)
EXTENDS Integers, SequencesExt

CONSTANTS Conn,    \* connections, one peer each
          MaxSent, \* bound: bytes a peer sends
          MaxOut   \* bound: bytes waiting to be written to a peer

ASSUME StdSocketAssumption == MaxSent \in Nat /\ MaxOut \in Nat /\ "none" \notin Conn

VARIABLES
    peer,     \* [Conn -> what the kernel holds of the connection]
    pend,     \* [Conn -> bytes in the WRITEBUFFER]
    deleting, \* DeleteSocketList, the connections
    mode,     \* of the stream: "closed", "client" or "server"
    stream,   \* ["outer", "client" -> AStdSocket]: the stream and its `client'
    todo,     \* the rest of the call in progress
    result,   \* what the last call returned, -1, or the number of bytes
    log       \* history: [Conn -> the bytes the application has read]

vars == <<peer, pend, deleting, mode, stream, todo, result, log>>

Peers == [state : {"away", "backlog", "up", "gone"}, sent : 0..MaxSent, taken : 0..MaxSent,
          fin : {"no", "eof", "reset"}]

Streams == [fd : Conn \cup {"none"}, closed : BOOLEAN, buffer : Seq(Conn \X (1..MaxSent))]

NoStream == [fd |-> "none", closed |-> FALSE, buffer |-> <<>>]

Init ==
    /\ peer = [c \in Conn |-> [state |-> "away", sent |-> 0, taken |-> 0, fin |-> "no"]]
    /\ pend = [c \in Conn |-> 0]
    /\ deleting = {}
    /\ mode = "closed"
    /\ stream = [s \in {"outer", "client"} |-> NoStream]
    /\ todo = <<>> /\ result = 0 /\ log = [c \in Conn |-> <<>>]

-----------------------------------------------------------------------------
(* Peers *)

Connect(c) ==
    /\ mode = "server" /\ peer[c].state = "away"
    /\ ~\E k \in DOMAIN todo : todo[k] = "closed"
    /\ peer' = [peer EXCEPT ![c].state = "backlog"]
    /\ UNCHANGED <<pend, deleting, mode, stream, todo, result, log>>

PeerSends(c) ==
    /\ peer[c].state \in {"backlog", "up"} /\ peer[c].fin = "no"
    /\ peer[c].sent < MaxSent
    /\ peer' = [peer EXCEPT ![c].sent = @ + 1]
    /\ UNCHANGED <<pend, deleting, mode, stream, todo, result, log>>

\* The peer closes: in order, or by a reset that discards what is unread.
PeerEnds(c, how) ==
    /\ peer[c].state \in {"backlog", "up"} /\ peer[c].fin = "no"
    /\ peer' = [peer EXCEPT ![c].fin = how]
    /\ UNCHANGED <<pend, deleting, mode, stream, todo, result, log>>

-----------------------------------------------------------------------------
(* Callbacks of a pass *)

InPass == todo # <<>> /\ Head(todo) = "pass"

HasClient == stream["client"].fd # "none"

\* connectcallback: one client at a time.
Accept(c) ==
    /\ InPass /\ mode = "server" /\ peer[c].state = "backlog"
    /\ peer' = [peer EXCEPT ![c].state = "up"]
    /\ IF HasClient
       THEN deleting' = deleting \cup {c} /\ UNCHANGED stream
       ELSE stream' = [stream EXCEPT !["client"] = [NoStream EXCEPT !.fd = c]]
            /\ UNCHANGED deleting
    /\ UNCHANGED <<pend, mode, todo, result, log>>

\* Mutant: the bytes are stored at the start of the buffer.
StoredFirst(buffer, bytes) == bytes \o buffer

Stored(buffer, bytes) == buffer \o bytes

\* readcallback with bytes available: they go behind those in the buffer.
ReadCallback(s, k) ==
    LET c == stream[s].fd IN
    /\ InPass /\ c # "none" /\ peer[c].state = "up" /\ c \notin deleting
    /\ peer[c].fin # "reset" /\ k \in 1..(peer[c].sent - peer[c].taken)
    /\ stream' = [stream EXCEPT ![s].buffer =
                    Stored(@, [i \in 1..k |-> <<c, peer[c].taken + i>>])]
    /\ peer' = [peer EXCEPT ![c].taken = @ + k]
    /\ UNCHANGED <<pend, deleting, mode, todo, result, log>>

\* Mutant: a failed connection is not deleted.
FailureIgnored(c) == FALSE

\* A failed connection is deleted by readcallback (no byte can be had: -1), or
\* by Process() when it cannot send.  At the end of a stream that the peer
\* closed in order readcallback finds 0 bytes, which it does nothing about.
Failure(c) == peer[c].fin = "reset"

Fails(c) ==
    /\ InPass /\ peer[c].state = "up" /\ c \notin deleting
    /\ Failure(c)
    /\ deleting' = deleting \cup {c}
    /\ pend' = [pend EXCEPT ![c] = 0]
    /\ UNCHANGED <<peer, mode, stream, todo, result, log>>

Send(c) ==
    /\ InPass /\ peer[c].state = "up" /\ pend[c] > 0
    /\ pend' = [pend EXCEPT ![c] = @ - 1]
    /\ UNCHANGED <<peer, deleting, mode, stream, todo, result, log>>

\* DeleteSockets(): the destructor callback of a stream sets socketclosed.
\* (A buffer that is still to be sent is the socket server's business.)
EndPass ==
    /\ InPass
    /\ peer' = [c \in Conn |-> IF c \in deleting THEN [peer[c] EXCEPT !.state = "gone"] ELSE peer[c]]
    /\ pend' = [c \in Conn |-> IF c \in deleting THEN 0 ELSE pend[c]]
    /\ stream' = [s \in DOMAIN stream |->
                    IF stream[s].fd \in deleting THEN [stream[s] EXCEPT !.closed = TRUE]
                    ELSE stream[s]]
    /\ deleting' = {}
    /\ todo' = Tail(todo)
    /\ UNCHANGED <<mode, result, log>>

-----------------------------------------------------------------------------
(* The calls *)

IsOpen == mode # "closed"

Call(parts) ==
    /\ todo = <<>> /\ IsOpen
    /\ todo' = parts /\ result' = 0
    /\ UNCHANGED <<peer, pend, deleting, mode, stream, log>>

\* At a part of the call; `next' replaces it.
At(part) == todo # <<>> /\ Head(todo) = part
Then(next) == todo' = next \o Tail(todo)

BytesLeftToWrite(s) ==
    LET c == stream[s].fd IN
    IF c = "none" \/ peer[c].state # "up" \/ c \in deleting THEN -1 ELSE pend[c]

OpenServer ==
    /\ todo = <<>> /\ mode = "closed"
    /\ mode' = "server" /\ stream' = [stream EXCEPT !["outer"] = NoStream]
    /\ UNCHANGED <<peer, pend, deleting, todo, result, log>>

OpenClient(c) ==
    /\ todo = <<>> /\ mode = "closed" /\ peer[c].state = "away"
    /\ mode' = "client"
    /\ stream' = [stream EXCEPT !["outer"] = [NoStream EXCEPT !.fd = c]]
    /\ peer' = [peer EXCEPT ![c].state = "up"]
    /\ UNCHANGED <<pend, deleting, todo, result, log>>

BytesAvailable == Call(<<"pass", "available">>)
BytesQueued == Call(<<"pass", "queued">>)
Flush == Call(<<"flush">>)
Read == Call(<<"read">>)
Write == Call(<<"write">>)
Close == Call(<<"flush", "closeclient", "close">>)

\* DeleteHandler() outside a pass deletes at once.
Gone(c) ==
    /\ peer' = [peer EXCEPT ![c].state = "gone"]
    /\ pend' = [pend EXCEPT ![c] = 0]
    /\ stream' = [s \in DOMAIN stream |->
                    IF stream[s].fd = c THEN [stream[s] EXCEPT !.closed = TRUE] ELSE stream[s]]

\* delete client: its close() flushes, deletes the handler and calls Process()
\* while `client' is still set; then client = NULL.
DropClient == <<"flush", "unhandle", "pass", "forget">>

Unhandle ==
    /\ At("unhandle")
    /\ Gone(stream["client"].fd)
    /\ Then(<<>>)
    /\ UNCHANGED <<deleting, mode, result, log>>

Forget ==
    /\ At("forget")
    /\ stream' = [stream EXCEPT !["client"] = NoStream]
    /\ Then(<<>>)
    /\ UNCHANGED <<peer, pend, deleting, mode, result, log>>

\* Mutant: -1 as soon as the socket is closed.
EndsAtOnce(s) == stream[s].closed

\* Nothing is buffered and nothing can come any more.
Ends(s) == stream[s].buffer = <<>> /\ stream[s].closed

Returns(r) == result' = r /\ Then(<<>>)

\* bytesavailable() past its Process(); the client's has one of its own.
Available ==
    /\ At("available") /\ ~HasClient
    /\ Returns(IF Ends("outer") THEN -1 ELSE Len(stream["outer"].buffer))
    /\ UNCHANGED <<peer, pend, deleting, mode, stream, log>>

AskClient ==
    /\ At("available") /\ HasClient
    /\ Then(<<"pass", "clientavailable">>)
    /\ UNCHANGED <<peer, pend, deleting, mode, stream, result, log>>

ClientAvailable ==
    /\ At("clientavailable")
    /\ IF Ends("client")
       THEN Then(DropClient \o <<"available">>) /\ UNCHANGED result
       ELSE Returns(Len(stream["client"].buffer))
    /\ UNCHANGED <<peer, pend, deleting, mode, stream, log>>

\* bytesqueued(): BytesLeftToWrite() is -1 once the connection is gone.
Queued(s) == IF BytesLeftToWrite(s) = 0 /\ stream[s].closed THEN -1 ELSE BytesLeftToWrite(s)

OuterQueued ==
    /\ At("queued") /\ ~HasClient
    /\ Returns(IF mode = "server" THEN 0 ELSE Queued("outer"))
    /\ UNCHANGED <<peer, pend, deleting, mode, stream, log>>

AskClientQueued ==
    /\ At("queued") /\ HasClient
    /\ Then(<<"pass", "clientqueued">>)
    /\ UNCHANGED <<peer, pend, deleting, mode, stream, result, log>>

ClientQueued ==
    /\ At("clientqueued")
    /\ IF Queued("client") < 0
       THEN Then(DropClient \o <<"queued">>) /\ UNCHANGED result
       ELSE Returns(Queued("client"))
    /\ UNCHANGED <<peer, pend, deleting, mode, stream, log>>

\* readdata(): one byte, of the client if there is one.
TakeByte(s) ==
    /\ LET byte == Head(stream[s].buffer) IN
       log' = [log EXCEPT ![byte[1]] = Append(@, byte)]
    /\ stream' = [stream EXCEPT ![s].buffer = Tail(@)]
    /\ Returns(1)

ReadData ==
    /\ At("read")
    /\ LET s == IF HasClient THEN "client" ELSE "outer" IN
       IF Ends(s)
       THEN /\ IF s = "client" THEN Then(DropClient \o <<"read">>) /\ UNCHANGED result
                               ELSE Returns(-1)
            /\ UNCHANGED <<stream, log>>
       ELSE IF stream[s].buffer # <<>> THEN TakeByte(s)
            ELSE Returns(0) /\ UNCHANGED <<stream, log>>
    /\ UNCHANGED <<peer, pend, deleting, mode>>

\* writedata(): one byte.  Of a client that has closed it returns -1 after its
\* own Process(), and the client is dropped with what it has received.
PutByte(s) ==
    LET c == stream[s].fd IN
    /\ IF ~stream[s].closed /\ pend[c] < MaxOut
       THEN pend' = [pend EXCEPT ![c] = @ + 1] /\ result' = 1
       ELSE UNCHANGED pend /\ result' = IF stream[s].closed THEN -1 ELSE 0

WriteClient ==
    /\ At("write") /\ HasClient
    /\ PutByte("client")
    /\ Then(<<"pass">> \o (IF stream["client"].closed THEN DropClient \o <<"write">>
                           ELSE <<"pass">>))
    /\ UNCHANGED <<peer, deleting, mode, stream, log>>

WriteOuter ==
    /\ At("write") /\ ~HasClient
    /\ IF mode = "server" THEN result' = 0 /\ UNCHANGED pend ELSE PutByte("outer")
    /\ Then(<<"pass">>)
    /\ UNCHANGED <<peer, deleting, mode, stream, log>>

\* flush(): while (BytesLeftToWrite(socket) > 0) Process(500), of the client
\* if there is one.
FlushData ==
    /\ At("flush")
    /\ LET s == IF HasClient THEN "client" ELSE "outer" IN
       IF BytesLeftToWrite(s) > 0
       THEN Then(<<"pass", "flush">>) /\ UNCHANGED result
       ELSE Returns(IF stream[s].closed THEN -1 ELSE 0)
    /\ UNCHANGED <<peer, pend, deleting, mode, stream, log>>

\* close(): the client goes first, then the handler of the stream.
CloseClient ==
    /\ At("closeclient")
    /\ Then(IF HasClient THEN DropClient ELSE <<>>)
    /\ UNCHANGED <<peer, pend, deleting, mode, stream, result, log>>

\* A connection that was not accepted goes with the listening socket.
CloseHandler ==
    /\ At("close")
    /\ IF mode = "client"
       THEN Gone(stream["outer"].fd)
       ELSE /\ peer' = [c \in Conn |-> IF peer[c].state = "backlog"
                                       THEN [peer[c] EXCEPT !.state = "gone"] ELSE peer[c]]
            /\ UNCHANGED <<pend, stream>>
    /\ Then(<<"pass", "closed">>)
    /\ UNCHANGED <<deleting, mode, result, log>>

Closed ==
    /\ At("closed")
    /\ mode' = "closed"
    /\ stream' = [stream EXCEPT !["outer"] = NoStream]
    /\ Returns(0)
    /\ UNCHANGED <<peer, pend, deleting, log>>

-----------------------------------------------------------------------------
Callbacks ==
    \/ \E s \in DOMAIN stream, k \in 1..MaxSent : ReadCallback(s, k)
    \/ \E c \in Conn : Accept(c) \/ Fails(c) \/ Send(c)

Parts ==
    \/ Unhandle \/ Forget \/ Available \/ AskClient \/ ClientAvailable
    \/ OuterQueued \/ AskClientQueued \/ ClientQueued \/ ReadData \/ WriteClient \/ WriteOuter
    \/ FlushData \/ CloseClient \/ CloseHandler \/ Closed

Next ==
    \/ \E c \in Conn : Connect(c) \/ PeerSends(c) \/ OpenClient(c)
    \/ \E c \in Conn, how \in {"eof", "reset"} : PeerEnds(c, how)
    \/ OpenServer \/ BytesAvailable \/ BytesQueued \/ Flush \/ Read \/ Write \/ Close
    \/ EndPass \/ Callbacks \/ Parts

Spec == Init /\ [][Next]_vars

\* A method that is called goes on; select() reports a connection that has
\* bytes, that failed or that takes bytes again and again until it is served;
\* the application asks for bytes, and reads them, for ever.
Fairness ==
    /\ WF_vars(Parts \/ EndPass)
    /\ SF_vars(BytesAvailable) /\ SF_vars(Read)
    /\ SF_vars(\E c \in Conn : Fails(c)) /\ SF_vars(\E c \in Conn : Send(c))
    /\ SF_vars(\E s \in DOMAIN stream, k \in 1..MaxSent : ReadCallback(s, k))

FairSpec == Spec /\ Fairness

-----------------------------------------------------------------------------
\* The fields of peers and streams, and the parts a call can have left.
TypeOK ==
    /\ peer \in [Conn -> Peers] /\ pend \in [Conn -> 0..MaxOut] /\ deleting \subseteq Conn
    /\ mode \in {"closed", "client", "server"}
    /\ stream \in [{"outer", "client"} -> Streams]
    /\ result \in -1..(MaxSent + MaxOut)
    /\ log \in [Conn -> Seq(Conn \X (1..MaxSent))]

\* Whatever callbacks run inside the calls, the application reads the bytes of
\* a connection in the order they were sent, each once and none left out, and
\* those not yet read are in the buffer of the connection's stream.
StreamInOrder ==
    /\ \A c \in Conn : \A k \in DOMAIN log[c] : log[c][k] = <<c, k>>
    /\ \A s \in DOMAIN stream : stream[s].fd # "none" =>
         LET c == stream[s].fd IN
         log[c] \o stream[s].buffer = [k \in 1..peer[c].taken |-> <<c, k>>]

\* The calls in progress that give up a client without looking at its buffer:
\* close(), and writedata() and bytesqueued() on a client that has gone.
GivesUp == {"close", "write", "queued"}

\* No received byte is lost to the end of the connection: -1 is returned by a
\* reading call only when everything received has been read, and a reading
\* call drops a client only then.
EndsAfterLastByte ==
    [][/\ (At("read") \/ At("available")) /\ result' = -1
          => stream["outer"].buffer = <<>>
       /\ At("forget") /\ ~(Len(todo) > 1 /\ todo[2] \in GivesUp)
          => stream["client"].buffer = <<>>]_vars

PeerEnded(how) == mode = "client" /\ peer[stream["outer"].fd].fin = how

Told == result = -1 \/ mode # "client"

\* A client stream whose connection has failed tells its reader so.
FailureIsReported == PeerEnded("reset") ~> Told

\* What StdData.h says of readdata(): "-1 for error/end of file".
EndOfFileIsReported == PeerEnded("eof") ~> Told
=============================================================================
