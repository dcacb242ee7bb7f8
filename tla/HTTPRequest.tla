------------------------------ MODULE HTTPRequest ------------------------------
(***************************************************************************)
(* AHTTPRequest (src/src/HTTPRequest.cpp) over ASocketServer::Handler: one *)
(* request object, the handler it has on the socket server and the peer    *)
(* that answers.  The server visits the handler in passes: deletions are   *)
(* put off to the end of a pass, so a request that was closed in one may   *)
(* still be called.  The object outlives its handler.                      *)
(***************************************************************************)
EXTENDS Integers, Sequences

CONSTANTS URLs,
          Responses,   \* what peers send: sequences of "x", "r" and "n" (\r and \n)
          Chunk        \* 65536: the room OnRead() makes

VARIABLES request,  \* [socket, url, sendrequest, complete, data, pos]
          server,   \* the handler: [handler, phase, ready, connected, pending]
          peer      \* [response, taken, asked]: the bytes read, the requests got

vars == <<request, server, peer>>

Init ==
    /\ request = [socket |-> FALSE, url |-> "none", sendrequest |-> FALSE,
                  complete |-> FALSE, data |-> <<>>, pos |-> 0]
    /\ server = [handler |-> "none", phase |-> "idle", ready |-> {}, connected |-> FALSE,
                 pending |-> FALSE]
    /\ peer = [response |-> <<>>, taken |-> 0, asked |-> <<>>]

IsOpen(r) == r.socket

\* Cleanup(), which the server calls when it deletes the handler.
Cleanup(r) ==
    [r EXCEPT !.socket = FALSE, !.complete = IF IsOpen(r) THEN r.data # <<>> ELSE @,
              !.data = <<>>, !.pos = 0, !.sendrequest = FALSE]

\* The object and the handler after Close(): the handler goes at once, or at
\* the end of the pass.
Closed(r) == IF IsOpen(r) /\ server.phase = "idle" THEN Cleanup(r) ELSE r

ClosedHandler(r, s) ==
    IF ~IsOpen(r) THEN s
    ELSE [s EXCEPT !.handler = IF s.phase = "idle" THEN "none" ELSE "deleting"]

Close ==
    /\ request' = Closed(request) /\ server' = ClosedHandler(request, server)
    /\ UNCHANGED peer

\* OpenURL(): with a connection open only the URL changes.  OnConnect() runs
\* inside CreateHandler().
OpenURL(url) ==
    \/ /\ ~IsOpen(request)
       /\ request' = [request EXCEPT !.url = url, !.socket = TRUE, !.complete = FALSE,
                                     !.sendrequest = TRUE, !.pos = 0]
       /\ \E connected \in BOOLEAN :
            server' = [server EXCEPT !.handler = "live", !.ready = {}, !.connected = connected,
                                     !.pending = FALSE]
       /\ \E response \in Responses : peer' = [response |-> response, taken |-> 0, asked |-> <<>>]
    \/ /\ request' = [request EXCEPT !.url = url, !.complete = FALSE]
       /\ UNCHANGED <<server, peer>>

\* A pass: NeedWrite() is asked, and select() says what is ready.  An exception
\* deletes the handler and its unsent bytes.
BeginPass ==
    /\ server.phase = "idle" /\ server.handler = "live"
    /\ \E ready \in SUBSET {"read", "write"}, except \in BOOLEAN :
         /\ "write" \in ready => server.pending \/ request.sendrequest
        
         /\ server' = IF except
                   THEN [server EXCEPT !.phase = "end", !.handler = "deleting", !.ready = {},
                                       !.connected = TRUE, !.pending = FALSE]
                   ELSE [server EXCEPT !.phase = "read", !.ready = ready,
                                       !.connected = @ \/ ready # {}]
    /\ UNCHANGED <<request, peer>>

\* Mutant: the bytes left are not moved to the front.
RemoveUnmoved(r, n) == [r EXCEPT !.pos = @ - n]

RemoveBytes(r, n) ==
    LET left == r.pos - n IN
    [r EXCEPT !.pos = left,
              !.data = [k \in DOMAIN @ |-> IF k <= left THEN @[k + n] ELSE @[k]]]

\* The place of \r\n in the first bytes, which GetHeader() removes with it.
LineEnds(r, maxlen) ==
    {k \in 1..(r.pos - 1) : k < maxlen /\ r.data[k] = "r" /\ r.data[k + 1] = "n"}

GetHeader(r, maxlen) ==
    IF LineEnds(r, maxlen) = {} THEN r
    ELSE RemoveBytes(r, 1 + CHOOSE k \in LineEnds(r, maxlen) : \A l \in LineEnds(r, maxlen) : k <= l)

\* What a subclass may do in ProcessData(), besides closing.
ProcessData(r) ==
    {RemoveBytes(r, n) : n \in 0..r.pos} \cup {GetHeader(r, maxlen) : maxlen \in 1..Chunk}
      \cup {[r EXCEPT !.url = url, !.complete = FALSE] : url \in URLs}

\* OnRead() with so many bytes, or none: the peer ended or the read failed.
Received(r, bytes) ==
    LET room == [k \in 1..(IF Len(r.data) < r.pos + Chunk THEN r.pos + Chunk ELSE Len(r.data)) |->
                   IF k \in DOMAIN r.data THEN r.data[k] ELSE "0"] IN
    [r EXCEPT !.pos = @ + Len(bytes),
              !.data = [k \in DOMAIN room |->
                          IF k - r.pos \in DOMAIN bytes THEN bytes[k - r.pos] ELSE room[k]]]

Read(n) ==
    LET bytes == SubSeq(peer.response, peer.taken + 1, peer.taken + n)
        r == Received(request, bytes) IN
    /\ n <= Chunk /\ peer.taken + n <= Len(peer.response)
    /\ (n = 0 \/ server.handler = "live")
    /\ peer' = [peer EXCEPT !.taken = @ + n]
    /\ \/ n > 0 /\ request' \in ProcessData(r) /\ server' = [server EXCEPT !.phase = "write"]
       \/ request' = r /\ server' = [ClosedHandler(r, server) EXCEPT !.phase = "write"]

OnRead ==
    /\ server.phase = "read"
    /\ IF "read" \in server.ready THEN \E n \in 0..Chunk : Read(n)
       ELSE server' = [server EXCEPT !.phase = "write"] /\ UNCHANGED <<request, peer>>

\* Mutant: the request stays to be sent.
SentAgain(r) == r

Sent(r) == [r EXCEPT !.sendrequest = FALSE]

\* The server sends what is left over, or calls OnWrite(), which sends the
\* request once.
OnWrite ==
    /\ server.phase = "write"
    /\ IF "write" \notin server.ready \/ ~(server.pending \/ request.sendrequest)
       THEN server' = [server EXCEPT !.phase = "end"] /\ UNCHANGED <<request, peer>>
       ELSE IF server.pending
       THEN /\ \/ \E left \in BOOLEAN : server' = [server EXCEPT !.phase = "end", !.pending = left]
               \/ server' = [server EXCEPT !.phase = "end", !.pending = FALSE, !.handler = "deleting"]
            /\ UNCHANGED <<request, peer>>
       ELSE /\ request' = Sent(request)
            /\ server' = [server EXCEPT !.phase = "end", !.pending = (server.handler = "live")]
            /\ peer' = IF server.handler = "live"
                       THEN [peer EXCEPT !.asked = Append(@, request.url)] ELSE peer

\* A connection on which nothing has happened for ten seconds is given up, and
\* the handlers to be deleted go.
EndPass ==
    /\ server.phase = "end"
    /\ \E timeout \in BOOLEAN :
         LET gone == server.handler = "deleting" \/ (timeout /\ ~server.connected) IN
         /\ request' = IF gone THEN Cleanup(request) ELSE request
         /\ server' = [server EXCEPT !.phase = "idle", !.ready = {},
                                     !.handler = IF gone THEN "none" ELSE @]
    /\ UNCHANGED peer

Next == (\E url \in URLs : OpenURL(url)) \/ Close \/ BeginPass \/ OnRead \/ OnWrite \/ EndPass

Spec == Init /\ [][Next]_vars

-----------------------------------------------------------------------------
\* What a request holds is the last bytes its own peer sent, in order, however
\* they were cut up, however many were taken out in between and whatever the
\* connection before left behind; and one request is sent on a connection.
ResponseInOrder ==
    /\ request.pos <= Len(request.data)
    /\ SubSeq(request.data, 1, request.pos)
         = SubSeq(peer.response, peer.taken - request.pos + 1, peer.taken)
    /\ Len(peer.asked) <= 1
=============================================================================
