------------------------------- MODULE UDPServer -------------------------------
(***************************************************************************)
(* AUDPServer (src/src/UDPServer.cpp): a datagram socket on the socket     *)
(* server.  ReadCallback() looks at the size of the next datagram, makes   *)
(* its buffer large enough, and reads and processes the datagram, until    *)
(* none is left.  Datagrams arrive while it does, and processing one may   *)
(* delete the server.  A datagram is its number and its size.              *)
(***************************************************************************)
EXTENDS Integers, Sequences

CONSTANTS Peek,         \* 4096: the most BytesAvailable() sees
          MaxDatagrams  \* bound: the datagrams sent

VARIABLES udp,      \* [socket, phase, datalen, n]: the object and its callback
          queue,    \* the datagrams that have arrived, with their sizes
          handled   \* history: what Process() was given

vars == <<udp, queue, handled>>

Init ==
    /\ udp = [socket |-> FALSE, phase |-> "idle", datalen |-> 0, n |-> 0]
    /\ queue = <<>> /\ handled = <<>>

\* A socket that could not be created or bound leaves the object as it was.
Create ==
    /\ ~udp.socket /\ udp.phase = "idle"
    /\ udp' = [udp EXCEPT !.socket = TRUE] /\ queue' = <<>> /\ handled' = <<>>

Delete ==
    /\ udp.socket
    /\ udp' = [udp EXCEPT !.socket = FALSE] /\ queue' = <<>> /\ UNCHANGED handled

Arrive(size) ==
    /\ udp.socket /\ Len(queue) + Len(handled) < MaxDatagrams
    /\ queue' = Append(queue, [number |-> Len(queue) + Len(handled) + 1, size |-> size])
    /\ UNCHANGED <<udp, handled>>

\* Mutant: the buffer is made once.
LargeEnoughOnce(datalen, n) == IF datalen = 0 THEN n ELSE datalen

LargeEnough(datalen, n) == IF n > datalen THEN n ELSE datalen

\* The test of the loop: the size of the next datagram, as far as it is seen.
\* An empty one ends the loop and stays where it is, and so do those behind it.
ReadCallback ==
    /\ (udp.phase = "idle" /\ udp.socket) \/ udp.phase = "loop"
    /\ LET size == IF ~udp.socket \/ queue = <<>> THEN -1 ELSE queue[1].size
           n == IF size > Peek THEN Peek ELSE size IN
       udp' = IF n <= 0 THEN [udp EXCEPT !.phase = "idle", !.datalen = 0, !.n = 0]
              ELSE [udp EXCEPT !.phase = "read", !.n = n, !.datalen = LargeEnough(@, n)]
    /\ UNCHANGED <<queue, handled>>

\* ReadSocket() takes the whole datagram, the part that does not fit with it;
\* Process() may delete the server.
Receive ==
    /\ udp.phase = "read"
    /\ \E deletes \in BOOLEAN :
         /\ udp' = [udp EXCEPT !.phase = "loop", !.socket = @ /\ ~deletes]
         /\ queue' = IF deletes THEN <<>> ELSE Tail(queue)
    /\ handled' = Append(handled, [number |-> queue[1].number,
                                   size |-> IF queue[1].size < udp.n THEN queue[1].size ELSE udp.n])

Next ==
    \/ Create \/ (udp.phase = "idle" /\ Delete)
    \/ (\E size \in 0..(Peek + 1) : Arrive(size))
    \/ ReadCallback \/ Receive

Spec == Init /\ [][Next]_vars

-----------------------------------------------------------------------------
\* The datagrams are processed in the order in which they came, none twice and
\* none left out, each as large as it was or as the peek sees; and no read goes
\* past the end of the buffer, which is kept from one datagram to the next.
DatagramsInOrder ==
    /\ \A k \in DOMAIN handled : handled[k].number = k /\ handled[k].size \in 1..Peek
    /\ \A k \in DOMAIN queue : queue[k].number = Len(handled) + k
    /\ udp.n <= udp.datalen
=============================================================================
