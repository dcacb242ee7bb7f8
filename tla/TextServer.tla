----------------------------- MODULE TextServer -----------------------------
(***************************************************************************)
(* ATextServer and ATextHandler (src/src/TextServer.cpp): a server that    *)
(* keeps one handler object per connected client, over ASocketServer.      *)
(*                                                                         *)
(* The socket server is seen as its user sees it (its own steps are in     *)
(* module SocketServer): a pass of Process() makes callbacks in any order, *)
(* and a DeleteHandler() made under one only joins DeleteSocketList; made  *)
(* by the application's own loop it runs the destructor callbacks before   *)
(* it returns ("reap").  A handler object is named by its client's socket. *)
(* Text is counted, not spelled.  What a callback does is a function on    *)
(* the record `world', so that calls compose as they do in the code.       *)
(***************************************************************************)
EXTENDS Integers, SequencesExt

CONSTANTS Client,        \* sockets accept() may return
          Listener,      \* the listening socket
          MaxSendBuffer, \* units the socket server buffers for a socket
          WriteSizes,    \* units one command makes a handler write
          MaxWrites,     \* bound: commands that write, per connection
          MaxConnects    \* bound: connections in all

ASSUME TextServerAssumption ==
    /\ Listener \notin Client
    /\ MaxSendBuffer \in Nat \ {0} /\ MaxWrites \in Nat /\ MaxConnects \in Nat
    /\ WriteSizes \subseteq Nat \ {0}

VARIABLES
    attached,   \* sockets in SocketList with their callbacks
    draining,   \* sockets in SocketList that only wait for their buffer
    bound,      \* the listening socket is in SocketList
    context,    \* [Client -> "handler" or "null"]
    world,      \* what calls change, see World
    mode,       \* "idle", "pass" (Process), "call" (Delete) or "reap" (DeleteSockets)
    caller,     \* where the reaping returns to, "idle" or "call"
    n,          \* loop index of Delete() in "call"
    j,          \* loop index of DeleteSockets() in "reap"
    forced,     \* the argument of the Delete() in "call"
    writes,     \* [Client -> commands that wrote]
    connects    \* connections so far

sockets == <<attached, draining, bound, context>>
frame == <<mode, caller, n, j, forced>>
bounds == <<writes, connects>>
vars == <<sockets, world, frame, bounds>>

Objects == [live : BOOLEAN, open : BOOLEAN, senddata : Nat, closewhendone : BOOLEAN]

NoObject == [live |-> FALSE, open |-> FALSE, senddata |-> 0, closewhendone |-> FALSE]
NewObject == [live |-> TRUE, open |-> TRUE, senddata |-> 0, closewhendone |-> FALSE]

World == [deleting : Seq(Client \cup {Listener}),  \* DeleteSocketList
          pend : [Client -> Nat],                  \* units in the WRITEBUFFER
          object : [Client -> Objects],            \* the ATextHandler
          clientlist : Seq(Client),
          valid : BOOLEAN,                         \* ATextServer::socket >= 0
          creator : BOOLEAN,                       \* creator # NULL
          closewhendone : BOOLEAN,
          \* history: units written and not yet taken by the kernel; why a
          \* connection may end with some; the call whose Delete() was put
          \* off; the clients Delete(true) left behind.
          owed : [Client -> Nat],
          excused : [Client -> SUBSET {"peer", "forced", "full"}],
          waits : {"no", "idle", "callback"},
          cut : SUBSET Client]

Init ==
    /\ attached = {} /\ draining = {} /\ bound = FALSE
    /\ context = [c \in Client |-> "null"]
    /\ world = [deleting |-> <<>>, pend |-> [c \in Client |-> 0],
                object |-> [c \in Client |-> NoObject], clientlist |-> <<>>,
                valid |-> FALSE, creator |-> FALSE, closewhendone |-> FALSE,
                owed |-> [c \in Client |-> 0], excused |-> [c \in Client |-> {}],
                waits |-> "no", cut |-> {}]
    /\ mode = "idle" /\ caller = "idle" /\ n = 1 /\ j = 1 /\ forced = FALSE
    /\ writes = [c \in Client |-> 0] /\ connects = 0

-----------------------------------------------------------------------------
(* Calls on the socket server *)

\* DeleteHandler() as far as DeleteSocketList: no duplicates.
DeleteHandler(w, s) ==
    [w EXCEPT !.deleting = IF s \in ToSet(@) THEN @ ELSE Append(@, s)]

\* A socket that is gone or in DeleteSocketList takes no bytes (-1).
Reachable(w, c) == c \in attached /\ c \notin ToSet(w.deleting)

BytesLeftToWrite(w, c) == IF Reachable(w, c) THEN w.pend[c] ELSE -1

WriteSocket(w, c, bytes) ==
    LET room == MaxSendBuffer - w.pend[c] IN
    IF ~Reachable(w, c) THEN -1 ELSE IF bytes < room THEN bytes ELSE room

-----------------------------------------------------------------------------
(* ATextHandler *)

\* What the socket server takes leaves senddata; if it takes nothing the
\* socket is deleted.  (A closed handler writes to socket -1.)
SendData(w, c) ==
    LET o == w.object[c]
        sent == IF o.open THEN WriteSocket(w, c, o.senddata) ELSE -1
    IN CASE o.senddata = 0 -> w
         [] o.senddata > 0 /\ sent > 0 ->
              [w EXCEPT !.object[c].senddata = @ - sent, !.pend[c] = @ + sent]
         [] o.senddata > 0 /\ sent <= 0 /\ o.open ->
              [DeleteHandler(w, c) EXCEPT
                 !.excused[c] = IF Reachable(w, c) THEN @ \cup {"full"} ELSE @]
         [] OTHER -> w

Write(w, c, size) ==
    SendData([w EXCEPT !.object[c].senddata = @ + size,
                       !.owed[c] = IF w.object[c].open THEN @ + size ELSE @], c)

WriteToOthers(w, c, size) ==
    FoldLeft(LAMBDA v, d : IF d = c THEN v ELSE Write(v, d, size), w, w.clientlist)

\* Mutant: Close() does not look at senddata.
CanCloseUnsent(w, c, force) ==
    w.object[c].open /\ (force \/ BytesLeftToWrite(w, c) <= 0)

CanClose(w, c, force) ==
    /\ w.object[c].open
    /\ force \/ (w.object[c].senddata = 0 /\ BytesLeftToWrite(w, c) <= 0)

Close(w, c, force) ==
    LET v == [w EXCEPT !.excused[c] = IF force THEN @ \cup {"forced"} ELSE @] IN
    IF CanClose(w, c, force)
    THEN [DeleteHandler(v, c) EXCEPT !.object[c].open = FALSE,
                                     !.object[c].closewhendone = FALSE]
    ELSE [v EXCEPT !.object[c].closewhendone = @ \/ w.object[c].open]

-----------------------------------------------------------------------------
(* ATextServer::Delete() *)

\* Mutant: the creator stays.
ForgetCreatorNot(w) == w

ForgetCreator(w) == [w EXCEPT !.creator = FALSE]

\* Past the loop: the listening socket goes, or the server waits for its clients.
DeleteServer(w, force, from) ==
    IF force \/ w.clientlist = <<>>
    THEN [ForgetCreator(IF w.valid THEN DeleteHandler(w, Listener) ELSE w) EXCEPT
            !.valid = FALSE, !.closewhendone = FALSE,
            !.waits = "no", !.cut = ToSet(w.clientlist)]
    ELSE [w EXCEPT !.closewhendone = TRUE, !.waits = from]

\* The whole call under a server frame, where Close() only queues deletions.
Delete(w, force, from) ==
    DeleteServer(FoldLeft(LAMBDA v, c : Close(v, c, FALSE), w, w.clientlist), force, from)

\* Called by the application's loop: one handler at a time, because Close()
\* may run destructor callbacks that take handlers out of the list.
CallDelete(force) ==
    /\ mode = "idle" /\ (world.valid \/ world.clientlist # <<>>)
    /\ mode' = "call" /\ n' = 1 /\ forced' = force
    /\ UNCHANGED <<sockets, world, caller, j, bounds>>

\* DeleteSockets() runs before DeleteHandler() returns to `to'.
Reap(to) == mode' = "reap" /\ caller' = to /\ j' = 1

\* handler->Close(); i++.  After DeleteHandler() Close() assigns to members of
\* an object the destructor callback has freed.
DeleteClient ==
    /\ mode = "call" /\ n <= Len(world.clientlist)
    /\ LET c == world.clientlist[n] IN
       /\ world' = Close(world, c, FALSE)
       /\ IF CanClose(world, c, FALSE) THEN Reap("call") ELSE UNCHANGED <<mode, caller, j>>
    /\ n' = n + 1
    /\ UNCHANGED <<sockets, forced, bounds>>

DeleteEnds ==
    /\ mode = "call" /\ n > Len(world.clientlist)
    /\ world' = DeleteServer(world, forced, IF world.waits = "no" THEN "idle" ELSE world.waits)
    /\ IF world'.deleting # world.deleting
       THEN Reap("idle")
       ELSE mode' = "idle" /\ UNCHANGED <<caller, j>>
    /\ n' = 1 /\ forced' = FALSE
    /\ UNCHANGED <<sockets, bounds>>

-----------------------------------------------------------------------------
(* The application's loop *)

Create ==
    /\ mode = "idle" /\ ~world.valid
    /\ world' = [world EXCEPT !.valid = TRUE, !.creator = TRUE]
    /\ bound' = TRUE
    /\ UNCHANGED <<attached, draining, context, frame, bounds>>

CloseClient(c, force) ==
    /\ mode = "idle" /\ world.object[c].live
    /\ world' = Close(world, c, force)
    /\ IF CanClose(world, c, force) THEN Reap("idle") ELSE UNCHANGED <<mode, caller, j>>
    /\ UNCHANGED <<sockets, n, forced, bounds>>

Process ==
    /\ mode = "idle" /\ (bound \/ attached \cup draining # {})
    /\ mode' = "pass"
    /\ UNCHANGED <<sockets, world, caller, n, j, forced, bounds>>

-----------------------------------------------------------------------------
(* Callbacks of a pass *)

\* The listening socket may already be in DeleteSocketList.  Until a handler
\* takes the new socket over its context is the server.
Accept(c, made) ==
    /\ mode = "pass" /\ bound
    /\ c \notin attached \cup draining /\ connects < MaxConnects
    /\ attached' = attached \cup {c}
    /\ IF world.creator /\ made
       THEN /\ world' = [world EXCEPT !.object[c] = NewObject, !.clientlist = Append(@, c)]
            /\ context' = [context EXCEPT ![c] = "handler"]
       ELSE /\ world' = DeleteHandler(world, c)
            /\ UNCHANGED context
    /\ connects' = connects + 1
    /\ UNCHANGED <<draining, bound, frame, writes>>

\* Nobody is registered, or ReadSocket() reports the end or an error.
ReadFails(c) ==
    /\ mode = "pass" /\ c \in attached
    /\ world' = [DeleteHandler(world, c) EXCEPT !.excused[c] = @ \cup {"peer"}]
    /\ UNCHANGED <<sockets, frame, bounds>>

\* __readcallback: lines are cut and processed, and what they left is sent.
ReadCallback(c, processed) ==
    /\ mode = "pass" /\ Reachable(world, c) /\ context[c] = "handler"
    /\ world' = SendData(processed, c)
    /\ UNCHANGED <<sockets, frame>>

\* What a command may do.
CommandWrites(c, size) ==
    /\ writes[c] < MaxWrites /\ writes' = [writes EXCEPT ![c] = @ + 1]
    /\ \/ ReadCallback(c, Write(world, c, size))
       \/ ReadCallback(c, WriteToOthers(world, c, size))
    /\ UNCHANGED connects

CommandCloses(c, force) ==
    ReadCallback(c, Close(world, c, force)) /\ UNCHANGED bounds

CommandDeletesServer(c, force) ==
    ReadCallback(c, Delete(world, force, "callback")) /\ UNCHANGED bounds

ReadNothing(c) == ReadCallback(c, world) /\ UNCHANGED bounds

\* __writecallback: nothing is buffered, and the handler has asked for it.
WriteCallback(c) ==
    /\ mode = "pass" /\ c \in attached /\ context[c] = "handler"
    /\ world.pend[c] = 0 /\ world.object[c].senddata > 0
    /\ world' = SendData(world, c)
    /\ UNCHANGED <<sockets, frame, bounds>>

\* Mutant: CloseIfNeeded() is forgotten.
CloseIfNeededNever(w, c) == w

CloseIfNeeded(w, c) == IF w.object[c].closewhendone THEN Close(w, c, FALSE) ELSE w

\* __needwritecallback, asked while a pass gathers if nothing is buffered.
NeedWrite(c) ==
    /\ mode = "pass" /\ c \in attached /\ context[c] = "handler"
    /\ world.pend[c] = 0
    /\ world' = CloseIfNeeded(world, c)
    /\ UNCHANGED <<sockets, frame, bounds>>

\* Process() itself: the kernel takes bytes, or the connection fails.
Send(c, k) ==
    /\ mode = "pass" /\ k \in 1..world.pend[c]
    /\ world' = [world EXCEPT !.pend[c] = @ - k, !.owed[c] = @ - k]
    /\ UNCHANGED <<sockets, frame, bounds>>

SendFails(c) ==
    /\ mode = "pass" /\ world.pend[c] > 0
    /\ world' = [DeleteHandler(world, c) EXCEPT !.pend[c] = 0, !.excused[c] = @ \cup {"peer"}]
    /\ UNCHANGED <<sockets, frame, bounds>>

EndPass ==
    /\ mode = "pass" /\ Reap("idle")
    /\ UNCHANGED <<sockets, world, n, forced, bounds>>

-----------------------------------------------------------------------------
(* DeleteSockets() and the destructor callback *)

\* Mutant: the freed handler stays in the client list.
UnlistNot(w, c) == w

Unlist(w, c) == [w EXCEPT !.clientlist = RemoveFirst(@, c)]

\* __destructor: the handler leaves the list and is freed (its Close() finds
\* the socket deleted), and a Delete() that was put off is tried again.
Destructor(w, c) ==
    LET v == [Unlist(w, c) EXCEPT !.object[c] = NoObject] IN
    IF c \in attached /\ context[c] = "handler"
    THEN IF w.closewhendone THEN Delete(v, FALSE, w.waits) ELSE v
    ELSE w

\* Closed at once, or kept without callbacks until its buffer is sent.
ReapClient(c) ==
    /\ mode = "reap" /\ j <= Len(world.deleting) /\ world.deleting[j] = c
    /\ LET w == Destructor(world, c) IN
       IF world.pend[c] = 0
       THEN /\ world' = [w EXCEPT !.deleting = RemoveFirst(@, c),
                                  !.owed[c] = 0, !.excused[c] = {}, !.cut = @ \ {c}]
            /\ draining' = draining \ {c}
            /\ writes' = [writes EXCEPT ![c] = 0]
            /\ UNCHANGED j
       ELSE /\ world' = w
            /\ draining' = draining \cup {c}
            /\ j' = j + 1
            /\ UNCHANGED writes
    /\ attached' = attached \ {c}
    /\ context' = [context EXCEPT ![c] = "null"]
    /\ UNCHANGED <<bound, mode, caller, n, forced, connects>>

ReapListener ==
    /\ mode = "reap" /\ j <= Len(world.deleting) /\ world.deleting[j] = Listener
    /\ world' = [world EXCEPT !.deleting = RemoveFirst(@, Listener)]
    /\ bound' = FALSE
    /\ UNCHANGED <<attached, draining, context, frame, bounds>>

ReapEnds ==
    /\ mode = "reap" /\ j > Len(world.deleting)
    /\ mode' = caller /\ caller' = "idle" /\ j' = 1
    /\ UNCHANGED <<sockets, world, n, forced, bounds>>

-----------------------------------------------------------------------------
Next ==
    \/ Create \/ Process \/ EndPass
    \/ \E force \in BOOLEAN : CallDelete(force)
    \/ DeleteClient \/ DeleteEnds
    \/ ReapListener \/ ReapEnds
    \/ \E c \in Client :
         \/ ReapClient(c)
         \/ \E made \in BOOLEAN : Accept(c, made)
         \/ \E size \in WriteSizes : CommandWrites(c, size)
         \/ \E force \in BOOLEAN :
              CloseClient(c, force) \/ CommandCloses(c, force) \/ CommandDeletesServer(c, force)
         \/ ReadNothing(c) \/ ReadFails(c) \/ WriteCallback(c) \/ NeedWrite(c)
         \/ SendFails(c)
         \/ \E k \in 1..MaxSendBuffer : Send(c, k)

Spec == Init /\ [][Next]_vars

\* What a pass does for a client that has something to send or to close.
Serve(c) ==
    \/ NeedWrite(c) \/ WriteCallback(c)
    \/ SendFails(c) \/ \E k \in 1..MaxSendBuffer : Send(c, k)

\* The application calls Process() again and again; every pass asks every
\* handler whether it has to write and calls back those that have; every peer
\* reads what it is sent or goes away.
Fairness ==
    /\ SF_vars(Process)
    /\ WF_vars(EndPass \/ DeleteClient \/ DeleteEnds \/ ReapListener \/ ReapEnds
               \/ \E c \in Client : ReapClient(c))
    /\ \A c \in Client : SF_vars(Serve(c))

FairSpec == Spec /\ Fairness

-----------------------------------------------------------------------------
\* The fields of every variable: handlers, lists and loop indices.
TypeOK ==
    /\ world \in World
    /\ attached \cup draining \subseteq Client /\ attached \cap draining = {}
    /\ bound \in BOOLEAN
    /\ context \in [Client -> {"handler", "null"}]
    /\ mode \in {"idle", "pass", "call", "reap"} /\ caller \in {"idle", "call"}
    /\ n \in Nat \ {0} /\ j \in Nat \ {0} /\ forced \in BOOLEAN
    /\ connects \in 0..MaxConnects /\ writes \in [Client -> 0..MaxWrites]

\* A callback never runs on a freed handler and the client list names no freed
\* one: a handler object lives exactly as long as it is the context of its
\* socket in SocketList and is listed, once (TextServer.cpp __destructor).
HandlersLive ==
    /\ IsInjective(world.clientlist)
    /\ \A c \in Client :
         /\ world.object[c].live <=> c \in ToSet(world.clientlist)
         /\ world.object[c].live <=> (c \in attached /\ context[c] = "handler")

\* A client is listed only while its server listens: a connection that is
\* accepted in the pass that deleted the server is refused, because the
\* creator is gone.  (Delete(true) leaves the clients it could not close.)
NoClientWithoutServer ==
    ~world.valid => ToSet(world.clientlist) \subseteq world.cut

\* A connection is closed by this side only when everything written to its
\* handler before has gone to the kernel, whatever the order of Write(),
\* Close(), CloseIfNeeded() and the deletion of the server; unless the peer
\* failed, Close(true) was asked for, or the buffer was full.
ClosedOnlyWhenSent ==
    [][\A c \in Client :
         /\ c \in attached \cup draining
         /\ c \notin attached' \cup draining'
         => world.owed[c] = 0 \/ world.excused[c] # {}]_vars

\* Delete() from a callback, put off because clients are left, finishes once
\* they have taken their data (and no more of them connect).
DeleteFinishes == world.waits = "callback" ~> world.waits = "no"

\* What TextServer.cpp says of Delete() ("Cannot delete server yet - still
\* have %u clients"): put off, it finishes; also from the application's loop.
DeleteAlwaysFinishes == world.waits # "no" ~> world.waits = "no"
=============================================================================
