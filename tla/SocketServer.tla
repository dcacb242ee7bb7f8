----------------------------- MODULE SocketServer -----------------------------
(***************************************************************************)
(* ASocketServer (src/src/SocketServer.cpp): a select() loop that owns a   *)
(* list of socket handlers and calls application callbacks.                *)
(*                                                                         *)
(* Control is a stack of at most two server frames under the application:  *)
(* Process() (pc, i, cur, cb) and DeleteSockets() (reap, j, dmode, dcur).  *)
(* Whenever a callback runs (or no frame is active) the application may    *)
(* make any call of the API.  A handler is identified by its descriptor:   *)
(* a descriptor is closed in the same step that frees its handler.         *)
(* Bytes are counted, not named; the clock is a choice at each comparison. *)
(***************************************************************************)
EXTENDS Integers, SequencesExt

CONSTANTS Fd,            \* descriptors the kernel may hand out
          MaxSendBuffer, \* bytes a write buffer may hold
          Profiles,      \* sets of callbacks an application passes
          Settable,      \* the callbacks it changes later (a bound for the checks)
          AutoClose,     \* autocloseunestablishedsockets
          WordBits       \* descriptors per word of an fd_set (64 in the kernel)

Callbacks == {"read", "write", "need", "destr"}

ASSUME ConstantsAssumption ==
    /\ Fd \subseteq Nat
    /\ MaxSendBuffer \in Nat
    /\ AutoClose \in BOOLEAN
    /\ Settable \subseteq Callbacks
    /\ WordBits \in Nat \ {0}
    /\ Profiles \subseteq SUBSET Callbacks

VARIABLES
    sockets,   \* SocketList
    deleting,  \* DeleteSocketList
    handler,   \* [Fd -> HANDLER or NoHandler]
    pending,   \* [Fd -> pos of the WRITEBUFFER, 0 when there is none]
    depth,     \* ProcessingDepth
    pc,        \* where Process() (or the destructor of the server) stands
    i,         \* its loop index into SocketList (from 1)
    cur,       \* its local "socket"
    cb,        \* the callback it is inside, or "none"
    reap,      \* DeleteSockets() frame: "off", "on", or "force" (its argument)
    j,         \* its loop index into DeleteSocketList (from 1)
    dmode,     \* inside a destructor callback: what follows it, "final" or "linger"
    dcur,      \* its local "socket"
    rd, wr, ex,\* readfds, writefds, exceptfds
    up,        \* kernel: sockets past their connection attempt: only they get ready
    fresh,     \* history: handlers added in this pass, until they are gathered
    dead       \* history: handlers whose destructor callback has returned

lists == <<sockets, deleting>>
frame == <<pc, i, cur, cb>>
reaper == <<reap, j, dmode, dcur>>
fdsets == <<rd, wr, ex>>
ghosts == <<fresh, dead>>
vars == <<lists, handler, pending, depth, frame, reaper, fdsets, up, ghosts>>

NoFd == -1

NoHandler == [type |-> "none", connected |-> FALSE, calls |-> {}, accepts |-> {}]

Handlers == [type : {"none", "listener", "stream", "datagram"}, connected : BOOLEAN,
             calls : SUBSET Callbacks, accepts : SUBSET Callbacks]

Open == ToSet(sockets)
Deleting == ToSet(deleting)

\* The application runs: in its own loop, or in a callback of the top frame.
InControl ==
    \/ reap # "off" /\ dmode # "none"
    \/ reap = "off" /\ (pc = "idle" \/ cb # "none")

\* Between FD_ZERO and the end of the dispatch loop.
Processing == pc \in {"gather", "poll", "scan", "read", "write", "expire"}

-----------------------------------------------------------------------------
(* Helpers of the handler lists *)

\* Mutant: EnableDuplication(false) forgotten.
AddAgain(list, fd) == Append(list, fd)

\* DeleteSocketList.Add: duplicates are disabled.
AddOnce(list, fd) == IF fd \in ToSet(list) THEN list ELSE Append(list, fd)

\* Mutant: the guard on ProcessingDepth is missing.
MayReapAnywhere == TRUE

\* DeleteSockets() refuses to run under another server frame.
MayReap == depth = 0

\* The call DeleteSockets(force), up to its loop.
EnterReap(force) ==
    IF MayReap
    THEN /\ depth' = depth + 1
         /\ reap' = IF force THEN "force" ELSE "on"
         /\ j' = 1
         /\ dmode' = "none"
         /\ dcur' = NoFd
    ELSE UNCHANGED <<depth, reaper>>

\* SocketList.Add(handler) for a socket the kernel has just returned.
AddHandler(fd, record, established) ==
    /\ sockets' = Append(sockets, fd)
    /\ handler' = [handler EXCEPT ![fd] = record]
    /\ up' = IF established THEN up \cup {fd} ELSE up \ {fd}
    /\ fresh' = IF Processing THEN fresh \cup {fd} ELSE fresh
    /\ UNCHANGED <<deleting, pending, dead>>

\* Mutant: the destructor callback is left in place.
DetachedButDestructor(record) == [record EXCEPT !.calls = @ \cap {"destr"}]

\* A handler that stays only to drain its buffer has lost every callback.
Detached(record) == [record EXCEPT !.calls = {}]

Init ==
    /\ sockets = <<>> /\ deleting = <<>>
    /\ handler = [fd \in Fd |-> NoHandler]
    /\ pending = [fd \in Fd |-> 0]
    /\ depth = 0
    /\ pc = "idle" /\ i = 1 /\ cur = NoFd /\ cb = "none"
    /\ reap = "off" /\ j = 1 /\ dmode = "none" /\ dcur = NoFd
    /\ rd = {} /\ wr = {} /\ ex = {}
    /\ up = {} /\ fresh = {} /\ dead = {}

-----------------------------------------------------------------------------
(* Calls the application makes *)

\* CreateHandler for a client stream or a datagram port; a failed call
\* changes nothing.  Its connect callback is more application code.
CreateHandler(type, p) ==
    /\ InControl /\ pc # "destroy"
    /\ \E fd \in Fd \ Open :
         AddHandler(fd,
                    [type |-> type, connected |-> (type = "stream" => ~AutoClose),
                     calls |-> p, accepts |-> {}],
                    type = "datagram")
    /\ UNCHANGED <<depth, frame, reaper, fdsets>>

\* CreateHandler for a listening socket: its read callback is __AcceptSocket.
CreateListener(p) ==
    /\ InControl /\ pc # "destroy"
    /\ \E fd \in Fd \ Open :
         AddHandler(fd,
                    [type |-> "listener", connected |-> TRUE,
                     calls |-> {"read"}, accepts |-> p],
                    TRUE)
    /\ UNCHANGED <<depth, frame, reaper, fdsets>>

\* SetReadHandler, SetWriteHandler, SetNeedWriteHandler, SetDestructor.  The
\* application knows the socket until its destructor callback has run, and
\* does not take a read callback away while Process() runs.
SetCallback(fd, f) ==
    /\ InControl
    /\ fd \in Open \ dead /\ handler[fd].type # "listener"
    /\ handler' = [handler EXCEPT ![fd].calls = @ \cup {f}]
    /\ UNCHANGED <<lists, pending, depth, frame, reaper, fdsets, up, ghosts>>

ClearCallback(fd, f) ==
    /\ InControl
    /\ fd \in Open \ dead /\ handler[fd].type # "listener"
    /\ f = "read" => depth = 0
    /\ handler' = [handler EXCEPT ![fd].calls = @ \ {f}]
    /\ UNCHANGED <<lists, pending, depth, frame, reaper, fdsets, up, ghosts>>

\* Mutant: WriteSocket forgets DeleteSocketList.
AcceptsUntilClosed(fd) == fd \in Open

\* A handler that is gone or being deleted refuses the bytes (-1).
AcceptsBytes(fd) == fd \in Open /\ fd \notin Deleting

\* Mutant: the limit is tested, the bytes are not clamped to it.
AcceptedUnclamped(n, pos) == n

\* MIN(bytes, SUBZ(MaxSendBuffer, wrbuf->pos))
Accepted(n, pos) == IF n <= MaxSendBuffer - pos THEN n ELSE MaxSendBuffer - pos

WriteSocket(fd, n) ==
    /\ InControl
    /\ AcceptsBytes(fd) /\ handler[fd].type # "listener"
    /\ pending[fd] < MaxSendBuffer
    /\ pending' = [pending EXCEPT ![fd] = @ + Accepted(n, @)]
    /\ UNCHANGED <<lists, handler, depth, frame, reaper, fdsets, up, ghosts>>

DeleteWriteBuffer(fd) ==
    /\ InControl
    /\ fd \in Open \ dead
    /\ pending' = [pending EXCEPT ![fd] = 0]
    /\ UNCHANGED <<lists, handler, depth, frame, reaper, fdsets, up, ghosts>>

DeleteHandler(fd) ==
    /\ InControl
    /\ fd \in Open \ dead
    /\ deleting' = AddOnce(deleting, fd)
    /\ EnterReap(FALSE)
    /\ UNCHANGED <<sockets, handler, pending, frame, fdsets, up, ghosts>>

InListOrder(p) ==
    \A k, l \in 1..Len(p) : k < l =>
        \E a, b \in 1..Len(sockets) : a < b /\ sockets[a] = p[k] /\ sockets[b] = p[l]

\* Every handler joins DeleteSocketList once, in the order of SocketList.
MarkAll ==
    \E p \in SetToSeqs(Open \ Deleting) :
        InListOrder(p) /\ deleting' = deleting \o p

DeleteAllHandlers ==
    /\ InControl
    /\ sockets # <<>>
    /\ MarkAll
    /\ EnterReap(FALSE)
    /\ UNCHANGED <<sockets, handler, pending, frame, fdsets, up, ghosts>>

\* Process(): at depth > 0 it returns 0 and changes nothing.
Process ==
    /\ InControl /\ depth = 0
    /\ pc = "idle"
    /\ pc' = "start"
    /\ EnterReap(FALSE)
    /\ UNCHANGED <<lists, handler, pending, i, cur, cb, fdsets, up, ghosts>>

\* ~ASocketServer: delete all handlers, then once more without waiting for
\* their buffers (see ReapDone).
Destroy ==
    /\ InControl /\ depth = 0 /\ pc = "idle"
    /\ MarkAll
    /\ pc' = "destroy"
    /\ EnterReap(FALSE)
    /\ UNCHANGED <<sockets, handler, pending, i, cur, cb, fdsets, up, ghosts>>

-----------------------------------------------------------------------------
(* DeleteSockets() *)

\* Mutant: the write buffer outlives the handler.
DisposeKeepsBuffer(fd, mode) ==
    IF mode = "final"
    THEN /\ sockets' = RemoveFirst(sockets, fd)
         /\ deleting' = RemoveFirst(deleting, fd)
         /\ handler' = [handler EXCEPT ![fd] = NoHandler]
         /\ up' = up \ {fd}
         /\ dead' = dead \ {fd}
         /\ UNCHANGED <<pending, j>>
    ELSE /\ handler' = [handler EXCEPT ![fd] = Detached(@)]
         /\ dead' = IF "destr" \in handler[fd].calls THEN dead \cup {fd} ELSE dead
         /\ j' = j + 1
         /\ UNCHANGED <<lists, pending, up>>

\* Close the descriptor and free the handler, or keep it until its buffer is
\* sent with every callback removed; then the next one.
Dispose(fd, mode) ==
    IF mode = "final"
    THEN /\ sockets' = RemoveFirst(sockets, fd)
         /\ deleting' = RemoveFirst(deleting, fd)
         /\ pending' = [pending EXCEPT ![fd] = 0]
         /\ handler' = [handler EXCEPT ![fd] = NoHandler]
         /\ up' = up \ {fd}
         /\ dead' = dead \ {fd}
         /\ UNCHANGED j
    ELSE /\ handler' = [handler EXCEPT ![fd] = Detached(@)]
         /\ dead' = IF "destr" \in handler[fd].calls THEN dead \cup {fd} ELSE dead
         /\ j' = j + 1
         /\ UNCHANGED <<lists, pending, up>>

\* Mutant: the bytes still buffered are not looked at.
FateAtOnce(fd) == "final"

\* Decided from the write buffer before the destructor callback runs.
Fate(fd) == IF pending[fd] = 0 \/ reap = "force" THEN "final" ELSE "linger"

ReapHandler ==
    /\ reap # "off" /\ dmode = "none" /\ j <= Len(deleting)
    /\ LET fd == deleting[j] IN
       IF "destr" \in handler[fd].calls
       THEN /\ dmode' = Fate(fd) /\ dcur' = fd
            /\ UNCHANGED <<lists, handler, pending, reap, j, up, ghosts>>
       ELSE /\ Dispose(fd, Fate(fd))
            /\ UNCHANGED <<reap, dmode, dcur, fresh>>
    /\ UNCHANGED <<depth, frame, fdsets>>

DestructorReturns ==
    /\ reap # "off" /\ dmode # "none"
    /\ Dispose(dcur, dmode)
    /\ dmode' = "none" /\ dcur' = NoFd
    /\ UNCHANGED <<depth, frame, reap, fdsets, fresh>>

\* The end of the loop: back to the caller.  The destructor of the server
\* calls DeleteSockets(true) next, and is over after that.
ReapDone ==
    /\ reap # "off" /\ dmode = "none" /\ j > Len(deleting)
    /\ j' = 1
    /\ \/ /\ pc = "destroy" /\ reap = "on"
          /\ reap' = "force"
          /\ UNCHANGED <<depth, pc>>
       \/ /\ ~(pc = "destroy" /\ reap = "on")
          /\ reap' = "off"
          /\ depth' = depth - 1
          /\ pc' = CASE pc = "end" -> "idle" [] pc = "destroy" -> "gone" [] OTHER -> pc
    /\ UNCHANGED <<lists, handler, pending, i, cur, cb, dmode, dcur, fdsets, up, ghosts>>

-----------------------------------------------------------------------------
(* Process(): which sockets to wait for *)

\* Past the first DeleteSockets(): nothing to do without sockets (-1).
ProcessBegin ==
    /\ reap = "off" /\ pc = "start"
    /\ IF sockets = <<>>
       THEN pc' = "idle" /\ UNCHANGED <<depth, i>>
       ELSE pc' = "gather" /\ i' = 1 /\ depth' = depth + 1
    /\ UNCHANGED <<lists, handler, pending, cur, cb, reaper, fdsets, up, ghosts>>

\* Mutants: the tests of the gather loop.
WantsReadAlways(fd) == TRUE
WantsWriteIfCalled(fd) == "write" \in handler[fd].calls /\ "need" \notin handler[fd].calls

WantsRead(fd) == "read" \in handler[fd].calls

WantsWrite(fd) ==
    pending[fd] > 0 \/ ("write" \in handler[fd].calls /\ "need" \notin handler[fd].calls)

\* One handler enters the sets; needwritecallback is asked when nothing is
\* buffered and there is a write callback.
Gather ==
    /\ reap = "off" /\ pc = "gather" /\ cb = "none" /\ i <= Len(sockets)
    /\ LET fd == sockets[i]
           ask == pending[fd] = 0 /\ {"write", "need"} \subseteq handler[fd].calls
       IN /\ ex' = ex \cup {fd}
          /\ rd' = IF WantsRead(fd) THEN rd \cup {fd} ELSE rd
          /\ wr' = IF WantsWrite(fd) THEN wr \cup {fd} ELSE wr
          /\ fresh' = fresh \ {fd}
          /\ IF ask
             THEN cb' = "need" /\ cur' = fd /\ UNCHANGED i
             ELSE i' = i + 1 /\ UNCHANGED <<cb, cur>>
    /\ UNCHANGED <<lists, handler, pending, depth, pc, reaper, up, dead>>

NeedWriteReturns(need) ==
    /\ reap = "off" /\ cb = "need"
    /\ wr' = IF need THEN wr \cup {cur} ELSE wr
    /\ cb' = "none" /\ cur' = NoFd /\ i' = i + 1
    /\ UNCHANGED <<lists, handler, pending, depth, pc, reaper, rd, ex, up, ghosts>>

\* The end of a pass: --ProcessingDepth and the second DeleteSockets(), whose
\* frame is entered in the same step.  The sets are not read again.
EndPass ==
    /\ pc' = "end" /\ i' = 1 /\ cur' = NoFd
    /\ reap' = "on" /\ j' = 1 /\ dmode' = "none" /\ dcur' = NoFd
    /\ rd' = {} /\ wr' = {} /\ ex' = {} /\ fresh' = {}
    /\ UNCHANGED <<lists, handler, pending, depth, cb, up, dead>>

\* Nothing to read or write: no select(), no dispatch.
NothingToPoll ==
    /\ reap = "off" /\ pc = "gather" /\ cb = "none" /\ i > Len(sockets)
    /\ rd \cup wr = {}
    /\ EndPass

Gathered ==
    /\ reap = "off" /\ pc = "gather" /\ cb = "none" /\ i > Len(sockets)
    /\ rd \cup wr # {}
    /\ pc' = "poll" /\ i' = 1
    /\ UNCHANGED <<lists, handler, pending, depth, cur, cb, reaper, fdsets, up, ghosts>>

\* select(maxsocket + 1, ...): the kernel rewrites the words of the sets up to
\* the one of maxsocket, and leaves the words beyond it as they were.
Beyond(fd) == \A f \in rd \cup wr : f \div WordBits < fd \div WordBits

Select(readable, writable, exceptional) ==
    /\ rd' = readable /\ wr' = writable
    /\ ex' = exceptional \cup {fd \in ex : Beyond(fd)}

\* Connection attempts may end until select() returns, and of the sockets past
\* theirs any may be ready.
PollOk ==
    /\ reap = "off" /\ pc = "poll"
    /\ \E established \in SUBSET (Open \ up) :
         /\ up' = up \cup established
         /\ \E r \in SUBSET (rd \cap up'), w \in SUBSET (wr \cap up') :
            \E e \in SUBSET {fd \in ex : ~Beyond(fd)} : Select(r, w, e)
    /\ pc' = "scan"
    /\ UNCHANGED <<lists, handler, pending, depth, i, cur, cb, reaper, ghosts>>

\* select() fails (a signal): the sets keep every bit, and res is not looked at.
PollFails ==
    /\ reap = "off" /\ pc = "poll"
    /\ pc' = "scan"
    /\ UNCHANGED <<lists, handler, pending, depth, i, cur, cb, reaper, fdsets, up, ghosts>>

-----------------------------------------------------------------------------
(* Process(): the dispatch loop *)

\* DeleteWriteBuffer(socket); DeleteHandler(socket); inside the loop.
TearDown(fd) ==
    /\ pending' = [pending EXCEPT ![fd] = 0]
    /\ deleting' = AddOnce(deleting, fd)
    /\ EnterReap(FALSE)

Dispatching(stage) == reap = "off" /\ pc = stage /\ cb = "none"

ScanException ==
    /\ Dispatching("scan") /\ i <= Len(sockets)
    /\ sockets[i] \in ex
    /\ TearDown(sockets[i])
    /\ i' = i + 1
    /\ UNCHANGED <<sockets, handler, pc, cur, cb, fdsets, up, ghosts>>

ScanHandler ==
    /\ Dispatching("scan") /\ i <= Len(sockets)
    /\ sockets[i] \notin ex
    /\ cur' = sockets[i]
    /\ pc' = "read"
    /\ UNCHANGED <<lists, handler, pending, depth, i, cb, reaper, fdsets, up, ghosts>>

ScanDone ==
    /\ Dispatching("scan") /\ i > Len(sockets)
    /\ EndPass

\* handler->connected = true, then the read callback of a stream or datagram.
ReadReady ==
    /\ Dispatching("read") /\ cur \in rd /\ handler[cur].type # "listener"
    /\ handler' = [handler EXCEPT ![cur].connected = TRUE]
    /\ cb' = "read"
    /\ UNCHANGED <<lists, pending, depth, pc, i, cur, reaper, fdsets, up, ghosts>>

\* The read callback of a listening socket: accept() may fail, or a copy of
\* acceptedhandler joins the list and its connect callback runs.
Accept ==
    /\ Dispatching("read") /\ cur \in rd /\ handler[cur].type = "listener"
    /\ \/ \E fd \in Fd \ Open :
            AddHandler(fd, [type |-> "stream", connected |-> TRUE,
                            calls |-> handler[cur].accepts, accepts |-> {}], TRUE)
          /\ cb' = "connect" /\ UNCHANGED pc
       \/ pc' = "write"
          /\ UNCHANGED <<lists, handler, pending, cb, up, ghosts>>
    /\ UNCHANGED <<depth, i, cur, reaper, fdsets>>

ReadNotReady ==
    /\ Dispatching("read") /\ cur \notin rd
    /\ pc' = "write"
    /\ UNCHANGED <<lists, handler, pending, depth, i, cur, cb, reaper, fdsets, up, ghosts>>

\* Send what the socket takes (all or a part), or fail and give up.
WriteReady ==
    /\ Dispatching("write") /\ cur \in wr /\ pending[cur] > 0
    /\ handler' = [handler EXCEPT ![cur].connected = TRUE]
    /\ \/ \E k \in 1..pending[cur] : pending' = [pending EXCEPT ![cur] = @ - k]
          /\ UNCHANGED <<deleting, depth, reaper>>
       \/ TearDown(cur)
    /\ pc' = "expire"
    /\ UNCHANGED <<sockets, i, cur, cb, fdsets, up, ghosts>>

WriteCallback ==
    /\ Dispatching("write") /\ cur \in wr /\ pending[cur] = 0
    /\ handler' = [handler EXCEPT ![cur].connected = TRUE]
    /\ IF "write" \in handler[cur].calls
       THEN cb' = "write" /\ UNCHANGED pc
       ELSE pc' = "expire" /\ UNCHANGED cb
    /\ UNCHANGED <<lists, pending, depth, i, cur, reaper, fdsets, up, ghosts>>

WriteNotReady ==
    /\ Dispatching("write") /\ cur \notin wr
    /\ pc' = "expire"
    /\ UNCHANGED <<lists, handler, pending, depth, i, cur, cb, reaper, fdsets, up, ghosts>>

CallbackReturns ==
    /\ reap = "off" /\ cb \in {"read", "connect", "write"}
    /\ cb' = "none"
    /\ pc' = IF cb = "write" THEN "expire" ELSE "write"
    /\ UNCHANGED <<lists, handler, pending, depth, i, cur, reaper, fdsets, up, ghosts>>

\* Ten seconds without a read or a write close a socket that is not connected.
Expire(old) ==
    /\ Dispatching("expire")
    /\ IF old /\ ~handler[cur].connected
       THEN TearDown(cur)
       ELSE UNCHANGED <<pending, deleting, depth, reaper>>
    /\ pc' = "scan" /\ i' = i + 1 /\ cur' = NoFd
    /\ UNCHANGED <<sockets, handler, cb, fdsets, up, ghosts>>

-----------------------------------------------------------------------------

Application ==
    \/ \E p \in Profiles : \/ CreateHandler("stream", p)
                           \/ CreateHandler("datagram", p)
                           \/ CreateListener(p)
    \/ \E fd \in Fd, f \in Settable : SetCallback(fd, f) \/ ClearCallback(fd, f)
    \/ \E fd \in Fd, n \in 1..MaxSendBuffer : WriteSocket(fd, n)
    \/ \E fd \in Fd : DeleteWriteBuffer(fd) \/ DeleteHandler(fd)
    \/ DeleteAllHandlers
    \/ Process
    \/ Destroy

\* A callback runs to its end.
CallbackEnds ==
    \/ DestructorReturns
    \/ \E need \in BOOLEAN : NeedWriteReturns(need)
    \/ CallbackReturns

\* The code of the server itself, between callbacks.
Server ==
    \/ ReapHandler \/ ReapDone
    \/ ProcessBegin \/ Gather \/ NothingToPoll \/ Gathered
    \/ PollOk \/ PollFails
    \/ ScanException \/ ScanHandler \/ ScanDone
    \/ ReadReady \/ Accept \/ ReadNotReady
    \/ WriteReady \/ WriteCallback \/ WriteNotReady
    \/ \E old \in BOOLEAN : Expire(old)

Next == Application \/ CallbackEnds \/ Server

Spec == Init /\ [][Next]_vars

\* The server's code and its callbacks make progress, the application keeps
\* calling Process(), and a socket that is watched for writing again and again
\* is at last reported writable.
Fairness ==
    /\ WF_vars(Server) /\ WF_vars(CallbackEnds)
    /\ SF_vars(Process)
    /\ \A fd \in Fd : SF_vars(PollOk /\ fd \in wr')

LiveSpec == Spec /\ Fairness

-----------------------------------------------------------------------------
(* Properties *)

TypeOK ==
    /\ sockets \in Seq(Fd) /\ deleting \in Seq(Fd)
    /\ handler \in [Fd -> Handlers]
    /\ pending \in [Fd -> 0..MaxSendBuffer]
    /\ depth \in {0, 1}
    /\ pc \in {"idle", "start", "gather", "poll", "scan", "read", "write", "expire",
               "end", "destroy", "gone"}
    /\ i \in Nat \ {0} /\ j \in Nat \ {0}
    /\ cur \in Fd \cup {NoFd} /\ dcur \in Fd \cup {NoFd}
    /\ cb \in {"none", "read", "write", "need", "connect"}
    /\ reap \in {"off", "on", "force"} /\ dmode \in {"none", "final", "linger"}
    /\ rd \subseteq Fd /\ wr \subseteq Fd /\ ex \subseteq Fd
    /\ up \subseteq Fd /\ fresh \subseteq Fd /\ dead \subseteq Fd

\* The raw HANDLER pointers that Process() and DeleteSockets() hold in local
\* variables across a callback still point at the entry they came from,
\* whatever the callback created or deleted.
HandlerPointersLive ==
    /\ cur # NoFd => i <= Len(sockets) /\ sockets[i] = cur
    /\ dcur # NoFd => j <= Len(deleting) /\ deleting[j] = dcur /\ dcur \in Open

\* Process() calls readcallback for a ready socket without testing it for NULL:
\* DeleteSockets() must not clear it between the two loops.
NoNullReadCallback ==
    Dispatching("read") /\ cur \in rd => "read" \in handler[cur].calls

\* Once the destructor callback has told the application that a handler is
\* finished, no callback sees its context again, even while it lingers.
NoCallbackAfterDestructor ==
    /\ cb \in {"read", "write", "need"} => cur \notin dead
    /\ dmode # "none" => dcur \notin dead

\* A readiness bit of this pass never belongs to an earlier handler with the
\* same descriptor.
ReadinessIsCurrent ==
    (rd \cup wr \cup ex) \cap fresh = {}

\* WriteSocketList is indexed by descriptor: no bytes of a closed socket wait
\* there for the next handler that gets its number.
NoBufferWithoutHandler == \A fd \in Fd : pending[fd] > 0 => fd \in Open

\* DeleteSocketList holds each handler once, and only handlers still listed.
DeleteListConsistent ==
    /\ Deleting \subseteq Open
    /\ \A k, l \in 1..Len(deleting) : deleting[k] = deleting[l] => k = l

\* After DeleteHandler() the buffer of a socket only drains.
DeletedOnlyDrains ==
    [][\A fd \in Deleting : pending'[fd] <= pending[fd]]_vars

\* Bytes that WriteSocket() accepted stay in the buffer until the socket takes
\* them, through the deletion of their handler and its destructor callback.  They
\* are thrown away only
\*   - when send() fails on a socket that select() found writable;
\*   - with a bit in exceptfds, which select() reports, or leaves there when it
\*     fails or does not look at the word of that descriptor;
\*   - by the timeout, on a socket this handler has never read or written;
\*   - by the application, with DeleteWriteBuffer() on a socket that stays open;
\*   - by the destructor of the server.
UnsentOnlyByCause ==
    [][\A fd \in Fd : pending'[fd] < pending[fd] =>
         \/ Dispatching("write") /\ cur = fd /\ fd \in wr
         \/ Dispatching("scan") /\ fd \in ex
         \/ Dispatching("expire") /\ cur = fd /\ ~handler[fd].connected
         \/ InControl /\ fd \in Open'
         \/ pc = "destroy"]_vars

\* Every deleted handler is closed at last.
DeletedIsClosed == \A fd \in Fd : fd \in Deleting ~> fd \notin Deleting

\* "Closing socket %d because it has not become read or write enabled for 10s":
\* the timeout of Process() only closes a socket that was never able to send.
ClosedByTimeoutNotWritable ==
    [][Dispatching("expire") /\ pc' = "scan" /\ cur \notin Deleting /\ cur \in Deleting'
         => cur \notin up]_vars
=============================================================================
