# Verification of rdlib

TLA+ models of rdlib, translated from its C++ source. The parts whose correctness
depends on order (callbacks that call back in, threads, retries, deferred writes,
links and owned memory) are state machines; the parts that only compute (texts,
patterns, dates, expressions, file names, documents) are operators compared with
what they stand for. TLC checks each on small instances. For the state machines (server,
text server, stream, lock, messages, list, settings, and nine smaller objects) TLAPS
proves the safety properties for every value of the constants.

- [The system](#the-system): parts, state, interactions, what makes each correct
- [The modules](#the-modules): how their state and actions correspond to the code
- [The runs](#the-runs): what TLC checks, with which bounds and fairness
- [The proofs](#the-proofs): what TLAPS proves, and from what
- [What the checks found](#what-the-checks-found)
- [What is not modelled](#what-is-not-modelled) and [the plan](#the-plan)

`PROJECT.json` holds the tables behind this text: each definition with the source
lines it models, each run, the hazards of the code by line, and for each checked
property a plausible bug ("mutant") that it catches.

## The system

rdlib is a C++ library: an event loop over sockets and classes on top of it,
threads, containers, strings and their conversions, patterns, dates, expressions,
file formats and numerics.

| Part | State | Operations | Hard behaviour | Correct when |
|---|---|---|---|---|
| `ASocketServer` | handler list, list of handlers to delete, write buffers by descriptor, recursion depth, three `fd_set`s | create, delete, write, set callbacks, `Process()`, destructor | callbacks that create and delete handlers in the middle of the loops; descriptors used again; `select()` that fails; handlers that linger to send | no pointer, readiness bit or byte outlives its handler; a finished handler is never called; what is buffered is thrown away only for a named cause; deletion ends |
| `ATextServer`, `ATextHandler` | client list, unsent text, close-when-done flags | connect, read, send, close, delete | clients deleted from callbacks of the server | no client is used after its deletion; what is written is sent before closing; deletion ends |
| `AStdSocket`, `AUDPServer`, `AHTTPRequest` | stream buffers, one accepted client, state of a request | open, read, write, flush, process | calls that run `Process()` inside, contexts that outlive their owners | bytes arrive in order; the end is told after the last byte |
| `AThreadLockObject`, `AThreadSignalObject`, `AThreadBoolSignalObject` | recursive mutex, condition variable, boolean | scopes, wait, signal, broadcast | interleaving, spurious wake-ups, nested locks | mutual exclusion, no lost wake-up, one signal for one return |
| `AThread` | started and quit flags | start, stop | flags shared without a lock, stopping a thread that is about to sleep | a stopped thread is joined once, and wakes to see that it should stop |
| `AMessageResponseHandler` | the message that is out, its response so far, two times | open, close, send, process | tick counter that wraps, late answers, callbacks that call back in | each message ends, never too early, with its own answer unless one was given up before |
| `ASettingsHandler` | entries, index by name, changed flag, two times, a file | read, get, set, delete, write when due | writes that fail or are cut short, duplicate names, other writers | what counts as saved is in the file if it was written whole; a change is written at last |
| `AListNode`, `AList` | links in the nodes; ends and count in the list | add in order, push, pop, insert beside, remove, sort, limit | five ways of keeping ends and count right, insertion from any starting node | it is a sequence |
| `ADataList`, `AStructList`, `AHash`, `AStringList`, `AStdMemFile` | arrays that grow, a map, two lists of texts, a file in memory | add, remove, traverse, read, write, seek | several numbers kept in step; values owned by the container | a sequence; a map; a file |
| `PostgresDatabase`, `AQuitHandler` | connection and results; handlers and functions | connect, query, commit; add, remove, signal | failures at any call; the default handler dies | each result has one owner; signals reach the living |
| `AString`, `ARegex`, `ADateTime`, `AValue` and `simpleeval`, `Recurse`, `DecodeXML`, `AStdUri` | none | conversions, matching, calendar, evaluation, walks, parsing | searches with odd strides, patterns rewritten while matching, parts applied in order | what is taken apart can be put together; agreement with a definition |
| `misc`, `PointSizeRect` | none | scaled products, rectangles | rounding, empty and touching rectangles | exact results |
| the rest (images, digests, numerics, HTML, logs) | [see below](#what-is-not-modelled) | | | |

How they interact:

- Everything on sockets is driven by one thread calling `ASocketServer::Process()`.
  It calls the application through function pointers with a context, and the
  application calls back: `WriteSocket`, `DeleteHandler`, `CreateHandler`,
  even `Process()` again (refused at depth 1). `ATextServer`, `AUDPServer`,
  `AStdSocket` and `ASocketServer::Handler` (with `AHTTPRequest`) are such applications.
- `AMessageResponseHandler` reads and writes any `AStdData` stream, a serial port
  or a socket. It never blocks: its owner calls `Process()` again and again.
- `AThread` and the locks are used by programs around the library: nothing in the
  library shares state between threads. `AThread::Stop()` expects the thread to
  be woken by a signal (`ThreadQuitting`), which is where the two meet.
- `ASettingsHandler` keeps its entries in an `AList`, indexes them with an `AHash` of
  bare pointers, converts values with `AString` and writes through `AStdFile`.
- `AStdUri` chooses the stream (file, memory, socket) that a name stands for.
- Nearly everything that reads text does it with `AString`; `Recurse()` matches names
  with `ARegex` patterns; `DecodeXML()` builds `AStructuredNode`s.

## The modules

| Module | Models | Composes |
|---|---|---|
| `SocketServer` | `src/src/SocketServer.cpp` | |
| `TextServer` | `src/src/TextServer.cpp` | the socket server as its user sees it |
| `StdSocket`, `UDPServer`, `HTTPRequest` | the files of these names, and `SocketServer::Handler` | the same |
| `BinarySignal` | the promise of `AThreadBoolSignalObject` | |
| `ThreadLock` | `src/src/ThreadLock.cpp` | implements `BinarySignal` |
| `Thread` | `src/src/Thread.cpp` | a signal of the same kind |
| `MessageResponse` | `src/src/MessageResponseHandler.cpp` | |
| `NodeSequence` | the promise of `AList` | |
| `ListLinks`, `ListNode` | `src/src/ListNode.cpp`: the operations on links, and the calls of `AList` made of them | `ListNode` implements `NodeSequence` |
| `TextCodec` | four conversions of `src/src/strsup.cpp` | |
| `Settings`, `SettingsHandler` | `src/src/SettingsHandler.cpp`: entries, hash and file; the handler over time, with its fairness | each extends the one before, from `TextCodec` on |
| `StructList`, `Hash`, `MemFile`, `StringList`, `PostgresDatabase`, `QuitHandler` | the files of these names; `MemFile` is `StdMemFile.cpp` under `StdData.cpp` | `MemFile` uses `Arithmetic` |
| `Arithmetic`, `Rectangles`, `DataList` | `misc.cpp`, `PointSizeRect.h`, `DataList.cpp` | |
| `Characters`, `Strings` | `src/src/strsup.cpp` | `Strings` extends `Characters` |
| `Glob` | the library's own patterns in `src/src/Regex.cpp` | `Characters` |
| `PatternLanguage` | the texts that a pattern stands for | the reference for `Glob` |
| `DateTime` | `src/src/DateTime.cpp`: the calendar, dates as texts, `StrToDate()` | |
| `SimpleEval` | `EvalNumber.cpp`, `simpleeval.cpp` | `Strings` |
| `Directory`, `XMLDecode`, `Uri` | `Recurse.cpp`; `XMLDecode.cpp` and `StructuredNode.cpp`; `StdUri.cpp` | `Strings` |
| `Objects` | nine smaller objects, one at a time, under any calls | `StructList`, `Hash`, `MemFile`, `HTTPRequest`, `UDPServer`, `Thread`, `PostgresDatabase`, `QuitHandler`, `StringList` |
| `SocketServerProofs`, `TextServerProofs`, `StdSocketProofs`, `MessageResponseProofs`, `ListNodeProofs`, `SettingsProofs` | theorems about the module of the name | `ListFacts` |
| `ObjectProofs` | theorems about `Objects`, `Arithmetic`, `Rectangles` and `ThreadLock` | `ListFacts` |
| `ListFacts` | lemmas on sequences without repetition, on the last of them, on what is selected from them, and induction over folds | |
| `MCObjects` | the nine objects, the list and the settings: one at a time | `ListNode`, `SettingsHandler`, `Objects` |
| `MCLibrary` with `MCTexts`, `MCFiles` | the lock's threads; bounded inputs of the algorithms and what they should give | `ThreadLock` and all the algorithm modules |

### SocketServer

`sockets` and `deleting` are `SocketList` and `DeleteSocketList`; `handler[fd]` is the
`HANDLER` with the set of its callbacks that are not `NULL`; `pending[fd]` is the
number of bytes in the `WRITEBUFFER`; `depth` is `ProcessingDepth`. Bytes are counted
and not told apart: their order in a buffer is not at stake here.

The server's code is a stack of at most two frames. `pc`, `i`, `cur` and `cb` are the
place, index, socket and running callback of `Process()`; `reap`, `j`, `dmode` and
`dcur` those of `DeleteSockets()`, which runs before a pass, after it, or from a
`DeleteHandler()` outside any pass. The code between two callbacks is one or a few
actions; whenever a callback runs, the actions of the application are enabled, so
that any callback may make any calls, in any order, before it returns. The
connect callback of `CreateHandler` for a client is called at once, from the
application: it is more application code and needs no frame.

The actions outside the code: the kernel gives any free descriptor to a new
socket, connections are established at any time, `select()` reports any subset of
the sockets that are connected, or fails and leaves the sets as they are (the
result is not looked at, so every watched socket then counts as ready and as
exceptional). It only writes the words of the sets up to `maxsocket`, so a handler
that is watched for nothing may keep its exception bit: `WordBits` is 64 in a
kernel and smaller in the instances, which have few descriptors.

The application in the model keeps two rules that no code enforces: it does not
use a descriptor after its destructor callback has run, and it does not take a read
callback away while `Process()` runs (`readcallback` is called without a test).

### TextServer

Over an abstraction of the socket server: `attached` and `draining` are what is in its
`SocketList`, a pass makes callbacks in any order, and a `DeleteHandler()` inside a pass
only queues, while one from the application's loop runs the destructors at once
(mode "reap"). `world` is the record that calls of the text server change (handler
objects, `clientlist`, write buffers, the deferred flags), so that `Write`, `Close`,
`CloseIfNeeded` and `Delete` are functions of it and compose as in the code.
`Delete()` walks the list by `n` in mode "call", one client a step, because the
destructors that run in between take clients out of the list it walks.

### StdSocket, UDPServer, HTTPRequest

A call of a stream is the list `todo` of its stretches of code; "pass" is a
`Process()` inside it, during which any callbacks may run. `stream["outer"]` is the
object of the application and `stream["client"]` the one a server makes of the
connection it accepted. Bytes are numbered per connection, and `log` keeps what was read
of each, so order and loss show.
`UDPServer` counts datagrams and their sizes, its buffer and what it peeked.
`HTTPRequest` has the object, its handler and the peer apart, because the object is used
again while a pass may still call it for a handler it has closed.

### ThreadLock and Thread

One step for each lock, unlock, access to `condition` and pthread call of each thread;
`pc[t]` says where a thread stands in `call[t]`. The pthread functions follow their
contract: a recursive mutex, a wait that may wake for no reason, a signal that wakes
at least one sleeper. `scopes[t]` counts the `AThreadLock` objects of the thread's own
code around a call. `Wait()` is called without them, as it must be: `pthread_cond_wait`
gives back one level of the mutex only. `Thread` is the owner and the thread, step
by step, with a `Run()` of the kind the header asks for.

### MessageResponse

`msgvalid`, `minbytes`, `maxbytes`, `pos`, `tick` and `rxtick` are the members of the
class; `now` is `GetTickCount()` and wraps at `Width`. `own` and `late` are the
bytes in the stream that answer the current and earlier messages; the model
does not assume that the peer answers, or answers in time. `age` and `gap` are the
times that the wrapped differences should stand for, so that a property can tell a
real timeout from a wrapped one. `failing` counts the failure callbacks that are
running: the only callback with code after it, since it closes the connection when
it returns, whatever the callback has opened by then. A caller may ask for up to
`MaxRequest` bytes, more than the buffer holds (`BufLen`): a maximum above the buffer is
cut down to it, but one below the minimum becomes the minimum, whatever that is, and
`Process()` then reads past the buffer. Those bytes are counted like the others; what they
overwrite is not modelled.

### ListNode

`links.prev` and `links.next` are the links of the nodes, `pFirst`, `pLast` and `nNodes`
the members of the list. Each action is a whole call of `AList` with the chain of
`AListNode` operations it makes. Walking to an end of a chain takes at most as many
steps as there are nodes: that is always enough, and proved to be.
Nodes that are inserted are free: the code does not check this, and inserting a
member breaks the count and may link a node to itself (see the hazards).

`NodeSequence` is what the class promises: the same calls on a sequence of distinct
nodes, with the same results. `op` records the last call with its arguments and
result in both, so that the implementation may not explain one call by another.

### SettingsHandler and TextCodec

`list` holds the entries with the address each has, and `hash` maps names to
addresses, so that an index entry can dangle. `file` holds the lines of the file, or
`Absent`. A value goes to its line through `Encode` (`Escapify`, `Quotify`) and back
through `Decode` (`DeQuotify`, `DeEscapify`). `Set` and `Delete` end in `CheckWrite()`
as in the code; `AddLine` does not. `Edit` is another program writing the file. Opening
the file may fail on either side: `Read()` then leaves nothing, `Write()` leaves the
change pending. Once it is open either may stop short at any line, with a part of that
line (`CutAt`), and the code does not look: `Read()` takes what came before for the file,
and `Write()` ignores what `printf()` and `close()` return (lines 135, 139 and 146) and resets
`changed`. `Crash` leaves a file that was cut in the same way: it is truncated when it is
opened and written in place. What got through is always the beginning of what was
written; a device that recovers in the middle and leaves a gap is not modelled. Names without `=` that do not look like comments, and
added lines that are comments, are assumed: the code does not escape them. `parted` is a
history variable: that the file and the handler have parted since they were last the same
(a short read or write, a forgotten change, another program).
Times are `sincechange` and `sincewrite`, counted up to the limits they are compared with.

### The smaller objects

`StructList` keeps the block of memory beside the items it stands for; `Hash` counts
the calls of the destructor for each value; `MemFile` keeps buffer, position and
length beside the file they stand for; `StringList` is two lists of texts, one of
them locked; `PostgresDatabase` is a connection over a server that may fail at any
call, with queries that own their results; `QuitHandler` is the set of handlers, the
default among them and their functions. A signal runs between two calls.

`Objects` has three variables for all of them: `object`, what is `around` it or what it
stands for, and what happened in the `past`; `subject` says which object a behaviour
is about. `MCObjects` adds the list and the settings, which have variables of their own:
each of its steps is a step of `ObjectsNext` or leaves these three alone.

### Texts, patterns, dates, numbers, files

These are operators without variables. A text is a sequence of characters
(one-character strings) indexed from 0 as in the code, and NUL stands past its end.
Loops are recursive functions or first positions of a set. `Glob` keeps the method of
`match()`: it writes a new pattern for a repetition, group or region and matches
that together with the rest. `DateTime` keeps the searches in halving steps for year
and month, and unsigned days that wrap; it applies the terms of a text one after the
other to a state, as `StrToDate()` does; cutting the text into terms is left out.
`SimpleEval` keeps all integers in a word of `Width` bits, and a floating-point value
as an exact fraction: signs, kinds and sizes are the code's, rounding is not modelled.
`Arithmetic` counts positions between samples in parts of one. `Directory` has a tree as
`readdir()` gives it; `XMLDecode` is position by position, with endless loops told by
a bound on the returns to the same place.

## The runs

| Run | Module | Distinct states | Asks |
|---|---|---|---|
| `SocketServer` | `SocketServer` | 1,051,826 | can a pointer, a readiness bit, a callback or a buffered byte outlive its handler, and what throws bytes away? |
| `SocketServer_liveness` | `SocketServer` | 123,606 | is every deleted handler closed at last? |
| `SocketServer_timeout` | `SocketServer` | stops at the violation | does the timeout only close what never got writable? (no: a finding) |
| `TextServer` | `TextServer` | 777,964 | does deletion, now or later, leave no client behind and lose no text? |
| `TextServer_delete` | `TextServer` | stops at the violation | does `Delete()` called from the application's loop finish? (no: a finding) |
| `StdSocket` | `StdSocket` | 260,061 | do bytes arrive in order, the end after the last of them, and failures at all? |
| `StdSocket_eof` | `StdSocket` | stops at the violation | is the reader told of the end of the stream? (no: a finding) |
| `MessageResponse` | `MessageResponse` | 1,888,401 | is each message ended, in time, with its own answer, and when is one reported again? |
| `ThreadLock_broadcast` | `ThreadLock` | stops at the violation | does a broadcast release all waiters? (no: a finding) |
| `Library` | `MCLibrary` | 48,692 | does the boolean signal keep its promise under every interleaving; do the algorithms compute what they stand for? |
| `Library_dates` | `MCLibrary` | stops at the violation | is a date read as it is written, whatever the date before? (no: a finding) |
| `Objects` | `MCObjects` | 148,020 | do lists, settings, containers, streams, results and threads keep their promises under any calls? |

What each property means is said above its definition in the module. The ones a
reader may want first:

- `HandlerPointersLive`, `NoNullReadCallback`, `ReadinessIsCurrent`: the dispatch loop of
  `Process()` keeps a raw `HANDLER*` and three `fd_set`s over callbacks that may delete
  any handler and create others on the same descriptors. They hold because nothing
  is freed while `ProcessingDepth` is above zero, and new handlers join at the end.
- `NoCallbackAfterDestructor`, `DeletedOnlyDrains`, `DeletedIsClosed`: the life of a handler
  after `DeleteHandler()`, which may linger for its buffer.
- `UnsentOnlyByCause`: bytes that `WriteSocket()` accepted are not always sent. It names all that
  takes them out of the buffer besides sending: `Process()` calls `DeleteWriteBuffer()` and
  then closes on an exception bit (`SocketServer.cpp:536`), also one that a failed
  `select()` left there, on a failed `send()` (570) and on the timeout of a connection that
  was never read or written (596); the application may call `DeleteWriteBuffer()`; and the destructor
  of the server does not wait. `DeleteHandler()`, the passes of `DeleteSockets()` and the
  destructor callbacks between them cost no byte.
- `HandlersLive`, `ClosedOnlyWhenSent`, `DeleteFinishes`: the same one level up, for the
  clients of a text server, with deletion from any callback.
- `StreamInOrder` and `EndsAfterLastByte`: every reading call of `AStdSocket` runs
  callbacks that change the buffer it is about to read.
- `NoLostWakeup` and `RefinesBinarySignal`: what a waiter relies on.
- `NeverGivenUpEarly` relates the wrapped tick differences to the true times;
  `AnswerIsOwn` says when a response can be trusted to answer its own message:
  only while no message of the connection has been given up, since its answer may
  still arrive, and the code does not drain it. It does not say that the response is right
  after a timeout: it need not be. `ReportedOnce` likewise bounds what the code allows
  and does not forbid it: polling from a failure callback reports the message again, but
  each report has its callback still running, and when the last returns the message
  is gone.
- `RefinesSequence`: every call of `AList` does and returns what it would on a sequence.
- `SavedIsStored`: everything not marked as changed would be read back as it is, whether
  the file could be opened, wherever the process died and whatever the values hold.
  It does not say so when a change was given up (`ClearChanged()`, or `Write()`
  while writing is disabled), when another program wrote the file, and when a read or a
  write of an open file stopped short: after a write to a full disk the handler has nothing left to
  write and its values are not in the file. That is the code's behaviour.
  It excepts a name that the file had twice and that was then deleted: its other
  line is still there, and the next load finds it.
- `PatternsMatch`: `match()` accepts exactly the texts of the pattern's language in
  `PatternLanguage`, and the regions it reports are the parts of the text.
- `TextsInParts` and `RoundTrip`: what words, lines, paths, brackets, URLs, XML and the
  other forms take apart makes up the text again.
- `DatesExact`: the calendar goes from day to day without a gap, and sums, weekdays,
  weeks and written dates fit it.

### Bounds

| Run | Bounds | Why they are enough |
|---|---|---|
| `SocketServer` | 2 descriptors, buffers of 2 bytes, one application that passes all four callbacks, of which it changes the read callback later, `WordBits` = 1 | two descriptors give reuse of the one while the other is dispatched, in both list orders, and a listener that accepts; two bytes give an empty, a partly sent and a full buffer; the frames never nest deeper than two in the code itself |
| `SocketServer_liveness` | the same, readers only | lingering needs only a buffer and a peer |
| `SocketServer_timeout` | 1 descriptor, 1 byte | the violation needs no more |
| `TextServer` | 2 client sockets, 3 connections, a send buffer of 1, writes of 1 and 2, one per connection | a client before and one behind the one that is deleted; a socket used again; a write that is taken whole and one that is taken in part |
| `StdSocket` | 2 peers, 2 bytes from each, 1 byte out | a second connection while the first has unread bytes; bytes on both sides of a read |
| `MessageResponse` | counter of 4 values, timeout 2, gap 1, buffer of 2 bytes, requests of up to 3, 2 late bytes, silences up to 5 ticks, 2 failure callbacks inside one another | a silence can be longer than the counter's range; a message can be answered late by the bytes of another, in part or whole; a minimum above the buffer, with a maximum below it and above; failures nest |
| `Library` | 3 threads, 1 scope each; for the algorithms the sets of inputs in `MCLibrary`, `MCTexts` and `MCFiles` | a signaller, a waiter in the middle of its wait and another that competes for the condition, and three levels of the mutex; texts of every special character next to each other and at both ends, all patterns of two pieces over all single characters, groups, repetitions and exclusions, days around leap years and the ends of the searches, all pairs of small rectangles, words of six bits |
| `Objects` | list: 4 nodes, keys 1, 2, 2, 3; settings: 2 names, 2 values, 2 entries, delay 2, cap 2, 2 files by others; blocks of 4 items growing by 2; 3 values under 2 names; files of 3 bytes; responses of 4 characters read in chunks of 3; 3 datagrams on both sides of the peeked size; 2 queries of 2 rows; 2 handlers with 2 functions; 4 texts | all chains of up to 4 nodes in all orders, with equal keys in the middle and at either side of an insertion; a name twice in the file, files cut at each line and character, times on both sides of each limit; each object empty, full and past its increment |

`ThreadLock_broadcast`, `TextServer_delete`, `StdSocket_eof` and `Library_dates` have the
smallest instance that shows their violation.

Deadlock is checked in `TextServer` and `StdSocket`. In the others a state may end a
behaviour: all threads asleep, a closed server, an input that was picked.

### Fairness

- `SocketServer`: code that can go on goes on, callbacks return, the application
  calls `Process()` again and again, and a socket that is watched for writing
  again and again is at last reported writable. The last is the peer's: a peer
  that never reads keeps the handler for ever, and the code has no time limit there.
- `TextServer`: the same one level up: `Process()` is called, what it started ends, and
  every peer reads what it is sent or goes away.
- `StdSocket`: a call goes on, `select()` reports a connection that has bytes, failed or
  takes bytes until it is served, and the application reads.
- `ThreadLock`: each thread that is again and again able to take its step takes it
  (the mutex is not fair by itself, so this is strong fairness), and a caller closes
  the scopes it opened.
- `MessageResponse`: time passes, `Process()` is called, the failure callback returns.
  `Answered` further takes that two polls are at most `Patience` ticks apart: after a
  silence of a whole turn of the counter the elapsed time looks short again.
- `Objects`: for settings time passes and the owner keeps calling `CheckWrite()`,
  as the class expects of it, with a file that can be opened again and again (that the lines
  then get there is not assumed and not claimed); for a
  thread, that it and its owner run.

## The proofs

| Module | Theorems | For every |
|---|---|---|
| `SocketServerProofs` | `TypeCorrect`, `PointersLive`, `ReadCallbackSet`, `SilentAfterDestructor`, `Readiness`, `BuffersOwned`, `DeleteListSound`, `OnlyDrains`, `UnsentByCause` | set of descriptors, buffer limit, set of callbacks, word size |
| `TextServerProofs` | `TypeCorrect`, `NoFreedHandler`, `NoOrphans`, `NothingLost` | set of clients, buffer limit, sizes and numbers of writes and connections |
| `StdSocketProofs` | `TypeCorrect`, `InOrder`, `NothingLostAtEnd` | set of peers and number of bytes |
| `MessageResponseProofs` | `TypeCorrect`, `NeverEarly`, `NotReportedTwice`, `OwnAnswer` | width of the counter, timeout, gap, buffer size, request and pattern of silence |
| `ListNodeProofs` | `TypeCorrect`, `StaysWellFormed`, `Implements`, `OrderStays` | finite set of nodes and their keys |
| `SettingsProofs` | `TypeCorrect`, `NoStalePointer`, `SavedMeansStored`, `RoundTrip` | set of names, values and files, finite memory, both delays |
| `ObjectProofs` | `ObjectsKeepTheirs`, `ContainersHoldTheirs`, `PeersInOrder` | items, names, values, bytes, responses, datagrams, queries, handlers, functions and texts; sizes of steps, chunks and buffers |
| | `LockTypes`, `MutualExclusion`, `WakeupNotLost`, `ImplementsBinarySignal` | set of threads, number of scopes |
| | `ProductsNearest`, `BytesSwapBack`, `SampleBetween`, `RectanglesMeet` | numbers, items of bytes, buffers, rectangles |

The assumptions are those named in the modules, and TLC evaluates each in some run:
descriptors are natural numbers, limits are natural numbers, the timeout and gap are
smaller than the counter's range (they are `uint32_t` like the counter), names that
stand for nothing (`NoThread`, `Null`, `"none"`, the listener) are not among the things,
nodes and addresses are finitely many, values are texts. `ObjectsAssumption` asks for
steps of growth, chunks and peeked sizes of at least one, as the code's constants are,
and for finitely many queries.

**SocketServer.** The properties are not inductive by themselves: that a pointer is not
freed depends on who runs. `IInv` adds `Control`, which ties the two frames to
`ProcessingDepth` (a `DeleteSockets()` frame is only entered when `Process()` is
outside its loops); `NoDup(sockets)` and `DeleteListConsistent`, without which
removing a handler could move or leave another; `SetsCurrent`, that the bits of a
pass belong to handlers that are still listed and not new, and that the ones for reading
have a read callback; and `DeadDetached`, that a handler whose destructor has run
is being deleted and has no callbacks left. Each conjunct has its own lemma with
one step for each action. Of the two action properties, `DeletedOnlyDrains` needs
`IInv` only to know that a socket that is deleted is still the same one in the next
state; `UnsentOnlyByCause` needs `FinalDrained` besides: when `DeleteSockets()` has
decided to close a socket nothing is buffered for it, unless the server itself is
being destroyed, and the destructor callback in between changes neither.

**TextServer.** `Account` keeps the books of each connection: what was written to it
is with the kernel, in the write buffer or still in the handler, or an excuse (a full
buffer, a peer that went away, a forced deletion) is noted. `Attached` says that a
socket that will call a handler is listed, `Gone` that a deleted server has no clients
but those it was told to leave. `Write`, `Close` and `CloseIfNeeded` each have a lemma that
says what they do to the books; a call for every client is a fold over the client list,
which keeps what each step keeps (`FoldStays` in `ListFacts`). `ClosedOnlyWhenSent` is
then read off the books at the moment of closing.

**StdSocket.** For every connection, what was read and what is in the stream's buffer
are together the bytes taken from the kernel, in order (`Split`, `Holds`), and the
two streams have different connections (`Apart`). A call goes on after the callbacks that
run inside it, so the invariant speaks of the code that is left of it: `Part` says where in
`todo` each stretch can stand, and `Relies` what it counts on when its turn comes: that
there is a client, or that the one about to be dropped has no unread bytes.

**ThreadLock.** `LockInv` adds to the properties which call a thread is in
(`CallShape`), that a waiter holds no scope (`WaitsWithoutScopes`: else its sleep would
keep the mutex), that the sleepers are those that stand in the wait, and that a
condition once tested is still set when it is taken, which holds because both
happen under one hold of the mutex. Refinement of `BinarySignal` then needs one case
per action: `Take` is `Release`, `Set` is `Raise`, the beginning of a wait is
`Arrive`, all else stutters.

**MessageResponse.** `Times` says that until a true time has reached the limit that it
is compared with, the wrapped difference is equal to it: `NeverEarly` follows, whatever
the counter does later. `OwnAnswer` rests on `Settled`: as long as no message of the
connection was given up, nothing of an earlier answer is left in the stream.
`TypeCorrect` includes where the response ends: inside the buffer, unless the
caller's minimum is larger and its maximum smaller than that (the default maximum is 0).

**ListNode.** The invariant is that the links represent a chain: `next` and `prev` of each
member are its neighbours, those of all other nodes are NULL, and ends and count are
the chain's. Such links are determined by their chain, so detaching and inserting in
`ListLinks` are shown to be operations on chains, and the calls to be composed of these. The loops need an induction over their steps: the
walk to an end of a chain, the search for the place of a key, `Sort()`, which takes the
nodes one after the other into order, and `Limit()`. Each is written as an iteration, so
that one lemma (`Iteration` in `ListFacts`, from the least step that would fail) serves
them all. `Implements` then has one step
per call, with results: each is the call of the same name on the sequence. `OrderStays`
follows from the place that the search finds. Walks are bounded in the model by the
number of nodes: that the bound is never met is part of what is proved.

**Settings.** `RoundTrip` is an induction over the characters of a text: after the written
form of a character `DeEscapify`'s loop has given out this character and is back in its
plain mode. So the line of an entry gives the entry back. `IInv` adds to the types that
no two entries have one address, that the hash has the last entry of each name it knows
(`Read()` may list a name twice), and that what is not marked as changed agrees with what
the file would give (`Saved`), unless the two have `parted`. A file that was cut stays a file
of the same kind (`CutFacts`), which is all that the next `Read()` needs.

**Objects.** Each object has an invariant of its own, `ObjectInv` says that the one a
behaviour is about keeps it, and `ObjectsKeepTheirs` is one step per object.

- `BlockInv`: the block of memory begins with the items, however often it grows and
  whatever part of it is moved over what. Each call is a composition of `Allocate`, `Move`
  and one write, with a lemma for each; `B!FindsNearest` is a fact of the searches.
- `HashInv`: no value has two names, and the destructor was called once for each that was
  given and has left.
- `FileInv`: the buffer begins with the file, the position lies inside it, and what was
  read last is a part of it that is still there. Writing past the end, taking bytes out
  in front and putting some in each have a lemma on the buffer.
- `RequestInv`: the object holds the last bytes of what it took of the response of the
  connection that is open, and sends its request once on each.
- `UDPInv`, `ThreadInv`: what a step relies on after an earlier one: the datagram that
  was peeked is still the first and fits into the buffer; the quit flag is set from
  `Stop()` to the end of the join.
- `DatabaseInv`: a result that is not cleared is the database's own or that of one query,
  and a query's rows were fetched in order.
- `QuitInv`, `TextsInv`: the default is alive and the functions asked are its own, newest
  first; no text is twice in a list, and `LimitStrings()` keeps order and locks. Both select
  from a sequence by a fold, which a section of `ListFacts` is about: what stays, how
  much of it there is, and that the places keep their order.

The theorems are about `ObjectsSpec`. `MCObjects` adds the two machines that have
theorems of their own, and its steps are steps of `ObjectsNext` or leave its variables
as they are.

**Numbers, bytes and rectangles.** The part of `NumbersExact` that does without recursion and
folds is proved for all inputs: C's division towards 0 from the division of naturals (`QuotientFacts`),
rounding from it; swapping bytes is a mirror inside each item (`MirrorFacts`); rectangles
are two spans.

**Only model-checked.**

- Liveness under fairness (`DeletedIsClosed`, `DeleteFinishes`, `FailureIsReported`,
  `SignalIsTaken`, `Answered`, `ChangeIsWritten`, `StopReturns`): the prover has no
  `ENABLED` to reason with.
- The six invariants of `MCLibrary`: `NumbersExact` as a whole (sums and products by folds
  over words and samples, angles, colours), `ListsInOrder`, `TextsInParts`, `DatesExact`, `PatternsMatch`, and the
  half of `RoundTrip` that is about URLs, fields and documents. Their
  operators recurse over texts, patterns, lists, dates and trees, and induction over data is out of
  the installed provers' reach.

## What the checks found

1. `SocketServer_timeout`: with `autocloseunestablishedsockets`, `Process()` closes sockets
   "because it has not become read or write enabled for 10s"
   (`src/src/SocketServer.cpp:593`). A connected client that has nothing to send
   and no write callback is not watched for writing, so `connected` is only set when
   its peer speaks: an established connection with a quiet peer is closed too.
2. `TextServer_delete`: `ATextServer::Delete()` called from the application's loop walks
   `clientlist` by index while `Close()` takes clients out of it
   (`src/src/TextServer.cpp:47`): every other client is skipped, never asked to
   close, and the deletion that was put off never happens.
3. `StdSocket_eof`: at the end of a stream that the peer closed in order `select()`
   reports 0 bytes, which `readcallback` ignores (`src/src/StdSocket.cpp:170`): `readdata()`
   returns 0 for ever where `StdData.h:315` promises -1.
4. `ThreadLock_broadcast`: `AThreadBoolSignalObject::Broadcast()` should "Signal all
   waiting threads" (`src/include/ThreadLock.h:122`). It wakes them all, but the first
   to get the mutex resets the condition and the others sleep again.
5. `Library_dates`: `StrToDate()` sets the month while the day of the date before is still
   there (`src/src/DateTime.cpp:1412` and `1424`): "13-feb-2017", read on the 31st, is
   13 March.

### Seen while modelling

With no run of their own, because nothing promises otherwise or because the state
they need is kept out of the model by an assumption that its module names.

- Sockets: a `select()` that fails (a signal) leaves all bits set, and every connection
  that is watched is closed (`SocketServer.cpp:529`), with what it still had to send; a failed
  `send()` and the ten-second timeout throw away accepted bytes as well. `ATextHandler::Close()` assigns
  to a handler that its destructor callback has freed, and `~ATextServer` may free a
  handler twice. `SendData()` takes a full buffer for a failure. Writing to an `AStdSocket`
  drops unread data; `flush()` from a callback never ends, since `Process()` refuses. A
  datagram of no bytes keeps `AUDPServer` busy, and one above 4096 bytes is cut.
  `AHTTPRequest` may be complete without a byte received, and `OpenURL()` on an open
  request only changes its URL.
- Threads and messages: `Wait()` with the mutex already held sleeps holding it. A failure
  callback that opens and sends again has its new connection closed when it returns;
  one that polls is called again for the same message. After a timeout the late answer is
  given to the next message, and so on for the rest of the connection. A minimum
  response above the size of the buffer is read past its end when the maximum is
  below it, as the default of 0 is (`MessageResponseHandler.cpp:57`); with a maximum above it,
  it can only fail.
- Lists and objects: `AList::Add()` of a member breaks the count and may tie a node to
  itself; `AListNode::Duplicate()` of a chain loses nodes (`ListNode.cpp:559`); copies of
  `ADataList` and `AHash` own the same items; `LimitStrings()` removes texts without
  deleting them; opening an `AStdMemFile` that is open leaks or frees the caller's memory;
  `AStdData` gives out NULL for an empty line. When the default `AQuitHandler` dies no other
  takes its place and signals are lost. A query used after its database was closed
  asks a freed connection for its error message.
- Settings: the file is rewritten in place, so a crash tears it; a write that fails once the
  file is open counts as done and is never tried again (`SettingsHandler.cpp:148`). A
  file that cannot be opened reads as an empty one, and one that cannot be read to its
  end as a shorter one, which the next change then writes back.
- Texts: `operator+=(std::string)` assigns; `SearchAndReplace()` and `Count()` of an empty
  text never end, nor `CompareWordWise()` where both texts have white space or the same
  signed number at the same point, nor `WordUnderPos()` past the end, nor `PasteLine()`
  into an open quote; `ForwardSexp()` never moves; `FilePart()` of "/a" keeps the slash;
  `CatWords()` after an escaped blank joins words; `AStringUpdate` with a buffer of one
  character overflows, and a NUL drops what follows it.
- Patterns: a class that is cached is used whatever the case sensitivity; an escaped
  end of a range of characters is misread; "Z" acts as a mark of alternatives in a
  pattern with "|"; the limit of 2000 levels makes long texts fail; exclusions in a
  group ignore what follows the group; the regions of an excluded match stay.
- Dates: week 1 is the week that contains 1 January, not ISO's; times of 0 written with
  ":" leave the old time; `DateFormat()` reads past a format that ends in "%".
- Samples: `InterpSum()` within one sample divides by something that is not the distance
  (doubles) or by nothing (floats), and is not the mean it is between samples.
- Expressions: an operator or comma at the end, or a blank text, is read past its end
  (`strchr()` finds the NUL); "1-2" is read as the number 1; unknown operators such as
  "*-" change nothing; arguments are split at commas whatever brackets they are in;
  ":=" takes everything behind it; "0b" numbers are not read by `getarg()`; unsigned
  values make 2-3<1 false. Evaluation from left to right without precedence is the
  code's rule.
- XML: an unterminated comment sends the decoding back to position 2, and "  <!--" never
  ends; "<" and "</" alone succeed; an unquoted last attribute takes the ">" with it; text
  behind a closing tag fails.
- Files: a walk that begins at the root goes through "/." and "/.." again;
  `CompareByDate()` puts directories last; `FileNewerThan()` and `FileOlderThan()` are both true
  when the second file is missing. `AStdUri` gives datagram streams the destination
  "localhost" always.
- Rectangles and numbers: `Overlap()` is not symmetric and `PointInRect()` counts the bottom edge.

## What is not modelled

- Of `SocketServer`: `SetConnectHandler`, `SetContext` and the destination of datagrams (stored
  values), changes of the buffer limit and of the auto-close flag during a run,
  the contents of the bytes.
- Of `MessageResponseHandler`: changes of its limits, the success flag of the callback, and what
  a response overwrites that is longer than the buffer.
- Of `ListNode`: `Copy` and `Duplicate` (two lists), the calls on bare chains
  (`Prepend`, `Append`, `MergeList`), searches. Of `DataList` and `Hash`: copies.
- Of `SettingsHandler`: `CheckRead()` and `HasFileChanged()` (time stamps of files), searches,
  writes with a gap in the middle;
  a wrap of its tick counter (a change that waits for 49 days).
- Of `AString`: allocation, `printf`, numbers to and from texts, engineering format, clock
  times. Of `ARegex`: the functions around `std::regex`. Of `ADateTime`: cutting a text into
  terms, fractions finer than a half. Of expressions: rounding, infinities and the
  mathematical functions, which TLA+ has no numbers for; `Evaluator.cpp`, which is
  unfinished and returns the empty text.
- Of `Recurse`: the Windows half and the current directory. Of XML: writing. Of the
  database: the wording of SQL and the types of columns.
- Images, digests and ciphers, numerics, serial ports, HTML and tables, logs, run-time
  types: system calls, layout, floating point or bit-level code without state worth
  exploring; `CircularBuffer` and `FileHash` are headers without an implementation.
  `PROJECT.json` lists each with its files.

## The plan

What would come next:

1. `Thread`'s signal as an implementation of `BinarySignal`, as `ThreadLock`'s is one; the
   same for the composition of the two.
2. `InterpSum()` and the product of words, whose folds run over a range of numbers.
3. More of the code: `ListNode`'s `Copy` and `Duplicate`, `CheckRead()` of the settings,
   conversions of numbers to and from texts, and the layout of HTML tables.
