---------------------------- MODULE MessageResponse ----------------------------
(***************************************************************************)
(* AMessageResponseHandler (src/src/MessageResponseHandler.cpp): sends one *)
(* message at a time over a byte stream and reports its response, or the   *)
(* lack of one, through a callback.                                        *)
(*                                                                         *)
(* Bytes are counted and told apart only by the message they answer.  The  *)
(* tick counter has Width values and wraps; age and gap are the true times *)
(* behind the wrapped differences, counted no further than the limits they *)
(* are compared with.  Process() reads, compares and calls back in one     *)
(* step; what a callback does is whatever the application does next.  Only *)
(* the failure callback has code after it, so only it needs a frame.       *)
(***************************************************************************)
EXTENDS Integers

CONSTANTS Width,      \* values of the tick counter (2^32)
          Timeout,    \* deftimeout
          MaxGap,     \* defmaxgap
          BufLen,     \* maxresponse
          MaxRequest, \* bound: bytes a caller asks for, more than BufLen or not
          MaxLate,    \* bound: bytes of old answers still to come
          MaxSilence, \* bound: ticks between two calls of Process()
          Patience,   \* ticks between two calls that liveness allows
          MaxFailing  \* bound: failure callbacks inside one another

ASSUME LimitsAssumption ==
    /\ Width \in Nat /\ Timeout \in 0..(Width - 1) /\ MaxGap \in 0..(Width - 1)
    /\ BufLen \in Nat \ {0} /\ MaxRequest \in Nat
    /\ MaxLate \in Nat /\ MaxSilence \in Nat /\ Patience \in Nat /\ MaxFailing \in Nat

VARIABLES
    open,      \* comms.isopen()
    msgvalid,  \* a message waits for its response
    minbytes, maxbytes,
    pos,       \* bytes of the response in the buffer
    tick,      \* time of SendMessage()
    rxtick,    \* time of the last bytes
    failing,   \* failure callbacks running, each inside the one before
    now,       \* GetTickCount()
    own, late, \* bytes yet to be read: of the current answer, of earlier ones
    age, gap,  \* history: true time since tick and rxtick
    idle,      \* history: true time since Process() was called
    told,      \* history: callbacks the current message has had
    alien,     \* history: bytes in the buffer that answer an earlier message
    lapsed     \* history: a message of this connection ended before its maximum

message == <<msgvalid, minbytes, maxbytes, pos, tick, told, alien>>
stream == <<own, late>>
vars == <<open, message, rxtick, failing, now, stream, age, gap, idle, lapsed>>

UpTo(n, limit) == IF n < limit THEN n ELSE limit

\* now - since in uint32_t, whose 2^32 values are 0..(Width - 1).
Elapsed(since) == IF now >= since THEN now - since ELSE now - since + Width

Init ==
    /\ open = FALSE /\ msgvalid = FALSE
    /\ minbytes = 0 /\ maxbytes = 0 /\ pos = 0
    /\ tick = 0 /\ rxtick = 0
    /\ failing = 0
    /\ now \in 0..(Width - 1)
    /\ own = 0 /\ late = 0
    /\ age = 0 /\ gap = 0 /\ idle = 0
    /\ told = 0 /\ alien = 0 /\ lapsed = FALSE

-----------------------------------------------------------------------------

\* A connection starts with an empty stream.
Open ==
    /\ ~open
    /\ open' = TRUE /\ msgvalid' = FALSE
    /\ own' = 0 /\ late' = 0 /\ lapsed' = FALSE
    /\ UNCHANGED <<minbytes, maxbytes, pos, tick, told, alien, rxtick, failing, now,
                   age, gap, idle>>

Closed == open' = FALSE /\ msgvalid' = FALSE

Close ==
    /\ open
    /\ Closed
    /\ UNCHANGED <<minbytes, maxbytes, pos, tick, told, alien, rxtick, failing, now,
                   stream, age, gap, idle, lapsed>>

\* LIMIT(maxrespbytes, minbytes, buflen): a maximum below the minimum becomes the
\* minimum, even if that is more than the buffer holds.
Limited(max, min) == IF max < min THEN min ELSE UpTo(max, BufLen)

\* Mutant: the bytes of the previous response stay.
RestartKeepsBuffer == UNCHANGED pos /\ alien' = pos

Restart == pos' = 0 /\ alien' = 0

\* SendMessage and ContinueMessage once the bytes are out: the peer owes an
\* answer of at most maxbytes.
SendMessage(min, max) ==
    /\ open /\ ~msgvalid
    /\ minbytes' = min
    /\ maxbytes' = Limited(max, min)
    /\ msgvalid' = (maxbytes' > 0)
    /\ tick' = now /\ age' = 0
    /\ Restart
    /\ late' = late + own
    /\ late' <= MaxLate
    /\ own' \in 0..maxbytes'
    /\ told' = 0
    /\ UNCHANGED <<open, rxtick, failing, now, gap, idle, lapsed>>

\* A short write closes the connection.
SendFails ==
    /\ open /\ ~msgvalid
    /\ Closed
    /\ UNCHANGED <<minbytes, maxbytes, pos, tick, told, alien, rxtick, failing, now,
                   stream, age, gap, idle, lapsed>>

-----------------------------------------------------------------------------
(* Process() *)

\* comms.readbytes(buffer + pos, maxbytes - pos) = n.  Bytes beyond the buffer
\* are counted like the others; what they overwrite is not modelled.
Receive(n) ==
    /\ n <= UpTo(late + own, maxbytes - pos)
    /\ late' = late - UpTo(n, late)
    /\ own' = own - (n - UpTo(n, late))
    /\ alien' = alien + UpTo(n, late)
    /\ pos' = pos + n
    /\ IF n > 0
       THEN rxtick' = now /\ gap' = 0
       ELSE UNCHANGED <<rxtick, gap>>

\* Mutants: ticks compared without regard to the wrap; the gap is forgotten.
GaveUpUnwrapped == now >= tick + Timeout /\ (pos' = 0 \/ Elapsed(rxtick') >= MaxGap)
GaveUpOnTime == Elapsed(tick) >= Timeout

\* The timeout of the message, then the gap since its last bytes.
GaveUp ==
    /\ Elapsed(tick) >= Timeout
    /\ pos' = 0 \/ Elapsed(rxtick') >= MaxGap

Complete == pos' = maxbytes

\* The callback runs with msgvalid already reset.
Report ==
    /\ msgvalid' = FALSE
    /\ told' = told + 1
    /\ lapsed' = (lapsed \/ pos' < maxbytes)

Process ==
    /\ open /\ msgvalid
    /\ \E n \in 0..MaxRequest : Receive(n)
    /\ IF Complete \/ GaveUp
       THEN Report
       ELSE UNCHANGED <<msgvalid, told, lapsed>>
    /\ idle' = 0
    /\ UNCHANGED <<open, minbytes, maxbytes, tick, failing, now, age>>

\* The read fails: the callback is called with the message still in place.
ProcessFails ==
    /\ open /\ msgvalid /\ failing < MaxFailing
    /\ failing' = failing + 1
    /\ told' = told + 1
    /\ idle' = 0
    /\ UNCHANGED <<open, msgvalid, minbytes, maxbytes, pos, tick, alien, rxtick, now,
                   stream, age, gap, lapsed>>

\* Mutant: the connection is left open after the failure callback.
FailureKept == UNCHANGED <<open, msgvalid>>

\* Close() after the failure callback, whatever the callback has opened.
FailureClosed == Closed

FailureReturns ==
    /\ failing > 0
    /\ failing' = failing - 1
    /\ FailureClosed
    /\ UNCHANGED <<minbytes, maxbytes, pos, tick, told, alien, rxtick, now,
                   stream, age, gap, idle, lapsed>>

\* Nothing to do: no message is out.
ProcessIdle ==
    /\ ~(open /\ msgvalid)
    /\ idle' = 0
    /\ UNCHANGED <<open, message, rxtick, failing, now, stream, age, gap, lapsed>>

Tick ==
    /\ idle < MaxSilence
    /\ now' = IF now = Width - 1 THEN 0 ELSE now + 1
    /\ age' = UpTo(age + 1, Timeout)
    /\ gap' = UpTo(gap + 1, MaxGap)
    /\ idle' = idle + 1
    /\ UNCHANGED <<open, message, rxtick, failing, stream, lapsed>>

-----------------------------------------------------------------------------

Next ==
    \/ Open \/ Close
    \/ \E min, max \in 0..MaxRequest : SendMessage(min, max)
    \/ SendFails
    \/ Process \/ ProcessFails \/ FailureReturns \/ ProcessIdle
    \/ Tick

Spec == Init /\ [][Next]_vars

\* Time goes on, the owner keeps calling Process(), its callbacks return.
LiveSpec == Spec /\ WF_vars(Tick) /\ WF_vars(Process) /\ WF_vars(FailureReturns)

-----------------------------------------------------------------------------
(* Properties *)

\* Types; and a response runs past the buffer only if the caller asks for at
\* least that much, and for less at most.
TypeOK ==
    /\ open \in BOOLEAN /\ msgvalid \in BOOLEAN /\ lapsed \in BOOLEAN
    /\ minbytes \in 0..MaxRequest /\ maxbytes \in 0..MaxRequest /\ pos \in 0..maxbytes
    /\ maxbytes > BufLen => minbytes = maxbytes
    /\ tick \in 0..(Width - 1) /\ rxtick \in 0..(Width - 1) /\ now \in 0..(Width - 1)
    /\ failing \in 0..MaxFailing /\ told \in Nat
    /\ own \in 0..MaxRequest /\ late \in 0..MaxLate
    /\ age \in 0..Timeout /\ gap \in 0..MaxGap
    /\ idle \in 0..MaxSilence /\ alien \in 0..pos

\* A message is given up only when its timeout has truly passed, and no byte of
\* its response came within the gap, however the tick counter has wrapped.
NeverGivenUpEarly ==
    [][open /\ open' /\ msgvalid /\ ~msgvalid' /\ pos' < maxbytes
         => age = Timeout /\ (pos' > 0 => gap' = MaxGap)]_vars

\* What is reported, a whole response or a part of one, answers this message and
\* no earlier one, unless a message of this connection was given up before its
\* answer was complete: the code throws nothing away that arrives later.
AnswerIsOwn ==
    [][told' > told /\ ~lapsed => alien' = 0]_vars

\* A message is reported again only from inside the failure callback that has
\* reported it: a message that is still out has had no more reports than there
\* are failure callbacks running, and with the last of them it is over.
ReportedOnce == msgvalid => told <= failing

\* A message ends, with a callback or with its connection, provided Process() is
\* called often enough for no tick difference to wrap in between.
Answered == [](idle <= Patience) => (msgvalid ~> ~msgvalid)
=============================================================================
