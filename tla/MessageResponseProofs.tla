------------------------- MODULE MessageResponseProofs -------------------------
(***************************************************************************)
(* Proofs about MessageResponse for every clock width, timeout, gap, buffer *)
(* and request, and for every pattern of silence between two polls.        *)
(***************************************************************************)
EXTENDS MessageResponse, TLAPS

\* What the wrapped differences say of the true times, until these have reached
\* the limits they are compared with.
Times ==
    /\ msgvalid => (age < Timeout => Elapsed(tick) = age)
    /\ pos > 0 => (gap < MaxGap => Elapsed(rxtick) = gap)

\* The inductive invariant: until a limit is reached, the wrapped difference is
\* the true time.
IInv == TypeOK /\ Times

LEMMA InitIInv == Init => IInv
<1> SUFFICES ASSUME Init PROVE IInv
    OBVIOUS
<1> USE LimitsAssumption DEF LimitsAssumption, Init
<1>1. open \in BOOLEAN /\ msgvalid \in BOOLEAN /\ lapsed \in BOOLEAN
    OBVIOUS
<1>3. tick \in 0..(Width - 1) /\ rxtick \in 0..(Width - 1) /\ now \in 0..(Width - 1)
    OBVIOUS
<1>4. TypeOK
    BY <1>1, <1>3 DEF TypeOK
<1>5. Times
    BY DEF Times
<1> QED BY <1>4, <1>5 DEF IInv

LEMMA StepIInv == IInv /\ [Next]_vars => IInv'
<1> USE LimitsAssumption DEF LimitsAssumption
<1> SUFFICES ASSUME IInv, [Next]_vars PROVE IInv'
    OBVIOUS
<1>1. CASE Open
  <2>1. TypeOK'
    <3>1. open' \in BOOLEAN /\ msgvalid' \in BOOLEAN /\ lapsed' \in BOOLEAN
      BY <1>1 DEF Open
    <3>2. UNCHANGED <<minbytes, maxbytes, pos, tick, told, alien, rxtick, failing, now,
                      age, gap, idle>> /\ own' = 0 /\ late' = 0
      BY <1>1 DEF Open
    <3> QED BY <3>1, <3>2 DEF IInv, TypeOK
  <2>2. Times'
    BY <1>1 DEF IInv, Times, Elapsed, Open
  <2> QED BY <2>1, <2>2 DEF IInv
<1>2. CASE Close
    BY <1>2 DEF IInv, TypeOK, Times, Elapsed, Close, Closed, stream
<1>3. ASSUME NEW min \in 0..MaxRequest, NEW max \in 0..MaxRequest, SendMessage(min, max)
      PROVE  IInv'
  <2>1. /\ Limited(max, min) \in 0..MaxRequest
        /\ Limited(max, min) > BufLen => min = Limited(max, min)
    BY DEF Limited, UpTo
  <2> QED BY <1>3, <2>1 DEF IInv, TypeOK, Times, Elapsed, SendMessage, Restart
<1>4. CASE SendFails
    BY <1>4 DEF IInv, TypeOK, Times, Elapsed, SendFails, Closed, stream
<1>5. CASE Process
  <2>1. PICK n \in 0..MaxRequest : Receive(n)
    BY <1>5 DEF Process
  <2>2. /\ pos' \in 0..maxbytes /\ pos' = pos + n
        /\ alien' \in 0..pos'
        /\ own' \in 0..MaxRequest /\ late' \in 0..MaxLate
    BY <2>1 DEF IInv, TypeOK, Receive, UpTo
  <2>3. /\ rxtick' \in 0..(Width - 1) /\ gap' \in 0..MaxGap
        /\ n > 0 => rxtick' = now /\ gap' = 0
        /\ n = 0 => rxtick' = rxtick /\ gap' = gap
    BY <2>1 DEF IInv, TypeOK, Receive
  <2>4. /\ msgvalid' \in BOOLEAN /\ lapsed' \in BOOLEAN /\ told' \in Nat
        /\ idle' = 0 /\ UNCHANGED <<open, minbytes, maxbytes, tick, failing, now, age>>
        /\ msgvalid
    <3>1. /\ idle' = 0 /\ UNCHANGED <<open, minbytes, maxbytes, tick, failing, now, age>>
          /\ msgvalid
      BY <1>5 DEF Process
    <3>2. CASE Complete \/ GaveUp
      <4>1. Report
        BY <1>5, <3>2 DEF Process
      <4>2. msgvalid' \in BOOLEAN /\ lapsed' \in BOOLEAN
        BY <4>1 DEF Report
      <4>3. told' \in Nat
        BY <4>1 DEF Report, IInv, TypeOK
      <4> QED BY <3>1, <4>2, <4>3
    <3>3. CASE ~(Complete \/ GaveUp)
      BY <1>5, <3>1, <3>3 DEF Process, IInv, TypeOK
    <3> QED BY <3>2, <3>3
  <2>5. TypeOK'
    BY <2>2, <2>3, <2>4 DEF IInv, TypeOK
  <2>6. Times'
    <3>1. msgvalid' => (age' < Timeout => Elapsed(tick)' = age')
      BY <2>4 DEF IInv, Times, Elapsed
    <3>2. CASE n = 0
      BY <2>2, <2>3, <2>4, <3>1, <3>2 DEF IInv, TypeOK, Times, Elapsed
    <3>3. CASE n > 0
      BY <2>3, <2>4, <3>1, <3>3 DEF IInv, TypeOK, Times, Elapsed
    <3> QED BY <3>2, <3>3
  <2> QED BY <2>5, <2>6 DEF IInv
<1>6. CASE ProcessFails
    BY <1>6 DEF IInv, TypeOK, Times, Elapsed, ProcessFails, stream
<1>7. CASE FailureReturns
  <2>1. TypeOK'
    <3>1. open' \in BOOLEAN /\ msgvalid' \in BOOLEAN /\ lapsed' \in BOOLEAN
      BY <1>7 DEF IInv, TypeOK, FailureReturns, FailureClosed, Closed
    <3>2. UNCHANGED <<minbytes, maxbytes, pos, tick, told, alien, rxtick, now,
                      own, late, age, gap, idle>>
      BY <1>7 DEF FailureReturns, stream
    <3>3. failing' \in 0..MaxFailing
      BY <1>7 DEF IInv, TypeOK, FailureReturns
    <3> QED BY <3>1, <3>2, <3>3 DEF IInv, TypeOK
  <2>2. Times'
    BY <1>7 DEF IInv, Times, Elapsed, FailureReturns, FailureClosed, Closed
  <2> QED BY <2>1, <2>2 DEF IInv
<1>8. CASE ProcessIdle
    BY <1>8 DEF IInv, TypeOK, Times, Elapsed, ProcessIdle, message, stream
<1>9. CASE Tick
  <2>1. TypeOK'
    BY <1>9 DEF IInv, TypeOK, Tick, UpTo, message, stream
  <2>2. Times'
    BY <1>9 DEF IInv, TypeOK, Times, Elapsed, Tick, UpTo, message, stream
  <2> QED BY <2>1, <2>2 DEF IInv
<1>10. CASE UNCHANGED vars
    BY <1>10 DEF IInv, TypeOK, Times, Elapsed, vars, message, stream
<1> QED
    BY <1>1, <1>2, <1>3, <1>4, <1>5, <1>6, <1>7, <1>8, <1>9, <1>10 DEF Next

LEMMA Invariance == Spec => []IInv
BY InitIInv, StepIInv, PTL DEF Spec

\* Types; above all a response of at most maxbytes bytes, which stays inside the
\* buffer unless the caller asks for at least more than the buffer holds.
THEOREM TypeCorrect == Spec => []TypeOK
<1>1. IInv => TypeOK
    BY DEF IInv
<1> QED BY <1>1, Invariance, PTL

\* The timeout and the gap are never cut short by the wrap of the tick counter,
\* however long Process() was not called.
THEOREM NeverEarly == Spec => NeverGivenUpEarly
<1> USE LimitsAssumption DEF LimitsAssumption
<1> DEFINE Early == open /\ open' /\ msgvalid /\ ~msgvalid' /\ pos' < maxbytes
                      => age = Timeout /\ (pos' > 0 => gap' = MaxGap)
<1>1. IInv /\ IInv' /\ [Next]_vars => [Early]_vars
  <2> SUFFICES ASSUME IInv, IInv', Next, open, open', msgvalid, ~msgvalid', pos' < maxbytes
               PROVE  age = Timeout /\ (pos' > 0 => gap' = MaxGap)
    BY DEF vars
  <2>1. Process
    BY DEF Next, Open, Close, Closed, SendMessage, SendFails, ProcessFails,
           FailureReturns, FailureClosed, ProcessIdle, Tick, message
  <2>2. GaveUp
    <3>1. ~Complete
      BY DEF Complete, IInv, TypeOK
    <3> QED BY <2>1, <3>1 DEF Process
  <2>3. age = Timeout
    BY <2>2 DEF GaveUp, IInv, TypeOK, Times
  <2>4. ASSUME pos' > 0 PROVE gap' = MaxGap
    <3>1. now' = now
      BY <2>1 DEF Process
    <3>2. gap' < MaxGap => Elapsed(rxtick') = gap'
      BY <2>4, <3>1 DEF IInv, Times, Elapsed
    <3>3. Elapsed(rxtick') >= MaxGap
      BY <2>2, <2>4 DEF GaveUp, IInv, TypeOK
    <3> QED BY <3>2, <3>3 DEF IInv, TypeOK
  <2> QED BY <2>3, <2>4
<1> QED BY <1>1, Invariance, PTL DEF Spec, NeverGivenUpEarly

-----------------------------------------------------------------------------

\* Only a failure callback that still runs leaves its message to be reported
\* again: each such report has a callback of its own, inside the one before.
THEOREM NotReportedTwice == Spec => []ReportedOnce
<1>1. Init => ReportedOnce
    BY DEF Init, ReportedOnce
<1>2. IInv /\ ReportedOnce /\ [Next]_vars => ReportedOnce'
  <2> SUFFICES ASSUME IInv, ReportedOnce, [Next]_vars, msgvalid'
               PROVE  told' <= failing'
    BY DEF ReportedOnce
  <2>1. ASSUME ProcessFails PROVE told' <= failing'
    <3>1. told <= failing /\ told' = told + 1 /\ failing' = failing + 1
      BY <2>1 DEF ProcessFails, ReportedOnce
    <3> QED BY <3>1 DEF IInv, TypeOK
  <2>2. ASSUME Process \/ ProcessIdle \/ Tick \/ UNCHANGED vars PROVE told' <= failing'
    <3>1. msgvalid /\ told' = told /\ failing' = failing
      BY <2>2 DEF Process, Report, ProcessIdle, Tick, vars, message
    <3> QED BY <3>1 DEF ReportedOnce
  <2>3. ~(Open \/ Close \/ SendFails \/ FailureReturns)
    BY DEF Open, Close, Closed, SendFails, FailureReturns, FailureClosed
  <2>4. ASSUME NEW min, NEW max, SendMessage(min, max) PROVE told' <= failing'
    <3>1. told' = 0 /\ failing' = failing
      BY <2>4 DEF SendMessage
    <3> QED BY <3>1, LimitsAssumption DEF LimitsAssumption, IInv, TypeOK
  <2> QED BY <2>1, <2>2, <2>3, <2>4 DEF Next
<1> QED BY <1>1, <1>2, Invariance, PTL DEF Spec

\* As long as no message has been given up nothing is left to read of the
\* answers before this one, and this one has no more than there is room for.
Settled ==
    open /\ ~lapsed =>
        /\ late = 0
        /\ msgvalid => alien = 0 /\ own <= maxbytes - pos
        /\ ~msgvalid => own = 0

\* What fits, fits when nothing has been taken away.
LEMMA RoomLeft ==
    \A o, m, p : o \in Int /\ m \in Int /\ p = 0 /\ o <= m => o <= m - p
OBVIOUS

LEMMA SettledStep == IInv /\ Settled /\ [Next]_vars => Settled'
<1> SUFFICES ASSUME IInv, Settled, [Next]_vars, open', ~lapsed'
             PROVE  /\ late' = 0
                    /\ msgvalid' => alien' = 0 /\ own' <= maxbytes' - pos'
                    /\ ~msgvalid' => own' = 0
    BY DEF Settled
<1> USE LimitsAssumption DEF LimitsAssumption
<1>1. CASE Open
    BY <1>1 DEF Open
<1>2. ASSUME NEW min \in 0..MaxRequest, NEW max \in 0..MaxRequest, SendMessage(min, max)
      PROVE  /\ late' = 0
             /\ msgvalid' => alien' = 0 /\ own' <= maxbytes' - pos'
             /\ ~msgvalid' => own' = 0
  <2>1. Limited(max, min) \in 0..MaxRequest
    BY DEF Limited, UpTo
  <2>2. late = 0 /\ own = 0
    BY <1>2 DEF Settled, SendMessage
  <2>3. /\ late' = late + own /\ pos' = 0 /\ alien' = 0 /\ own' \in 0..maxbytes'
        /\ maxbytes' \in 0..MaxRequest
    BY <1>2, <2>1 DEF SendMessage, Restart
  <2>4. ~msgvalid' => ~(maxbytes' > 0)
    BY <1>2 DEF SendMessage
  <2>5. /\ late' = 0
        /\ own' <= maxbytes' - pos'
    <3>1. late' = 0
      BY <2>2, <2>3
    <3>2. maxbytes' \in Int /\ own' \in Int /\ own' <= maxbytes'
      BY <2>3
    <3>3. pos' = 0
      BY <2>3
    <3>4. own' <= maxbytes' - pos'
      BY <3>2, <3>3, RoomLeft, Zenon
    <3> QED BY <3>1, <3>4
  <2>6. ASSUME ~(maxbytes' > 0) PROVE own' = 0
    BY <2>3, <2>6
  <2> QED BY <2>3, <2>4, <2>5, <2>6
<1>3. CASE Process
  <2>1. PICK n \in 0..MaxRequest : Receive(n)
    BY <1>3 DEF Process
  <2>2. open /\ msgvalid /\ ~lapsed /\ maxbytes' = maxbytes
    BY <1>3 DEF Process, Report
  <2>3. late = 0 /\ alien = 0 /\ own <= maxbytes - pos
    BY <2>2 DEF Settled
  <2>4. /\ late' = 0 /\ alien' = 0
        /\ own' = own - n /\ pos' = pos + n /\ n <= own
    <3>1. UpTo(n, late) = 0 /\ UpTo(late + own, maxbytes - pos) <= own
      BY <2>3 DEF UpTo, IInv, TypeOK
    <3>2. /\ n <= UpTo(late + own, maxbytes - pos)
          /\ late' = late - UpTo(n, late) /\ own' = own - (n - UpTo(n, late))
          /\ alien' = alien + UpTo(n, late) /\ pos' = pos + n
      BY <2>1 DEF Receive
    <3>3. UpTo(late + own, maxbytes - pos) \in Int
      BY DEF UpTo, IInv, TypeOK
    <3> QED BY <2>3, <3>1, <3>2, <3>3 DEF IInv, TypeOK
  <2>5. ASSUME ~msgvalid' PROVE own' = 0
    <3>1. ~(pos' < maxbytes)
      BY <1>3, <2>2, <2>5 DEF Process, Report
    <3> QED BY <2>3, <2>4, <3>1 DEF IInv, TypeOK
  <2> QED BY <2>2, <2>3, <2>4, <2>5 DEF IInv, TypeOK
<1>4. CASE ProcessFails \/ ProcessIdle \/ Tick \/ UNCHANGED vars
  <2>1. UNCHANGED <<open, msgvalid, maxbytes, pos, alien, own, late, lapsed>>
    BY <1>4 DEF ProcessFails, ProcessIdle, Tick, vars, message, stream
  <2> QED BY <2>1 DEF Settled
<1>5. ~(Close \/ SendFails \/ FailureReturns)
    BY DEF Close, Closed, SendFails, FailureReturns, FailureClosed
<1> QED BY <1>1, <1>2, <1>3, <1>4, <1>5 DEF Next

\* What is reported, whole or in part, answers its own message, unless an answer
\* was given up on this connection and can still arrive late.
THEOREM OwnAnswer == Spec => AnswerIsOwn
<1> DEFINE Mine == told' > told /\ ~lapsed => alien' = 0
<1>1. Init => Settled
    BY DEF Init, Settled
<1>2. IInv /\ Settled /\ [Next]_vars => [Mine]_vars
  <2> SUFFICES ASSUME IInv, Settled, Next, told' > told, ~lapsed
               PROVE  alien' = 0
    BY DEF vars
  <2>1. Process \/ ProcessFails
    <3>1. ~(told > told)
      BY DEF IInv, TypeOK
    <3>2. ASSUME NEW min, NEW max, SendMessage(min, max) PROVE FALSE
      BY <3>2 DEF SendMessage, IInv, TypeOK
    <3> QED BY <3>1, <3>2 DEF Next, Open, Close, SendFails, FailureReturns,
                              ProcessIdle, Tick, message
  <2>2. open /\ msgvalid
    BY <2>1 DEF Process, ProcessFails
  <2>3. late = 0 /\ alien = 0
    BY <2>2 DEF Settled
  <2>4. CASE Process
    <3>1. PICK n \in 0..MaxRequest : Receive(n)
      BY <2>4 DEF Process
    <3> QED BY <2>3, <3>1 DEF Receive, UpTo
  <2>5. CASE ProcessFails
    BY <2>3, <2>5 DEF ProcessFails
  <2> QED BY <2>1, <2>4, <2>5
<1> QED BY <1>1, <1>2, SettledStep, Invariance, PTL DEF Spec, AnswerIsOwn
=============================================================================
