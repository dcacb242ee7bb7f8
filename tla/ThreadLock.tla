----------------------------- MODULE ThreadLock -----------------------------
(***************************************************************************)
(* AThreadLockObject, AThreadLock, AThreadSignalObject and                 *)
(* AThreadBoolSignalObject (src/src/ThreadLock.cpp): a recursive mutex, a  *)
(* condition variable and the boolean condition they protect, called by    *)
(* any number of threads.  A call is several steps: each lock, each access *)
(* to the condition and each pthread call may be interleaved with others.  *)
(***************************************************************************)
EXTENDS Integers

CONSTANTS Threads,     \* the threads that share the object
          NoThread,    \* the holder of a free mutex
          MaxScopes    \* AThreadLock objects a thread holds around a call (a bound)

ASSUME ThreadLockAssumption == NoThread \notin Threads /\ MaxScopes \in Nat

VARIABLES
    owner,     \* holder of the mutex, or NoThread
    count,     \* how many times it holds it
    condition, \* AThreadBoolSignalObject::condition
    sleepers,  \* threads blocked in pthread_cond_wait
    pc,        \* [Threads -> where a thread stands in a call]
    call,      \* [Threads -> the call it is making, or "none"]
    scopes,    \* [Threads -> AThreadLock objects of its own]
    promised   \* history: threads asleep at a Broadcast, not yet returned

vars == <<owner, count, condition, sleepers, pc, call, scopes, promised>>

Calls == {"Wait", "Signal", "Broadcast"}

Labels == {"idle", "enter", "test", "asleep", "wake", "take", "set", "inner",
           "notify", "unlock2", "unlock1"}

Goto(t, label) == pc' = [pc EXCEPT ![t] = label]

\* pthread_mutex_lock of a recursive mutex.
Acquire(t) ==
    /\ owner \in {NoThread, t}
    /\ owner' = t
    /\ count' = count + 1

\* Mutant: any unlock frees the mutex, as if it were not recursive.
ReleaseAtOnce(t) ==
    /\ owner = t
    /\ count' = 0
    /\ owner' = NoThread

\* pthread_mutex_unlock: the last of the owner's unlocks frees it.
ReleaseMutex(t) ==
    /\ owner = t
    /\ count' = count - 1
    /\ owner' = IF count = 1 THEN NoThread ELSE owner

Init ==
    /\ owner = NoThread /\ count = 0
    /\ condition \in BOOLEAN
    /\ sleepers = {}
    /\ pc = [t \in Threads |-> "idle"]
    /\ call = [t \in Threads |-> "none"]
    /\ scopes = [t \in Threads |-> 0]
    /\ promised = {}

-----------------------------------------------------------------------------
(* The caller *)

\* AThreadLock lock(obj) in the caller.
OpenScope(t) ==
    /\ pc[t] = "idle" /\ scopes[t] < MaxScopes
    /\ Acquire(t)
    /\ scopes' = [scopes EXCEPT ![t] = @ + 1]
    /\ UNCHANGED <<condition, sleepers, pc, call, promised>>

\* ~AThreadLock
CloseScope(t) ==
    /\ pc[t] = "idle" /\ scopes[t] > 0
    /\ ReleaseMutex(t)
    /\ scopes' = [scopes EXCEPT ![t] = @ - 1]
    /\ UNCHANGED <<condition, sleepers, pc, call, promised>>

\* Wait() is called without the mutex: pthread_cond_wait gives back one level
\* only of a recursive mutex.
Begin(t, f) ==
    /\ pc[t] = "idle"
    /\ f = "Wait" => scopes[t] = 0
    /\ call' = [call EXCEPT ![t] = f]
    /\ Goto(t, "enter")
    /\ UNCHANGED <<owner, count, condition, sleepers, scopes, promised>>

\* AThreadLock lock(*this) at the head of each method.
Enter(t) ==
    /\ pc[t] = "enter"
    /\ Acquire(t)
    /\ Goto(t, IF call[t] = "Wait" THEN "test" ELSE "set")
    /\ UNCHANGED <<condition, sleepers, call, scopes, promised>>

-----------------------------------------------------------------------------
(* AThreadBoolSignalObject::Wait *)

Test(t) ==
    /\ pc[t] = "test"
    /\ condition
    /\ Goto(t, "take")
    /\ UNCHANGED <<owner, count, condition, sleepers, call, scopes, promised>>

\* pthread_cond_wait: gives the mutex back and sleeps, in one step.
Sleep(t) ==
    /\ pc[t] = "test"
    /\ ~condition
    /\ ReleaseMutex(t)
    /\ sleepers' = sleepers \cup {t}
    /\ Goto(t, "asleep")
    /\ UNCHANGED <<condition, call, scopes, promised>>

\* A wake-up without a signal, which pthread_cond_wait may have.
SpuriousWake(t) ==
    /\ pc[t] = "asleep"
    /\ sleepers' = sleepers \ {t}
    /\ Goto(t, "wake")
    /\ UNCHANGED <<owner, count, condition, call, scopes, promised>>

\* Mutant: "if" instead of "while" around pthread_cond_wait.
RewakeTaking(t) ==
    /\ pc[t] = "wake"
    /\ Acquire(t)
    /\ Goto(t, "take")
    /\ UNCHANGED <<condition, sleepers, call, scopes, promised>>

Rewake(t) ==
    /\ pc[t] = "wake"
    /\ Acquire(t)
    /\ Goto(t, "test")
    /\ UNCHANGED <<condition, sleepers, call, scopes, promised>>

Take(t) ==
    /\ pc[t] = "take"
    /\ condition' = FALSE
    /\ promised' = promised \ {t}
    /\ Goto(t, "unlock1")
    /\ UNCHANGED <<owner, count, sleepers, call, scopes>>

-----------------------------------------------------------------------------
(* AThreadBoolSignalObject::Signal and Broadcast *)

Set(t) ==
    /\ pc[t] = "set"
    /\ condition' = TRUE
    /\ Goto(t, "inner")
    /\ UNCHANGED <<owner, count, sleepers, call, scopes, promised>>

\* AThreadSignalObject::Signal and Broadcast lock the mutex once more.
Inner(t) ==
    /\ pc[t] = "inner"
    /\ Acquire(t)
    /\ Goto(t, "notify")
    /\ UNCHANGED <<condition, sleepers, call, scopes, promised>>

\* Mutant: the condition is set and nobody is told.
WokenNone(t) == {{}}

\* The threads pthread_cond_signal or pthread_cond_broadcast may wake.
Woken(t) ==
    IF call[t] = "Broadcast" THEN {sleepers}
    ELSE {w \in SUBSET sleepers : w # {} \/ sleepers = {}}

Notify(t) ==
    /\ pc[t] = "notify"
    /\ \E w \in Woken(t) :
         /\ sleepers' = sleepers \ w
         /\ pc' = [u \in Threads |->
                     IF u = t THEN "unlock2" ELSE IF u \in w THEN "wake" ELSE pc[u]]
    /\ promised' = IF call[t] = "Broadcast" THEN promised \cup sleepers ELSE promised
    /\ UNCHANGED <<owner, count, condition, call, scopes>>

UnlockInner(t) ==
    /\ pc[t] = "unlock2"
    /\ ReleaseMutex(t)
    /\ Goto(t, "unlock1")
    /\ UNCHANGED <<condition, sleepers, call, scopes, promised>>

\* ~AThreadLock at the end of each method.
Return(t) ==
    /\ pc[t] = "unlock1"
    /\ ReleaseMutex(t)
    /\ call' = [call EXCEPT ![t] = "none"]
    /\ Goto(t, "idle")
    /\ UNCHANGED <<condition, sleepers, scopes, promised>>

-----------------------------------------------------------------------------

\* The steps of a call that is running; a lock is one of them.
Step(t) ==
    \/ Enter(t) \/ Test(t) \/ Sleep(t) \/ Rewake(t) \/ Take(t)
    \/ Set(t) \/ Inner(t) \/ Notify(t) \/ UnlockInner(t) \/ Return(t)

Caller(t) ==
    \/ OpenScope(t) \/ CloseScope(t)
    \/ \E f \in Calls : Begin(t, f)

Next == \E t \in Threads : Caller(t) \/ Step(t) \/ SpuriousWake(t)

Spec == Init /\ [][Next]_vars

\* A call that can go on does, a mutex freed again and again is got at last,
\* and a caller closes the scopes it opened.
Fairness ==
    \A t \in Threads : SF_vars(Step(t)) /\ SF_vars(CloseScope(t))

LiveSpec == Spec /\ Fairness

-----------------------------------------------------------------------------
(* Properties *)

TypeOK ==
    /\ owner \in Threads \cup {NoThread}
    /\ count \in 0..(MaxScopes + 2)
    /\ condition \in BOOLEAN
    /\ sleepers \subseteq Threads
    /\ pc \in [Threads -> Labels]
    /\ call \in [Threads -> Calls \cup {"none"}]
    /\ scopes \in [Threads -> 0..MaxScopes]
    /\ promised \subseteq Threads

\* The locks a thread has taken inside a call, by where it stands.
Held(t) == IF pc[t] \in {"test", "take", "set", "inner", "unlock1"} THEN 1
           ELSE IF pc[t] \in {"notify", "unlock2"} THEN 2 ELSE 0

\* The condition is only touched, and a scope only runs, under the mutex, and
\* the mutex is free exactly when nobody's locks are left.
MonitorExclusive ==
    /\ \A t \in Threads : Held(t) + scopes[t] > 0 => owner = t
    /\ count = IF owner = NoThread THEN 0 ELSE Held(owner) + scopes[owner]
    /\ owner # NoThread => count > 0

\* While the condition is set nobody sleeps on it unless a thread is on its
\* way: a signaller that has yet to notify, or a woken thread that has yet to
\* look.  So a signal is never lost between the test and the sleep.
NoLostWakeup ==
    condition /\ sleepers # {}
      => \E t \in Threads : pc[t] \in {"inner", "notify", "wake", "test", "take"}

\* The waits form a binary signal: each return of Wait() takes one raised flag.
Waiting == {t \in Threads : call[t] = "Wait" /\ pc[t] \notin {"idle", "unlock1"}}

BS == INSTANCE BinarySignal WITH flag <- condition, waiting <- Waiting

RefinesBinarySignal == BS!Spec

\* A set condition does not stay untaken while threads sleep on it.
SignalIsTaken == condition /\ sleepers # {} ~> ~condition

\* "Signal all waiting threads": the doc of Broadcast().
BroadcastReleasesAll == \A t \in Threads : t \in promised ~> t \notin promised
=============================================================================
