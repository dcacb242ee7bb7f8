--------------------------------- MODULE Thread ---------------------------------
(***************************************************************************)
(* AThread (src/src/Thread.cpp) with a subclass of the kind its interface  *)
(* asks for: Run() waits on an AThreadSignal until quitthread is set, and  *)
(* ThreadQuitting() signals it.  The signal is a flag (BinarySignal).      *)
(***************************************************************************)
EXTENDS Integers

VARIABLES thread,  \* the object: [threadstarted, quitthread, owner]
          run      \* the thread it makes, and its signal: [state, signal]

vars == <<thread, run>>

Init ==
    /\ thread = [threadstarted |-> FALSE, quitthread |-> FALSE, owner |-> "idle"]
    /\ run = [state |-> "none", signal |-> FALSE]

\* pthread_create() may fail, and a second Start() is refused.
Start ==
    /\ thread.owner = "idle"
    /\ \/ /\ ~thread.threadstarted /\ run.state = "none"
          /\ thread' = [thread EXCEPT !.threadstarted = TRUE]
          /\ run' = [state |-> "check", signal |-> run.signal]
       \/ UNCHANGED vars

\* Stop(), step by step: quitthread, ThreadQuitting(), the join.
Stop ==
    /\ thread.owner = "idle" /\ thread.threadstarted
    /\ thread' = [thread EXCEPT !.quitthread = TRUE, !.owner = "quitting"]
    /\ UNCHANGED run

\* Mutant: nothing wakes the thread.
WakeNothing(r) == r

Woken(r) == [r EXCEPT !.signal = TRUE]

ThreadQuitting ==
    /\ thread.owner = "quitting"
    /\ thread' = [thread EXCEPT !.owner = "joining"] /\ run' = Woken(run)

\* Mutant: the flag stays set for the next thread.
ResetStarted(t) == [t EXCEPT !.threadstarted = FALSE, !.owner = "idle"]

Reset(t) == [t EXCEPT !.threadstarted = FALSE, !.quitthread = FALSE, !.owner = "idle"]

Join ==
    /\ thread.owner = "joining" /\ run.state = "done"
    /\ thread' = Reset(thread)
    /\ run' = [run EXCEPT !.state = "none"]

\* The loop of Run(), entered by __ThreadStart(): look at quitthread, wait, work.
Check ==
    /\ run.state = "check"
    /\ run' = [run EXCEPT !.state = IF thread.quitthread THEN "done" ELSE "wait"]
    /\ UNCHANGED thread

Wait ==
    /\ run.state = "wait" /\ run.signal
    /\ run' = [run EXCEPT !.state = "check", !.signal = FALSE]
    /\ UNCHANGED thread

\* Another thread gives it work.
Signal == run' = Woken(run) /\ UNCHANGED thread

Next == Start \/ Stop \/ ThreadQuitting \/ Join \/ Check \/ Wait \/ Signal

Spec == Init /\ [][Next]_vars

\* Both threads run; nobody has to give work.
Progress == ThreadQuitting \/ Join \/ Check \/ Wait

-----------------------------------------------------------------------------
\* Stop() returns, wherever in its loop the thread is when it is called.
StopReturns == thread.owner # "idle" ~> thread.owner = "idle"

\* A thread only quits because it was told to, never for a Stop() before it.
QuitsWhenTold == run.state = "done" => thread.quitthread /\ thread.owner # "idle"
=============================================================================
