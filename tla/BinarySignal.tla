---------------------------- MODULE BinarySignal ----------------------------
(***************************************************************************)
(* What AThreadBoolSignalObject promises (src/include/ThreadLock.h): a     *)
(* flag that a signal raises and that exactly one waiter takes down when   *)
(* it returns, so that a signal sent before the wait is not lost and one   *)
(* signal never releases two waits.                                        *)
(***************************************************************************)
CONSTANT Threads

VARIABLES flag,    \* a signal is there to be taken
          waiting  \* threads inside Wait()

Init == flag \in BOOLEAN /\ waiting = {}

Arrive(t) ==
    /\ t \notin waiting
    /\ waiting' = waiting \cup {t}
    /\ UNCHANGED flag

Raise == flag' = TRUE /\ UNCHANGED waiting

Release(t) ==
    /\ flag /\ t \in waiting
    /\ flag' = FALSE
    /\ waiting' = waiting \ {t}

Next == Raise \/ \E t \in Threads : Arrive(t) \/ Release(t)

Spec == Init /\ [][Next]_<<flag, waiting>>
=============================================================================
