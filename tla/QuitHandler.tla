-------------------------------- MODULE QuitHandler --------------------------------
(***************************************************************************)
(* AQuitHandler (src/src/QuitHandler.cpp): whether the program is to quit. *)
(* Of several handlers the first that is made while there is no default is *)
(* the default: it gets the signals, and HasQuit() asks it.  A signal asks *)
(* the functions of the default from the newest to the oldest, until one   *)
(* accepts.  Functions do not add or remove functions while they are asked.*)
(***************************************************************************)
EXTENDS Integers, SequencesExt, FiniteSetsExt

CONSTANTS Handlers, Functions, Nobody, MaxFunctions

VARIABLES quit,    \* [pDefaultHandler, alive, functions: Handlers -> Seq(Functions), bHasQuit]
          asked    \* the functions the last signal asked, with their answers

vars == <<quit, asked>>

Init ==
    /\ quit = [pDefaultHandler |-> Nobody, alive |-> {}, functions |-> [h \in Handlers |-> <<>>],
               bHasQuit |-> [h \in Handlers |-> FALSE]]
    /\ asked = <<>>

HasQuit == quit.pDefaultHandler # Nobody /\ quit.bHasQuit[quit.pDefaultHandler]

Construct(h) ==
    /\ h \notin quit.alive
    /\ \E functions \in {<<>>} \cup {<<f>> : f \in Functions} :
         quit' = [quit EXCEPT !.alive = @ \cup {h}, !.bHasQuit[h] = FALSE, !.functions[h] = functions,
                              !.pDefaultHandler = IF @ = Nobody THEN h ELSE @]
    /\ asked' = <<>>

\* Mutant: the default stays what it was.
DestroyForgotten(h) ==
    h \in quit.alive /\ quit' = [quit EXCEPT !.alive = @ \ {h}] /\ asked' = <<>>

\* No other handler takes the place of the default.
Destroy(h) ==
    /\ h \in quit.alive
    /\ quit' = [quit EXCEPT !.alive = @ \ {h}, !.pDefaultHandler = IF @ = h THEN Nobody ELSE @]
    /\ asked' = <<>>

AddHandler(h, f) ==
    /\ h \in quit.alive /\ Len(quit.functions[h]) < MaxFunctions
    /\ quit' = [quit EXCEPT !.functions[h] = Append(@, f)] /\ asked' = <<>>

\* The entries of functions that are in S, in their order.
Only(functions, S) ==
    FoldLeft(LAMBDA kept, g : IF g \in S THEN Append(kept, g) ELSE kept, <<>>, functions)

\* All entries of a function go.
RemoveHandler(h, f) ==
    /\ h \in quit.alive
    /\ quit' = [quit EXCEPT !.functions[h] = Only(@, Functions \ {f})] /\ asked' = <<>>

\* ClearQuit() and ForceQuit().
SetQuit(h, value) ==
    h \in quit.alive /\ quit' = [quit EXCEPT !.bHasQuit[h] = value] /\ asked' = <<>>

\* SIGINT: k functions are asked; the last of them accepts, or none is left.
Signal ==
    LET h == quit.pDefaultHandler IN
    \/ h = Nobody /\ UNCHANGED quit /\ asked' = <<>>
    \/ /\ h # Nobody
       /\ \E k \in 0..Len(quit.functions[h]), accepted \in BOOLEAN :
            LET newest == Reverse(quit.functions[h]) IN
            /\ accepted => k > 0
            /\ ~accepted => k = Len(newest)
            /\ asked' = [i \in 1..k |-> [f |-> newest[i], accepts |-> accepted /\ i = k]]
            /\ quit' = [quit EXCEPT !.bHasQuit[h] = @ \/ accepted \/ newest = <<>>]

Next ==
    \/ Signal
    \/ \E h \in Handlers :
         \/ Construct(h) \/ Destroy(h)
         \/ \E f \in Functions : AddHandler(h, f) \/ RemoveHandler(h, f)
         \/ \E value \in BOOLEAN : SetQuit(h, value)

Spec == Init /\ [][Next]_vars

-----------------------------------------------------------------------------
\* A signal never reaches a handler that is gone, or a function that was removed:
\* the default is alive, and those asked are functions of it, the newest first;
\* the quit that one of them accepted is seen by HasQuit().
SignalsReachTheLiving ==
    /\ quit.pDefaultHandler # Nobody => quit.pDefaultHandler \in quit.alive
    /\ asked # <<>> =>
         /\ quit.pDefaultHandler # Nobody
         /\ IsPrefix([k \in DOMAIN asked |-> asked[k].f], Reverse(quit.functions[quit.pDefaultHandler]))
         /\ asked[Len(asked)].accepts => HasQuit
=============================================================================
