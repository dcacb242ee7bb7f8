-------------------------------- MODULE MCObjects --------------------------------
(***************************************************************************)
(* The library's objects, one at a time: a behaviour is about one of them, *)
(* and the variables of the others rest at their initial values.  The list *)
(* of nodes and the settings handler have variables of their own; the      *)
(* smaller objects are those of Objects.                                   *)
(* The properties of the list and the settings are stated with their state.*)
(***************************************************************************)
EXTENDS Settings, ListLinks, Objects

CONSTANTS n1, n2, n3, n4

listvars == <<links, pFirst, pLast, nNodes, op>>
settingsvars == <<alive, list, hash, changed, writeenabled, sincechange, sincewrite, file, parted>>

\* Four nodes, two of them with the same key.
SomeKeys == n1 :> 1 @@ n2 :> 2 @@ n3 :> 2 @@ n4 :> 3
L == INSTANCE ListNode

\* Two settings, two entries at most; the other program writes a name twice.  A
\* quote is escaped, and a part of what is written for it reads as one of these.
SomeTexts == {<<>>, <<"\"">>}
SomeFiles == {<<[name |-> "x", text |-> <<"\\", "\"">>], [name |-> "x", text |-> <<>>]>>,
              <<[name |-> "y", text |-> <<"\\">>]>>}
S == INSTANCE SettingsHandler

\* What three servers send.
SomeResponses == {<<>>, <<"x", "r", "n", "y">>, <<"r", "n">>}

Init == L!Init /\ S!Init /\ ObjectsInit

ListNode == About("ListNode") /\ L!Next /\ UNCHANGED <<settingsvars, objectvars>>
SettingsHandler == About("SettingsHandler") /\ S!Next /\ UNCHANGED <<listvars, objectvars>>

Next == ListNode \/ SettingsHandler \/ (ObjectsNext /\ UNCHANGED <<listvars, settingsvars>>)

vars == <<subject, listvars, settingsvars, objectvars>>

\* The clock and the owner's calls of CheckWrite(), with a file that can be
\* opened again and again; and the two threads of a thread object.
Fairness ==
    /\ WF_vars(About("SettingsHandler") /\ S!Tick /\ UNCHANGED <<listvars, objectvars>>)
    /\ SF_vars(About("SettingsHandler") /\ S!CheckWrite /\ ~changed' /\ UNCHANGED <<listvars, objectvars>>)
    /\ WF_vars(About("Thread") /\ T!Progress /\ UNCHANGED <<past, listvars, settingsvars>>)

Spec == Init /\ [][Next]_vars /\ Fairness

-----------------------------------------------------------------------------
\* A change of the settings is given to the opened file in the end.
ChangeIsWritten == S!ChangeIsWritten
=============================================================================
