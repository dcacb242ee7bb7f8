---------------------------- MODULE SettingsHandler ----------------------------
(***************************************************************************)
(* The operations of ASettingsHandler (src/src/SettingsHandler.cpp):       *)
(* name=value settings and other lines, loaded from a file, changed, and   *)
(* written back some time after a change.  Values are converted as the     *)
(* code converts them.  Times are counted since the last change and the    *)
(* last write, no further than the limits they are compared with.          *)
(***************************************************************************)
EXTENDS Settings

memory == <<list, hash>>
vars == <<alive, memory, changed, writeenabled, sincechange, sincewrite, file, parted>>

Pair(at, name, value) == [at |-> at, name |-> name, value |-> value]
IsPair(entry) == entry.name \in Names

Line(entry) ==
    IF IsPair(entry) THEN [name |-> entry.name, text |-> Encode(entry.value)]
    ELSE [name |-> Comment, text |-> <<>>]

Lines(entries) == [k \in 1..Len(entries) |-> Line(entries[k])]

Put(f, name, at) == [n \in DOMAIN f \cup {name} |-> IF n = name THEN at ELSE f[n]]
Without(f, name) == [n \in DOMAIN f \ {name} |-> f[n]]

FreeAddress == CHOOSE a \in Addresses : \A k \in 1..Len(list) : list[k].at # a
HasRoom == Len(list) < Cardinality(Addresses)

-----------------------------------------------------------------------------
(* Read() and Write() *)

\* What gets through of a line: all of it, a part of its value, or too little
\* for a setting.
Part(line) ==
    {[line EXCEPT !.text = SubSeq(line.text, 1, m)] : m \in 0..Len(line.text)}
    \cup {[name |-> Comment, text |-> <<>>]}

\* What gets through of some lines when the device fails or is full at line k:
\* those before it, and a part of it.
CutAt(lines, k) ==
    IF k = 0 THEN {<<>>}
    ELSE {Append(SubSeq(lines, 1, k - 1), part) : part \in Part(lines[k])}

\* hash.Insert() for each line in turn: the last one counts.
Index(entries) == [n \in Named(entries) |-> LastOf(entries, n).at]

\* The lines as new entries: one assignment of addresses is as good as another.
Loaded(lines) ==
    LET some == SetToSeq(Addresses) IN
    [k \in 1..Len(lines) |-> Pair(some[k], lines[k].name, Decode(lines[k].text))]

\* Mutant: what was loaded before stays.
NotCleared == list

\* list.DeleteAll()
Cleared == <<>>

OnDisk == IF file = Absent THEN <<>> ELSE file

\* A file that cannot be opened leaves nothing and an error in the middle what
\* came before it, without a word.
Read ==
    /\ \E k \in 0..Len(OnDisk) : \E lines \in CutAt(OnDisk, k) :
         /\ list' = Cleared \o Loaded(lines) /\ hash' = Index(list')
         /\ parted' = (lines # OnDisk)
    /\ changed' = FALSE
    /\ sincewrite' = 0

\* fopen(filename, "w") and the lines, if it can be opened: the change counts as
\* written however many of them get through.
WriteFile(entries) ==
    \/ /\ changed' = FALSE /\ sincewrite' = 0
       /\ \E k \in 0..Len(entries) : file' \in CutAt(Lines(entries), k)
       /\ parted' = (file' # Lines(entries))
    \/ /\ changed' = TRUE
       /\ UNCHANGED <<file, sincewrite, parted>>

\* Write(): without permission to write, a change is forgotten.
WriteNow ==
    IF changed /\ writeenabled
    THEN WriteFile(list)
    ELSE /\ changed' = FALSE
         /\ parted' = (parted \/ changed)
         /\ UNCHANGED <<file, sincewrite>>

\* Mutant: the longest time a change may wait is forgotten.
DueOnlyQuiet(quiet) == quiet >= WriteDelay

\* The condition of CheckWrite(), quiet being the time since the last change.
Due(quiet) == quiet >= WriteDelay \/ sincewrite >= MaxHold

\* CheckWrite() with these entries.
WriteWhenDue(entries, dirty, quiet) ==
    IF writeenabled /\ dirty /\ Due(quiet)
    THEN WriteFile(entries)
    ELSE changed' = dirty /\ UNCHANGED <<file, sincewrite, parted>>

-----------------------------------------------------------------------------

Init ==
    /\ alive = FALSE
    /\ list = <<>> /\ hash = [n \in {} |-> 0]
    /\ changed = FALSE /\ writeenabled = TRUE
    /\ sincechange = 0 /\ sincewrite = 0
    /\ file = Absent
    /\ parted = FALSE

\* The constructor reads the file.
Construct ==
    /\ ~alive
    /\ alive' = TRUE /\ writeenabled' = TRUE /\ sincechange' = 0
    /\ Read
    /\ UNCHANGED file

\* The destructor writes what has not been written; failing that it is lost.
Destroy ==
    /\ alive
    /\ WriteNow
    /\ alive' = FALSE
    /\ UNCHANGED <<memory, writeenabled, sincechange>>

\* The process dies, while it writes the file or at another time.
Crash ==
    /\ alive
    /\ alive' = FALSE /\ changed' = FALSE
    /\ \/ UNCHANGED file
       \/ /\ changed /\ writeenabled
          /\ \E k \in 0..Len(list) : file' \in CutAt(Lines(list), k)
    /\ UNCHANGED <<memory, writeenabled, sincechange, sincewrite, parted>>

Reload ==
    /\ alive
    /\ Read
    /\ UNCHANGED <<alive, writeenabled, sincechange, file>>

Write ==
    /\ alive
    /\ WriteNow
    /\ UNCHANGED <<alive, memory, writeenabled, sincechange>>

CheckWrite ==
    /\ alive
    /\ UNCHANGED <<alive, memory, writeenabled, sincechange>>
    /\ WriteWhenDue(list, changed, sincechange)

EnableWrite(enabled) ==
    /\ alive
    /\ writeenabled' = enabled
    /\ UNCHANGED <<alive, memory, changed, sincechange, sincewrite, file, parted>>

ClearChanged ==
    /\ alive
    /\ changed' = FALSE /\ parted' = (parted \/ changed)
    /\ UNCHANGED <<alive, memory, writeenabled, sincechange, sincewrite, file>>

\* A change, and the CheckWrite() that ends Set() and Delete().
Changed(entries) ==
    /\ sincechange' = 0
    /\ WriteWhenDue(entries, TRUE, 0)

\* Mutant: a setting whose value is replaced is not marked as changed.
MarkWhenReplaced(entries) ==
    /\ UNCHANGED sincechange
    /\ WriteWhenDue(entries, changed, sincechange)

Replaced(entries) == Changed(entries)

Set(name, value) ==
    /\ alive
    /\ \/ /\ name \notin DOMAIN hash /\ HasRoom
          /\ list' = Append(list, Pair(FreeAddress, name, value))
          /\ hash' = Put(hash, name, FreeAddress)
          /\ Changed(list')
       \/ /\ name \in DOMAIN hash /\ list[Find(name)].value # value
          /\ list' = [list EXCEPT ![Find(name)].value = value]
          /\ UNCHANGED hash
          /\ Replaced(list')
       \/ /\ name \in DOMAIN hash /\ list[Find(name)].value = value
          /\ WriteWhenDue(list, changed, sincechange)
          /\ UNCHANGED <<memory, sincechange>>
    /\ UNCHANGED <<alive, writeenabled>>

\* Mutant: the name stays in the hash.
UnindexNothing(name) == hash

Unindex(name) == Without(hash, name)

Delete(name) ==
    /\ alive
    /\ IF name \in DOMAIN hash
       THEN /\ list' = RemoveAt(list, Find(name))
            /\ hash' = Unindex(name)
            /\ Changed(list')
       ELSE WriteWhenDue(list, changed, sincechange) /\ UNCHANGED <<memory, sincechange>>
    /\ UNCHANGED <<alive, writeenabled>>

\* AddLine() does not end in CheckWrite().
AddLine ==
    /\ alive /\ HasRoom
    /\ list' = Append(list, Pair(FreeAddress, Comment, <<>>))
    /\ changed' = TRUE /\ sincechange' = 0
    /\ UNCHANGED <<alive, hash, writeenabled, sincewrite, file, parted>>

Edit ==
    /\ file' \in Files
    /\ parted' = TRUE
    /\ UNCHANGED <<alive, memory, changed, writeenabled, sincechange, sincewrite>>

Tick ==
    /\ alive
    /\ sincechange' = IF sincechange < WriteDelay THEN sincechange + 1 ELSE sincechange
    /\ sincewrite' = IF sincewrite < MaxHold THEN sincewrite + 1 ELSE sincewrite
    /\ UNCHANGED <<alive, memory, changed, writeenabled, file, parted>>

Next ==
    \/ Construct \/ Destroy \/ Crash \/ Reload \/ Write \/ CheckWrite
    \/ \E enabled \in BOOLEAN : EnableWrite(enabled)
    \/ ClearChanged
    \/ \E name \in Names : Delete(name) \/ \E value \in Values : Set(name, value)
    \/ AddLine \/ Edit \/ Tick

Spec == Init /\ [][Next]_vars

\* Time goes on, the owner keeps calling CheckWrite(), and the file can be
\* opened again and again.
LiveSpec == Spec /\ WF_vars(Tick) /\ SF_vars(CheckWrite /\ ~changed')

-----------------------------------------------------------------------------
(* Properties *)

TypeOK ==
    /\ {alive, changed, writeenabled, parted} \subseteq BOOLEAN
    /\ list \in Seq([at : Addresses, name : Names \cup {Comment}, value : Seq(Characters)])
    /\ Len(list) <= Cardinality(Addresses)
    /\ DOMAIN hash \subseteq Names /\ \A n \in DOMAIN hash : hash[n] \in Addresses
    /\ sincechange \in 0..WriteDelay /\ sincewrite \in 0..MaxHold
    /\ file # Absent => file \in Seq(TextLine) /\ Len(file) <= Cardinality(Addresses)

\* However often settings change, a change is at last given to a file that was
\* opened (whether all of it gets there, the code does not look).
ChangeIsWritten ==
    alive /\ changed /\ writeenabled ~> ~(alive /\ changed /\ writeenabled)
=============================================================================
