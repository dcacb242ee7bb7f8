-------------------------------- MODULE Settings --------------------------------
(***************************************************************************)
(* The state of ASettingsHandler (src/src/SettingsHandler.cpp) and how it  *)
(* is looked up: the entries, the hash of their names, the file and what   *)
(* must hold between the three.  SettingsHandler has the operations.       *)
(*                                                                         *)
(* Entries have an identity (their address), so that a hash entry can be   *)
(* left behind by the list.  Names hold no "=" and do not look like        *)
(* comments.                                                               *)
(***************************************************************************)
EXTENDS TextCodec

CONSTANTS Names,       \* names of settings
          Values,      \* texts given to Set()
          Comment,     \* a line that is no setting
          Addresses,   \* where entries can be allocated: bounds their number
          WriteDelay,  \* writedelay
          MaxHold,     \* 60000: the longest a change waits
          Files,       \* what another program may leave in the file
          Absent       \* no file, or no setting

\* A line of the file: a setting has a name, any other line does not.
TextLine == [name : Names \cup {Comment}, text : Seq(Characters)]

\* The other program's files are texts too, and there is memory to load them.
ASSUME SettingsAssumption ==
    /\ WriteDelay \in Nat /\ MaxHold \in Nat
    /\ IsFiniteSet(Addresses)
    /\ Values \subseteq Seq(Characters)
    /\ Comment \notin Names /\ Absent \notin Seq(TextLine)
    /\ \A lines \in Files : lines \in Seq(TextLine) /\ Len(lines) <= Cardinality(Addresses)

VARIABLES
    alive,        \* the object exists
    list, hash,   \* the entries, and name -> address
    changed, writeenabled,
    sincechange,  \* GetTickCount() - changed_tick
    sincewrite,   \* GetTickCount() - write_tick
    file,         \* lines of the file, or Absent
    parted        \* history: since Read or Write another program wrote the file or
                  \* a change was forgotten, or that Read or Write stopped short

\* The names that some entry of the list has, and the last entry of each.
Named(entries) == {entries[k].name : k \in 1..Len(entries)} \cap Names
LastOf(entries, name) ==
    entries[Max({k \in 1..Len(entries) : entries[k].name = name})]

Find(name) == CHOOSE k \in 1..Len(list) : list[k].at = hash[name]

Get(name) == IF name \in DOMAIN hash THEN list[Find(name)].value ELSE Absent

\* What the file would load as.
Stored(name) ==
    LET lines == IF file = Absent THEN <<>> ELSE file IN
    IF name \in Named(lines) THEN Decode(LastOf(lines, name).text) ELSE Absent

-----------------------------------------------------------------------------
(* Properties *)

\* The hash never points to an entry that has left the list or has another
\* name, and of several entries with a name it points to the one that a later
\* load will find.
HashIndexesList ==
    /\ \A n \in DOMAIN hash : n \in Named(list) /\ LastOf(list, n).at = hash[n]
    /\ \A k, l \in 1..Len(list) : list[k].at = list[l].at => k = l

\* Nothing that counts as saved differs from the file, whether opening it failed,
\* the process died or the file was loaded again: loading it gives every setting
\* its value.  Not so when a change was given up, when another program wrote the
\* file, and when reading or writing stopped short, which the code takes for
\* success: it ignores what printf() and close() return.  (Nor for a name that
\* was deleted while the file had it twice: the other line is still there.)
SavedIsStored ==
    alive /\ ~changed /\ ~parted =>
        \A n \in Names : n \in DOMAIN hash \/ n \notin Named(list) => Get(n) = Stored(n)
=============================================================================
