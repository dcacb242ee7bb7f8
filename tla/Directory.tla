-------------------------------- MODULE Directory --------------------------------
(***************************************************************************)
(* Recurse() and what is built on it (src/src/Recurse.cpp, on Linux): the  *)
(* walk through a tree of directories, the lists of files, their orders,   *)
(* and the making of directories.                                          *)
(*                                                                         *)
(* A directory is the sequence in which readdir() gives its entries: each  *)
(* has a name, whether stat() knows it, its size, date and attributes (a   *)
(* set of flags) and, for directories, entries.  A pattern is the set of   *)
(* the names it matches (Glob says which), or AnyName.  A callback asks to *)
(* stop with its call number `limit'.                                      *)
(***************************************************************************)
EXTENDS Strings

CONSTANT AnyName  \* the pattern that is not compared with names

Dots == {<<".">>, <<".", ".">>}

SetFileData(path, e) ==
    LET name == CatPath(path, e.name, <<>>, NUL) IN
    [FileName |-> name, ShortName |-> FilePart(name), FileSize |-> e.size, WriteTime |-> e.date, Attrib |-> e.attrib]

IsDir(file) == "dir" \in file.Attrib
Matches(file, pattern) == pattern = AnyName \/ FilePart(file.FileName) \in pattern

\* r: the files the callback was given, and whether it wants more.
Called(r, file, limit) == [files |-> Append(r.files, file), ok |-> Len(r.files) + 1 < limit]

\* Mutant: directories below the depth are looked into.
RECURSIVE RecurseDeep(_, _, _, _, _, _)
RecurseDeep(path, entries, pattern, nSubDirs, limit, r0) ==
    LET Entry(r, e) ==
          LET file == SetFileData(path, e)
              r1 == IF Matches(file, pattern) \/ IsDir(file) THEN Called(r, file, limit) ELSE r
          IN IF ~r.ok \/ ~e.stat \/ file.ShortName \in Dots THEN r
             ELSE IF r1.ok /\ IsDir(file) THEN RecurseDeep(file.FileName, e.entries, pattern, nSubDirs - 1, limit, r1)
             ELSE r1
    IN FoldLeft(Entry, r0, entries)

\* Directories are passed to the callback too, if they are looked into.
RECURSIVE Recurse(_, _, _, _, _, _)
\* What is found in a directory below: r is what the callback has made of it.
Descended(r, below, file, entries, pattern, nSubDirs, limit) ==
    IF r.ok /\ below THEN Recurse(file.FileName, entries, pattern, nSubDirs - 1, limit, r) ELSE r

Entered(r, e, file, pattern, nSubDirs, limit) ==
    LET below == nSubDirs > 0 /\ IsDir(file) IN
    IF ~r.ok \/ ~e.stat \/ file.ShortName \in Dots THEN r
    ELSE Descended(IF Matches(file, pattern) \/ below THEN Called(r, file, limit) ELSE r,
                   below, file, e.entries, pattern, nSubDirs, limit)

Recurse(path, entries, pattern, nSubDirs, limit, r0) ==
    FoldLeft(LAMBDA r, e : Entered(r, e, SetFileData(path, e), pattern, nSubDirs, limit), r0, entries)

\* All files of a path: CatPath("*") gives the walk a pattern that matches any name.
AllFiles(path, entries, nSubdirs, limit) ==
    Recurse(path, entries, AnyName, nSubdirs, limit, [files |-> <<>>, ok |-> TRUE])

-----------------------------------------------------------------------------
(* Orders: a comparison is negative, 0 or positive *)

Compared(m, n) == IF m = n THEN 0 ELSE IF m < n THEN -1 ELSE 1

AlphaCompareNoCase(f, g) == CompareNoCase(f.FileName, g.FileName)

\* Directories first, unless they are mixed with files; the rest is turned round.
Apart(f, g, flags, c) ==
    IF "mixed" \in flags \/ (IsDir(f) <=> IsDir(g)) THEN (IF "reverse" \in flags THEN -c ELSE c)
    ELSE IF IsDir(f) THEN -1 ELSE 1

ThenByName(c, f, g) == IF c = 0 THEN CompareNoCase(f.ShortName, g.ShortName) ELSE c

CompareByName(f, g, flags) == Apart(f, g, flags, CompareNoCase(f.ShortName, g.ShortName))
CompareByPath(f, g, flags) ==
    Apart(f, g, flags, ThenByName(CompareNoCase(PathPart(f.FileName), PathPart(g.FileName)), f, g))
CompareByExt(f, g, flags) ==
    Apart(f, g, flags, ThenByName(CompareNoCase(Suffix(f.ShortName), Suffix(g.ShortName)), f, g))
\* The latest first; but directories come last.
CompareByDate(f, g, flags) == -Apart(f, g, flags, ThenByName(Compared(f.WriteTime, g.WriteTime), f, g))
CompareBySize(f, g, flags) == Apart(f, g, flags, ThenByName(Compared(f.FileSize, g.FileSize), f, g))

SortFunction(by, flags, f, g) ==
    CASE by = 1 -> CompareByPath(f, g, flags) [] by = 2 -> CompareByExt(f, g, flags)
      [] by = 3 -> CompareByDate(f, g, flags) [] by = 4 -> CompareBySize(f, g, flags)
      [] OTHER -> CompareByName(f, g, flags)

\* AList::Add() with an order: behind the last of those that do not come after it.
AddInOrder(list, file, notafter) ==
    LET k == Max({0} \cup notafter) IN
    SubSeq(list, 1, k) \o <<file>> \o From(list, k)

\* Files whose attributes, as far as the mask goes, are these.
CollectFiles(path, entries, pattern, nSubdirs, mask, attribs, limit) ==
    LET Add(list, file) == IF file.Attrib \cap mask = attribs /\ Matches(file, pattern)
                           THEN AddInOrder(list, file, {i \in DOMAIN list : AlphaCompareNoCase(file, list[i]) >= 0})
                           ELSE list
        Listed(r) == [ok |-> r.ok, list |-> FoldLeft(Add, <<>>, r.files)]
    IN Listed(AllFiles(path, entries, nSubdirs, limit))

CollectFilesEx(path, entries, pattern, nSubdirs, by, flags, set, clear, limit) ==
    LET Add(list, file) == IF file.Attrib \cap clear = {} /\ set \subseteq file.Attrib /\ Matches(file, pattern)
                           THEN AddInOrder(list, file,
                                           {i \in DOMAIN list : SortFunction(by, flags, file, list[i]) >= 0})
                           ELSE list
        Listed(r) == [ok |-> r.ok, list |-> FoldLeft(Add, <<>>, r.files)]
    IN Listed(AllFiles(path, entries, nSubdirs, limit))

\* Over a list of files, up to one that is gone or after which to stop.
TraverseFiles(list, there, limit) ==
    LET Step(r, file) ==
          IF ~r.ok THEN r
          ELSE IF file.FileName \notin there THEN [r EXCEPT !.ok = FALSE]
          ELSE Called(r, file, limit)
    IN FoldLeft(Step, [files |-> <<>>, ok |-> TRUE], list)

-----------------------------------------------------------------------------
(* Making directories, and comparing times *)

\* there: the directories and files; barred: where mkdir() makes nothing.
mkdir(dir, w) ==
    IF PathPart(dir) \in w.there \cup {<<>>} /\ dir \notin w.barred \cup w.there
    THEN [w EXCEPT !.there = @ \cup {dir}] ELSE [w EXCEPT !.ok = FALSE]

\* A file is looked for under its path and its name put together again.
GetFileInfo(name, there) == CatPath(PathPart(name), FilePart(name), <<>>, NUL) \in there

RECURSIVE CreateDirectory(_, _)
CreateDirectory(dir, w) ==
    LET parent == PathPart(dir)
        up == IF parent \in {<<>>, <<"/">>} \/ GetFileInfo(parent, w.there) THEN w ELSE CreateDirectory(parent, w)
    IN IF up.ok /\ FilePart(dir) # <<>> /\ ~GetFileInfo(dir, up.there) THEN mkdir(dir, up) ELSE up

\* Of times that may be Missing: the second may be, for the first to be newer or older.
Missing == -1
CompareWriteTimes(t, u) == IF Missing \in {t, u} THEN 0 ELSE Compared(t, u)
FileNewerThan(t, u) == t # Missing /\ (u = Missing \/ t > u)
FileOlderThan(t, u) == t # Missing /\ (u = Missing \/ t < u)
=============================================================================
