--------------------------------- MODULE MemFile ---------------------------------
(***************************************************************************)
(* AStdMemFile (src/src/StdMemFile.cpp), a file in memory, under the calls *)
(* of AStdData (src/src/StdData.cpp) for items, lines and skipping.        *)
(* `file' is the object, `content' the file it stands for and `got' what   *)
(* the last read returned, and from where.  A file is opened only while it *)
(* is closed.                                                              *)
(***************************************************************************)
EXTENDS Arithmetic

CONSTANTS Bytes,      \* the values of a byte, numbers
          NewLine,    \* one of them
          SizeInc,    \* DefaultSizeInc
          MaxLength   \* bound: the length of a file

VARIABLES file, content, got

vars == <<file, content, got>>

Closed == [isopen |-> FALSE, pData |-> <<>>, Pos |-> 0, Length |-> 0, SizeInc |-> 0]

Nothing == [at |-> 0, bytes |-> <<>>]

Init == file = Closed /\ content = <<>> /\ got = Nothing

Texts == UNION {[1..k -> Bytes] : k \in 0..MaxLength}

\* open() to read: the memory is the caller's, and an empty file cannot be opened.
OpenRead(data) ==
    /\ ~file.isopen /\ data # <<>>
    /\ file' = [Closed EXCEPT !.isopen = TRUE, !.pData = data, !.Length = Len(data)]
    /\ content' = data /\ got' = Nothing

\* open() to write or to append, with what is in the file already.
OpenWrite(data, append) ==
    /\ ~file.isopen
    /\ LET memory == Allocate(<<>>, Len(data), SizeInc) IN
       file' = [isopen |-> TRUE, pData |-> data \o SubSeq(memory, Len(data) + 1, Len(memory)),
                Pos |-> IF append THEN Len(data) ELSE 0, Length |-> Len(data), SizeInc |-> SizeInc]
    /\ content' = data /\ got' = Nothing

close == file' = Closed /\ content' = <<>> /\ got' = Nothing

\* seek() from the start, the position or the end: never outside the file.
seek(base, offset) ==
    /\ file.isopen
    /\ file' = IF base + offset \in 0..file.Length THEN [file EXCEPT !.Pos = base + offset] ELSE file
    /\ UNCHANGED <<content, got>>

Seek(offset) == \E base \in {0, file.Pos, file.Length} : seek(base, offset)

rewind == file.isopen /\ file' = [file EXCEPT !.Pos = 0] /\ UNCHANGED <<content, got>>

\* Mutant: as many bytes as asked for, whether the file has them or not.
ReadablePast(bytes) == Least(bytes, Len(file.pData) - file.Pos)

Readable(bytes) == Least(bytes, file.Length - file.Pos)

\* readdata() and AStdData::read() of items: a last item that is not whole is
\* read over and not returned.  Items of two bytes or more may be swapped.
read(size, count, swap) ==
    LET bytes == Readable(size * count)
        data == SubSeq(file.pData, file.Pos + 1, file.Pos + bytes)
        items == bytes \div size IN
    /\ file.isopen
    /\ file' = [file EXCEPT !.Pos = @ + bytes]
    /\ got' = [at |-> file.Pos,
                bytes |-> SubSeq(IF swap THEN SwapBytes(data, size, items) ELSE data, 1, size * items)]
    /\ UNCHANGED content

\* Mutant: the file ends where the last write did.
EndAtPosition(Length, Pos) == Pos

EndAfter(Length, Pos) == Greatest(Length, Pos)

\* writedata() and AStdData::write() of items: over what is there, and on.
write(data, size, swap) ==
    LET bytes == IF swap THEN SwapBytes(data, size, Len(data) \div size) ELSE data
        memory == Allocate(file.pData, file.Pos + Len(data), SizeInc)
        at == file.Pos IN
    /\ file.isopen /\ file.SizeInc # 0 /\ at + Len(data) <= MaxLength
    /\ file' = [file EXCEPT
                  !.pData = [k \in DOMAIN memory |->
                               IF k \in (at + 1)..(at + Len(bytes)) THEN bytes[k - at] ELSE memory[k]],
                  !.Pos = @ + Len(bytes),
                  !.Length = EndAfter(@, at + Len(bytes))]
    /\ content' = SubSeq(content, 1, at) \o bytes \o SubSeq(content, at + Len(bytes) + 1, Len(content))
    /\ got' = Nothing

\* AStdData::gets(): up to n-1 bytes, not with the new line that ends them.  An
\* empty line returns NULL like the end of the file.
gets(n) ==
    LET rest == SubSeq(file.pData, file.Pos + 1, file.Length)
        ends == {k \in DOMAIN rest : rest[k] = NewLine /\ k < n}
        line == IF ends # {} THEN Min(ends) - 1 ELSE Least(n - 1, Len(rest)) IN
    /\ file.isopen /\ n > 0
    /\ got' = [at |-> file.Pos, bytes |-> SubSeq(rest, 1, line)]
    /\ file' = [file EXCEPT !.Pos = @ + line + (IF ends # {} THEN 1 ELSE 0)]
    /\ UNCHANGED content

\* Bytes are taken away at the start, and the position moves with the rest.
RemoveBytes(bytes) ==
    LET n == Least(bytes, file.Length) IN
    /\ file.isopen /\ file.SizeInc # 0
    /\ file' = [file EXCEPT
                  !.Pos = subz(@, n), !.Length = @ - n,
                  !.pData = [k \in DOMAIN @ |-> IF k <= file.Length - n THEN @[k + n] ELSE @[k]]]
    /\ content' = SubSeq(content, n + 1, Len(content))
    /\ got' = Nothing

\* AddBytes() of bytes that the caller has put at the position itself, in the
\* memory AllocData() made sure of.
AddBytes(data) ==
    LET memory == Allocate(file.pData, file.Pos + Len(data), SizeInc)
        n == Least(Len(data), Len(memory) - file.Pos) IN
    /\ file.isopen /\ file.SizeInc # 0 /\ file.Pos + Len(data) <= MaxLength
    /\ file' = [file EXCEPT
                  !.pData = [k \in DOMAIN memory |->
                               IF k - file.Pos \in DOMAIN data THEN data[k - file.Pos] ELSE memory[k]],
                  !.Pos = @ + n, !.Length = Greatest(@, file.Pos + n)]
    /\ content' = SubSeq(content, 1, file.Pos) \o data
                  \o SubSeq(content, file.Pos + Len(data) + 1, Len(content))
    /\ got' = Nothing

\* Base64Decode() of a text replaces the file.
Base64Decode(data) ==
    /\ file.isopen /\ file.SizeInc # 0 /\ data # <<>>
    /\ LET memory == Allocate(file.pData, Len(data), SizeInc) IN
       file' = [file EXCEPT !.pData = data \o SubSeq(memory, Len(data) + 1, Len(memory)),
                            !.Pos = Len(data), !.Length = Len(data)]
    /\ content' = data /\ got' = Nothing

Next ==
    \/ \E data \in Texts : OpenRead(data) \/ (\E append \in BOOLEAN : OpenWrite(data, append))
    \/ file.isopen /\ close
    \/ \E offset \in -MaxLength..MaxLength : Seek(offset)
    \/ rewind
    \/ \E size \in 1..2, count \in 0..2, swap \in BOOLEAN : read(size, count, swap)
    \/ \E data \in Texts, size \in 1..2, swap \in BOOLEAN :
         data # <<>> /\ Len(data) % size = 0 /\ write(data, size, swap)
    \/ \E n \in 1..MaxLength : gets(n) \/ RemoveBytes(n)
    \/ \E data \in Texts : AddBytes(data) \/ Base64Decode(data)

Spec == Init /\ [][Next]_vars

-----------------------------------------------------------------------------
\* The object stands for its file: whatever was written over, appended, taken
\* away or moved while the memory grew, the bytes up to Length are the file's,
\* and the position is in it; and what a read returned is the file's bytes from
\* the position it was made at, in their order or exchanged by pairs.
StandsForFile ==
    file.isopen =>
      /\ file.Pos <= file.Length /\ file.Length <= Len(file.pData)
      /\ SubSeq(file.pData, 1, file.Length) = content
      /\ LET bytes == SubSeq(content, got.at + 1, got.at + Len(got.bytes)) IN
         got.bytes \in {bytes, SwapBytes(bytes, 2, Len(bytes) \div 2)}
=============================================================================
