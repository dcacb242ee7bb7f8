------------------------------------ MODULE Uri ------------------------------------
(***************************************************************************)
(* AStdUri (src/src/StdUri.cpp): what kind of stream a name asks for, with *)
(* which parameters, and who opens it.  Numbers are read as far as their   *)
(* digits go.                                                              *)
(***************************************************************************)
EXTENDS Strings

Colon == <<":">>
HexAt(s) == NumberOf(Left(s, FirstNotIn(s, 0, HexDigits)), 16)
NumberAt(s) == NumberOf(Left(s, FirstNotIn(s, 0, Numerals)), 10)

splittypeandaddr(uri) ==
    LET p == Pos(uri, <<":", "/", "/">>, 0) IN
    IF p >= 0 THEN [type |-> LowerCase(Left(uri, p)), addr |-> From(uri, p + 3)]
    ELSE [type |-> <<>>, addr |-> uri]

ForMarker == <<":", "f", "o", "r", ":">>

\* mode is what it was where there is none in the address.
splitnameandmode(addr, mode) ==
    LET str == GetFieldNumber(addr, ForMarker, 1, 0) IN
    [name |-> GetFieldNumber(addr, ForMarker, 0, 0).text, mode |-> IF str.pos >= 0 THEN str.text ELSE mode]

\* The mode as flags of open(): [access, flags], or a number behind a "$".
FlagOf(c) ==
    CASE c = "c" -> {"create"} [] c = "a" -> {"append"} [] c = "t" -> {"truncate"} [] c = "s" -> {"sync"}
      [] c = "n" -> {"nonblock"} [] c = "x" -> {"exclusive"} [] c = "l" -> {"largefile"} [] c = "d" -> {"direct"}
      [] OTHER -> {}

AccessOf(c, next) ==
    CASE {c, next} = {"r", "w"} -> "rdwr" [] c = "r" /\ next # "w" -> "rdonly" [] c = "w" /\ next # "r" -> "wronly"

\* Mutant: the letter that belongs to an access is read again.
RECURSIVE ModeByLetters(_, _, _)
ModeByLetters(str, i, mode) ==
    LET c == At(str, i)  next == At(str, i + 1) IN
    CASE c = NUL -> mode
      [] c \in {"r", "w"} -> ModeByLetters(str, i + 1, [mode EXCEPT !.access = AccessOf(c, next)])
      [] c = "$" -> [access |-> "given", flags |-> {}, number |-> HexAt(From(str, i + 1))]
      [] OTHER -> ModeByLetters(str, i + 1, [mode EXCEPT !.flags = @ \cup FlagOf(c)])

RECURSIVE ModeFrom(_, _, _)
ModeFrom(str, i, mode) ==
    LET c == At(str, i)  next == At(str, i + 1) IN
    CASE c = NUL -> mode
      [] c \in {"r", "w"} -> ModeFrom(str, IF next \in {"r", "w", "o"} \ {c} THEN i + 2 ELSE i + 1,
                                      [mode EXCEPT !.access = AccessOf(c, next)])
      [] c = "$" -> [access |-> "given", flags |-> {}, number |-> HexAt(From(str, i + 1))]
      [] OTHER -> ModeFrom(str, i + 1, [mode EXCEPT !.flags = @ \cup FlagOf(c)])

NoMode == [access |-> "rdonly", flags |-> {}, number |-> 0]

splitnameandflags(addr, mode) ==
    LET str == GetFieldNumber(addr, ForMarker, 1, 0) IN
    [name |-> GetFieldNumber(addr, ForMarker, 0, 0).text,
     mode |-> IF str.pos >= 0 THEN ModeFrom(str.text, 0, NoMode) ELSE mode]

DataModes == <<<<":", "8", "n", "1">>, <<":", "8", "n", "2">>, <<":", "8", "e", "1">>, <<":", "8", "e", "2">>,
               <<":", "8", "o", "1">>, <<":", "8", "o", "2">>>>

\* The last of the modes it names, wherever it names them; d: the defaults.
splitserialparams(addr, d) ==
    LET Named(t) == PosNoCase(addr, t, 0) >= 0
        baud == PosNoCase(addr, <<":", "b", "a", "u", "d">>, 0)
        modes == {k \in DOMAIN DataModes : Named(DataModes[k])}
    IN [name |-> GetFieldNumber(addr, Colon, 0, 0).text,
        baud |-> IF baud >= 0 THEN NumberAt(From(addr, baud + 5)) ELSE d.baud,
        mode |-> IF modes = {} THEN d.mode ELSE Max(modes),
        flow |-> IF Named(<<":", "n", "o", "n", "e">>) THEN FALSE
                 ELSE IF Named(<<":", "h", "w">>) THEN TRUE ELSE d.flow]

localhost == <<"l", "o", "c", "a", "l", "h", "o", "s", "t">>
anyhost == <<"0", ".", "0", ".", "0", ".", "0">>

FieldOr(str, port) == IF str.pos >= 0 THEN NumberAt(str.text) ELSE port
PortOf(addr, port) == FieldOr(GetFieldNumber(addr, Colon, 1, 0), port)

\* p: where it says that it listens.
TcpParams(addr, port, p) ==
    LET addr1 == IF p >= 0 THEN Left(addr, p) ELSE addr
        host == GetFieldNumber(addr1, Colon, 0, 0).text
    IN [host |-> IF host # <<>> THEN host ELSE IF p >= 0 THEN anyhost ELSE localhost,
        port |-> PortOf(addr1, port), type |-> IF p >= 0 THEN "server" ELSE "client"]

splittcpparams(addr, port) == TcpParams(addr, port, PosNoCase(addr, <<":", "l", "i", "s", "t", "e", "n">>, 0))

\* There is always a destination: the local host, if none is given.
OrLocal(host) == IF host = <<>> THEN localhost ELSE host
EndAt(half, port) == [host |-> OrLocal(GetFieldNumber(half, Colon, 0, 0).text), port |-> PortOf(half, port)]

splitudpparams(addr, port, destport) ==
    LET end == [n \in 0..1 |-> EndAt(GetFieldNumber(addr, <<";">>, n, 0).text, IF n = 0 THEN port ELSE destport)]
    IN [here |-> end[0], dest |-> end[1]]

-----------------------------------------------------------------------------
(* open().  A type handler answers that it will not, that it made a stream,  *)
(* or that it made none; locals and globals: type -> answer.  opens: whether *)
(* a stream that is made here can be opened; server: whether there is a      *)
(* socket server for sockets.                                                *)

Standard == {<<"s", "t", "d", "i", "n">>, <<"s", "t", "d", "o", "u", "t">>, <<"s", "t", "d", "e", "r", "r">>}

Answered(handlers, type) == IF type \in DOMAIN handlers THEN handlers[type] ELSE "no"

\* with: what the stream is opened with.
Opened(kind, with, ok) == [kind |-> IF ok THEN kind ELSE "none", with |-> with, success |-> ok]

\* u: the type and the address; w: the handlers, whether the caller means to
\* write, and what is around.
OpenOwn(uri, u, w) ==
    LET device == u.type = <<>> /\ Left(uri, 5) = <<"/", "d", "e", "v", "/">>
        file == splitnameandmode(u.addr, IF w.write THEN <<"w">> ELSE <<"r">>)
    IN CASE device \/ u.type = <<"d", "e", "v">> ->
              Opened("device",
                     splitnameandflags(IF u.addr = <<>> THEN uri ELSE u.addr,
                                       [NoMode EXCEPT !.access = IF w.write THEN "rdwr" ELSE "rdonly"]),
                     w.opens)
         [] (u.type = <<>> /\ ~device) \/ u.type = <<"f", "i", "l", "e">> ->
              Opened("file", file, file.name \in Standard \/ w.opens)
         [] u.type = <<"m", "e", "m">> -> Opened("memory", <<>>, w.opens)
         [] u.type = <<"s", "e", "r", "i", "a", "l">> ->
              Opened("serial", splitserialparams(u.addr, [baud |-> 9600, mode |-> 1, flow |-> FALSE]), w.opens)
         [] u.type = <<"t", "c", "p">> -> Opened("tcp", splittcpparams(u.addr, 8080), w.server /\ w.opens)
         [] u.type = <<"u", "d", "p">> -> Opened("udp", splitudpparams(u.addr, 8080, 8080), w.server /\ w.opens)
         [] OTHER -> Opened("none", <<>>, FALSE)

OpenFirst(uri, u, w) ==
    LET type == u.type IN
    IF Answered(w.locals, type) # "no" THEN Opened("local", <<>>, Answered(w.locals, type) = "made")
    ELSE IF Answered(w.globals, type) # "no" THEN Opened("global", <<>>, Answered(w.globals, type) = "made")
    ELSE OpenOwn(uri, u, w)

open(uri, w) == OpenFirst(uri, splittypeandaddr(uri), w)
=============================================================================
