---------------------------------- MODULE MCFiles ----------------------------------
(***************************************************************************)
(* Bounded inputs for Directory, XMLDecode and Uri, and what their         *)
(* operations should give for them, for MCLibrary.                         *)
(***************************************************************************)
EXTENDS Directory, XMLDecode, Uri

-----------------------------------------------------------------------------
(* Trees of directories *)

File(name, size, date) ==
    [name |-> name, stat |-> TRUE, size |-> size, date |-> date, attrib |-> {"readable"}, entries |-> <<>>]
Dir(name, entries) == [File(name, 3, 2) EXCEPT !.attrib = {"readable", "dir"}, !.entries = entries]
Self == Dir(<<".">>, <<>>)
Up == Dir(<<".", ".">>, <<>>)

Arrangements(entries) == {s \in UNION {[1..k -> entries] : k \in 0..3} : IsInjective(s)}

Below == {<<Self, Up>>, <<Up, File(<<"a">>, 1, 1), Self>>,
          <<Dir(<<"d">>, <<Self, File(<<"b">>, 2, 1), Dir(<<"e">>, <<File(<<"a">>, 1, 1)>>)>>), File(<<"A">>, 3, 1)>>}
Entries == {Self, File(<<"a">>, 1, 2), [File(<<"c">>, 2, 2) EXCEPT !.stat = FALSE], File(<<"B", ".", "x">>, 2, 1)}
             \cup {Dir(<<"d">>, below) : below \in Below}

\* (No two entries of a directory have the same name.)
Trees == {t \in Arrangements(Entries) : IsInjective([k \in DOMAIN t |-> t[k].name])}
Flags == SUBSET {"mixed", "reverse"}
Collections == [tree : Trees, pattern : {AnyName, {<<"a">>}, {<<"d">>, <<"B", ".", "x">>}}, depth : 0..2]

Top0 == <<"t">>

\* The entries k directories down, with the paths they are in.
Seen(path, entries) == {[path |-> path, e |-> e] : e \in {f \in ToSet(entries) : f.stat /\ f.name \notin Dots}}
At0(tree) == Seen(Top0, tree)
Lower(level) == UNION {Seen(x.path \o <<"/">> \o x.e.name, x.e.entries) : x \in {y \in level : "dir" \in y.e.attrib}}
Reached(tree, depth) ==
    At0(tree) \cup (IF depth > 0 THEN Lower(At0(tree)) ELSE {})
              \cup (IF depth > 1 THEN Lower(Lower(At0(tree))) ELSE {})

Wanted(c, mask, attribs) ==
    {x.path \o <<"/">> \o x.e.name : x \in
        {y \in Reached(c.tree, c.depth) : y.e.attrib \cap mask = attribs
                                            /\ (c.pattern = AnyName \/ y.e.name \in c.pattern)}}

NoLimit == 100

\* The files that are collected are those of the tree as deep as asked for, each
\* once and in order; a callback that stops the walk was given a part of it.
StoppedRight(r, all, limit) ==
    /\ IsPrefix(r.files, all.files) /\ Len(r.files) = Least(limit, Len(all.files))
    /\ ~r.ok <=> limit <= Len(all.files)
    /\ TraverseFiles(all.files, {f.FileName : f \in ToSet(all.files)}, limit) = r

WalkRight(c, all) ==
    /\ all.ok
    /\ \A limit \in 1..(Len(all.files) + 1) : StoppedRight(AllFiles(Top0, c.tree, c.depth, limit), all, limit)

ListRight(list, ex, wanted) ==
    /\ {f.FileName : f \in ToSet(list)} = wanted /\ IsInjective(list)
    /\ \A k, l \in DOMAIN list : k < l => AlphaCompareNoCase(list[k], list[l]) <= 0
    /\ ToSet(ex) = ToSet(list) /\ Len(ex) = Len(list)

ListInOrder(list, by, flags, wanted) ==
    /\ {f.FileName : f \in ToSet(list)} = wanted
    /\ \A k, l \in DOMAIN list : k < l => SortFunction(by, flags, list[k], list[l]) <= 0
    /\ "mixed" \notin flags =>
         ~\E k, l, m \in DOMAIN list :
            k < l /\ l < m /\ IsDir(list[k]) = IsDir(list[m]) /\ IsDir(list[k]) # IsDir(list[l])

CollectedRight(c) ==
    LET Files(attribs) == CollectFiles(Top0, c.tree, c.pattern, c.depth, {"dir"}, attribs, NoLimit).list
        FilesEx(by, flags, set, clear) ==
          CollectFilesEx(Top0, c.tree, c.pattern, c.depth, by, flags, set, clear, NoLimit).list
    IN /\ WalkRight(c, AllFiles(Top0, c.tree, c.depth, NoLimit))
       /\ \A attribs \in {{}, {"dir"}} :
            ListRight(Files(attribs), FilesEx(0, {}, attribs, {"dir"} \ attribs), Wanted(c, {"dir"}, attribs))
       /\ \A by \in 0..4, flags \in Flags : ListInOrder(FilesEx(by, flags, {}, {}), by, flags, Wanted(c, {}, {}))

Names == {<<"B", ".", "x">>, <<"a", ".", "x">>}
Info ==
    [FileName : {Top0 \o <<"/">> \o n : n \in Names} \cup {<<"u", "/", "A">>}, FileSize : 1..2, WriteTime : 1..2,
     Attrib : {{}, {"dir"}}]
Infos == {[FileName |-> i.FileName, ShortName |-> FilePart(i.FileName), FileSize |-> i.FileSize,
           WriteTime |-> i.WriteTime, Attrib |-> i.Attrib] : i \in Info}
Ordered == [file : Infos, by : 0..4, flags : Flags]
Sign(n) == IF n < 0 THEN -1 ELSE IF n > 0 THEN 1 ELSE 0

\* Every order is one: of two files seen from both sides, and of three.
OrdersRight(f, by, flags) ==
    \A g \in Infos :
      LET c == SortFunction(by, flags, f, g) IN
      /\ Sign(SortFunction(by, flags, g, f)) = -Sign(c)
      /\ c <= 0 => \A h \in Infos : SortFunction(by, flags, g, h) <= 0 => SortFunction(by, flags, f, h) <= 0

-----------------------------------------------------------------------------
(* Directories that are made *)

Paths == {<<"a">>, <<"a", "/", "b">>, <<"a", "/", "b", "/", "c">>, <<"a", "/", "d">>}
Asked == Paths \cup {Append(p, "/") : p \in Paths} \cup {<<>>, <<"/">>, <<"/", "a">>, <<"/", "a", "/", "b">>}
Ancestors(p) == {SubSeq(p, 1, k) : k \in {i \in 1..Len(p) : (i = Len(p) \/ p[i + 1] = "/") /\ p[i] # "/"}}
Present == {w \in SUBSET Paths : \A p \in w : Ancestors(p) \subseteq w}
Makings == {[dir |-> d, there |-> w \cup {<<"/">>}, barred |-> b] :
              d \in Asked, w \in Present, b \in {{}, {<<"a">>}, {<<"a", "/", "b">>}}}

\* A directory is there afterwards with all that it is in, and nothing else is
\* made; where that fails, one of them could not be made.
AfterMaking(m, made) ==
    /\ m.there \subseteq made.there /\ made.there \subseteq m.there \cup Ancestors(m.dir)
    /\ made.ok <=> Ancestors(m.dir) \subseteq made.there
    /\ made.ok <=> Ancestors(m.dir) \cap (m.barred \ m.there) = {}
    /\ CreateDirectory(m.dir, [made EXCEPT !.ok = TRUE]) = made

MadeRight(m) == AfterMaking(m, CreateDirectory(m.dir, [there |-> m.there, barred |-> m.barred, ok |-> TRUE]))

Times == Missing..2

TimesRight(t, u) ==
    /\ FileNewerThan(t, u) /\ FileOlderThan(t, u) <=> (t # Missing /\ u = Missing)
    /\ Missing \notin {t, u} => (FileNewerThan(t, u) <=> CompareWriteTimes(t, u) > 0)
    /\ CompareWriteTimes(t, u) = -CompareWriteTimes(u, t)
    /\ CompareWriteTimes(t, u) < 0 => FileOlderThan(t, u)

-----------------------------------------------------------------------------
(* Documents *)

Pair(key, value) == [key |-> key, value |-> value]
Leaf(key, value, attributes) == [Node(NUL) EXCEPT !.key = key, !.value = value, !.attributes = attributes]
AttributeLists == {<<>>, <<Pair(<<"k">>, <<"v", ">">>)>>, <<Pair(<<"k">>, <<>>), Pair(<<"m", ":", "n">>, <<"'", "&">>)>>}
Leaves == {Leaf(<<"b">>, v, a) : v \in {<<>>, <<"x", " ", "&">>, <<"<", "y">>}, a \in AttributeLists}
Twins == <<Leaf(<<"b">>, <<"x">>, <<>>), Leaf(<<"b">>, <<>>, <<Pair(<<"k">>, <<"v">>)>>)>>
Elements == Leaves \cup {[l EXCEPT !.key = <<"a", "-", "1">>, !.children = c] :
                            l \in {x \in Leaves : x.value = <<"<", "y">>}, c \in {<<Leaf(<<"b">>, <<>>, <<>>)>>, Twins}}
Prologs == {<<>>, <<[Leaf(<<"v">>, <<>>, <<Pair(<<"k">>, <<"1">>)>>) EXCEPT !.type = "?"]>>,
            <<[Leaf(<<"D">>, <<>>, <<>>) EXCEPT !.type = "!"]>>}
Comment0 == <<"<", "!", "-", "-", "<", "b", ">", "-", "-", ">">>

\* How a document is written: what is between two tags, the quote (none where none
\* is needed), whether an empty element is a single tag.
Styles == [between : {<<>>, <<"\n", " ">>, <<" ">> \o Comment0}, quote : {"\"", "'", NUL}, single : BOOLEAN]
Documents == [prolog : Prologs, element : Elements, style : Styles]

Quoted(value, quote) == IF quote = NUL THEN Append(value, " ") ELSE <<quote>> \o value \o <<quote>>
AsWritten(value, quote) ==
    Quoted(value, IF "'" \in ToSet(value) \/ (value = <<>> /\ quote = NUL) THEN "\"" ELSE quote)
Written(pair, quote) == <<" ">> \o pair.key \o <<"=">> \o AsWritten(HTMLify(pair.value), quote)

\* closing: what a name is followed by in the closing tag.
RECURSIVE Element(_, _, _)
Tagged(node, tag, style, closing) ==
    CASE node.type # NUL -> <<"<", node.type>> \o tag \o (IF node.type = "?" THEN <<"?", ">">> ELSE <<">">>)
      [] node.type = NUL /\ style.single /\ node.value = <<>> /\ node.children = <<>> ->
           <<"<">> \o tag \o <<"/", ">">>
      [] OTHER -> <<"<">> \o tag \o <<">">> \o HTMLify(node.value)
                    \o FlattenSeq([k \in DOMAIN node.children |->
                                     style.between \o Element(node.children[k], style, closing)])
                    \o style.between \o <<"<", "/">> \o node.key \o closing \o <<">">>

Element(node, style, closing) ==
    Tagged(node, node.key \o FlattenSeq([k \in DOMAIN node.attributes |->
                                            Written(node.attributes[k], style.quote)]), style, closing)

Document(nodes, style, closing) ==
    FlattenSeq([k \in DOMAIN nodes |-> style.between \o Element(nodes[k], style, closing)])

\* A document is read as it was written, and its values are found; cut short, or
\* with the wrong names in its closing tags, it is refused or is only the nodes
\* that were complete.
Complete(r, nodes) == r.success /\ r.root.children = nodes
Partial(r, nodes) == r.success => r.root.children # nodes /\ IsPrefix(r.root.children, nodes)

TextRead(nodes, text, wrong) ==
    /\ Complete(DecodeXML(text), nodes)
    /\ wrong # text => ~DecodeXML(wrong).success
    /\ \A n \in {k \in 0..(Len(text) - 1) : At(text, k) \in {"<", ">", "/", "=", "\"", " "}} :
         Partial(DecodeXML(Left(text, n)), nodes)

DocumentRight(doc) ==
    LET nodes == Append(doc.prolog, doc.element)
        e == doc.element
    IN /\ TextRead(nodes, Document(nodes, doc.style, <<>>), Document(nodes, doc.style, <<"z">>))
       /\ \A k \in DOMAIN e.attributes : GetAttribute(e, e.attributes[k].key, 0) = e.attributes[k].value
       /\ GetAttribute(e, <<"z">>, 0) = <<>> /\ FindChild(e, <<"z">>, 0) = 0
       /\ e.children = Twins => GetChildValue(e, <<"b">>, 0) = <<"x">> /\ FindChild(e, <<"b">>, 1) = 2
                                /\ FindChild(e, <<"b">>, 2) = 0

-----------------------------------------------------------------------------
(* Names of streams *)

Accesses == {<<<<"r">>, "rdonly">>, <<<<"r", "o">>, "rdonly">>, <<<<"w">>, "wronly">>, <<<<"w", "o">>, "wronly">>,
             <<<<"r", "w">>, "rdwr">>, <<<<"w", "r">>, "rdwr">>}
Options == UNION {[1..k -> {"c", "x"}] : k \in 0..2}
Answers == UNION {[types -> {"no", "made", "none"}] : types \in {{}, {<<"t", "c", "p">>}}}
Types == {<<>>, <<"f", "i", "l", "e">>, <<"d", "e", "v">>, <<"t", "c", "p">>, <<"u", "d", "p">>,
          <<"s", "e", "r", "i", "a", "l">>}
Streams == [type : Types, host : {<<>>, <<"h">>, <<"h", ".", "1">>}, port : {<<>>, <<"8", "0">>}, last : {FALSE, TRUE},
            access : Accesses, options : Options]
Worlds == [locals : Answers, globals : Answers, write : BOOLEAN, opens : BOOLEAN, server : BOOLEAN]

After(s, mark) == IF s = <<>> THEN s ELSE mark \o s

\* What a name put together from its parts is opened as, by type; what is missing
\* is what the caller or the default says.
DeviceRight(x, moded, plain) ==
    /\ moded = [name |-> x.host,
                mode |-> [access |-> x.access[2], flags |-> UNION {FlagOf(c) : c \in ToSet(x.options)}, number |-> 0]]
    /\ plain.name = x.host /\ plain.mode.access = (IF x.last THEN "rdwr" ELSE "rdonly")

FileRight(x, moded, plain) ==
    /\ moded = [name |-> x.host, mode |-> x.access[1] \o x.options]
    /\ x.host # <<>> => plain = [name |-> x.host, mode |-> IF x.last THEN <<"w">> ELSE <<"r">>]

TcpRight(x, to, port) ==
    /\ to.type = IF x.last THEN "server" ELSE "client"
    /\ to.port = port /\ to.host = (IF x.host # <<>> THEN x.host ELSE IF x.last THEN anyhost ELSE localhost)

UdpRight(x, to, port) ==
    /\ to.here.port = port /\ to.dest.port = (IF x.last THEN port ELSE 8080)
    /\ x.host # <<>> /\ x.last => to.here.host = to.dest.host

SerialRight(x, with) ==
    with = [name |-> x.host, baud |-> IF x.port = <<>> THEN 9600 ELSE 80, mode |-> Len(x.options) + 1, flow |-> x.last]

\* Names in letters of any case are taken apart into what they were put together
\* from.  An address is that of a file or device with its mode, or of an end with
\* its port; the second is the bare one.
Address(x, bare) ==
    LET at == x.host \o After(x.port, Colon) IN
    CASE bare -> x.host
      [] ~bare /\ x.type \in {<<>>, <<"f", "i", "l", "e">>, <<"d", "e", "v">>} ->
           x.host \o ForMarker \o x.access[1] \o x.options
      [] ~bare /\ x.type = <<"t", "c", "p">> ->
           at \o (IF x.last THEN <<":", "L", "i", "s", "t", "e", "n">> ELSE <<>>)
      [] ~bare /\ x.type = <<"u", "d", "p">> -> at \o (IF x.last THEN <<";">> \o at ELSE <<>>)
      [] ~bare /\ x.type = <<"s", "e", "r", "i", "a", "l">> ->
           x.host \o (IF x.last THEN <<":", "H", "W">> ELSE <<>>) \o DataModes[Len(x.options) + 1]
             \o After(x.port, <<":", "b", "a", "u", "d">>)

OpenedAs(x, with, port) ==
    CASE x.type = <<"d", "e", "v">> -> x.host # <<>> => DeviceRight(x, with[FALSE], with[TRUE])
      [] x.type \in {<<>>, <<"f", "i", "l", "e">>} -> FileRight(x, with[FALSE], with[TRUE])
      [] x.type = <<"t", "c", "p">> -> TcpRight(x, with[FALSE], port)
      [] x.type = <<"u", "d", "p">> -> UdpRight(x, with[FALSE], port)
      [] x.type = <<"s", "e", "r", "i", "a", "l">> -> x.host # <<>> => SerialRight(x, with[FALSE])

UriRight(x) ==
    LET w == [locals |-> <<>>, globals |-> <<>>, write |-> x.last, opens |-> TRUE, server |-> TRUE] IN
    OpenedAs(x, [bare \in BOOLEAN |->
                   open(x.type \o (IF x.type = <<>> THEN <<>> ELSE <<":", "/", "/">>) \o Address(x, bare), w).with],
             IF x.port = <<>> THEN 8080 ELSE 80)

\* A stream is opened by the first that will open one; a handler that will not
\* is as good as none, and one that takes it and fails keeps the others from it.
OpenedRight(w, r) ==
    LET local == Answered(w.locals, <<"t", "c", "p">>)  global == Answered(w.globals, <<"t", "c", "p">>) IN
    /\ r["capital"] = r["as is"]
    /\ r["as is"].success <=> r["as is"].kind # "none"
    /\ local = "no" => r["as is"] = r["no locals"]
    /\ local # "no" => r["as is"] = r["no globals"]
    /\ "none" \in {local, global} => r["as is"].kind \in {"none", "local"}

Without(w, what) ==
    CASE what = "no locals" -> [w EXCEPT !.locals = <<>>] [] what = "no globals" -> [w EXCEPT !.globals = <<>>]
      [] OTHER -> w

OpenRight(w) ==
    OpenedRight(w, [what \in {"as is", "capital", "no locals", "no globals"} |->
        open(<<IF what = "capital" THEN "T" ELSE "t", "c", "p", ":", "/", "/", "h">>, Without(w, what))])

FileListed(what, x) ==
    /\ what = "tree" => CollectedRight(x)
    /\ what = "files" => OrdersRight(x.file, x.by, x.flags)
    /\ what = "directory" => MadeRight(x)
    /\ what = "times" => TimesRight(x[1], x[2])
=============================================================================
