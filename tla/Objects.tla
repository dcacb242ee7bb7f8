--------------------------------- MODULE Objects ---------------------------------
(***************************************************************************)
(* Nine objects of the library, one at a time: a behaviour is about one of *)
(* them.  They share three variables, for the object, for what is around   *)
(* it or what it stands for, and for what happened.                        *)
(***************************************************************************)
EXTENDS Integers, Sequences, FiniteSets

CONSTANTS Items, nIncItems, MaxItems,              \* of a StructList
          HashNames, HashValues,
          Bytes, NewLine, SizeInc, MaxLength,      \* of a MemFile
          URLs, Responses, Chunk,                  \* of an HTTPRequest
          Peek, MaxDatagrams,                      \* of a UDPServer
          Queries, Things, MaxRows,                \* of a PostgresDatabase
          Handlers, Functions, Nobody, MaxFunctions,  \* of the QuitHandlers
          Strings                                  \* of a StringList

ASSUME ObjectsAssumption ==
    /\ nIncItems \in Nat \ {0} /\ MaxItems \in Nat
    /\ SizeInc \in Nat \ {0} /\ MaxLength \in Nat
    /\ Chunk \in Nat \ {0} /\ Responses \subseteq Seq(STRING)
    /\ Peek \in Nat \ {0}
    /\ IsFiniteSet(Queries) /\ MaxRows \in Nat
    /\ Nobody \notin Handlers

VARIABLES subject, object, around, past

objectvars == <<object, around, past>>

B == INSTANCE StructList WITH list <- object, items <- around, Values <- Items
H == INSTANCE Hash WITH hash <- object, freed <- around, Names <- HashNames, Values <- HashValues
F == INSTANCE MemFile WITH file <- object, content <- around, got <- past
R == INSTANCE HTTPRequest WITH request <- object, server <- around, peer <- past
U == INSTANCE UDPServer WITH udp <- object, queue <- around, handled <- past
T == INSTANCE Thread WITH thread <- object, run <- around
P == INSTANCE PostgresDatabase WITH db <- object, server <- around
Q == INSTANCE QuitHandler WITH quit <- object, asked <- around
I == INSTANCE StringList WITH lists <- object, limited <- around

\* The objects that have variables of their own are elsewhere.
Elsewhere == {"ListNode", "SettingsHandler"}

ObjectsInit ==
    \/ subject \in Elsewhere /\ object = 0 /\ around = 0 /\ past = 0
    \/ subject = "StructList" /\ B!Init /\ past = 0
    \/ subject = "Hash" /\ H!Init /\ past = 0
    \/ subject = "MemFile" /\ F!Init
    \/ subject = "HTTPRequest" /\ R!Init
    \/ subject = "UDPServer" /\ U!Init
    \/ subject = "Thread" /\ T!Init /\ past = 0
    \/ subject = "PostgresDatabase" /\ P!Init
    \/ subject = "QuitHandler" /\ Q!Init /\ past = 0
    \/ subject = "StringList" /\ I!Init /\ past = 0

About(s) == subject = s /\ UNCHANGED subject

StructList == About("StructList") /\ B!Next /\ UNCHANGED past
Hash == About("Hash") /\ H!Next /\ UNCHANGED past
MemFile == About("MemFile") /\ F!Next
HTTPRequest == About("HTTPRequest") /\ R!Next
UDPServer == About("UDPServer") /\ U!Next
Thread == About("Thread") /\ T!Next /\ UNCHANGED past
PostgresDatabase == About("PostgresDatabase") /\ P!Next
QuitHandler == About("QuitHandler") /\ Q!Next /\ UNCHANGED past
StringList == About("StringList") /\ I!Next /\ UNCHANGED past

ObjectsNext ==
    \/ StructList \/ Hash \/ MemFile \/ HTTPRequest \/ UDPServer
    \/ Thread \/ PostgresDatabase \/ QuitHandler \/ StringList

ObjectsSpec == ObjectsInit /\ [][ObjectsNext]_<<subject, objectvars>>

-----------------------------------------------------------------------------
(* Each property is about one object; its comment is in the object's module. *)

\* A block of items, a hash and a file in memory hold what the calls gave them;
\* every result of a database has one holder; a locked text stays in its list.
ContainersHold ==
    /\ subject = "StructList" => B!HoldsItems /\ B!FindsNearest
    /\ subject = "Hash" => H!OwnsValues
    /\ subject = "MemFile" => F!StandsForFile
    /\ subject = "PostgresDatabase" => P!ResultsOwned
    /\ subject = "StringList" => I!LockedAreKept

\* What a request or a datagram server got is what its peers sent, in order; and
\* a thread only quits when it is told to; a signal goes to functions that are
\* there, of a handler that is alive.
PeersDataInOrder ==
    /\ subject = "HTTPRequest" => R!ResponseInOrder
    /\ subject = "UDPServer" => U!DatagramsInOrder
    /\ subject = "Thread" => T!QuitsWhenTold
    /\ subject = "QuitHandler" => Q!SignalsReachTheLiving

\* Stop() returns, wherever in its loop the thread is when it is called.
Stopping == subject = "Thread" /\ object.owner # "idle"
StopReturns == Stopping ~> ~Stopping
=============================================================================
