------------------------------ MODULE PostgresDatabase ------------------------------
(***************************************************************************)
(* PostgresDatabase and its queries (src/src/PostgresDatabase.cpp).  The   *)
(* server and libpq, which are outside the repository, are modelled by     *)
(* what the code sees of them: a ping, a connection that is made or not,   *)
(* and results, each to be cleared once.  SQL is a command that makes a    *)
(* thing the server knows by a name, or a query with a number of rows.     *)
(*                                                                         *)
(* A query keeps the connection it was made with; its results stay valid   *)
(* when the database is closed, but after that its owner may not ask it    *)
(* for an error message, which would be read from the connection freed.    *)
(***************************************************************************)
EXTENDS Integers, Sequences, FiniteSets

CONSTANTS Queries,   \* the query objects
          Things,    \* users, databases and tables on the server
          MaxRows

NULL == 0

VARIABLES db,      \* [conn, res, isopen, query: Queries -> what a query object holds]
          server,  \* [up, things, live: the results not cleared, connected]
          past     \* [rows: Queries -> rows fetched so far, asked, made: what the last call asked for]

vars == <<db, server, past>>

NoQuery == [res |-> NULL, nrows |-> 0, row |-> 0, success |-> FALSE, alive |-> FALSE]

Init ==
    /\ db = [conn |-> NULL, res |-> NULL, isopen |-> FALSE, query |-> [q \in Queries |-> NoQuery]]
    /\ server = [up |-> TRUE, things |-> {}, live |-> {}, connected |-> 0]
    /\ past = [rows |-> [q \in Queries |-> <<>>], asked |-> {}, made |-> FALSE]

\* Results are told apart by numbers.
Fresh(live) == CHOOSE r \in 1..(Cardinality(Queries) + 2) : r \notin live

ClearResult(live) == live \ {db.res}

Asked(things, made) == past' = [past EXCEPT !.asked = things, !.made = made]
NothingAsked == past' = [past EXCEPT !.asked = {}, !.made = FALSE]

\* PQping() and PQconnectdb(): a connection that failed is a connection to close.
Open ==
    /\ db.conn = NULL
    /\ \E connects \in BOOLEAN :
         /\ connects => server.up
         /\ db' = [db EXCEPT !.res = NULL, !.conn = IF connects THEN 1 ELSE NULL, !.isopen = connects]
         /\ server' = [server EXCEPT !.live = ClearResult(@), !.connected = IF connects THEN 1 ELSE 0]
    /\ NothingAsked

\* Close(), called by the destructor too.
Close ==
    /\ db' = [db EXCEPT !.res = NULL, !.conn = NULL, !.isopen = FALSE]
    /\ server' = [server EXCEPT !.live = ClearResult(@), !.connected = 0]
    /\ NothingAsked

\* What PQexec() does with a command that makes a thing: it may give no result
\* at all; there may be another error.
Outcomes(thing) ==
    {[null |-> TRUE, ok |-> FALSE, exists |-> FALSE], [null |-> FALSE, ok |-> FALSE, exists |-> FALSE]}
      \cup (IF ~server.up THEN {}
            ELSE IF thing \in server.things THEN {[null |-> FALSE, ok |-> FALSE, exists |-> TRUE]}
            ELSE {[null |-> FALSE, ok |-> TRUE, exists |-> FALSE]})

\* Mutant: the result before is not cleared.
RunSQLOver(thing, x) ==
    LET r == IF x.null THEN NULL ELSE Fresh(server.live) IN
    /\ db' = [db EXCEPT !.res = r]
    /\ server' = [server EXCEPT !.live = @ \cup ({r} \ {NULL}),
                                !.things = IF x.ok THEN @ \cup {thing} ELSE @]

RunSQL(thing, x) ==
    LET live == ClearResult(server.live)
        r == IF x.null THEN NULL ELSE Fresh(live)
    IN /\ db' = [db EXCEPT !.res = r]
       /\ server' = [server EXCEPT !.live = live \cup ({r} \ {NULL}),
                                   !.things = IF x.ok THEN @ \cup {thing} ELSE @]

\* AddUser() and CreateDatabase(): what exists already is as good as made.  A
\* database without a connection does nothing.
Create(thing) ==
    \/ db.conn = NULL /\ UNCHANGED <<db, server>> /\ Asked({thing}, FALSE)
    \/ /\ db.conn # NULL
       /\ \E x \in Outcomes(thing) : RunSQL(thing, x) /\ Asked({thing}, x.ok \/ x.exists)

\* GrantPrivileges(), on what is there.
Grant(thing) ==
    /\ db.conn # NULL
    /\ \E null, ok \in BOOLEAN :
         /\ ok => ~null /\ server.up /\ thing \in server.things
         /\ RunSQL(thing, [null |-> null, ok |-> ok, exists |-> FALSE]) /\ Asked({thing}, ok)

\* RunQuery() makes a query object, which runs it, and the rows it gives: -1 is
\* an error, after which the result is there, or not, all the same.
RunQuery(q) ==
    /\ db.conn # NULL /\ ~db.query[q].alive
    /\ \E rows \in -1..MaxRows, null \in BOOLEAN :
         LET live == ClearResult(server.live)
             r == IF null THEN NULL ELSE Fresh(live) IN
         /\ null \/ ~server.up => rows = -1
         /\ db' = [db EXCEPT !.res = NULL,
                             !.query[q] = [res |-> r, nrows |-> IF rows < 0 THEN 0 ELSE rows, row |-> 0,
                                           success |-> rows >= 0, alive |-> TRUE]]
         /\ server' = [server EXCEPT !.live = live \cup ({r} \ {NULL})]
    /\ past' = [rows |-> [past.rows EXCEPT ![q] = <<>>], asked |-> {}, made |-> FALSE]

\* A query of the database's own, deleted at once, that asks for a thing that
\* exists or makes one that does not.
Table(thing, exists) ==
    \/ db.conn = NULL /\ UNCHANGED <<db, server>> /\ Asked(IF exists THEN {} ELSE {thing}, FALSE)
    \/ /\ db.conn # NULL
       /\ db' = [db EXCEPT !.res = NULL]
       /\ \E success \in BOOLEAN :
            /\ success => server.up /\ (thing \in server.things <=> exists)
            /\ server' = [server EXCEPT !.live = ClearResult(@),
                                        !.things = IF success THEN @ \cup {thing} ELSE @]
            /\ Asked({thing}, success)

TableExists(thing) == Table(thing, TRUE)
CreateTable(thing) == Table(thing, FALSE)

Fetch(q) ==
    LET query == db.query[q] IN
    /\ query.alive /\ query.res # NULL /\ query.row < query.nrows
    /\ db' = [db EXCEPT !.query[q].row = @ + 1]
    /\ past' = [rows |-> [past.rows EXCEPT ![q] = Append(@, query.row)], asked |-> {}, made |-> FALSE]
    /\ UNCHANGED server

DeleteQuery(q) ==
    /\ db.query[q].alive
    /\ db' = [db EXCEPT !.query[q] = NoQuery]
    /\ server' = [server EXCEPT !.live = @ \ {db.query[q].res}]
    /\ NothingAsked

\* The server cannot be reached for a while.
Reach ==
    /\ server' = [server EXCEPT !.up = ~@]
    /\ UNCHANGED db /\ NothingAsked

Next ==
    \/ Open \/ Close \/ Reach
    \/ \E thing \in Things : Create(thing) \/ Grant(thing) \/ TableExists(thing) \/ CreateTable(thing)
    \/ \E q \in Queries : RunQuery(q) \/ Fetch(q) \/ DeleteQuery(q)

Spec == Init /\ [][Next]_vars

-----------------------------------------------------------------------------
QueriesWith(r) == {q \in Queries : db.query[q].res = r}

\* Results are owned: each that libpq has not cleared is held by the database or
\* by one query that lives, whatever was closed in between, and the connection
\* is the database's; a query gives its rows in order, each once; what was said
\* to be made is on the server.
ResultsOwned ==
    /\ \A r \in server.live : Cardinality(QueriesWith(r)) + (IF db.res = r THEN 1 ELSE 0) = 1
    /\ \A r \in {db.res} \cup {db.query[q].res : q \in Queries} : r = NULL \/ r \in server.live
    /\ db.isopen <=> server.connected = 1
    /\ \A q \in Queries : past.rows[q] = [k \in 1..Len(past.rows[q]) |-> k - 1]
    /\ \A q \in Queries : db.query[q].alive => Len(past.rows[q]) <= db.query[q].nrows
    /\ past.made => past.asked \subseteq server.things
=============================================================================
