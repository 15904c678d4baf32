----------------------------- MODULE FalkorStore -----------------------------
(***************************************************************************)
(* The FalkorDB backend (storage falkor/mod.rs): every operation is a      *)
(* sequence of Cypher queries to a server that other clients use too.      *)
(* There is no transaction around the sequence.  A query is atomic.  Its   *)
(* connection may go down before it ran or before its answer arrived:      *)
(* run_cypher then sends it again, MAX_RETRIES times at most; any other    *)
(* error, and a client's death, end the operation where it is.             *)
(***************************************************************************)
EXTENDS Integers, Sequences, FiniteSets, SequencesExt, TLC

CONSTANTS
    Clients,
    Ids,          \* NodeIds; they determine the file and the line
    Files,
    FileOf,       \* FileOf[i]: the file of node i
    LineOf,       \* LineOf[i]: its first line
    NoId,         \* no parent
    EdgeKinds,    \* EdgeKind::ALL, in order
    Indexes,      \* what init_schema creates, in order
    Graphs,       \* what clients save: [nodes, text, parent, edges, hashes]
    NODE_BATCH, EDGE_BATCH, MAX_RETRIES,
    MaxOps        \* bound: operations begun by all clients

ASSUME BatchAssumption ==
    NODE_BATCH \in Nat \ {0} /\ EDGE_BATCH \in Nat \ {0} /\ MAX_RETRIES \in Nat
    /\ MaxOps \in Nat
ASSUME KindsAssumption ==
    /\ EdgeKinds \in Seq(STRING) /\ Indexes \in Seq(STRING) /\ Indexes # <<>>
    /\ \A j, k \in DOMAIN EdgeKinds : EdgeKinds[j] = EdgeKinds[k] => j = k
    /\ "CONTAINS" \in ToSet(EdgeKinds)
ASSUME GraphsAssumption ==
    \A g \in Graphs : /\ g.nodes \subseteq Ids /\ NoId \notin Ids
                      /\ IsFiniteSet(g.nodes) /\ IsFiniteSet(g.edges)
                      /\ \A i \in g.nodes : g.parent[i] \in Ids \cup {NoId}
                      /\ \A e \in g.edges : e.kind \in ToSet(EdgeKinds)

VARIABLES
    db,      \* the server: [nodes (id -> text), edges, hashes (file -> hash), indexes]
    client,  \* of each client, the operation under way and how far it is
    removed, \* history: a query has deleted something
    ops      \* operations begun

vars == <<db, client, removed, ops>>

EmptyStore == [nodes |-> <<>>, edges |-> {}, hashes |-> <<>>, indexes |-> {}]

\* What an operation has read so far.
NothingRead == [nodes |-> 0, edges |-> 0, files |-> 0,
                parents |-> <<>>, ids |-> {}, adjacency |-> {}, hashes |-> <<>>]

\* attempt: connection errors of the query under way.  whole: no query was
\* given up and ignored.  since: the store when it began, while
\* alone.  alone: no other client has written since.
Idle == [op |-> "none", arg |-> NoId, todo |-> <<>>, attempt |-> 0, status |-> "idle",
         read |-> NothingRead, whole |-> TRUE, since |-> EmptyStore, alone |-> TRUE]

Init ==
    /\ db = EmptyStore
    /\ client = [c \in Clients |-> Idle]
    /\ removed = FALSE
    /\ ops = 0

-----------------------------------------------------------------------------
(* The operations *)

\* A query: what it is, and what it is about.
Q(type, arg) == <<type, arg>>
Type(q) == q[1]
Arg(q) == q[2]

\* The sets that chunks(n) cuts a sequence into.
Chunks(s, n) ==
    [k \in 1..((Len(s) + n - 1) \div n) |->
       {s[i] : i \in {j \in DOMAIN s : (j - 1) \div n = k - 1}}]

\* CONTAINS edges are made from the parents, besides those the parser emitted.
\* Mutant: they are not.
Synthesized_None(g, kind) == {}
Synthesized(g, kind) ==
    IF kind # "CONTAINS" THEN {}
    ELSE {[src |-> g.parent[i], dst |-> i, kind |-> kind, line |-> LineOf[i]] :
            i \in {j \in g.nodes : g.parent[j] \in g.nodes}}

EdgesToSend(g, kind) ==
    {e \in g.edges : e.kind = kind /\ {e.src, e.dst} \subseteq g.nodes}
        \cup Synthesized(g, kind)

CountEdges == [k \in DOMAIN EdgeKinds |-> Q("count_edges", EdgeKinds[k])]

\* The orders in which the edges of each kind may be sent: that of a hash map.
EdgeOrders(g) ==
    {o \in [DOMAIN EdgeKinds -> UNION {SetToSeqs(EdgesToSend(g, k)) : k \in ToSet(EdgeKinds)}] :
       \A k \in DOMAIN EdgeKinds : o[k] \in SetToSeqs(EdgesToSend(g, EdgeKinds[k]))}

\* save_graph: nodes in batches, in the order of a hash map; edges kind by kind
\* in batches; hashes; and the counts it reports.
\* Mutant: hashes before edges.
SaveQueries_HashesFirst(g, nodeOrder, edgeOrders) ==
    LET nodes == Chunks(nodeOrder, NODE_BATCH)
        edges == FlattenSeq([k \in DOMAIN EdgeKinds |-> Chunks(edgeOrders[k], EDGE_BATCH)])
    IN  [k \in DOMAIN nodes |-> Q("nodes", [i \in nodes[k] |-> g.text[i]])]
        \o (IF g.hashes = <<>> THEN <<>> ELSE <<Q("hashes", g.hashes)>>)
        \o [k \in DOMAIN edges |-> Q("edges", edges[k])]
        \o <<Q("count_nodes", NoId)>> \o CountEdges
SaveQueries(g, nodeOrder, edgeOrders) ==
    LET nodes == Chunks(nodeOrder, NODE_BATCH)
        edges == FlattenSeq([k \in DOMAIN EdgeKinds |-> Chunks(edgeOrders[k], EDGE_BATCH)])
    IN  [k \in DOMAIN nodes |-> Q("nodes", [i \in nodes[k] |-> g.text[i]])]
        \o [k \in DOMAIN edges |-> Q("edges", edges[k])]
        \o (IF g.hashes = <<>> THEN <<>> ELSE <<Q("hashes", g.hashes)>>)
        \o <<Q("count_nodes", NoId)>> \o CountEdges

init_schema == [k \in DOMAIN Indexes |-> Q("index", Indexes[k])]

Begin(c, op, arg, queries) ==
    /\ client[c].status = "idle" /\ ops < MaxOps
    /\ ops' = ops + 1
    /\ client' = [client EXCEPT ![c] =
         [Idle EXCEPT !.op = op, !.arg = arg, !.todo = queries, !.status = "running",
                      !.since = db]]
    /\ UNCHANGED <<db, removed>>

Connect(c) == Begin(c, "connect", NoId, init_schema)
SaveGraph(c, g) ==
    \E n \in SetToSeqs(g.nodes), e \in EdgeOrders(g) :
        Begin(c, "save", g, SaveQueries(g, n, e))
RemoveFileNodes(c, f) ==
    Begin(c, "remove", f, <<Q("remove_nodes", f), Q("remove_hash", f)>>)
Clear(c) == Begin(c, "clear", NoId, <<Q("delete", NoId)>> \o init_schema)
LoadGraph(c) ==
    Begin(c, "load", NoId, <<Q("parents", NoId), Q("symbols", NoId),
                             Q("relationships", NoId), Q("file_hashes", NoId)>>)
LoadFileHashes(c) == Begin(c, "load_hashes", NoId, <<Q("file_hashes", NoId)>>)
GetStats(c) ==
    Begin(c, "stats", NoId,
          <<Q("count_nodes", NoId)>> \o CountEdges \o <<Q("count_files", NoId)>>)

-----------------------------------------------------------------------------
(* The server *)

WithoutNodes(s, S) ==
    [s EXCEPT !.nodes = [i \in DOMAIN @ \ S |-> @[i]],
              !.edges = {e \in @ : e.src \notin S /\ e.dst \notin S}]

\* Rows merged into a table replace what it has under their keys.
Merged(rows, table) ==
    [x \in DOMAIN rows \cup DOMAIN table |-> IF x \in DOMAIN rows THEN rows[x] ELSE table[x]]

\* What a query makes of the store.  MERGE finds what is there; an edge whose
\* ends are not both there is not made.
Apply(q, s) ==
    CASE Type(q) = "nodes" -> [s EXCEPT !.nodes = Merged(Arg(q), @)]
      [] Type(q) = "edges" ->
           [s EXCEPT !.edges = @ \cup {e \in Arg(q) : {e.src, e.dst} \subseteq DOMAIN s.nodes}]
      [] Type(q) = "hashes" -> [s EXCEPT !.hashes = Merged(Arg(q), @)]
      [] Type(q) = "remove_nodes" -> WithoutNodes(s, {i \in DOMAIN s.nodes : FileOf[i] = Arg(q)})
      [] Type(q) = "remove_hash" ->
           [s EXCEPT !.hashes = [f \in DOMAIN @ \ {Arg(q)} |-> @[f]]]
      [] Type(q) = "delete" -> EmptyStore
      [] Type(q) = "index" -> [s EXCEPT !.indexes = @ \cup {Arg(q)}]
      [] OTHER -> s

\* What a query answers: the states of `read` it can lead to.  A child of two
\* parents keeps the one whose row comes last.
Answers(q, s, read) ==
    CASE Type(q) = "count_nodes" -> {[read EXCEPT !.nodes = Cardinality(DOMAIN s.nodes)]}
      [] Type(q) = "count_edges" ->
           {[read EXCEPT !.edges = @ + Cardinality({e \in s.edges : e.kind = Arg(q)})]}
      [] Type(q) = "count_files" ->
           {[read EXCEPT !.files = Cardinality({FileOf[i] : i \in DOMAIN s.nodes})]}
      [] Type(q) = "parents" ->
           LET rows == {e \in s.edges : e.kind = "CONTAINS"}
               children == {e.dst : e \in rows}
           IN  {[read EXCEPT !.parents = m] :
                  m \in {n \in [children -> Ids] : \A i \in children :
                           \E e \in rows : e.src = n[i] /\ e.dst = i}}
      [] Type(q) = "symbols" -> {[read EXCEPT !.ids = DOMAIN s.nodes]}
      [] Type(q) = "relationships" -> {[read EXCEPT !.adjacency = s.edges]}
      [] Type(q) = "file_hashes" -> {[read EXCEPT !.hashes = s.hashes]}
      [] OTHER -> {read}

\* An index that exists cannot be created.
Refuses(q, s) == Type(q) = "index" /\ Arg(q) \in s.indexes

Deletes(q) == Type(q) \in {"remove_nodes", "remove_hash", "delete"}

\* Query q runs at the server, or is lost on the way.
Runs(q) ==
    /\ ~Refuses(q, db)
    /\ db' = Apply(q, db)
    /\ removed' = (removed \/ Deletes(q))
    /\ UNCHANGED ops
Lost == UNCHANGED <<db, removed, ops>>

\* Client c goes on as `next`; the others' operations have seen a change.
Noticed(c, next) ==
    [d \in Clients |->
       IF d = c THEN next
       ELSE IF db' # db /\ client[d].status # "idle"
            THEN [client[d] EXCEPT !.alone = FALSE, !.since = EmptyStore] ELSE client[d]]

-----------------------------------------------------------------------------
(* run_cypher *)

Running(c) == client[c].status = "running"
Query(c) == Head(client[c].todo)

\* GRAPH.DELETE is sent once; the errors of these are ignored.
Retried(q) == Type(q) # "delete"
Ignored(q) == Type(q) \in {"index", "delete", "count_edges"}

\* On to the next query, or to the end.
Advance(me) ==
    [me EXCEPT !.todo = Tail(@), !.attempt = 0,
               !.status = IF Len(me.todo) = 1 THEN "ok" ELSE "running"]

\* Mutant: a retry is not counted.
Retry_Forever(me) == me
Retry(me) == [me EXCEPT !.attempt = @ + 1]

Answered(c) ==
    /\ Running(c) /\ Runs(Query(c))
    /\ \E read \in Answers(Query(c), db, client[c].read) :
         client' = Noticed(c, Advance([client[c] EXCEPT !.read = read]))

\* What follows an error that is not retried.
GiveUp(c) ==
    IF Ignored(Query(c)) THEN Advance([client[c] EXCEPT !.whole = FALSE])
    ELSE [client[c] EXCEPT !.status = "error", !.todo = <<>>, !.attempt = 0]

\* The connection is down; the query has run or has not.
ConnectionError(c) ==
    /\ Running(c)
    /\ Runs(Query(c)) \/ Lost
    /\ client' = Noticed(c, IF Retried(Query(c)) /\ client[c].attempt < MAX_RETRIES
                            THEN Retry(client[c]) ELSE GiveUp(c))

\* The server answers with an error.  An index that exists is no loss.
OtherError(c) ==
    /\ Running(c) /\ Lost
    /\ client' = Noticed(c, IF Refuses(Query(c), db) THEN Advance(client[c]) ELSE GiveUp(c))

Return(c) ==
    /\ client[c].status \in {"ok", "error"}
    /\ client' = [client EXCEPT ![c] = Idle]
    /\ Lost

\* A query on its way may still run.
Crash(c) ==
    /\ Running(c)
    /\ Runs(Query(c)) \/ Lost
    /\ client' = Noticed(c, Idle)

Step(c) == Answered(c) \/ ConnectionError(c) \/ OtherError(c) \/ Return(c)

Next ==
    \E c \in Clients :
        \/ Connect(c) \/ Clear(c) \/ LoadGraph(c) \/ LoadFileHashes(c) \/ GetStats(c)
        \/ \E g \in Graphs : SaveGraph(c, g)
        \/ \E f \in Files : RemoveFileNodes(c, f)
        \/ Step(c) \/ Crash(c)

\* A client that waits for an answer gets one or an error, and goes on.
Spec == Init /\ [][Next]_vars /\ \A c \in Clients : WF_vars(Step(c))

-----------------------------------------------------------------------------
(* Properties *)

Graph(c) == client[c].arg
Returned(c, op) == client[c].op = op /\ client[c].status = "ok"

\* The rows that a graph stands for.
SymbolRows(g) == [i \in g.nodes |-> g.text[i]]
EdgeRows(g) ==
    {e \in g.edges : e.src \in g.nodes /\ e.dst \in g.nodes} \cup
    {[src |-> g.parent[i], dst |-> i, kind |-> "CONTAINS", line |-> LineOf[i]] :
       i \in {j \in g.nodes : g.parent[j] \in g.nodes}}

\* An operation that no other client disturbed did what its name says, however
\* often its queries were sent twice: a save stores all of its graph, and
\* nothing else than what was there; a removal leaves nothing of the file; a
\* load returns the store; counts are the store's if none was given up.
LoneOperationsAreExact ==
    \A c \in Clients : client[c].alone =>
      LET since == client[c].since  read == client[c].read
          counted == /\ read.nodes = Cardinality(DOMAIN db.nodes)
                     /\ read.edges <= Cardinality(db.edges)
                     /\ client[c].whole => read.edges = Cardinality(db.edges)
      IN  /\ Returned(c, "save") =>
               /\ db.nodes = Merged(SymbolRows(Graph(c)), since.nodes)
               /\ db.edges = since.edges \cup EdgeRows(Graph(c))
               /\ db.hashes = Merged(Graph(c).hashes, since.hashes)
               /\ counted
          /\ Returned(c, "stats") =>
               counted /\ read.files = Cardinality({FileOf[i] : i \in DOMAIN db.nodes})
          /\ Returned(c, "remove") =>
               /\ client[c].arg \notin DOMAIN db.hashes
               /\ \A i \in DOMAIN db.nodes : FileOf[i] # client[c].arg
          /\ Returned(c, "clear") /\ client[c].whole =>
               db = [EmptyStore EXCEPT !.indexes = ToSet(Indexes)]
          /\ Returned(c, "load") =>
               /\ read.ids = DOMAIN db.nodes /\ read.adjacency = db.edges
               /\ read.hashes = db.hashes
               /\ \A i \in DOMAIN read.parents : \E e \in db.edges :
                    e.kind = "CONTAINS" /\ e.src = read.parents[i] /\ e.dst = i

\* Hashes are written last: while nothing is removed, a stored hash vouches for
\* its file, whichever saves failed, died, or ran at the same time: the symbols
\* of the file as some graph with that hash has it are stored, and the edges
\* that start in it (:386-408).
HashesVouchForFiles ==
    ~removed =>
      \A f \in DOMAIN db.hashes : \E g \in Graphs :
        /\ f \in DOMAIN g.hashes /\ g.hashes[f] = db.hashes[f]
        /\ {i \in g.nodes : FileOf[i] = f} \subseteq DOMAIN db.nodes
        /\ {e \in EdgeRows(g) : FileOf[e.src] = f} \subseteq db.edges

\* Every operation comes back, with an answer or an error: connection errors
\* are retried a bounded number of times (:127).
OperationsReturn == \A c \in Clients : Running(c) ~> ~Running(c)
=============================================================================
