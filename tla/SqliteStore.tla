----------------------------- MODULE SqliteStore -----------------------------
(***************************************************************************)
(* The SQLite backend of ast-graph: the four tables of                      *)
(* ast-graph-storage/src/sqlite/schema.rs and the operations of             *)
(* sqlite/mod.rs that write them, run by any number of processes that have  *)
(* the same database file open (several CLI commands, an MCP server).       *)
(*                                                                          *)
(* `db` is the committed content, what every other connection reads.  The   *)
(* writer of the file (SQLite admits one) works on `work`, one statement    *)
(* per step, in an order the code does not fix: save_graph iterates over    *)
(* FxHashMaps.  A statement is modelled with the foreign-key actions and    *)
(* the FTS triggers that it fires.                                          *)
(*                                                                          *)
(* Abstracted: a node row keeps its key, parent_id and one value `text`     *)
(* for the columns that symbol_fts copies and the key does not determine;   *)
(* its file and first line are functions of the key, which hashes them.     *)
(* The confidence of an edge is left out: it is not in the key, and the     *)
(* first of two edges with one key wins whatever it is.                     *)
(***************************************************************************)
EXTENDS Integers, FiniteSets

CONSTANTS
    Procs,      \* processes with an open connection
    Ids,        \* node identifiers
    Files,      \* file paths
    Texts,      \* values of the indexed columns name, signature, doc_comment
    Hashes,     \* content hashes
    Kinds,      \* edge kinds, "CONTAINS" among them
    Lines,      \* line numbers
    FileOf,     \* the file an identifier was hashed from
    LineOf,     \* the first line an identifier was hashed from
    Graphs,     \* the code graphs that scans save
    NoId, NoHash, NoProc,
    MaxOps      \* bound on the operations started

Edges == [source : Ids, target : Ids, kind : Kinds, line : Lines]

\* A CodeGraph: its nodes with parent and indexed text, the edges of its
\* adjacency lists (their endpoints need not be nodes) and its file hashes.
CodeGraph ==
    [nodes : SUBSET Ids, parent : [Ids -> Ids \cup {NoId}], text : [Ids -> Texts],
     edges : SUBSET Edges, hashes : [Files -> Hashes \cup {NoHash}]]

ASSUME ConstantsAssumption ==
    /\ NoId \notin Ids /\ NoHash \notin Hashes /\ NoProc \notin Procs
    /\ FileOf \in [Ids -> Files] /\ LineOf \in [Ids -> Lines]
    /\ "CONTAINS" \in Kinds
    /\ Texts # {}
    /\ Graphs \subseteq CodeGraph
    /\ MaxOps \in Nat

\* An extractor never makes a symbol its own parent.
ASSUME ParentsAssumption == \A g \in Graphs : \A i \in Ids : g.parent[i] # i

\* The text columns of a row that is not there.
NoText == CHOOSE t \in Texts : TRUE

\* CodeGraph::new
NewGraph ==
    [nodes |-> {}, parent |-> [i \in Ids |-> NoId], text |-> [i \in Ids |-> NoText],
     edges |-> {}, hashes |-> [f \in Files |-> NoHash]]

Tables ==
    [nodes : SUBSET Ids, parent : [Ids -> Ids \cup {NoId}], text : [Ids -> Texts],
     symbol_fts : [Ids -> [Texts -> Nat]], edges : SUBSET Edges,
     file_hashes : [Files -> Hashes \cup {NoHash}]]

VARIABLES
    db,         \* the committed tables
    work,       \* the tables as the open write transaction sees them
    writer,     \* the process that holds the write lock, or NoProc
    pc,         \* where each process is
    graph,      \* the graph that the open save_graph writes
    todoNodes,  \* nodes the loop at hand has still to visit
    todoEdges,  \* edges the loop at hand has still to visit
    edge_count, \* rows the open save_graph has inserted into edges
    result,     \* what the last operation of each process returned
    ops         \* operations started, at most MaxOps

vars == <<db, work, writer, pc, graph, todoNodes, todoEdges, edge_count, result, ops>>

TxPhases == {"nodes", "edges", "contains", "file_hashes", "commit"}
ClearPhases == {"clear_nodes", "clear_hashes"}

(***************************************************************************)
(* SQL statements, as functions from tables to tables.                      *)
(***************************************************************************)

Touches(e, S) == e.source \in S \/ e.target \in S

\* The rows that nodes_fts_ai and nodes_fts_au insert for one node.
OneFtsRow(t) == [x \in Texts |-> IF x = t THEN 1 ELSE 0]
NoFtsRow == [x \in Texts |-> 0]

Children(d, S) == {c \in d.nodes \ S : d.parent[c] \in S}

\* Mutants: edges without CASCADE; CASCADE instead of SET NULL on parent_id.
ForeignKeyActions_NoCascade(d, S) ==
    [d EXCEPT !.parent = [c \in Ids |-> IF c \in Children(d, S) THEN NoId ELSE d.parent[c]]]
ForeignKeyActions_CascadeParent(d, S) ==
    [d EXCEPT !.nodes = d.nodes \ Children(d, S),
              !.edges = {e \in d.edges : ~Touches(e, S \cup Children(d, S))}]

\* ON DELETE SET NULL and ON DELETE CASCADE for the rows of S.  The SET NULL
\* is an UPDATE of the child, so nodes_fts_au rewrites the child's index row.
ForeignKeyActions(d, S) ==
    LET orphans == Children(d, S) IN
    [d EXCEPT !.parent = [c \in Ids |-> IF c \in orphans THEN NoId ELSE d.parent[c]],
              !.symbol_fts = [c \in Ids |-> IF c \in orphans THEN OneFtsRow(d.text[c])
                                            ELSE d.symbol_fts[c]],
              !.edges = {e \in d.edges : ~Touches(e, S)}]

\* The rows that INSERT OR REPLACE deletes first: those with the same key.
Conflicting(d, i) == {i} \cap d.nodes

\* Mutants: ON CONFLICT DO UPDATE without the triggers; the same with them;
\* a parent_id kept only if the parent's row is there already.
ReplaceNode_NoTrigger(d, i, parent, text) ==
    [ForeignKeyActions(d, Conflicting(d, i)) EXCEPT
        !.nodes = d.nodes \cup {i}, !.parent[i] = parent, !.text[i] = text,
        !.symbol_fts[i] = IF i \in d.nodes THEN @ ELSE OneFtsRow(text)]
ReplaceNode_Upsert(d, i, parent, text) ==
    [d EXCEPT !.nodes = d.nodes \cup {i}, !.parent[i] = parent, !.text[i] = text,
              !.symbol_fts[i] = OneFtsRow(text)]
ReplaceNode_ParentFirst(d, i, parent, text) ==
    [ForeignKeyActions(d, Conflicting(d, i)) EXCEPT
        !.nodes = d.nodes \cup {i}, !.text[i] = text, !.symbol_fts[i] = OneFtsRow(text),
        !.parent[i] = IF parent \in d.nodes THEN parent ELSE NoId]

\* INSERT OR REPLACE INTO nodes.  A conflicting row is deleted first: that
\* fires the foreign-key actions and, recursive_triggers being off, not
\* nodes_fts_ad; then nodes_fts_ai adds a row to the index.
ReplaceNode(d, i, parent, text) ==
    LET d1 == ForeignKeyActions(d, Conflicting(d, i)) IN
    [d1 EXCEPT !.nodes = d1.nodes \cup {i},
               !.parent[i] = parent,
               !.text[i] = text,
               !.symbol_fts[i] = [x \in Texts |->
                    IF x = text THEN d.symbol_fts[i][x] + 1 ELSE d.symbol_fts[i][x]]]


\* DELETE FROM nodes of the rows of S, with nodes_fts_ad.
DeleteNodes(d, S) ==
    LET d1 == ForeignKeyActions(d, S) IN
    [d1 EXCEPT !.nodes = d1.nodes \ S,
               !.parent = [c \in Ids |-> IF c \in S THEN NoId ELSE d1.parent[c]],
               !.text = [c \in Ids |-> IF c \in S THEN NoText ELSE d.text[c]],
               !.symbol_fts = [c \in Ids |-> IF c \in S THEN NoFtsRow ELSE d1.symbol_fts[c]]]

\* INSERT OR IGNORE INTO edges: the composite primary key is the whole record.
InsertEdge(d, e) == [d EXCEPT !.edges = d.edges \cup {e}]

\* Mutant: the stored hashes become the graph's alone.
InsertHashes_Overwrite(d, h) == [d EXCEPT !.file_hashes = h]

InsertHashes(d, h) ==
    [d EXCEPT !.file_hashes =
        [f \in Files |-> IF h[f] # NoHash THEN h[f] ELSE d.file_hashes[f]]]

\* The deferred foreign-key check of COMMIT.
ForeignKeysHold(d) ==
    /\ \A i \in d.nodes : d.parent[i] \in d.nodes \cup {NoId}
    /\ \A e \in d.edges : {e.source, e.target} \subseteq d.nodes

(***************************************************************************)
(* What save_graph derives from the graph it is given.                      *)
(***************************************************************************)

\* node.parent.filter(|p| graph.nodes.contains_key(p))
ParentIn(g, i) == IF g.parent[i] \in g.nodes THEN g.parent[i] ELSE NoId

\* Mutant: only the source is looked up.
Dangling_SourceOnly(g, e) == e.source \notin g.nodes

Dangling(g, e) == ~({e.source, e.target} \subseteq g.nodes)

ContainsEdge(g, i) ==
    [source |-> g.parent[i], target |-> i, kind |-> "CONTAINS", line |-> LineOf[i]]

(***************************************************************************)
(* Initial state and actions.                                               *)
(***************************************************************************)

\* create_schema on a fresh file: four empty tables.
EmptyTables ==
    [nodes |-> {}, parent |-> [i \in Ids |-> NoId], text |-> [i \in Ids |-> NoText],
     symbol_fts |-> [i \in Ids |-> NoFtsRow], edges |-> {},
     file_hashes |-> [f \in Files |-> NoHash]]

Init ==
    /\ db = EmptyTables
    /\ work = EmptyTables
    /\ writer = NoProc
    /\ pc = [p \in Procs |-> "idle"]
    /\ graph = NewGraph
    /\ todoNodes = {}
    /\ todoEdges = {}
    /\ edge_count = 0
    /\ result = [p \in Procs |-> "none"]
    /\ ops = 0

StartOp(p) ==
    /\ pc[p] = "idle"
    /\ ops < MaxOps
    /\ ops' = ops + 1

\* save_graph, up to its first INSERT, which takes the write lock.  While
\* another process holds the lock the statement waits, and fails after
\* rusqlite's busy timeout without having changed anything.
SaveBegin(p) ==
    /\ StartOp(p)
    /\ writer = NoProc
    /\ writer' = p
    /\ \E g \in Graphs : graph' = g /\ todoNodes' = g.nodes
    /\ work' = db
    /\ edge_count' = 0
    /\ pc' = [pc EXCEPT ![p] = "nodes"]
    /\ result' = [result EXCEPT ![p] = "none"]
    /\ UNCHANGED <<db, todoEdges>>

\* One iteration of the upsert loop over graph.nodes.
SaveNode(p) ==
    /\ pc[p] = "nodes"
    /\ \E i \in todoNodes :
        /\ work' = ReplaceNode(work, i, ParentIn(graph, i), graph.text[i])
        /\ todoNodes' = todoNodes \ {i}
    /\ UNCHANGED <<db, writer, pc, graph, todoEdges, edge_count, result, ops>>

NodesDone(p) ==
    /\ pc[p] = "nodes" /\ todoNodes = {}
    /\ todoEdges' = graph.edges
    /\ pc' = [pc EXCEPT ![p] = "edges"]
    /\ UNCHANGED <<db, work, writer, graph, todoNodes, edge_count, result, ops>>

\* Mutant: every execute is counted, ignored duplicates too.
AddEdgeRow_CountAll(e) ==
    /\ work' = InsertEdge(work, e)
    /\ edge_count' = edge_count + 1

AddEdgeRow(e) ==
    /\ work' = InsertEdge(work, e)
    /\ edge_count' = IF e \in work.edges THEN edge_count ELSE edge_count + 1

\* Mutant: a dangling edge is left on the list for a later pass.
SaveEdge_Requeue(p) ==
    /\ pc[p] = "edges"
    /\ \E e \in todoEdges :
        IF Dangling(graph, e) THEN UNCHANGED <<work, edge_count, todoEdges>>
        ELSE AddEdgeRow(e) /\ todoEdges' = todoEdges \ {e}
    /\ UNCHANGED <<db, writer, pc, graph, todoNodes, result, ops>>

\* One iteration over the adjacency lists; dangling edges are skipped.
SaveEdge(p) ==
    /\ pc[p] = "edges"
    /\ \E e \in todoEdges :
        /\ todoEdges' = todoEdges \ {e}
        /\ IF Dangling(graph, e) THEN UNCHANGED <<work, edge_count>> ELSE AddEdgeRow(e)
    /\ UNCHANGED <<db, writer, pc, graph, todoNodes, result, ops>>

EdgesDone(p) ==
    /\ pc[p] = "edges" /\ todoEdges = {}
    /\ todoNodes' = graph.nodes
    /\ pc' = [pc EXCEPT ![p] = "contains"]
    /\ UNCHANGED <<db, work, writer, graph, todoEdges, edge_count, result, ops>>

\* Mutant: the parent is not looked up in the graph.
SaveContains_NoLookup(p) ==
    /\ pc[p] = "contains"
    /\ \E i \in todoNodes :
        todoNodes' = todoNodes \ {i} /\ AddEdgeRow(ContainsEdge(graph, i))
    /\ UNCHANGED <<db, writer, pc, graph, todoEdges, result, ops>>

\* One iteration of the loop that synthesizes CONTAINS edges.
SaveContains(p) ==
    /\ pc[p] = "contains"
    /\ \E i \in todoNodes :
        /\ todoNodes' = todoNodes \ {i}
        /\ IF graph.parent[i] \in graph.nodes THEN AddEdgeRow(ContainsEdge(graph, i))
           ELSE UNCHANGED <<work, edge_count>>
    /\ UNCHANGED <<db, writer, pc, graph, todoEdges, result, ops>>

ContainsDone(p) ==
    /\ pc[p] = "contains" /\ todoNodes = {}
    /\ pc' = [pc EXCEPT ![p] = "file_hashes"]
    /\ UNCHANGED <<db, work, writer, graph, todoNodes, todoEdges, edge_count, result, ops>>

SaveHashes(p) ==
    /\ pc[p] = "file_hashes"
    /\ work' = InsertHashes(work, graph.hashes)
    /\ pc' = [pc EXCEPT ![p] = "commit"]
    /\ UNCHANGED <<db, writer, graph, todoNodes, todoEdges, edge_count, result, ops>>

\* The end of a transaction: back to idle, the lock released.
EndTx(p, d, r) ==
    /\ db' = d
    /\ work' = d
    /\ writer' = NoProc
    /\ pc' = [pc EXCEPT ![p] = "idle"]
    /\ result' = [result EXCEPT ![p] = r]
    /\ graph' = NewGraph
    /\ todoNodes' = {} /\ todoEdges' = {}
    /\ edge_count' = 0
    /\ UNCHANGED ops

\* COMMIT checks the deferred foreign keys; on failure the dropped
\* transaction rolls back.
Commit(p) ==
    /\ pc[p] = "commit"
    /\ IF ForeignKeysHold(work) THEN EndTx(p, work, "ok") ELSE EndTx(p, db, "err")

\* A statement of save_graph fails (disk full, I/O error): `?` returns and
\* the dropped transaction rolls back.
SaveFails(p) ==
    /\ pc[p] \in TxPhases
    /\ EndTx(p, db, "err")

\* An autocommit statement or a transaction without a choice of order: it
\* needs the write lock and is visible at once.
Autocommit(d) ==
    /\ writer = NoProc
    /\ db' = d
    /\ work' = d
    /\ UNCHANGED <<writer, graph, todoNodes, todoEdges, edge_count>>

\* Three DELETEs in one transaction.
remove_file_nodes(p) ==
    /\ StartOp(p)
    /\ \E f \in Files :
        LET rows == {i \in db.nodes : FileOf[i] = f}
            d1 == [db EXCEPT !.edges = {e \in db.edges : ~Touches(e, rows)}]
            d2 == DeleteNodes(d1, rows)
        IN Autocommit([d2 EXCEPT !.file_hashes[f] = NoHash])
    /\ result' = [result EXCEPT ![p] = "ok"]
    /\ UNCHANGED pc

\* clear_database: three DELETEs, each a transaction of its own.
ClearEdges(p) ==
    /\ StartOp(p)
    /\ Autocommit([db EXCEPT !.edges = {}])
    /\ pc' = [pc EXCEPT ![p] = "clear_nodes"]
    /\ result' = [result EXCEPT ![p] = "none"]

ClearNodes(p) ==
    /\ pc[p] = "clear_nodes"
    /\ Autocommit(DeleteNodes(db, db.nodes))
    /\ pc' = [pc EXCEPT ![p] = "clear_hashes"]
    /\ UNCHANGED <<result, ops>>

ClearHashes(p) ==
    /\ pc[p] = "clear_hashes"
    /\ Autocommit([db EXCEPT !.file_hashes = [f \in Files |-> NoHash]])
    /\ pc' = [pc EXCEPT ![p] = "idle"]
    /\ result' = [result EXCEPT ![p] = "ok"]
    /\ UNCHANGED ops

\* A later DELETE of clear fails (the lock is not released within the busy
\* timeout, I/O error): what the earlier ones deleted stays deleted.
ClearFails(p) ==
    /\ pc[p] \in ClearPhases
    /\ pc' = [pc EXCEPT ![p] = "idle"]
    /\ result' = [result EXCEPT ![p] = "err"]
    /\ UNCHANGED <<db, work, writer, graph, todoNodes, todoEdges, edge_count, ops>>

\* The process dies and is started again: an open transaction is lost, what
\* was committed survives (WAL), and nothing was returned.
Crash(p) ==
    \/ pc[p] \in TxPhases /\ EndTx(p, db, "none")
    \/ /\ pc[p] \in ClearPhases
       /\ pc' = [pc EXCEPT ![p] = "idle"]
       /\ UNCHANGED <<db, work, writer, graph, todoNodes, todoEdges, edge_count, result, ops>>

\* The steps of a process that has an operation under way.
Continue(p) ==
    \/ SaveNode(p) \/ NodesDone(p)
    \/ SaveEdge(p) \/ EdgesDone(p)
    \/ SaveContains(p) \/ ContainsDone(p)
    \/ SaveHashes(p) \/ Commit(p)
    \/ ClearNodes(p) \/ ClearHashes(p)

Start(p) == SaveBegin(p) \/ remove_file_nodes(p) \/ ClearEdges(p)

Next ==
    \E p \in Procs : Start(p) \/ Continue(p) \/ SaveFails(p) \/ ClearFails(p) \/ Crash(p)

Spec == Init /\ [][Next]_vars

\* A process with an operation under way runs; the busy timeout makes a
\* clear that is kept waiting for the lock fail.
Fairness == \A p \in Procs : WF_vars(Continue(p) \/ ClearFails(p))

FairSpec == Spec /\ Fairness

(***************************************************************************)
(* Properties.                                                              *)
(***************************************************************************)

\* Every variable holds a value of its type (schema.rs:19-59, mod.rs:50-158).
TypeOK ==
    /\ db \in Tables /\ work \in Tables
    /\ writer \in Procs \cup {NoProc}
    /\ pc \in [Procs -> {"idle"} \cup TxPhases \cup ClearPhases]
    /\ graph \in Graphs \cup {NewGraph}
    /\ todoNodes \subseteq Ids /\ todoEdges \subseteq Edges
    /\ edge_count \in Nat
    /\ result \in [Procs -> {"none", "ok", "err"}]
    /\ ops \in 0 .. MaxOps

\* What a reader finds is always referentially intact: parent_id names a
\* stored node or is NULL, and both ends of an edge are stored, whatever mix
\* of saves, removals, half-finished clears and crashes came before
\* (schema.rs:13-15).
ReferentialIntegrity == ForeignKeysHold(db)

\* The COMMIT of save_graph never fails on the deferred foreign keys, though
\* rows are inserted in an arbitrary order and each REPLACE deletes a row
\* first: save_graph filters parents and skips dangling edges (mod.rs:63-66,
\* 97-102).
CommitSucceeds == \A p \in Procs : pc[p] = "commit" => ForeignKeysHold(work)

\* Keyword search covers exactly the stored symbols: each has an index row with
\* its current text, and no row names a symbol that is not stored.  Only REPLACE
\* skips nodes_fts_ad, and nodes_fts_ai adds the row (schema.rs:87-99): the row of
\* the earlier save stays beside it, so that the index is not "in sync" as
\* schema.rs:47 has it.
SearchCoversStore ==
    /\ \A i \in db.nodes : db.symbol_fts[i][db.text[i]] > 0
    /\ \A i \in Ids \ db.nodes : \A x \in Texts : db.symbol_fts[i][x] = 0

\* The edge rows that a graph stands for.
EdgeRows(g) ==
    {e \in g.edges : ~Dangling(g, e)}
        \cup {ContainsEdge(g, i) : i \in {c \in g.nodes : g.parent[c] \in g.nodes}}

\* The step in which process p's save_graph returns Ok.
Saves(p) == pc[p] = "commit" /\ result'[p] = "ok"

\* A save replaces: after it the edges at the graph's nodes are the graph's
\* own, so a call deleted from the source is gone from the store although
\* save_graph has no DELETE (mod.rs:50-158).
SaveReplacesEdges ==
    [][\A p \in Procs : Saves(p) =>
        {e \in db'.edges : Touches(e, graph.nodes)} = EdgeRows(graph)]_vars

\* A save is local: nodes that are not in the graph keep their text, edges
\* among themselves and index rows current; only a parent_id that names a
\* node of the graph is lost (ON DELETE SET NULL, schema.rs:34).
SaveIsLocal ==
    [][\A p \in Procs : Saves(p) =>
        /\ {e \in db'.edges : ~Touches(e, graph.nodes)}
               = {e \in db.edges : ~Touches(e, graph.nodes)}
        /\ db'.nodes = db.nodes \cup graph.nodes
        /\ \A i \in db.nodes \ graph.nodes :
               /\ db'.text[i] = db.text[i]
               /\ db'.parent[i] = IF db.parent[i] \in graph.nodes THEN NoId ELSE db.parent[i]]_vars

\* When none of its nodes is stored (after a clear, or for a new project) a
\* save stores every parent, children before parents or not: the foreign keys
\* are deferred (mod.rs:52).
FreshSaveKeepsParents ==
    [][\A p \in Procs : Saves(p) /\ db.nodes \cap graph.nodes = {} =>
        \A i \in graph.nodes : db'.parent[i] = ParentIn(graph, i)]_vars

\* schema.rs:15 says that parent_id becomes NULL when the parent node is
\* removed: a save, which removes no node, stores the graph's parents.
SaveKeepsParents ==
    [][\A p \in Procs : Saves(p) =>
        \A i \in graph.nodes : db'.parent[i] = ParentIn(graph, i)]_vars

\* The number of edges save_graph returns is the number of rows that the table
\* now holds at the nodes it saved: dangling edges, duplicates and CONTAINS edges
\* both parsed and synthesized are counted as often as they are stored, whatever
\* was stored before (mod.rs:84-117).  The comment there says it "matches SELECT
\* COUNT(*) FROM edges": not if the table has rows between other nodes, which a
\* save of a part neither touches nor counts.
ReportedCountIsExact ==
    [][\A p \in Procs : Saves(p) =>
        edge_count = Cardinality({e \in db'.edges : Touches(e, graph.nodes)})]_vars

\* Every operation returns: the lock is given back on every path, so nobody
\* waits for it for ever.
OperationsReturn == \A p \in Procs : pc[p] # "idle" ~> pc[p] = "idle"

(***************************************************************************)
(* The abstract store this implements.                                      *)
(***************************************************************************)

Store == INSTANCE AtomicStore WITH
    store <- [nodes |-> db.nodes, parent |-> db.parent, text |-> db.text,
              edges |-> db.edges, file_hashes |-> db.file_hashes]

\* The statement-by-statement transactions implement atomic operations.
ImplementsAtomicStore == Store!Spec
=============================================================================
