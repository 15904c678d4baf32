-------------------------- MODULE SqliteStoreProofs --------------------------
(***************************************************************************)
(* Proofs, for every number of processes, nodes, files, graphs and          *)
(* operations, of the invariants of SqliteStore, that it implements         *)
(* AtomicStore, and of what a save leaves behind; then, for every number of *)
(* processes and every choice of initial files, of the invariants of        *)
(* SchemaMigration, which opens the file.                                   *)
(***************************************************************************)
EXTENDS SqliteStore, SchemaMigration, FiniteSetTheorems, TLAPS

(***************************************************************************)
(* The SQL statements: types, and what each does to the tables.             *)
(***************************************************************************)

LEMMA FtsRowTypes ==
    /\ NoText \in Texts
    /\ NoFtsRow \in [Texts -> Nat]
    /\ \A t \in Texts : OneFtsRow(t) \in [Texts -> Nat] /\ OneFtsRow(t)[t] = 1
  BY ConstantsAssumption DEF NoText, NoFtsRow, OneFtsRow

LEMMA ForeignKeyActionsFacts ==
    ASSUME NEW d \in Tables, NEW S \in SUBSET Ids
    PROVE  LET r == ForeignKeyActions(d, S) IN
           /\ r \in Tables
           /\ r.nodes = d.nodes /\ r.text = d.text /\ r.file_hashes = d.file_hashes
           /\ r.edges = {e \in d.edges : ~Touches(e, S)}
           /\ \A c \in Ids : r.parent[c] = IF c \in Children(d, S) THEN NoId ELSE d.parent[c]
           /\ \A c \in Ids : r.symbol_fts[c] = IF c \in Children(d, S) THEN OneFtsRow(d.text[c])
                                               ELSE d.symbol_fts[c]
  <1> DEFINE par == [c \in Ids |-> IF c \in Children(d, S) THEN NoId ELSE d.parent[c]]
             fts == [c \in Ids |-> IF c \in Children(d, S) THEN OneFtsRow(d.text[c])
                                   ELSE d.symbol_fts[c]]
             edg == {e \in d.edges : ~Touches(e, S)}
  <1>1. par \in [Ids -> Ids \cup {NoId}]
    BY DEF Tables
  <1>2. fts \in [Ids -> [Texts -> Nat]]
    BY FtsRowTypes DEF Tables
  <1>3. edg \in SUBSET Edges
    BY DEF Tables
  <1>4. ForeignKeyActions(d, S) = [d EXCEPT !.parent = par, !.symbol_fts = fts, !.edges = edg]
    BY DEF ForeignKeyActions
  <1> HIDE DEF par, fts, edg
  <1>5. /\ ForeignKeyActions(d, S) \in Tables
        /\ ForeignKeyActions(d, S).nodes = d.nodes
        /\ ForeignKeyActions(d, S).text = d.text
        /\ ForeignKeyActions(d, S).file_hashes = d.file_hashes
        /\ ForeignKeyActions(d, S).edges = edg
        /\ ForeignKeyActions(d, S).parent = par
        /\ ForeignKeyActions(d, S).symbol_fts = fts
    BY <1>1, <1>2, <1>3, <1>4 DEF Tables
  <1> QED
    BY <1>5 DEF par, fts, edg

\* What INSERT OR REPLACE INTO nodes does to tables d, as a relation to r.
Replaces(d, i, p, t, r) ==
    /\ r \in Tables
    /\ \A c : c \in r.nodes <=> c \in d.nodes \/ c = i
    /\ \A e : e \in r.edges <=> e \in d.edges /\ ~Touches(e, Conflicting(d, i))
    /\ r.file_hashes = d.file_hashes
    /\ r.parent[i] = p /\ r.text[i] = t /\ r.symbol_fts[i][t] > 0
    /\ \A c \in Ids \ {i} :
        /\ r.text[c] = d.text[c]
        /\ c \in Children(d, Conflicting(d, i)) =>
              r.parent[c] = NoId /\ r.symbol_fts[c] = OneFtsRow(d.text[c])
        /\ c \notin Children(d, Conflicting(d, i)) =>
              r.parent[c] = d.parent[c] /\ r.symbol_fts[c] = d.symbol_fts[c]

LEMMA ReplaceNodeFacts ==
    ASSUME NEW d \in Tables, NEW i \in Ids, NEW p \in Ids \cup {NoId}, NEW t \in Texts
    PROVE  Replaces(d, i, p, t, ReplaceNode(d, i, p, t))
  <1> DEFINE d1 == ForeignKeyActions(d, Conflicting(d, i))
             row == [x \in Texts |-> IF x = t THEN d.symbol_fts[i][x] + 1 ELSE d.symbol_fts[i][x]]
             r == ReplaceNode(d, i, p, t)
  <1>1. /\ d1 \in Tables
        /\ d1.nodes = d.nodes /\ d1.text = d.text /\ d1.file_hashes = d.file_hashes
        /\ d1.edges = {e \in d.edges : ~Touches(e, Conflicting(d, i))}
        /\ \A c \in Ids : d1.parent[c] =
              IF c \in Children(d, Conflicting(d, i)) THEN NoId ELSE d.parent[c]
        /\ \A c \in Ids : d1.symbol_fts[c] =
              IF c \in Children(d, Conflicting(d, i)) THEN OneFtsRow(d.text[c]) ELSE d.symbol_fts[c]
    BY ForeignKeyActionsFacts, Conflicting(d, i) \in SUBSET Ids DEF Conflicting
  <1>2. row \in [Texts -> Nat] /\ row[t] > 0
    BY DEF Tables
  <1>3. r = [d1 EXCEPT !.nodes = d1.nodes \cup {i}, !.parent[i] = p, !.text[i] = t,
                       !.symbol_fts[i] = row]
    BY DEF ReplaceNode
  <1> HIDE DEF d1, row, r
  <1>4. /\ r \in Tables
        /\ r.nodes = d1.nodes \cup {i} /\ r.edges = d1.edges
        /\ r.file_hashes = d1.file_hashes
        /\ r.parent = [d1.parent EXCEPT ![i] = p]
        /\ r.text = [d1.text EXCEPT ![i] = t]
        /\ r.symbol_fts = [d1.symbol_fts EXCEPT ![i] = row]
    BY <1>1, <1>2, <1>3 DEF Tables
  <1>5. /\ r.parent[i] = p /\ r.text[i] = t /\ r.symbol_fts[i] = row
        /\ \A c \in Ids \ {i} : /\ r.parent[c] = d1.parent[c]
                                /\ r.text[c] = d1.text[c]
                                /\ r.symbol_fts[c] = d1.symbol_fts[c]
    BY <1>1, <1>4 DEF Tables
  <1>6. /\ \A e : e \in r.edges <=> e \in d.edges /\ ~Touches(e, Conflicting(d, i))
        /\ \A c : c \in r.nodes <=> c \in d.nodes \/ c = i
    BY <1>1, <1>4
  <1> QED
    BY <1>1, <1>2, <1>4, <1>5, <1>6 DEF r, Replaces

LEMMA DeleteNodesFacts ==
    ASSUME NEW d \in Tables, NEW S \in SUBSET Ids
    PROVE  LET r == DeleteNodes(d, S) IN
           /\ r \in Tables
           /\ r.nodes = d.nodes \ S /\ r.file_hashes = d.file_hashes
           /\ r.edges = {e \in d.edges : ~Touches(e, S)}
           /\ \A c \in Ids : r.parent[c] = IF c \in S \cup Children(d, S) THEN NoId ELSE d.parent[c]
           /\ \A c \in Ids : r.text[c] = IF c \in S THEN NoText ELSE d.text[c]
           /\ \A c \in Ids : r.symbol_fts[c] = IF c \in S THEN NoFtsRow
                                               ELSE IF c \in Children(d, S) THEN OneFtsRow(d.text[c])
                                               ELSE d.symbol_fts[c]
  <1> DEFINE d1 == ForeignKeyActions(d, S)
             r == DeleteNodes(d, S)
             par == [c \in Ids |-> IF c \in S THEN NoId ELSE d1.parent[c]]
             txt == [c \in Ids |-> IF c \in S THEN NoText ELSE d.text[c]]
             fts == [c \in Ids |-> IF c \in S THEN NoFtsRow ELSE d1.symbol_fts[c]]
  <1>1. /\ d1 \in Tables
        /\ d1.nodes = d.nodes /\ d1.text = d.text /\ d1.file_hashes = d.file_hashes
        /\ d1.edges = {e \in d.edges : ~Touches(e, S)}
        /\ \A c \in Ids : d1.parent[c] = IF c \in Children(d, S) THEN NoId ELSE d.parent[c]
        /\ \A c \in Ids : d1.symbol_fts[c] = IF c \in Children(d, S) THEN OneFtsRow(d.text[c])
                                             ELSE d.symbol_fts[c]
    BY ForeignKeyActionsFacts
  <1>2. r = [d1 EXCEPT !.nodes = d1.nodes \ S, !.parent = par, !.text = txt, !.symbol_fts = fts]
    BY DEF DeleteNodes
  <1> HIDE DEF d1, r
  <1>3. /\ par \in [Ids -> Ids \cup {NoId}] /\ txt \in [Ids -> Texts]
        /\ fts \in [Ids -> [Texts -> Nat]]
    BY <1>1, FtsRowTypes DEF Tables
  <1> HIDE DEF par, txt, fts
  <1>4. /\ r \in Tables
        /\ r.nodes = d1.nodes \ S /\ r.file_hashes = d1.file_hashes /\ r.edges = d1.edges
        /\ r.parent = par /\ r.text = txt /\ r.symbol_fts = fts
    BY <1>1, <1>2, <1>3 DEF Tables
  <1> QED
    BY <1>1, <1>4 DEF r, par, txt, fts

(***************************************************************************)
(* The inductive invariant.                                                 *)
(***************************************************************************)

\* Tables in good order, but for parents in S that are not inserted yet.
InOrder(d, S) ==
    /\ d \in Tables
    /\ \A i \in d.nodes : d.parent[i] \in d.nodes \cup S \cup {NoId}
    /\ \A e \in d.edges : e.source \in d.nodes /\ e.target \in d.nodes
    /\ \A i \in d.nodes : d.symbol_fts[i][d.text[i]] > 0
    /\ \A i \in Ids \ d.nodes : \A x \in Texts : d.symbol_fts[i][x] = 0

\* The process that holds the write lock is the one inside save_graph.
LockHeld == \A p \in Procs : pc[p] \in TxPhases <=> writer = p

\* The open transaction's view: every node of the graph is inserted, or the
\* loop over the nodes has still to visit it.
Transaction ==
    writer # NoProc =>
        /\ InOrder(work, graph.nodes)
        /\ graph.nodes \subseteq work.nodes \cup (IF pc[writer] = "nodes" THEN todoNodes ELSE {})
        /\ todoNodes \subseteq graph.nodes

IInv == TypeOK /\ InOrder(db, {}) /\ LockHeld /\ Transaction

LEMMA ReplaceNodeInOrder ==
    ASSUME NEW d, NEW S \in SUBSET Ids, InOrder(d, S),
           NEW i \in Ids, NEW p \in S \cup {NoId}, NEW t \in Texts
    PROVE  InOrder(ReplaceNode(d, i, p, t), S)
  <1> DEFINE r == ReplaceNode(d, i, p, t)
             K == Children(d, Conflicting(d, i))
  <1>1. d \in Tables
    BY DEF InOrder
  <1>2. p \in Ids \cup {NoId}
    OBVIOUS
  <1>3. Replaces(d, i, p, t, r)
    BY <1>1, <1>2, ReplaceNodeFacts
  <1> HIDE DEF r
  <1>4. \A n \in r.nodes : r.parent[n] \in r.nodes \cup S \cup {NoId}
    BY <1>1, <1>3 DEF InOrder, Tables, Replaces
  <1>5. \A e \in r.edges : e.source \in r.nodes /\ e.target \in r.nodes
    BY <1>3 DEF InOrder, Replaces
  <1>6. \A n \in r.nodes : r.symbol_fts[n][r.text[n]] > 0
    <2> SUFFICES ASSUME NEW n \in r.nodes PROVE r.symbol_fts[n][r.text[n]] > 0
      OBVIOUS
    <2>1. CASE n = i
      BY <1>3, <2>1 DEF Replaces
    <2>2. CASE n # i
      <3>1. n \in d.nodes /\ n \in Ids \ {i} /\ d.text[n] \in Texts
        BY <1>1, <1>3, <2>2 DEF Tables, Replaces
      <3>2. CASE n \in K
        BY <1>3, <3>1, <3>2, FtsRowTypes DEF Replaces
      <3>3. CASE n \notin K
        BY <1>3, <3>1, <3>3 DEF InOrder, Replaces
      <3> QED
        BY <3>2, <3>3
    <2> QED
      BY <2>1, <2>2
  <1>7. \A n \in Ids \ r.nodes : \A x \in Texts : r.symbol_fts[n][x] = 0
    BY <1>1, <1>3 DEF InOrder, Children, Replaces
  <1> QED
    BY <1>3, <1>4, <1>5, <1>6, <1>7 DEF InOrder, r, Replaces

LEMMA InsertEdgeInOrder ==
    ASSUME NEW d, NEW S, InOrder(d, S), NEW e \in Edges,
           e.source \in d.nodes, e.target \in d.nodes
    PROVE  InOrder(InsertEdge(d, e), S)
  <1>1. /\ InsertEdge(d, e) \in Tables
        /\ InsertEdge(d, e).edges = d.edges \cup {e}
        /\ InsertEdge(d, e).nodes = d.nodes /\ InsertEdge(d, e).parent = d.parent
        /\ InsertEdge(d, e).text = d.text /\ InsertEdge(d, e).symbol_fts = d.symbol_fts
    BY DEF InOrder, InsertEdge, Tables
  <1> QED
    BY <1>1 DEF InOrder

LEMMA HashesInOrder ==
    ASSUME NEW d, NEW S, InOrder(d, S), NEW h \in [Files -> Hashes \cup {NoHash}]
    PROVE  InOrder([d EXCEPT !.file_hashes = h], S)
  <1>1. /\ [d EXCEPT !.file_hashes = h] \in Tables
        /\ [d EXCEPT !.file_hashes = h].edges = d.edges
        /\ [d EXCEPT !.file_hashes = h].nodes = d.nodes
        /\ [d EXCEPT !.file_hashes = h].parent = d.parent
        /\ [d EXCEPT !.file_hashes = h].text = d.text
        /\ [d EXCEPT !.file_hashes = h].symbol_fts = d.symbol_fts
    BY DEF InOrder, Tables
  <1> QED
    BY <1>1 DEF InOrder

LEMMA FewerEdgesInOrder ==
    ASSUME NEW d, NEW S, InOrder(d, S), NEW E \in SUBSET d.edges
    PROVE  InOrder([d EXCEPT !.edges = E], S)
  <1>1. /\ [d EXCEPT !.edges = E] \in Tables
        /\ [d EXCEPT !.edges = E].edges = E
        /\ [d EXCEPT !.edges = E].nodes = d.nodes
        /\ [d EXCEPT !.edges = E].parent = d.parent
        /\ [d EXCEPT !.edges = E].text = d.text
        /\ [d EXCEPT !.edges = E].symbol_fts = d.symbol_fts
    BY DEF InOrder, Tables
  <1> QED
    BY <1>1 DEF InOrder

LEMMA DeleteNodesInOrder ==
    ASSUME NEW d, InOrder(d, {}), NEW S \in SUBSET Ids
    PROVE  InOrder(DeleteNodes(d, S), {})
  <1> DEFINE r == DeleteNodes(d, S)
  <1>1. d \in Tables
    BY DEF InOrder
  <1>2. /\ r \in Tables
        /\ r.nodes = d.nodes \ S
        /\ r.edges = {e \in d.edges : ~Touches(e, S)}
        /\ \A c \in Ids : r.parent[c] = IF c \in S \cup Children(d, S) THEN NoId ELSE d.parent[c]
        /\ \A c \in Ids : r.text[c] = IF c \in S THEN NoText ELSE d.text[c]
        /\ \A c \in Ids : r.symbol_fts[c] = IF c \in S THEN NoFtsRow
                                            ELSE IF c \in Children(d, S) THEN OneFtsRow(d.text[c])
                                            ELSE d.symbol_fts[c]
    BY <1>1, DeleteNodesFacts
  <1> HIDE DEF r
  <1>3. r.nodes \subseteq Ids
    BY <1>2 DEF Tables
  <1>4. \A n \in r.nodes : r.parent[n] \in r.nodes \cup {} \cup {NoId}
    BY <1>2, <1>3 DEF InOrder, Children
  <1>5. \A e \in r.edges : e.source \in r.nodes /\ e.target \in r.nodes
    BY <1>2 DEF InOrder, Touches
  <1>6. \A n \in r.nodes : r.symbol_fts[n][r.text[n]] > 0
    <2> SUFFICES ASSUME NEW n \in r.nodes PROVE r.symbol_fts[n][r.text[n]] > 0
      OBVIOUS
    <2>1. n \in Ids /\ n \in d.nodes /\ n \notin S /\ d.text[n] \in Texts
      BY <1>1, <1>2, <1>3 DEF Tables
    <2>2. r.text[n] = d.text[n]
      BY <1>2, <2>1
    <2>3. CASE n \in Children(d, S)
      BY <1>2, <2>1, <2>2, <2>3, FtsRowTypes
    <2>4. CASE n \notin Children(d, S)
      BY <1>2, <2>1, <2>2, <2>4 DEF InOrder
    <2> QED
      BY <2>3, <2>4
  <1>7. \A n \in Ids \ r.nodes : \A x \in Texts : r.symbol_fts[n][x] = 0
    BY <1>2 DEF InOrder, Children, NoFtsRow
  <1> QED
    BY <1>2, <1>4, <1>5, <1>6, <1>7 DEF InOrder, r

(***************************************************************************)
(* The invariant is inductive.                                              *)
(***************************************************************************)

LEMMA GraphType ==
    ASSUME graph \in Graphs \cup {NewGraph}
    PROVE  /\ graph \in CodeGraph
           /\ NewGraph \in CodeGraph
           /\ graph.nodes \subseteq Ids
           /\ graph.edges \subseteq Edges
           /\ graph.hashes \in [Files -> Hashes \cup {NoHash}]
           /\ \A i \in Ids : graph.text[i] \in Texts /\ graph.parent[i] \in Ids \cup {NoId}
  <1>1. NewGraph \in CodeGraph
    BY FtsRowTypes DEF NewGraph, CodeGraph
  <1>2. graph \in CodeGraph
    BY <1>1, ConstantsAssumption
  <1> QED
    BY <1>1, <1>2 DEF CodeGraph

LEMMA EmptyTablesInOrder == InOrder(EmptyTables, {})
  <1>1. EmptyTables \in Tables
    BY FtsRowTypes DEF EmptyTables, Tables
  <1> QED
    BY <1>1 DEF InOrder, EmptyTables, NoFtsRow

LEMMA InitIInv == Init => IInv
  <1> SUFFICES ASSUME Init PROVE IInv
    OBVIOUS
  <1>1. InOrder(db, {}) /\ InOrder(work, {})
    BY EmptyTablesInOrder DEF Init
  <1>2. TypeOK
    BY <1>1, ConstantsAssumption DEF Init, TypeOK, InOrder
  <1>3. LockHeld
    BY ConstantsAssumption DEF Init, LockHeld, TxPhases
  <1>4. Transaction
    BY DEF Init, Transaction
  <1> QED
    BY <1>1, <1>2, <1>3, <1>4 DEF IInv

\* What a step of the process that holds the lock may rely on.
LEMMA HolderFacts ==
    ASSUME IInv, NEW p \in Procs, pc[p] \in TxPhases
    PROVE  /\ writer = p
           /\ InOrder(work, graph.nodes)
           /\ graph.nodes \subseteq work.nodes \cup (IF pc[p] = "nodes" THEN todoNodes ELSE {})
           /\ todoNodes \subseteq graph.nodes
  BY ConstantsAssumption DEF IInv, LockHeld, Transaction

\* A transaction that ends leaves tables in order and nobody inside.
LEMMA EndTxKeeps ==
    ASSUME IInv, NEW p \in Procs, pc[p] \in TxPhases,
           NEW d, InOrder(d, {}), NEW r \in {"none", "ok", "err"}, EndTx(p, d, r)
    PROVE  IInv'
  <1>1. TypeOK'
    BY DEF IInv, TypeOK, EndTx, InOrder
  <1>2. InOrder(db, {})'
    BY DEF EndTx, InOrder
  <1>3. LockHeld'
    <2>1. writer = p
      BY HolderFacts
    <2> QED
      BY <2>1, ConstantsAssumption DEF IInv, LockHeld, EndTx, TxPhases, TypeOK
  <1>4. Transaction'
    BY DEF EndTx, Transaction
  <1> QED
    BY <1>1, <1>2, <1>3, <1>4 DEF IInv

\* So does a statement outside save_graph, for the process of pc q.
LEMMA AutocommitKeeps ==
    ASSUME IInv, NEW d, InOrder(d, {}), Autocommit(d), NEW p \in Procs,
           pc[p] \notin TxPhases,
           \E l \in {"idle"} \cup ClearPhases : pc' = [pc EXCEPT ![p] = l],
           result' \in [Procs -> {"none", "ok", "err"}], ops' \in 0 .. MaxOps
    PROVE  IInv'
  <1>1. TypeOK'
    BY DEF IInv, TypeOK, Autocommit, InOrder
  <1>2. InOrder(db, {})'
    BY DEF Autocommit, InOrder
  <1>3. LockHeld'
    BY ConstantsAssumption DEF IInv, LockHeld, Autocommit, TypeOK, TxPhases, ClearPhases
  <1>4. Transaction'
    BY DEF Autocommit, Transaction
  <1> QED
    BY <1>1, <1>2, <1>3, <1>4 DEF IInv

\* Between two statements of save_graph only the loop's state changes.
LEMMA TxStepKeeps ==
    ASSUME IInv, NEW p \in Procs, pc[p] \in TxPhases,
           UNCHANGED <<db, writer, graph, result, ops>>,
           \E l \in TxPhases : pc' = [pc EXCEPT ![p] = l],
           InOrder(work', graph.nodes),
           graph.nodes \subseteq work'.nodes \cup (IF pc'[p] = "nodes" THEN todoNodes' ELSE {}),
           todoNodes' \subseteq graph.nodes,
           todoEdges' \subseteq Edges,
           edge_count' \in Nat
    PROVE  IInv'
  <1>1. TypeOK'
    <2>1. todoNodes' \subseteq Ids
      BY GraphType DEF IInv, TypeOK
    <2> QED
      BY <2>1 DEF IInv, TypeOK, InOrder
  <1>2. InOrder(db, {})'
    BY DEF IInv, InOrder
  <1>3. LockHeld'
    BY DEF IInv, LockHeld, TypeOK
  <1>4. Transaction'
    <2>1. writer' = p
      BY HolderFacts
    <2>2. InOrder(work, graph.nodes)'
      BY DEF InOrder
    <2> QED
      BY <2>1, <2>2 DEF Transaction
  <1> QED
    BY <1>1, <1>2, <1>3, <1>4 DEF IInv

LEMMA NextIInv == IInv /\ [Next]_vars => IInv'
  <1> SUFFICES ASSUME IInv, [Next]_vars PROVE IInv'
    OBVIOUS
  <1>g. /\ graph \in CodeGraph /\ graph.nodes \subseteq Ids /\ graph.edges \subseteq Edges
        /\ graph.hashes \in [Files -> Hashes \cup {NoHash}]
        /\ \A i \in Ids : graph.text[i] \in Texts /\ graph.parent[i] \in Ids \cup {NoId}
    BY GraphType DEF IInv, TypeOK
  <1>1. ASSUME NEW p \in Procs, SaveBegin(p) PROVE IInv'
    <2>1. TypeOK'
      <3>1. todoNodes' \subseteq Ids
        BY <1>1, ConstantsAssumption DEF SaveBegin, CodeGraph
      <3>2. ops' \in 0 .. MaxOps
        BY <1>1, ConstantsAssumption DEF SaveBegin, StartOp, IInv, TypeOK
      <3> QED
        BY <1>1, <3>1, <3>2 DEF SaveBegin, IInv, TypeOK, TxPhases
    <2>2. InOrder(db, {})'
      BY <1>1 DEF SaveBegin, IInv, InOrder
    <2>3. LockHeld'
      BY <1>1, ConstantsAssumption DEF SaveBegin, StartOp, IInv, LockHeld, TypeOK, TxPhases
    <2>4. Transaction'
      <3>1. writer' = p /\ pc'[p] = "nodes" /\ todoNodes' = graph'.nodes
        BY <1>1 DEF SaveBegin, IInv, TypeOK
      <3>2. InOrder(work, graph.nodes)'
        BY <1>1 DEF SaveBegin, IInv, InOrder
      <3> QED
        BY <3>1, <3>2 DEF Transaction
    <2> QED
      BY <2>1, <2>2, <2>3, <2>4 DEF IInv
  <1>2. ASSUME NEW p \in Procs, SaveNode(p) PROVE IInv'
    <2>1. pc[p] = "nodes" /\ pc[p] \in TxPhases
      BY <1>2 DEF SaveNode, TxPhases
    <2>2. PICK i \in todoNodes :
            /\ work' = ReplaceNode(work, i, ParentIn(graph, i), graph.text[i])
            /\ todoNodes' = todoNodes \ {i}
      BY <1>2 DEF SaveNode
    <2>3. /\ InOrder(work, graph.nodes)
          /\ graph.nodes \subseteq work.nodes \cup todoNodes
          /\ todoNodes \subseteq graph.nodes
      BY <2>1, HolderFacts
    <2>4. i \in Ids /\ ParentIn(graph, i) \in graph.nodes \cup {NoId} /\ graph.text[i] \in Texts
      BY <1>g, <2>2, <2>3 DEF ParentIn
    <2>5. InOrder(work', graph.nodes)
      BY <1>g, <2>2, <2>3, <2>4, ReplaceNodeInOrder
    <2>6. \A c : c \in work'.nodes <=> c \in work.nodes \/ c = i
      <3>1. ParentIn(graph, i) \in Ids \cup {NoId} /\ work \in Tables
        BY <1>g, <2>3, <2>4 DEF InOrder
      <3>2. Replaces(work, i, ParentIn(graph, i), graph.text[i], work')
        BY <2>2, <2>4, <3>1, ReplaceNodeFacts
      <3> QED
        BY <3>2 DEF Replaces
    <2>7. pc' = [pc EXCEPT ![p] = "nodes"] /\ pc'[p] = "nodes"
      BY <1>2, <2>1 DEF SaveNode, IInv, TypeOK
    <2>8. graph.nodes \subseteq work'.nodes \cup todoNodes'
      BY <2>2, <2>3, <2>6
    <2>9. UNCHANGED <<db, writer, graph, todoEdges, edge_count, result, ops>>
      BY <1>2 DEF SaveNode
    <2> QED
      BY <2>1, <2>2, <2>3, <2>5, <2>7, <2>8, <2>9, TxStepKeeps DEF IInv, TypeOK, TxPhases
  <1>3. ASSUME NEW p \in Procs, NodesDone(p) PROVE IInv'
    <2>1. pc[p] \in TxPhases
      BY <1>3 DEF NodesDone, TxPhases
    <2>2. /\ InOrder(work, graph.nodes) /\ graph.nodes \subseteq work.nodes
      BY <1>3, <2>1, HolderFacts DEF NodesDone
    <2>3. /\ UNCHANGED <<db, work, writer, graph, todoNodes, edge_count, result, ops>>
          /\ todoNodes = {} /\ todoEdges' = graph.edges
          /\ pc' = [pc EXCEPT ![p] = "edges"]
      BY <1>3 DEF NodesDone
    <2> QED
      BY <1>g, <2>1, <2>2, <2>3, TxStepKeeps DEF IInv, TypeOK, TxPhases
  <1>4. ASSUME NEW p \in Procs, SaveEdge(p) PROVE IInv'
    <2>1. pc[p] = "edges" /\ pc[p] \in TxPhases
      BY <1>4 DEF SaveEdge, TxPhases
    <2>2. /\ InOrder(work, graph.nodes) /\ graph.nodes \subseteq work.nodes
          /\ todoNodes \subseteq graph.nodes
      BY <2>1, HolderFacts
    <2>3. PICK e \in todoEdges :
            /\ todoEdges' = todoEdges \ {e}
            /\ IF Dangling(graph, e) THEN UNCHANGED <<work, edge_count>> ELSE AddEdgeRow(e)
      BY <1>4 DEF SaveEdge
    <2>4. InOrder(work', graph.nodes) /\ graph.nodes \subseteq work'.nodes /\ edge_count' \in Nat
      <3>1. CASE Dangling(graph, e)
        BY <2>2, <2>3, <3>1 DEF IInv, TypeOK, InOrder
      <3>2. CASE ~Dangling(graph, e)
        <4>1. e \in Edges /\ e.source \in work.nodes /\ e.target \in work.nodes
          BY <2>2, <2>3, <3>2 DEF Dangling, IInv, TypeOK
        <4>2. work' = InsertEdge(work, e) /\ work'.nodes = work.nodes
          BY <2>2, <2>3, <3>2 DEF AddEdgeRow, InsertEdge, InOrder, Tables
        <4>3. edge_count' \in Nat
          BY <2>3, <3>2 DEF AddEdgeRow, IInv, TypeOK
        <4> QED
          BY <2>2, <4>1, <4>2, <4>3, InsertEdgeInOrder
      <3> QED
        BY <3>1, <3>2
    <2>5. UNCHANGED <<db, writer, pc, graph, todoNodes, result, ops>>
      BY <1>4 DEF SaveEdge
    <2>6. pc' = [pc EXCEPT ![p] = "edges"] /\ pc'[p] = "edges"
      BY <2>1, <2>5 DEF IInv, TypeOK
    <2>7. todoEdges' \subseteq Edges
      BY <2>3 DEF IInv, TypeOK
    <2> QED
      BY <2>1, <2>2, <2>4, <2>5, <2>6, <2>7, TxStepKeeps DEF TxPhases
  <1>5. ASSUME NEW p \in Procs, EdgesDone(p) PROVE IInv'
    <2>1. pc[p] \in TxPhases /\ pc[p] # "nodes"
      BY <1>5 DEF EdgesDone, TxPhases
    <2>2. InOrder(work, graph.nodes) /\ graph.nodes \subseteq work.nodes
      BY <2>1, HolderFacts
    <2>3. /\ UNCHANGED <<db, work, writer, graph, todoEdges, edge_count, result, ops>>
          /\ todoNodes' = graph.nodes
          /\ pc' = [pc EXCEPT ![p] = "contains"]
      BY <1>5 DEF EdgesDone
    <2> QED
      BY <2>1, <2>2, <2>3, TxStepKeeps DEF IInv, TypeOK, TxPhases
  <1>6. ASSUME NEW p \in Procs, SaveContains(p) PROVE IInv'
    <2>1. pc[p] = "contains" /\ pc[p] \in TxPhases
      BY <1>6 DEF SaveContains, TxPhases
    <2>2. /\ InOrder(work, graph.nodes) /\ graph.nodes \subseteq work.nodes
          /\ todoNodes \subseteq graph.nodes
      BY <2>1, HolderFacts
    <2>3. PICK i \in todoNodes :
            /\ todoNodes' = todoNodes \ {i}
            /\ IF graph.parent[i] \in graph.nodes THEN AddEdgeRow(ContainsEdge(graph, i))
               ELSE UNCHANGED <<work, edge_count>>
      BY <1>6 DEF SaveContains
    <2>4. InOrder(work', graph.nodes) /\ graph.nodes \subseteq work'.nodes /\ edge_count' \in Nat
      <3>1. CASE graph.parent[i] \notin graph.nodes
        BY <2>2, <2>3, <3>1 DEF IInv, TypeOK, InOrder
      <3>2. CASE graph.parent[i] \in graph.nodes
        <4> DEFINE e == ContainsEdge(graph, i)
        <4>1. e \in Edges /\ e.source \in work.nodes /\ e.target \in work.nodes
          BY <1>g, <2>2, <2>3, <3>2, ConstantsAssumption DEF ContainsEdge, Edges
        <4>2. work' = InsertEdge(work, e) /\ work'.nodes = work.nodes
          BY <2>2, <2>3, <3>2 DEF AddEdgeRow, InsertEdge, InOrder, Tables
        <4>3. edge_count' \in Nat
          BY <2>3, <3>2 DEF AddEdgeRow, IInv, TypeOK
        <4> HIDE DEF e
        <4> QED
          BY <2>2, <4>1, <4>2, <4>3, InsertEdgeInOrder
      <3> QED
        BY <3>1, <3>2
    <2>5. UNCHANGED <<db, writer, pc, graph, todoEdges, result, ops>>
      BY <1>6 DEF SaveContains
    <2>6. pc' = [pc EXCEPT ![p] = "contains"] /\ pc'[p] = "contains"
      BY <2>1, <2>5 DEF IInv, TypeOK
    <2> QED
      BY <2>1, <2>2, <2>3, <2>4, <2>5, <2>6, TxStepKeeps DEF IInv, TypeOK, TxPhases
  <1>7. ASSUME NEW p \in Procs, ContainsDone(p) PROVE IInv'
    <2>1. pc[p] \in TxPhases /\ pc[p] # "nodes"
      BY <1>7 DEF ContainsDone, TxPhases
    <2>2. InOrder(work, graph.nodes) /\ graph.nodes \subseteq work.nodes
      BY <2>1, HolderFacts
    <2>3. /\ UNCHANGED <<db, work, writer, graph, todoNodes, todoEdges, edge_count, result, ops>>
          /\ todoNodes = {}
          /\ pc' = [pc EXCEPT ![p] = "file_hashes"]
      BY <1>7 DEF ContainsDone
    <2> QED
      BY <2>1, <2>2, <2>3, TxStepKeeps DEF IInv, TypeOK, TxPhases
  <1>8. ASSUME NEW p \in Procs, SaveHashes(p) PROVE IInv'
    <2>1. pc[p] \in TxPhases /\ pc[p] # "nodes"
      BY <1>8 DEF SaveHashes, TxPhases
    <2>2. /\ InOrder(work, graph.nodes) /\ graph.nodes \subseteq work.nodes
          /\ todoNodes \subseteq graph.nodes
      BY <2>1, HolderFacts
    <2>3. /\ UNCHANGED <<db, writer, graph, todoNodes, todoEdges, edge_count, result, ops>>
          /\ work' = InsertHashes(work, graph.hashes)
          /\ pc' = [pc EXCEPT ![p] = "commit"]
      BY <1>8 DEF SaveHashes
    <2>4. InOrder(work', graph.nodes) /\ work'.nodes = work.nodes
      <3> DEFINE h == [f \in Files |-> IF graph.hashes[f] # NoHash THEN graph.hashes[f]
                                       ELSE work.file_hashes[f]]
      <3>1. h \in [Files -> Hashes \cup {NoHash}]
        BY <1>g, <2>2 DEF InOrder, Tables
      <3>2. work' = [work EXCEPT !.file_hashes = h]
        BY <2>3 DEF InsertHashes
      <3> HIDE DEF h
      <3>3. work'.nodes = work.nodes
        BY <2>2, <3>2 DEF InOrder, Tables
      <3> QED
        BY <2>2, <3>1, <3>2, <3>3, HashesInOrder
    <2> QED
      BY <2>1, <2>2, <2>3, <2>4, TxStepKeeps DEF IInv, TypeOK, TxPhases
  <1>9. ASSUME NEW p \in Procs, Commit(p) PROVE IInv'
    <2>1. pc[p] \in TxPhases /\ pc[p] # "nodes"
      BY <1>9 DEF Commit, TxPhases
    <2>2. InOrder(work, {})
      BY <2>1, HolderFacts DEF InOrder
    <2>3. EndTx(p, work, "ok") \/ EndTx(p, db, "err")
      BY <1>9 DEF Commit
    <2>4. InOrder(db, {})
      BY DEF IInv
    <2> QED
      BY <2>1, <2>2, <2>3, <2>4, EndTxKeeps
  <1>10. ASSUME NEW p \in Procs, SaveFails(p) PROVE IInv'
    BY <1>10, EndTxKeeps DEF SaveFails, IInv
  <1>11. ASSUME NEW p \in Procs, remove_file_nodes(p) PROVE IInv'
    <2>1. PICK f \in Files :
            LET removed == {i \in db.nodes : FileOf[i] = f}
                d1 == [db EXCEPT !.edges = {e \in db.edges : ~Touches(e, removed)}]
                d2 == DeleteNodes(d1, removed)
            IN Autocommit([d2 EXCEPT !.file_hashes[f] = NoHash])
      BY <1>11 DEF remove_file_nodes
    <2> DEFINE removed == {i \in db.nodes : FileOf[i] = f}
               E == {e \in db.edges : ~Touches(e, removed)}
               d1 == [db EXCEPT !.edges = E]
               d2 == DeleteNodes(d1, removed)
               h == [d2.file_hashes EXCEPT ![f] = NoHash]
               d3 == [d2 EXCEPT !.file_hashes = h]
    <2>2. InOrder(db, {}) /\ E \in SUBSET db.edges
      BY DEF IInv
    <2>3. removed \in SUBSET Ids
      BY <2>2 DEF InOrder, Tables
    <2>4. Autocommit(d3)
      BY <2>1
    <2> HIDE DEF removed, E
    <2>5. InOrder(d1, {})
      BY <2>2, FewerEdgesInOrder
    <2> HIDE DEF d1
    <2>6. InOrder(d2, {})
      BY <2>3, <2>5, DeleteNodesInOrder
    <2> HIDE DEF d2
    <2>7. h \in [Files -> Hashes \cup {NoHash}]
      BY <2>6 DEF InOrder, Tables
    <2> HIDE DEF h
    <2>8. InOrder(d3, {})
      BY <2>6, <2>7, HashesInOrder
    <2> HIDE DEF d3
    <2>9. /\ pc[p] = "idle" /\ pc' = [pc EXCEPT ![p] = "idle"]
          /\ result' \in [Procs -> {"none", "ok", "err"}] /\ ops' \in 0 .. MaxOps
      BY <1>11, ConstantsAssumption DEF remove_file_nodes, StartOp, IInv, TypeOK
    <2> QED
      BY <2>4, <2>8, <2>9, AutocommitKeeps DEF TxPhases
  <1>12. ASSUME NEW p \in Procs, ClearEdges(p) PROVE IInv'
    <2>1. InOrder([db EXCEPT !.edges = {}], {})
      BY FewerEdgesInOrder DEF IInv
    <2>2. /\ pc[p] = "idle" /\ pc' = [pc EXCEPT ![p] = "clear_nodes"]
          /\ result' \in [Procs -> {"none", "ok", "err"}] /\ ops' \in 0 .. MaxOps
          /\ Autocommit([db EXCEPT !.edges = {}])
      BY <1>12, ConstantsAssumption DEF ClearEdges, StartOp, IInv, TypeOK
    <2> QED
      BY <2>1, <2>2, AutocommitKeeps DEF TxPhases, ClearPhases
  <1>13. ASSUME NEW p \in Procs, ClearNodes(p) PROVE IInv'
    <2>1. InOrder(DeleteNodes(db, db.nodes), {})
      <3>1. InOrder(db, {}) /\ db.nodes \in SUBSET Ids
        BY DEF IInv, InOrder, Tables
      <3> QED
        BY <3>1, DeleteNodesInOrder
    <2>2. /\ pc[p] = "clear_nodes" /\ pc' = [pc EXCEPT ![p] = "clear_hashes"]
          /\ result' \in [Procs -> {"none", "ok", "err"}] /\ ops' \in 0 .. MaxOps
          /\ Autocommit(DeleteNodes(db, db.nodes))
      BY <1>13 DEF ClearNodes, IInv, TypeOK
    <2> QED
      BY <2>1, <2>2, AutocommitKeeps DEF TxPhases, ClearPhases
  <1>14. ASSUME NEW p \in Procs, ClearHashes(p) PROVE IInv'
    <2> DEFINE h == [f \in Files |-> NoHash]
    <2>1. InOrder([db EXCEPT !.file_hashes = h], {})
      BY HashesInOrder, h \in [Files -> Hashes \cup {NoHash}] DEF IInv
    <2>2. /\ pc[p] = "clear_hashes" /\ pc' = [pc EXCEPT ![p] = "idle"]
          /\ result' \in [Procs -> {"none", "ok", "err"}] /\ ops' \in 0 .. MaxOps
          /\ Autocommit([db EXCEPT !.file_hashes = h])
      BY <1>14 DEF ClearHashes, IInv, TypeOK
    <2> HIDE DEF h
    <2> QED
      BY <2>1, <2>2, AutocommitKeeps DEF TxPhases, ClearPhases
  <1>15. ASSUME NEW p \in Procs, pc[p] \in ClearPhases, pc' = [pc EXCEPT ![p] = "idle"],
                UNCHANGED <<db, work, writer, graph, todoNodes, todoEdges, edge_count, ops>>,
                result' \in [Procs -> {"none", "ok", "err"}]
         PROVE IInv'
    <2>1. TypeOK'
      BY <1>15 DEF IInv, TypeOK
    <2>2. InOrder(db, {})'
      BY <1>15 DEF IInv, InOrder
    <2>3. LockHeld'
      BY <1>15 DEF IInv, LockHeld, TypeOK, TxPhases, ClearPhases
    <2>4. Transaction'
      <3>1. ASSUME writer # NoProc PROVE writer # p /\ pc'[writer] = pc[writer]
        BY <1>15, <3>1 DEF IInv, LockHeld, TypeOK, TxPhases, ClearPhases
      <3>2. InOrder(work, graph.nodes)' <=> InOrder(work, graph.nodes)
        BY <1>15 DEF InOrder
      <3> QED
        BY <1>15, <3>1, <3>2 DEF IInv, Transaction
    <2> QED
      BY <2>1, <2>2, <2>3, <2>4 DEF IInv
  <1>16. ASSUME NEW p \in Procs, ClearFails(p) PROVE IInv'
    BY <1>15, <1>16 DEF ClearFails, IInv, TypeOK
  <1>17. ASSUME NEW p \in Procs, Crash(p) PROVE IInv'
    <2>1. CASE pc[p] \in TxPhases /\ EndTx(p, db, "none")
      BY <2>1, EndTxKeeps DEF IInv
    <2>2. CASE /\ pc[p] \in ClearPhases
               /\ pc' = [pc EXCEPT ![p] = "idle"]
               /\ UNCHANGED <<db, work, writer, graph, todoNodes, todoEdges, edge_count, result, ops>>
      BY <1>15, <2>2 DEF IInv, TypeOK
    <2> QED
      BY <1>17, <2>1, <2>2 DEF Crash
  <1>18. ASSUME UNCHANGED vars PROVE IInv'
    BY <1>18 DEF vars, IInv, TypeOK, InOrder, LockHeld, Transaction
  <1> QED
    BY <1>1, <1>2, <1>3, <1>4, <1>5, <1>6, <1>7, <1>8, <1>9, <1>10, <1>11, <1>12, <1>13, <1>14,
       <1>16, <1>17, <1>18 DEF Next, Start, Continue

\* The inductive invariant holds in every reachable state of the store.
THEOREM Invariance == Spec => []IInv
  BY InitIInv, NextIInv, PTL DEF Spec

(***************************************************************************)
(* The theorems.                                                            *)
(***************************************************************************)

\* Every variable keeps its type.
THEOREM TypeCorrect == Spec => []TypeOK
  <1>1. IInv => TypeOK
    BY DEF IInv
  <1> QED
    BY <1>1, Invariance, PTL

\* Readers always find referentially intact tables (schema.rs:13-15).
THEOREM TablesAreIntact == Spec => []ReferentialIntegrity
  <1>1. IInv => ReferentialIntegrity
    BY DEF IInv, InOrder, ReferentialIntegrity, ForeignKeysHold
  <1> QED
    BY <1>1, Invariance, PTL

\* The deferred foreign-key check never fails a save (mod.rs:52-155).
THEOREM CommitNeverFails == Spec => []CommitSucceeds
  <1>1. IInv => CommitSucceeds
    <2> SUFFICES ASSUME IInv, NEW p \in Procs, pc[p] = "commit" PROVE ForeignKeysHold(work)
      BY DEF CommitSucceeds
    <2>1. pc[p] \in TxPhases /\ pc[p] # "nodes"
      BY DEF TxPhases
    <2> QED
      BY <2>1, HolderFacts DEF InOrder, ForeignKeysHold
  <1> QED
    BY <1>1, Invariance, PTL

\* Keyword search covers exactly the stored symbols (schema.rs:87-99), however
\* many duplicate index rows the replaces leave.
THEOREM SearchIsExact == Spec => []SearchCoversStore
  <1>1. IInv => SearchCoversStore
    BY DEF IInv, InOrder, SearchCoversStore
  <1> QED
    BY <1>1, Invariance, PTL

(***************************************************************************)
(* Refinement.  It needs to know what the open transaction has written so   *)
(* far, which the invariant above does not say.                             *)
(***************************************************************************)

\* The nodes that the save of g has inserted in phase ph, tn being left to do.
Done(g, ph, tn) == IF ph = "nodes" THEN g.nodes \ tn ELSE g.nodes

\* A parent that was stored before the save began may be lost.
MayLose(d, g) == {i \in g.nodes : g.parent[i] \in g.nodes /\ g.parent[i] \in d.nodes}

\* The rows of w are those of d with the nodes of D as g has them.
NodesWritten(d, w, g, D) ==
    /\ \A c : c \in w.nodes <=> c \in d.nodes \/ c \in D
    /\ \A c \in Ids : w.text[c] = IF c \in D THEN g.text[c] ELSE d.text[c]
    /\ \A c \in Ids \ D : w.parent[c] = IF d.parent[c] \in D THEN NoId ELSE d.parent[c]
    /\ \A c \in D : w.parent[c] = ParentIn(g, c) \/ (w.parent[c] = NoId /\ c \in MayLose(d, g))

\* The edges of g that are inserted.
Sent(e, g, ph, tn, te) ==
    \/ ph \notin {"nodes", "edges"} /\ e \in g.edges /\ ~Dangling(g, e)
    \/ ph = "edges" /\ e \in g.edges \ te /\ ~Dangling(g, e)
    \/ /\ ph \notin {"nodes", "edges"}
       /\ \E i \in g.nodes \ (IF ph = "contains" THEN tn ELSE {}) :
            g.parent[i] \in g.nodes /\ e = ContainsEdge(g, i)

\* Those of d that touch no node of D stay.
EdgesWritten(d, w, g, D, ph, tn, te) ==
    \A e : e \in w.edges <=> (e \in d.edges /\ ~Touches(e, D)) \/ Sent(e, g, ph, tn, te)

HashesWritten(d, w, g, ph) ==
    \A f \in Files : w.file_hashes[f] =
        IF ph = "commit" /\ g.hashes[f] # NoHash THEN g.hashes[f] ELSE d.file_hashes[f]

Written(d, w, g, ph, tn, te) ==
    /\ g \in Graphs
    /\ ph = "edges" => te \subseteq g.edges
    /\ NodesWritten(d, w, g, Done(g, ph, tn))
    /\ EdgesWritten(d, w, g, Done(g, ph, tn), ph, tn, te)
    /\ HashesWritten(d, w, g, ph)

WorkInv == writer # NoProc => Written(db, work, graph, pc[writer], todoNodes, todoEdges)

\* Who is not stored has no parent.
Unstored(d) == \A c \in Ids \ d.nodes : d.parent[c] = NoId

\* A save that goes on has returned nothing.
ResultInv == \A p \in Procs : pc[p] \in TxPhases => result[p] = "none"

RInv == IInv /\ WorkInv /\ Unstored(db) /\ ResultInv

(***************************************************************************)
(* What each statement of save_graph adds to the transaction.               *)
(***************************************************************************)

\* A node that is visited and was stored is replaced, children and all.
LEMMA SaveNodeWrites ==
    ASSUME NEW d, InOrder(d, {}), Unstored(d), NEW g \in CodeGraph,
           NEW tn \in SUBSET g.nodes, NEW te, NEW i \in tn,
           NEW w \in Tables, NEW r,
           NodesWritten(d, w, g, Done(g, "nodes", tn)),
           EdgesWritten(d, w, g, Done(g, "nodes", tn), "nodes", tn, te),
           Replaces(w, i, ParentIn(g, i), g.text[i], r)
    PROVE  /\ NodesWritten(d, r, g, Done(g, "nodes", tn \ {i}))
           /\ EdgesWritten(d, r, g, Done(g, "nodes", tn \ {i}), "nodes", tn \ {i}, te)
  <1> DEFINE D == g.nodes \ tn
             D2 == g.nodes \ (tn \ {i})
  <1>1. /\ d \in Tables /\ g.nodes \subseteq Ids /\ i \in g.nodes /\ i \in Ids /\ i # NoId
        /\ \A c : c \in D2 <=> c \in D \/ c = i
        /\ i \notin D
        /\ \A c \in D : c \in g.nodes /\ c \in Ids
    BY ConstantsAssumption DEF InOrder, CodeGraph
  <1>2. /\ \A c : c \in w.nodes <=> c \in d.nodes \/ c \in D
        /\ \A c \in Ids : w.text[c] = IF c \in D THEN g.text[c] ELSE d.text[c]
        /\ \A c \in Ids \ D : w.parent[c] = IF d.parent[c] \in D THEN NoId ELSE d.parent[c]
        /\ \A c \in D : w.parent[c] = ParentIn(g, c) \/ (w.parent[c] = NoId /\ c \in MayLose(d, g))
    BY DEF NodesWritten, Done
  <1>3. \A e : e \in w.edges <=> e \in d.edges /\ ~Touches(e, D)
    BY DEF EdgesWritten, Done, Sent
  <1>4. Done(g, "nodes", tn \ {i}) = D2
    BY DEF Done
  <1> HIDE DEF D, D2
  <1>5. \A c : c \in r.nodes <=> c \in d.nodes \/ c \in D2
    BY <1>1, <1>2 DEF Replaces
  <1>6. \A c \in Ids : r.text[c] = IF c \in D2 THEN g.text[c] ELSE d.text[c]
    BY <1>1, <1>2 DEF Replaces
  <1>7. ASSUME NEW c \in Ids \ {i}
        PROVE  /\ c \in Children(w, Conflicting(w, i)) <=>
                      c \in w.nodes /\ w.parent[c] = i /\ i \in w.nodes
               /\ r.parent[c] = IF c \in Children(w, Conflicting(w, i)) THEN NoId ELSE w.parent[c]
    BY DEF Replaces, Children, Conflicting
  <1>8. \A c \in Ids \ D2 : r.parent[c] = IF d.parent[c] \in D2 THEN NoId ELSE d.parent[c]
    <2> SUFFICES ASSUME NEW c \in Ids \ D2
                 PROVE  r.parent[c] = IF d.parent[c] \in D2 THEN NoId ELSE d.parent[c]
      OBVIOUS
    <2>1. c \in Ids \ {i} /\ c \notin D
      BY <1>1
    <2>2. w.parent[c] = IF d.parent[c] \in D THEN NoId ELSE d.parent[c]
      BY <1>2, <2>1
    <2>3. CASE d.parent[c] = i
      <3>1. c \in d.nodes /\ i \in d.nodes
        BY <1>1, <2>1, <2>3 DEF Unstored, InOrder
      <3>2. c \in w.nodes /\ i \in w.nodes /\ w.parent[c] = i
        BY <1>1, <1>2, <2>2, <2>3, <3>1
      <3> QED
        BY <1>1, <1>7, <2>1, <2>3, <3>2
    <2>4. CASE d.parent[c] # i
      <3>1. w.parent[c] # i
        BY <1>1, <2>2, <2>4
      <3> QED
        BY <1>1, <1>7, <2>1, <2>2, <2>4, <3>1
    <2> QED
      BY <2>3, <2>4
  <1>9. \A c \in D2 : r.parent[c] = ParentIn(g, c) \/ (r.parent[c] = NoId /\ c \in MayLose(d, g))
    <2> SUFFICES ASSUME NEW c \in D2, c # i
                 PROVE  \/ r.parent[c] = ParentIn(g, c)
                        \/ r.parent[c] = NoId /\ c \in MayLose(d, g)
      BY DEF Replaces
    <2>1. c \in D /\ c \in Ids \ {i} /\ c \in g.nodes
      BY <1>1
    <2>2. CASE c \in Children(w, Conflicting(w, i))
      <3>1. w.parent[c] = i /\ i \in w.nodes /\ r.parent[c] = NoId
        BY <1>7, <2>1, <2>2
      <3>2. i \in d.nodes
        BY <1>1, <1>2, <3>1
      <3>3. ParentIn(g, c) = i
        BY <1>1, <1>2, <2>1, <3>1
      <3>4. g.parent[c] = i
        BY <1>1, <3>3 DEF ParentIn
      <3> QED
        BY <1>1, <2>1, <3>1, <3>2, <3>4 DEF MayLose
    <2>3. CASE c \notin Children(w, Conflicting(w, i))
      BY <1>2, <1>7, <2>1, <2>3
    <2> QED
      BY <2>2, <2>3
  <1>10. \A e : e \in r.edges <=> e \in d.edges /\ ~Touches(e, D2)
    <2>1. \A e : e \in r.edges <=> e \in w.edges /\ ~Touches(e, Conflicting(w, i))
      BY DEF Replaces
    <2>2. \A e \in d.edges : e.source \in d.nodes /\ e.target \in d.nodes
      BY DEF InOrder
    <2> QED
      BY <1>1, <1>2, <1>3, <2>1, <2>2 DEF Touches, Conflicting
  <1>11. \A e : ~Sent(e, g, "nodes", tn \ {i}, te)
    BY DEF Sent
  <1> QED
    BY <1>4, <1>5, <1>6, <1>8, <1>9, <1>10, <1>11 DEF NodesWritten, EdgesWritten

\* An edge row leaves the other columns alone.
LEMMA InsertEdgeFacts ==
    ASSUME NEW w \in Tables, NEW e \in Edges
    PROVE  /\ InsertEdge(w, e) \in Tables
           /\ \A x : x \in InsertEdge(w, e).edges <=> x \in w.edges \/ x = e
           /\ InsertEdge(w, e).nodes = w.nodes /\ InsertEdge(w, e).parent = w.parent
           /\ InsertEdge(w, e).text = w.text
           /\ InsertEdge(w, e).file_hashes = w.file_hashes
  BY DEF InsertEdge, Tables

\* What the step of a save relies on, and what it has to show.
LEMMA WriterFacts ==
    ASSUME RInv, NEW p \in Procs, pc[p] \in TxPhases
    PROVE  /\ writer = p /\ writer # NoProc
           /\ Written(db, work, graph, pc[p], todoNodes, todoEdges)
           /\ db \in Tables /\ work \in Tables /\ graph \in CodeGraph
           /\ graph.nodes \subseteq Ids /\ graph.edges \subseteq Edges
           /\ \A i \in Ids : graph.text[i] \in Texts /\ graph.parent[i] \in Ids \cup {NoId}
           /\ todoNodes \subseteq graph.nodes
           /\ result[p] = "none"
  <1>1. writer = p /\ writer # NoProc /\ todoNodes \subseteq graph.nodes
    BY HolderFacts, ConstantsAssumption DEF RInv
  <1>2. Written(db, work, graph, pc[p], todoNodes, todoEdges)
    BY <1>1 DEF RInv, WorkInv
  <1>3. graph \in Graphs \cup {NewGraph} /\ db \in Tables /\ work \in Tables
    BY DEF RInv, IInv, TypeOK
  <1> QED
    BY <1>1, <1>2, <1>3, GraphType DEF RInv, ResultInv

LEMMA TxStepWrites ==
    ASSUME RInv, IInv', NEW p \in Procs, pc[p] \in TxPhases,
           UNCHANGED <<db, writer, graph, result>>,
           NEW l \in TxPhases, pc' = [pc EXCEPT ![p] = l],
           Written(db, work', graph, l, todoNodes', todoEdges')
    PROVE  RInv'
  <1>1. pc \in [Procs -> {"idle"} \cup TxPhases \cup ClearPhases]
    BY DEF RInv, IInv, TypeOK
  <1>2. WorkInv'
    <2>1. writer' = p /\ pc'[p] = l
      BY <1>1, WriterFacts
    <2>2. Written(db', work', graph', l, todoNodes', todoEdges')
      OBVIOUS
    <2> QED
      BY <2>1, <2>2 DEF WorkInv
  <1>3. Unstored(db)'
    BY DEF RInv, Unstored
  <1>4. ResultInv'
    BY <1>1 DEF RInv, ResultInv
  <1> QED
    BY <1>2, <1>3, <1>4 DEF RInv

\* The edges written stand for another point of the loops that sent as many.
LEMMA EdgesKept ==
    ASSUME NEW d, NEW w, NEW g, NEW D, NEW ph, NEW tn, NEW te,
           NEW ph2, NEW tn2, NEW te2,
           EdgesWritten(d, w, g, D, ph, tn, te),
           \A e : Sent(e, g, ph, tn, te) <=> Sent(e, g, ph2, tn2, te2)
    PROVE  EdgesWritten(d, w, g, D, ph2, tn2, te2)
  BY DEF EdgesWritten

LEMMA EdgeAdded ==
    ASSUME NEW d, NEW w \in Tables, NEW g, NEW D, NEW ph, NEW tn, NEW te,
           NEW tn2, NEW te2, NEW x \in Edges,
           NodesWritten(d, w, g, D), HashesWritten(d, w, g, ph),
           EdgesWritten(d, w, g, D, ph, tn, te),
           \A e : Sent(e, g, ph, tn2, te2) <=> Sent(e, g, ph, tn, te) \/ e = x
    PROVE  /\ NodesWritten(d, InsertEdge(w, x), g, D)
           /\ HashesWritten(d, InsertEdge(w, x), g, ph)
           /\ EdgesWritten(d, InsertEdge(w, x), g, D, ph, tn2, te2)
  BY InsertEdgeFacts DEF NodesWritten, HashesWritten, EdgesWritten

LEMMA EndTxWrites ==
    ASSUME RInv, IInv', NEW p \in Procs, pc[p] \in TxPhases,
           NEW d, Unstored(d), NEW r, EndTx(p, d, r)
    PROVE  RInv'
  <1>1. pc \in [Procs -> {"idle"} \cup TxPhases \cup ClearPhases]
        /\ result \in [Procs -> {"none", "ok", "err"}]
    BY DEF RInv, IInv, TypeOK
  <1>2. WorkInv'
    BY DEF EndTx, WorkInv
  <1>3. Unstored(db)'
    BY DEF EndTx, Unstored
  <1>4. ResultInv'
    BY <1>1 DEF RInv, ResultInv, EndTx, TxPhases
  <1> QED
    BY <1>2, <1>3, <1>4 DEF RInv

LEMMA AutocommitWrites ==
    ASSUME RInv, IInv', NEW p \in Procs, NEW d, Unstored(d), Autocommit(d),
           NEW l \in {"idle"} \cup ClearPhases, pc' = [pc EXCEPT ![p] = l],
           NEW r, result' = [result EXCEPT ![p] = r]
    PROVE  RInv'
  <1>1. pc \in [Procs -> {"idle"} \cup TxPhases \cup ClearPhases]
        /\ result \in [Procs -> {"none", "ok", "err"}]
    BY DEF RInv, IInv, TypeOK
  <1>2. WorkInv'
    BY DEF Autocommit, WorkInv
  <1>3. Unstored(db)'
    BY DEF Autocommit, Unstored
  <1>4. ResultInv'
    BY <1>1 DEF RInv, ResultInv, TxPhases, ClearPhases
  <1> QED
    BY <1>2, <1>3, <1>4 DEF RInv

\* Rows that leave take their parent with them.
LEMMA DeletedAreUnstored ==
    ASSUME NEW d \in Tables, Unstored(d), NEW S \in SUBSET Ids
    PROVE  Unstored(DeleteNodes(d, S))
  BY DeleteNodesFacts DEF Unstored

LEMMA WorkUnstored ==
    ASSUME NEW d, NEW w, NEW g, NEW D, Unstored(d), NodesWritten(d, w, g, D)
    PROVE  Unstored(w)
  BY DEF Unstored, NodesWritten

LEMMA InitRInv == Init => RInv
  <1> SUFFICES ASSUME Init PROVE RInv
    OBVIOUS
  <1>1. IInv
    BY InitIInv
  <1>2. WorkInv /\ Unstored(db) /\ ResultInv
    BY DEF Init, WorkInv, Unstored, ResultInv, EmptyTables, TxPhases
  <1> QED
    BY <1>1, <1>2 DEF RInv

LEMMA NextRInv == RInv /\ [Next]_vars => RInv'
  <1> SUFFICES ASSUME RInv, [Next]_vars PROVE RInv'
    OBVIOUS
  <1>t. /\ IInv /\ IInv'
        /\ pc \in [Procs -> {"idle"} \cup TxPhases \cup ClearPhases]
        /\ result \in [Procs -> {"none", "ok", "err"}]
        /\ InOrder(db, {}) /\ db \in Tables /\ Unstored(db)
    BY NextIInv DEF RInv, IInv, TypeOK
  <1>1. ASSUME NEW p \in Procs, SaveBegin(p) PROVE RInv'
    <2>1. PICK g \in Graphs : graph' = g /\ todoNodes' = g.nodes
      BY <1>1 DEF SaveBegin
    <2>2. /\ work' = db /\ db' = db /\ writer' = p
          /\ pc'[p] = "nodes" /\ result'[p] = "none"
          /\ \A q \in Procs \ {p} : pc'[q] = pc[q] /\ result'[q] = result[q]
      BY <1>t, <1>1 DEF SaveBegin
    <2>3. Done(g, "nodes", g.nodes) = {}
      BY DEF Done
    <2>4. NodesWritten(db, db, g, {}) /\ HashesWritten(db, db, g, "nodes")
      BY DEF NodesWritten, HashesWritten
    <2>5. EdgesWritten(db, db, g, {}, "nodes", g.nodes, todoEdges')
      BY DEF EdgesWritten, Sent, Touches
    <2>6. WorkInv'
      BY <2>1, <2>2, <2>3, <2>4, <2>5 DEF WorkInv, Written
    <2> QED
      BY <1>t, <2>2, <2>6 DEF RInv, Unstored, ResultInv
  <1>2. ASSUME NEW p \in Procs, SaveNode(p) PROVE RInv'
    <2>1. pc[p] = "nodes" /\ pc[p] \in TxPhases
      BY <1>2 DEF SaveNode, TxPhases
    <2>2. PICK i \in todoNodes :
            /\ work' = ReplaceNode(work, i, ParentIn(graph, i), graph.text[i])
            /\ todoNodes' = todoNodes \ {i}
      BY <1>2 DEF SaveNode
    <2>3. /\ Written(db, work, graph, "nodes", todoNodes, todoEdges)
          /\ work \in Tables /\ graph \in CodeGraph /\ todoNodes \in SUBSET graph.nodes
          /\ i \in Ids /\ ParentIn(graph, i) \in Ids \cup {NoId} /\ graph.text[i] \in Texts
      BY <2>1, WriterFacts DEF ParentIn
    <2>4. Replaces(work, i, ParentIn(graph, i), graph.text[i], work')
      BY <2>2, <2>3, ReplaceNodeFacts
    <2>5. /\ NodesWritten(db, work', graph, Done(graph, "nodes", todoNodes \ {i}))
          /\ EdgesWritten(db, work', graph, Done(graph, "nodes", todoNodes \ {i}),
                          "nodes", todoNodes \ {i}, todoEdges)
      BY <1>t, <2>3, <2>4, SaveNodeWrites DEF Written
    <2>6. HashesWritten(db, work', graph, "nodes")
      BY <2>3, <2>4 DEF Written, HashesWritten, Replaces
    <2>7. /\ UNCHANGED <<db, writer, graph, todoEdges, result>>
          /\ pc' = [pc EXCEPT ![p] = "nodes"]
      BY <1>t, <1>2, <2>1 DEF SaveNode
    <2>8. Written(db, work', graph, "nodes", todoNodes', todoEdges')
      BY <2>2, <2>3, <2>5, <2>6, <2>7 DEF Written
    <2> QED
      BY <1>t, <2>1, <2>7, <2>8, TxStepWrites
  <1>3. ASSUME NEW p \in Procs, NodesDone(p) PROVE RInv'
    <2>1. pc[p] = "nodes" /\ pc[p] \in TxPhases /\ "edges" \in TxPhases
      BY <1>3 DEF NodesDone, TxPhases
    <2>2. /\ todoNodes = {} /\ todoNodes' = {} /\ todoEdges' = graph.edges
          /\ UNCHANGED <<db, work, writer, graph, result>>
          /\ pc' = [pc EXCEPT ![p] = "edges"]
      BY <1>3 DEF NodesDone
    <2>3. Written(db, work, graph, "nodes", {}, todoEdges)
      BY <2>1, <2>2, WriterFacts
    <2>4. Done(graph, "nodes", {}) = graph.nodes /\ Done(graph, "edges", {}) = graph.nodes
      BY DEF Done
    <2>5. \A e : Sent(e, graph, "nodes", {}, todoEdges) <=> Sent(e, graph, "edges", {}, graph.edges)
      BY DEF Sent
    <2>6. EdgesWritten(db, work, graph, graph.nodes, "edges", {}, graph.edges)
      BY <2>3, <2>4, <2>5, EdgesKept DEF Written
    <2>7. Written(db, work', graph, "edges", todoNodes', todoEdges')
      BY <2>2, <2>3, <2>4, <2>6 DEF Written, HashesWritten
    <2> QED
      BY <1>t, <2>1, <2>2, <2>7, TxStepWrites
  <1>4. ASSUME NEW p \in Procs, SaveEdge(p) PROVE RInv'
    <2>1. pc[p] = "edges" /\ pc[p] \in TxPhases
      BY <1>4 DEF SaveEdge, TxPhases
    <2>2. PICK e \in todoEdges :
            /\ todoEdges' = todoEdges \ {e}
            /\ IF Dangling(graph, e) THEN UNCHANGED <<work, edge_count>> ELSE AddEdgeRow(e)
      BY <1>4 DEF SaveEdge
    <2>3. /\ UNCHANGED <<db, writer, graph, todoNodes, result>>
          /\ pc' = [pc EXCEPT ![p] = "edges"]
      BY <1>t, <1>4, <2>1 DEF SaveEdge
    <2>4. /\ Written(db, work, graph, "edges", todoNodes, todoEdges)
          /\ work \in Tables /\ e \in Edges
      BY <1>t, <2>1, WriterFacts DEF IInv, TypeOK
    <2>5. Done(graph, "edges", todoNodes) = graph.nodes
      BY DEF Done
    <2>6. Written(db, work', graph, "edges", todoNodes', todoEdges')
      <3>1. CASE Dangling(graph, e)
        <4>1. \A x : Sent(x, graph, "edges", todoNodes, todoEdges)
                        <=> Sent(x, graph, "edges", todoNodes, todoEdges \ {e})
          BY <3>1 DEF Sent
        <4>2. EdgesWritten(db, work, graph, graph.nodes, "edges", todoNodes, todoEdges \ {e})
          BY <2>4, <2>5, <4>1, EdgesKept DEF Written
        <4> QED
          BY <2>2, <2>3, <2>4, <2>5, <3>1, <4>2 DEF Written
      <3>2. CASE ~Dangling(graph, e)
        <4>1. \A x : Sent(x, graph, "edges", todoNodes, todoEdges \ {e})
                        <=> Sent(x, graph, "edges", todoNodes, todoEdges) \/ x = e
          BY <2>4, <3>2 DEF Sent, Written
        <4>2. work' = InsertEdge(work, e)
          BY <2>2, <3>2 DEF AddEdgeRow
        <4> QED
          BY <2>2, <2>3, <2>4, <2>5, <4>1, <4>2, EdgeAdded DEF Written
      <3> QED
        BY <3>1, <3>2
    <2> QED
      BY <1>t, <2>1, <2>3, <2>6, TxStepWrites
  <1>5. ASSUME NEW p \in Procs, EdgesDone(p) PROVE RInv'
    <2>1. pc[p] = "edges" /\ pc[p] \in TxPhases /\ "contains" \in TxPhases
      BY <1>5 DEF EdgesDone, TxPhases
    <2>2. /\ todoEdges = {} /\ todoEdges' = {} /\ todoNodes' = graph.nodes
          /\ UNCHANGED <<db, work, writer, graph, result>>
          /\ pc' = [pc EXCEPT ![p] = "contains"]
      BY <1>5 DEF EdgesDone
    <2>3. Written(db, work, graph, "edges", todoNodes, {})
      BY <2>1, <2>2, WriterFacts
    <2>4. \A x : Done(graph, "edges", x) = graph.nodes /\ Done(graph, "contains", x) = graph.nodes
      BY DEF Done
    <2>5. \A e : Sent(e, graph, "edges", todoNodes, {}) <=> Sent(e, graph, "contains", graph.nodes, {})
      BY DEF Sent
    <2>6. EdgesWritten(db, work, graph, graph.nodes, "contains", graph.nodes, {})
      BY <2>3, <2>4, <2>5, EdgesKept DEF Written
    <2>7. Written(db, work', graph, "contains", todoNodes', todoEdges')
      BY <2>2, <2>3, <2>4, <2>6 DEF Written, HashesWritten
    <2> QED
      BY <1>t, <2>1, <2>2, <2>7, TxStepWrites
  <1>6. ASSUME NEW p \in Procs, SaveContains(p) PROVE RInv'
    <2>1. pc[p] = "contains" /\ pc[p] \in TxPhases
      BY <1>6 DEF SaveContains, TxPhases
    <2>2. PICK i \in todoNodes :
            /\ todoNodes' = todoNodes \ {i}
            /\ IF graph.parent[i] \in graph.nodes THEN AddEdgeRow(ContainsEdge(graph, i))
               ELSE UNCHANGED <<work, edge_count>>
      BY <1>6 DEF SaveContains
    <2>3. /\ UNCHANGED <<db, writer, graph, todoEdges, result>>
          /\ pc' = [pc EXCEPT ![p] = "contains"]
      BY <1>t, <1>6, <2>1 DEF SaveContains
    <2>4. /\ Written(db, work, graph, "contains", todoNodes, todoEdges)
          /\ work \in Tables /\ i \in graph.nodes /\ i \in Ids /\ graph.nodes \subseteq Ids
      BY <2>1, WriterFacts
    <2>5. \A x : Done(graph, "contains", x) = graph.nodes
      BY DEF Done
    <2>6. Written(db, work', graph, "contains", todoNodes', todoEdges')
      <3>1. CASE graph.parent[i] \notin graph.nodes
        <4>1. \A x : Sent(x, graph, "contains", todoNodes, todoEdges)
                        <=> Sent(x, graph, "contains", todoNodes \ {i}, todoEdges)
          BY <3>1 DEF Sent
        <4>2. EdgesWritten(db, work, graph, graph.nodes, "contains", todoNodes \ {i}, todoEdges)
          BY <2>4, <2>5, <4>1, EdgesKept DEF Written
        <4> QED
          BY <2>2, <2>3, <2>4, <2>5, <3>1, <4>2 DEF Written
      <3>2. CASE graph.parent[i] \in graph.nodes
        <4> DEFINE e == ContainsEdge(graph, i)
        <4>1. e \in Edges
          BY <2>4, <3>2, ConstantsAssumption DEF ContainsEdge, Edges
        <4>2. \A x : Sent(x, graph, "contains", todoNodes \ {i}, todoEdges)
                        <=> Sent(x, graph, "contains", todoNodes, todoEdges) \/ x = e
          BY <2>4, <3>2 DEF Sent
        <4>3. work' = InsertEdge(work, e)
          BY <2>2, <3>2 DEF AddEdgeRow
        <4> HIDE DEF e
        <4> QED
          BY <2>2, <2>3, <2>4, <2>5, <4>1, <4>2, <4>3, EdgeAdded DEF Written
      <3> QED
        BY <3>1, <3>2
    <2> QED
      BY <1>t, <2>1, <2>3, <2>6, TxStepWrites
  <1>7. ASSUME NEW p \in Procs, ContainsDone(p) PROVE RInv'
    <2>1. pc[p] = "contains" /\ pc[p] \in TxPhases /\ "file_hashes" \in TxPhases
      BY <1>7 DEF ContainsDone, TxPhases
    <2>2. /\ todoNodes = {} /\ UNCHANGED <<db, work, writer, graph, todoNodes, todoEdges, result>>
          /\ pc' = [pc EXCEPT ![p] = "file_hashes"]
      BY <1>7 DEF ContainsDone
    <2>3. Written(db, work, graph, "contains", {}, todoEdges)
      BY <2>1, <2>2, WriterFacts
    <2>4. Done(graph, "contains", {}) = graph.nodes /\ Done(graph, "file_hashes", {}) = graph.nodes
      BY DEF Done
    <2>5. \A e : Sent(e, graph, "contains", {}, todoEdges)
                    <=> Sent(e, graph, "file_hashes", {}, todoEdges)
      BY DEF Sent
    <2>6. EdgesWritten(db, work, graph, graph.nodes, "file_hashes", {}, todoEdges)
      BY <2>3, <2>4, <2>5, EdgesKept DEF Written
    <2>7. Written(db, work', graph, "file_hashes", todoNodes', todoEdges')
      BY <2>2, <2>3, <2>4, <2>6 DEF Written, HashesWritten
    <2> QED
      BY <1>t, <2>1, <2>2, <2>7, TxStepWrites
  <1>8. ASSUME NEW p \in Procs, SaveHashes(p) PROVE RInv'
    <2>1. pc[p] = "file_hashes" /\ pc[p] \in TxPhases /\ "commit" \in TxPhases
      BY <1>8 DEF SaveHashes, TxPhases
    <2>2. /\ work' = InsertHashes(work, graph.hashes)
          /\ UNCHANGED <<db, writer, graph, todoNodes, todoEdges, result>>
          /\ pc' = [pc EXCEPT ![p] = "commit"]
      BY <1>8 DEF SaveHashes
    <2>3. Written(db, work, graph, "file_hashes", todoNodes, todoEdges) /\ work \in Tables
      BY <2>1, WriterFacts
    <2>4. /\ work'.nodes = work.nodes /\ work'.parent = work.parent /\ work'.text = work.text
          /\ work'.edges = work.edges
          /\ \A f \in Files : work'.file_hashes[f] =
                IF graph.hashes[f] # NoHash THEN graph.hashes[f] ELSE work.file_hashes[f]
      BY <2>2, <2>3 DEF InsertHashes, Tables
    <2>5. Done(graph, "file_hashes", todoNodes) = graph.nodes
          /\ Done(graph, "commit", todoNodes) = graph.nodes
      BY DEF Done
    <2>6. \A e : Sent(e, graph, "file_hashes", todoNodes, todoEdges)
                    <=> Sent(e, graph, "commit", todoNodes, todoEdges)
      BY DEF Sent
    <2>7. EdgesWritten(db, work, graph, graph.nodes, "commit", todoNodes, todoEdges)
      BY <2>3, <2>5, <2>6, EdgesKept DEF Written
    <2>8. NodesWritten(db, work', graph, graph.nodes)
      BY <2>3, <2>4, <2>5 DEF Written, NodesWritten
    <2>9. EdgesWritten(db, work', graph, graph.nodes, "commit", todoNodes, todoEdges)
      BY <2>4, <2>7 DEF EdgesWritten
    <2>10. HashesWritten(db, work', graph, "commit")
      BY <2>3, <2>4 DEF Written, HashesWritten
    <2>11. Written(db, work', graph, "commit", todoNodes', todoEdges')
      BY <2>2, <2>3, <2>5, <2>8, <2>9, <2>10 DEF Written
    <2> QED
      BY <1>t, <2>1, <2>2, <2>11, TxStepWrites
  <1>9. ASSUME NEW p \in Procs, Commit(p) PROVE RInv'
    <2>1. pc[p] \in TxPhases
      BY <1>9 DEF Commit, TxPhases
    <2>2. Unstored(work)
      BY <1>t, <2>1, WriterFacts, WorkUnstored DEF Written
    <2> QED
      BY <1>t, <1>9, <2>1, <2>2, EndTxWrites DEF Commit
  <1>10. ASSUME NEW p \in Procs, SaveFails(p) PROVE RInv'
    BY <1>t, <1>10, EndTxWrites DEF SaveFails
  <1>11. ASSUME NEW p \in Procs, remove_file_nodes(p) PROVE RInv'
    <2>1. PICK f \in Files :
            LET removed == {i \in db.nodes : FileOf[i] = f}
                d1 == [db EXCEPT !.edges = {e \in db.edges : ~Touches(e, removed)}]
                d2 == DeleteNodes(d1, removed)
            IN Autocommit([d2 EXCEPT !.file_hashes[f] = NoHash])
      BY <1>11 DEF remove_file_nodes
    <2> DEFINE removed == {i \in db.nodes : FileOf[i] = f}
               E == {e \in db.edges : ~Touches(e, removed)}
               d1 == [db EXCEPT !.edges = E]
               d2 == DeleteNodes(d1, removed)
               d3 == [d2 EXCEPT !.file_hashes[f] = NoHash]
    <2>2. Autocommit(d3)
      BY <2>1
    <2>3. removed \in SUBSET Ids /\ E \subseteq Edges
      BY <1>t DEF Tables
    <2> HIDE DEF removed, E
    <2>4. d1 \in Tables /\ Unstored(d1)
      BY <1>t, <2>3 DEF Tables, Unstored
    <2> HIDE DEF d1
    <2>5. d2 \in Tables /\ Unstored(d2)
      BY <2>3, <2>4, DeletedAreUnstored, DeleteNodesFacts
    <2> HIDE DEF d2
    <2>6. Unstored(d3)
      BY <2>5 DEF Tables, Unstored
    <2> HIDE DEF d3
    <2>7. pc' = [pc EXCEPT ![p] = "idle"] /\ result' = [result EXCEPT ![p] = "ok"]
      BY <1>t, <1>11 DEF remove_file_nodes, StartOp
    <2> QED
      BY <1>t, <2>2, <2>6, <2>7, AutocommitWrites
  <1>12. ASSUME NEW p \in Procs, ClearEdges(p) PROVE RInv'
    <2>1. Unstored([db EXCEPT !.edges = {}])
      BY <1>t DEF Unstored, Tables
    <2> QED
      BY <1>t, <1>12, <2>1, AutocommitWrites DEF ClearEdges, ClearPhases
  <1>13. ASSUME NEW p \in Procs, ClearNodes(p) PROVE RInv'
    <2>1. Unstored(DeleteNodes(db, db.nodes))
      BY <1>t, DeletedAreUnstored DEF Tables
    <2>2. result' = [result EXCEPT ![p] = result[p]]
      BY <1>t, <1>13 DEF ClearNodes
    <2> QED
      BY <1>t, <1>13, <2>1, <2>2, AutocommitWrites DEF ClearNodes, ClearPhases
  <1>14. ASSUME NEW p \in Procs, ClearHashes(p) PROVE RInv'
    <2>1. Unstored([db EXCEPT !.file_hashes = [f \in Files |-> NoHash]])
      BY <1>t DEF Unstored, Tables
    <2> QED
      BY <1>t, <1>14, <2>1, AutocommitWrites DEF ClearHashes
  <1>15. ASSUME NEW p \in Procs, pc[p] \in ClearPhases, pc' = [pc EXCEPT ![p] = "idle"],
                UNCHANGED <<db, work, writer, graph, todoNodes, todoEdges>>,
                NEW r, result' = [result EXCEPT ![p] = r]
         PROVE RInv'
    <2>1. writer # p
      BY <1>15 DEF RInv, IInv, LockHeld, TxPhases, ClearPhases
    <2>2. ASSUME writer # NoProc PROVE pc'[writer] = pc[writer]
      BY <1>t, <1>15, <2>1, <2>2 DEF RInv, IInv, TypeOK
    <2>3. WorkInv'
      BY <1>15, <2>2 DEF RInv, WorkInv
    <2>4. ResultInv'
      BY <1>t, <1>15 DEF RInv, ResultInv, TxPhases, ClearPhases
    <2> QED
      BY <1>t, <1>15, <2>3, <2>4 DEF RInv, Unstored
  <1>16. ASSUME NEW p \in Procs, ClearFails(p) PROVE RInv'
    BY <1>15, <1>16 DEF ClearFails
  <1>17. ASSUME NEW p \in Procs, Crash(p) PROVE RInv'
    <2>1. CASE pc[p] \in TxPhases /\ EndTx(p, db, "none")
      BY <1>t, <2>1, EndTxWrites
    <2>2. CASE /\ pc[p] \in ClearPhases
               /\ pc' = [pc EXCEPT ![p] = "idle"]
               /\ UNCHANGED <<db, work, writer, graph, todoNodes, todoEdges, edge_count, result, ops>>
      <3>1. result' = [result EXCEPT ![p] = result[p]]
        BY <1>t, <2>2
      <3> QED
        BY <1>15, <2>2, <3>1
    <2> QED
      BY <1>17, <2>1, <2>2 DEF Crash
  <1>18. ASSUME UNCHANGED vars PROVE RInv'
    BY <1>t, <1>18 DEF vars, RInv, WorkInv, Unstored, ResultInv
  <1> QED
    BY <1>1, <1>2, <1>3, <1>4, <1>5, <1>6, <1>7, <1>8, <1>9, <1>10, <1>11, <1>12, <1>13, <1>14,
       <1>16, <1>17, <1>18 DEF Next, Start, Continue

\* What the open transaction has written holds in every reachable state.
THEOREM WrittenInvariance == Spec => []RInv
  BY InitRInv, NextRInv, PTL DEF Spec

(***************************************************************************)
(* What a save that returns Ok leaves behind.                               *)
(***************************************************************************)

LEMMA SentAreEdgeRows ==
    ASSUME NEW g, NEW tn, NEW te, NEW e
    PROVE  Sent(e, g, "commit", tn, te) <=> e \in EdgeRows(g)
  BY DEF Sent, EdgeRows

LEMMA EdgeRowsTouch ==
    ASSUME NEW g, NEW e \in EdgeRows(g)
    PROVE  Touches(e, g.nodes)
  <1>1. CASE e \in g.edges /\ ~Dangling(g, e)
    BY <1>1 DEF Dangling, Touches
  <1>2. CASE \E i \in g.nodes : e = ContainsEdge(g, i)
    BY <1>2 DEF ContainsEdge, Touches
  <1> QED
    BY <1>1, <1>2 DEF EdgeRows

\* What is committed, column by column.
Saved(d, r, g) ==
    /\ NodesWritten(d, r, g, g.nodes)
    /\ \A e : e \in r.edges <=> (e \in d.edges /\ ~Touches(e, g.nodes)) \/ e \in EdgeRows(g)
    /\ \A f \in Files : r.file_hashes[f] =
          IF g.hashes[f] # NoHash THEN g.hashes[f] ELSE d.file_hashes[f]

LEMMA WrittenIsSaved ==
    ASSUME RInv, NEW p \in Procs, pc[p] = "commit"
    PROVE  graph \in Graphs /\ Saved(db, work, graph)
  <1>1. Written(db, work, graph, "commit", todoNodes, todoEdges)
    BY WriterFacts DEF TxPhases
  <1>2. Done(graph, "commit", todoNodes) = graph.nodes
    BY DEF Done
  <1> QED
    BY <1>1, <1>2, SentAreEdgeRows DEF Written, EdgesWritten, HashesWritten, Saved

\* Only the COMMIT of the process itself returns Ok.
LEMMA SavesCommits ==
    ASSUME RInv, [Next]_vars, NEW p \in Procs, Saves(p)
    PROVE  db' = work /\ graph \in Graphs /\ Saved(db, db', graph)
  <1>1. /\ pc[p] = "commit" /\ pc[p] \in TxPhases /\ result[p] = "none" /\ result'[p] = "ok"
        /\ result \in [Procs -> {"none", "ok", "err"}]
    BY WriterFacts DEF Saves, TxPhases, RInv, IInv, TypeOK
  <1>2. PICK q \in Procs : Start(q) \/ Continue(q) \/ SaveFails(q) \/ ClearFails(q) \/ Crash(q)
    BY <1>1 DEF Next, vars
  <1>3. result' # result
    BY <1>1
  <1>4. CASE Start(q)
    BY <1>1, <1>4 DEF Start, StartOp, SaveBegin, remove_file_nodes, ClearEdges
  <1>5. CASE Continue(q)
    <2>1. Commit(q) \/ ClearHashes(q)
      BY <1>3, <1>5 DEF Continue, SaveNode, NodesDone, SaveEdge, EdgesDone, SaveContains,
                        ContainsDone, SaveHashes, ClearNodes
    <2>2. CASE ClearHashes(q)
      BY <1>1, <2>2 DEF ClearHashes
    <2>3. CASE Commit(q)
      <3>1. q = p /\ EndTx(p, work, "ok")
        BY <1>1, <2>3 DEF Commit, EndTx
      <3> QED
        BY <1>1, <3>1, WrittenIsSaved DEF EndTx
    <2> QED
      BY <2>1, <2>2, <2>3
  <1>6. CASE SaveFails(q) \/ ClearFails(q) \/ Crash(q)
    BY <1>1, <1>6 DEF SaveFails, ClearFails, Crash, EndTx
  <1> QED
    BY <1>2, <1>4, <1>5, <1>6

\* A save replaces: a call deleted from the source is gone (mod.rs:50-158).
THEOREM StaleEdgesLeave == Spec => SaveReplacesEdges
  <1>1. RInv /\ [Next]_vars =>
          [\A p \in Procs : Saves(p) =>
             {e \in db'.edges : Touches(e, graph.nodes)} = EdgeRows(graph)]_vars
    <2> SUFFICES ASSUME RInv, [Next]_vars, NEW p \in Procs, Saves(p)
                 PROVE  {e \in db'.edges : Touches(e, graph.nodes)} = EdgeRows(graph)
      OBVIOUS
    <2>1. \A e : e \in db'.edges <=>
                   (e \in db.edges /\ ~Touches(e, graph.nodes)) \/ e \in EdgeRows(graph)
      BY SavesCommits DEF Saved
    <2>2. \A e \in EdgeRows(graph) : Touches(e, graph.nodes)
      BY EdgeRowsTouch
    <2> QED
      BY <2>1, <2>2
  <1> QED
    BY <1>1, WrittenInvariance, PTL DEF Spec, SaveReplacesEdges

\* A save touches nothing but its own nodes and the parents that name them.
THEOREM OthersAreLeftAlone == Spec => SaveIsLocal
  <1>1. RInv /\ [Next]_vars =>
          [\A p \in Procs : Saves(p) =>
             /\ {e \in db'.edges : ~Touches(e, graph.nodes)}
                    = {e \in db.edges : ~Touches(e, graph.nodes)}
             /\ db'.nodes = db.nodes \cup graph.nodes
             /\ \A i \in db.nodes \ graph.nodes :
                    /\ db'.text[i] = db.text[i]
                    /\ db'.parent[i] = IF db.parent[i] \in graph.nodes THEN NoId ELSE db.parent[i]]_vars
    <2> SUFFICES ASSUME RInv, [Next]_vars, NEW p \in Procs, Saves(p)
                 PROVE  /\ {e \in db'.edges : ~Touches(e, graph.nodes)}
                               = {e \in db.edges : ~Touches(e, graph.nodes)}
                        /\ db'.nodes = db.nodes \cup graph.nodes
                        /\ \A i \in db.nodes \ graph.nodes :
                               /\ db'.text[i] = db.text[i]
                               /\ db'.parent[i] = IF db.parent[i] \in graph.nodes THEN NoId
                                                  ELSE db.parent[i]
      OBVIOUS
    <2>1. Saved(db, db', graph) /\ db.nodes \subseteq Ids
      BY SavesCommits DEF RInv, IInv, TypeOK, Tables
    <2>2. {e \in db'.edges : ~Touches(e, graph.nodes)} = {e \in db.edges : ~Touches(e, graph.nodes)}
      BY <2>1, EdgeRowsTouch DEF Saved
    <2>3. db'.nodes = db.nodes \cup graph.nodes
      BY <2>1 DEF Saved, NodesWritten
    <2>4. \A i \in db.nodes \ graph.nodes :
             /\ db'.text[i] = db.text[i]
             /\ db'.parent[i] = IF db.parent[i] \in graph.nodes THEN NoId ELSE db.parent[i]
      BY <2>1 DEF Saved, NodesWritten
    <2> QED
      BY <2>2, <2>3, <2>4
  <1> QED
    BY <1>1, WrittenInvariance, PTL DEF Spec, SaveIsLocal

\* When none of its nodes is stored a save keeps every parent (mod.rs:52).
THEOREM FreshParentsAreKept == Spec => FreshSaveKeepsParents
  <1>1. RInv /\ [Next]_vars =>
          [\A p \in Procs : Saves(p) /\ db.nodes \cap graph.nodes = {} =>
             \A i \in graph.nodes : db'.parent[i] = ParentIn(graph, i)]_vars
    <2> SUFFICES ASSUME RInv, [Next]_vars, NEW p \in Procs, Saves(p),
                        db.nodes \cap graph.nodes = {}, NEW i \in graph.nodes
                 PROVE  db'.parent[i] = ParentIn(graph, i)
      OBVIOUS
    <2>1. Saved(db, db', graph)
      BY SavesCommits
    <2>2. i \notin MayLose(db, graph)
      BY DEF MayLose
    <2> QED
      BY <2>1, <2>2 DEF Saved, NodesWritten
  <1> QED
    BY <1>1, WrittenInvariance, PTL DEF Spec, FreshSaveKeepsParents

(***************************************************************************)
(* SqliteStore implements AtomicStore.                                      *)
(***************************************************************************)

\* The columns of d that AtomicStore speaks of.
Columns(d) == [nodes |-> d.nodes, parent |-> d.parent, text |-> d.text,
               edges |-> d.edges, file_hashes |-> d.file_hashes]

absStore == Columns(db)

LEMMA InitAbstract == Init => Store!Init
  BY DEF Init, Store!Init, EmptyTables, NoText, Store!NoText

\* A committed save is one atomic save, which loses the parents it lost.
LEMMA SaveAbstract ==
    ASSUME RInv, NEW g \in Graphs, Saved(db, db', g), db' \in Tables
    PROVE  Store!Save
  <1> DEFINE lost == {i \in MayLose(db, g) : db'.parent[i] # g.parent[i]}
  <1>1. /\ db \in Tables /\ db' \in Tables /\ g \in CodeGraph /\ g.nodes \subseteq Ids
        /\ \A i \in Ids : g.parent[i] \in Ids \cup {NoId}
    BY ConstantsAssumption DEF RInv, IInv, TypeOK, CodeGraph
  <1>2. lost \in SUBSET Store!MayLose(g)
    BY DEF MayLose, Store!MayLose
  <1>3. db'.nodes = db.nodes \cup g.nodes
    BY DEF Saved, NodesWritten
  <1>4. \A i \in Ids : db'.parent[i] = Store!ParentsAfterSave(g, lost)[i]
    <2> SUFFICES ASSUME NEW i \in Ids PROVE db'.parent[i] = Store!ParentsAfterSave(g, lost)[i]
      OBVIOUS
    <2>1. Store!ParentsAfterSave(g, lost)[i] =
             IF i \in g.nodes
             THEN IF g.parent[i] \in g.nodes /\ i \notin lost THEN g.parent[i] ELSE NoId
             ELSE IF db.parent[i] \in g.nodes THEN NoId ELSE db.parent[i]
      BY DEF Store!ParentsAfterSave
    <2>2. i \in lost <=> i \in MayLose(db, g) /\ db'.parent[i] # g.parent[i]
      OBVIOUS
    <2> HIDE DEF lost
    <2>3. CASE i \in g.nodes
      <3>1. db'.parent[i] = ParentIn(g, i) \/ (db'.parent[i] = NoId /\ i \in MayLose(db, g))
        BY <2>3 DEF Saved, NodesWritten
      <3>2. MayLose(db, g) \subseteq {c \in g.nodes : g.parent[c] \in g.nodes} /\ NoId \notin g.nodes
        BY <1>1, ConstantsAssumption DEF MayLose
      <3> QED
        BY <2>1, <2>2, <2>3, <3>1, <3>2 DEF ParentIn
    <2>4. CASE i \notin g.nodes
      BY <2>1, <2>4 DEF Saved, NodesWritten
    <2> QED
      BY <2>3, <2>4
  <1>5. db'.parent = Store!ParentsAfterSave(g, lost)
    <2>1. db'.parent \in [Ids -> Ids \cup {NoId}]
      BY <1>1 DEF Tables
    <2>2. Store!ParentsAfterSave(g, lost) = [i \in Ids |-> Store!ParentsAfterSave(g, lost)[i]]
      BY DEF Store!ParentsAfterSave
    <2> QED
      BY <1>4, <2>1, <2>2
  <1> HIDE DEF lost
  <1>6. db'.text = [i \in Ids |-> IF i \in g.nodes THEN g.text[i] ELSE db.text[i]]
    BY <1>1 DEF Saved, NodesWritten, Tables
  <1>7. db'.edges = {e \in db.edges : Store!Avoids(e, g.nodes)} \cup Store!EdgesOf(g)
    <2>1. Store!EdgesOf(g) = EdgeRows(g)
      BY DEF Store!EdgesOf, EdgeRows, Store!Among, Dangling, ContainsEdge
    <2>2. \A e : Store!Avoids(e, g.nodes) <=> ~Touches(e, g.nodes)
      BY DEF Store!Avoids, Touches
    <2> QED
      BY <2>1, <2>2 DEF Saved
  <1>8. db'.file_hashes = [f \in Files |-> IF g.hashes[f] # NoHash THEN g.hashes[f]
                                           ELSE db.file_hashes[f]]
    BY <1>1 DEF Saved, Tables
  <1>9. /\ Columns(db).nodes = db.nodes /\ Columns(db).text = db.text
        /\ Columns(db).edges = db.edges /\ Columns(db).file_hashes = db.file_hashes
    BY DEF Columns
  <1>10. absStore' = [nodes |-> absStore.nodes \cup g.nodes,
                      parent |-> Store!ParentsAfterSave(g, lost),
                      text |-> [i \in Ids |-> IF i \in g.nodes THEN g.text[i] ELSE absStore.text[i]],
                      edges |-> {e \in absStore.edges : Store!Avoids(e, g.nodes)}
                                   \cup Store!EdgesOf(g),
                      file_hashes |-> [f \in Files |-> IF g.hashes[f] # NoHash THEN g.hashes[f]
                                                        ELSE absStore.file_hashes[f]]]
    BY <1>3, <1>5, <1>6, <1>7, <1>8, <1>9, Zenon DEF absStore, Columns
  <1> QED
    BY <1>2, <1>10, Zenon DEF Store!Save, absStore, Columns

\* A DELETE of rows without a choice of order is Without.
LEMMA DeleteAbstract ==
    ASSUME NEW S \in SUBSET Ids, NEW d \in Tables, d.nodes = db.nodes, d.parent = db.parent,
           d.text = db.text, d.edges = db.edges \/ d.edges = {e \in db.edges : ~Touches(e, S)},
           Unstored(db), NEW r \in Tables, NEW h, r = [DeleteNodes(d, S) EXCEPT !.file_hashes = h]
    PROVE  Columns(r) = Store!Without(S, h)
  <1> DEFINE r1 == DeleteNodes(d, S)
  <1>1. /\ r1 \in Tables
        /\ r1.nodes = d.nodes \ S
        /\ r1.edges = {e \in d.edges : ~Touches(e, S)}
        /\ \A c \in Ids : r1.parent[c] = IF c \in S \cup Children(d, S) THEN NoId ELSE d.parent[c]
        /\ \A c \in Ids : r1.text[c] = IF c \in S THEN NoText ELSE d.text[c]
    BY DeleteNodesFacts
  <1> HIDE DEF r1
  <1>2. /\ r.nodes = r1.nodes /\ r.edges = r1.edges /\ r.parent = r1.parent /\ r.text = r1.text
        /\ r.file_hashes = h
    BY <1>1 DEF r1, Tables
  <1>3. NoText = Store!NoText
    BY DEF NoText, Store!NoText
  <1>4. r.nodes = db.nodes \ S
    BY <1>1, <1>2
  <1>5. r.parent = [i \in Ids |-> IF i \in S \/ db.parent[i] \in S THEN NoId ELSE db.parent[i]]
    <2>1. \A c \in Ids : c \in S \cup Children(d, S) <=> c \in S \/ db.parent[c] \in S
      BY ConstantsAssumption DEF Children, Unstored
    <2> QED
      BY <1>1, <1>2, <2>1 DEF Tables
  <1>6. r.text = [i \in Ids |-> IF i \in S THEN Store!NoText ELSE db.text[i]]
    BY <1>1, <1>2, <1>3 DEF Tables
  <1>7. r.edges = {e \in db.edges : Store!Avoids(e, S)}
    BY <1>1, <1>2 DEF Store!Avoids, Touches
  <1>8. Columns(db).nodes = db.nodes /\ Columns(db).parent = db.parent
        /\ Columns(db).text = db.text /\ Columns(db).edges = db.edges
    BY DEF Columns
  <1> QED
    BY <1>2, <1>4, <1>5, <1>6, <1>7, <1>8, Zenon DEF Columns, absStore, Store!Without

\* The record that Store!store stands for has a type, which EXCEPT needs.
LEMMA ColumnsType ==
    ASSUME db \in Tables
    PROVE  [nodes |-> db.nodes, parent |-> db.parent, text |-> db.text,
            edges |-> db.edges, file_hashes |-> db.file_hashes]
             \in [nodes : SUBSET Ids, parent : [Ids -> Ids \cup {NoId}], text : [Ids -> Texts],
                  edges : SUBSET Edges, file_hashes : [Files -> Hashes \cup {NoHash}]]
  BY DEF Tables

LEMMA ClearEdgesAbstract ==
    ASSUME db \in Tables, db' = [db EXCEPT !.edges = {}]
    PROVE  Store!ClearEdges
  <1>1. /\ db'.nodes = db.nodes /\ db'.parent = db.parent /\ db'.text = db.text
        /\ db'.edges = {} /\ db'.file_hashes = db.file_hashes
    BY DEF Tables
  <1> QED
    BY <1>1, ColumnsType DEF Store!ClearEdges

LEMMA ClearHashesAbstract ==
    ASSUME db \in Tables, db' = [db EXCEPT !.file_hashes = [f \in Files |-> NoHash]]
    PROVE  Store!ClearHashes
  <1> DEFINE h == [f \in Files |-> NoHash]
  <1>1. /\ db'.nodes = db.nodes /\ db'.parent = db.parent /\ db'.text = db.text
        /\ db'.edges = db.edges /\ db'.file_hashes = h
    BY DEF Tables
  <1>2. h \in [Files -> Hashes \cup {NoHash}]
    OBVIOUS
  <1> QED
    BY <1>1, <1>2, ColumnsType DEF Store!ClearHashes

\* Every step of SqliteStore is a step of AtomicStore or leaves it as it was.
LEMMA NextAbstract == RInv /\ [Next]_vars => [Store!Next]_absStore
  <1> SUFFICES ASSUME RInv, [Next]_vars PROVE [Store!Next]_absStore
    OBVIOUS
  <1>t. db \in Tables /\ Unstored(db) /\ db' \in Tables
    BY NextIInv DEF RInv, IInv, TypeOK
  <1>1. ASSUME db' = db PROVE UNCHANGED absStore
    BY <1>1 DEF absStore, Columns
  <1>2. ASSUME NEW p \in Procs, Commit(p) PROVE [Store!Next]_absStore
    <2>1. CASE EndTx(p, work, "ok")
      <3>1. db' = work
        BY <2>1 DEF EndTx
      <3>2. graph \in Graphs /\ Saved(db, db', graph)
        BY <1>2, <3>1, WrittenIsSaved DEF Commit
      <3> QED
        BY <1>t, <3>2, SaveAbstract DEF Store!Next
    <2>2. CASE EndTx(p, db, "err")
      BY <1>1, <2>2 DEF EndTx
    <2> QED
      BY <1>2, <2>1, <2>2 DEF Commit
  <1>3. ASSUME NEW p \in Procs, remove_file_nodes(p) PROVE Store!RemoveFile
    <2>1. PICK f \in Files :
            LET removed == {i \in db.nodes : FileOf[i] = f}
                d1 == [db EXCEPT !.edges = {e \in db.edges : ~Touches(e, removed)}]
                d2 == DeleteNodes(d1, removed)
            IN Autocommit([d2 EXCEPT !.file_hashes[f] = NoHash])
      BY <1>3 DEF remove_file_nodes
    <2> DEFINE removed == {i \in db.nodes : FileOf[i] = f}
               E == {e \in db.edges : ~Touches(e, removed)}
               d1 == [db EXCEPT !.edges = E]
               d2 == DeleteNodes(d1, removed)
               h == [db.file_hashes EXCEPT ![f] = NoHash]
    <2>2. db' = [d2 EXCEPT !.file_hashes[f] = NoHash]
      BY <2>1 DEF Autocommit
    <2>3. removed \in SUBSET Ids /\ E = {e \in db.edges : ~Touches(e, removed)} /\ E \subseteq Edges
      BY <1>t DEF Tables
    <2>4. Store!Without(removed, h) =
             Store!Without({i \in absStore.nodes : FileOf[i] = f},
                           [absStore.file_hashes EXCEPT ![f] = NoHash])
      BY DEF absStore, Columns
    <2> HIDE DEF removed, E
    <2>5. /\ d1 \in Tables /\ d1.nodes = db.nodes /\ d1.parent = db.parent /\ d1.text = db.text
          /\ d1.edges = E /\ d1.file_hashes = db.file_hashes
      BY <1>t, <2>3 DEF Tables
    <2> HIDE DEF d1
    <2>6. d2 \in Tables /\ d2.file_hashes = db.file_hashes
      BY <2>3, <2>5, DeleteNodesFacts
    <2>7. db' = [d2 EXCEPT !.file_hashes = h]
      BY <2>2, <2>6 DEF Tables
    <2> HIDE DEF h
    <2>8. Columns(db') = Store!Without(removed, h)
      BY <1>t, <2>3, <2>5, <2>7, DeleteAbstract
    <2> QED
      BY <2>4, <2>8, Zenon DEF Store!RemoveFile, absStore, Columns, removed, h
  <1>4. ASSUME NEW p \in Procs, ClearEdges(p) PROVE Store!ClearEdges
    BY <1>t, <1>4, ClearEdgesAbstract DEF ClearEdges, Autocommit
  <1>5. ASSUME NEW p \in Procs, ClearNodes(p) PROVE Store!ClearNodes
    <2>1. db' = DeleteNodes(db, db.nodes) /\ db.nodes \in SUBSET Ids
      BY <1>t, <1>5 DEF ClearNodes, Autocommit, Tables
    <2>2. db'.file_hashes = db.file_hashes
      BY <1>t, <2>1, DeleteNodesFacts
    <2>3. db' = [DeleteNodes(db, db.nodes) EXCEPT !.file_hashes = db.file_hashes]
      BY <1>t, <2>1, <2>2 DEF Tables
    <2>4. Columns(db') = Store!Without(db.nodes, db.file_hashes)
      BY <1>t, <2>1, <2>3, DeleteAbstract
    <2>5. absStore.nodes = db.nodes /\ absStore.file_hashes = db.file_hashes
      BY DEF absStore, Columns
    <2> QED
      BY <2>4, <2>5, Zenon DEF Store!ClearNodes, absStore, Columns
  <1>6. ASSUME NEW p \in Procs, ClearHashes(p) PROVE Store!ClearHashes
    BY <1>t, <1>6, ClearHashesAbstract DEF ClearHashes, Autocommit
  <1>7. ASSUME NEW p \in Procs,
               \/ SaveBegin(p) \/ SaveNode(p) \/ NodesDone(p) \/ SaveEdge(p) \/ EdgesDone(p)
               \/ SaveContains(p) \/ ContainsDone(p) \/ SaveHashes(p) \/ SaveFails(p)
               \/ ClearFails(p) \/ Crash(p)
        PROVE  db' = db
    BY <1>7 DEF SaveBegin, SaveNode, NodesDone, SaveEdge, EdgesDone, SaveContains, ContainsDone,
                SaveHashes, SaveFails, ClearFails, Crash, EndTx
  <1>8. ASSUME UNCHANGED vars PROVE db' = db
    BY <1>8 DEF vars
  <1> QED
    BY <1>1, <1>2, <1>3, <1>4, <1>5, <1>6, <1>7, <1>8 DEF Next, Start, Continue, Store!Next

\* The transactions, statement by statement, implement the atomic operations
\* of GraphStorage, whatever other processes, failures and crashes do in
\* between (lib.rs, mod.rs:50-182).
THEOREM Implementation == Spec => ImplementsAtomicStore
  <1>1. Init => Store!Init
    BY InitAbstract
  <1>2. RInv /\ [Next]_vars => [Store!Next]_absStore
    BY NextAbstract
  <1> QED
    BY <1>1, <1>2, WrittenInvariance, PTL
    DEF Spec, ImplementsAtomicStore, Store!Spec, absStore, Columns

(***************************************************************************)
(* The number of edges that a save reports.                                 *)
(***************************************************************************)

\* The rows that the save of g has inserted, those of the graph alone.
SentRows(g, ph, tn, te) == {e \in Edges : Sent(e, g, ph, tn, te)}

\* Each is counted once, and none was there before: their nodes are replaced,
\* which deletes the edges at them.
CountInv ==
    writer # NoProc =>
        LET S == SentRows(graph, pc[writer], todoNodes, todoEdges) IN
        IsFiniteSet(S) /\ edge_count = Cardinality(S)

LEMMA SentTouches ==
    ASSUME NEW g, NEW ph, NEW tn, NEW te, NEW e, Sent(e, g, ph, tn, te)
    PROVE  Touches(e, g.nodes)
  BY DEF Sent, Touches, Dangling, ContainsEdge

\* After the nodes a row of the graph is stored if and only if it was sent.
LEMMA SentIsStored ==
    ASSUME RInv, NEW p \in Procs, pc[p] \in TxPhases, pc[p] # "nodes",
           NEW e, Touches(e, graph.nodes)
    PROVE  e \in work.edges <=> Sent(e, graph, pc[p], todoNodes, todoEdges)
  <1>1. Written(db, work, graph, pc[p], todoNodes, todoEdges)
    BY WriterFacts
  <1>2. Done(graph, pc[p], todoNodes) = graph.nodes
    BY DEF Done
  <1> QED
    BY <1>1, <1>2 DEF Written, EdgesWritten

LEMMA CountAdded ==
    ASSUME NEW S, IsFiniteSet(S), NEW n, n = Cardinality(S), NEW x,
           NEW m, m = (IF x \in S THEN n ELSE n + 1)
    PROVE  IsFiniteSet(S \cup {x}) /\ m = Cardinality(S \cup {x})
  BY FS_AddElement

LEMMA CountStep ==
    ASSUME RInv, CountInv, NEW p \in Procs, pc[p] \in TxPhases, pc[p] # "nodes",
           NEW x \in Edges, Touches(x, graph.nodes), AddEdgeRow(x),
           NEW tn, NEW te,
           \A e : Sent(e, graph, pc[p], tn, te) <=>
                     Sent(e, graph, pc[p], todoNodes, todoEdges) \/ e = x
    PROVE  LET S == SentRows(graph, pc[p], tn, te) IN
           IsFiniteSet(S) /\ edge_count' = Cardinality(S)
  <1> DEFINE S == SentRows(graph, pc[p], todoNodes, todoEdges)
  <1>1. IsFiniteSet(S) /\ edge_count = Cardinality(S)
    BY WriterFacts DEF CountInv
  <1>2. x \in S <=> x \in work.edges
    BY SentIsStored DEF SentRows
  <1>3. edge_count' = IF x \in S THEN edge_count ELSE edge_count + 1
    BY <1>2 DEF AddEdgeRow
  <1>4. SentRows(graph, pc[p], tn, te) = S \cup {x}
    BY DEF SentRows
  <1> HIDE DEF S
  <1> QED
    BY <1>1, <1>3, <1>4, CountAdded

\* A step that sends nothing and counts nothing.
LEMMA CountKept ==
    ASSUME RInv, CountInv, NEW p \in Procs, pc[p] \in TxPhases,
           UNCHANGED <<writer, graph, edge_count>>,
           NEW l \in TxPhases, pc' = [pc EXCEPT ![p] = l],
           \A e : Sent(e, graph, pc[p], todoNodes, todoEdges)
                     <=> Sent(e, graph, l, todoNodes', todoEdges')
    PROVE  CountInv'
  <1>1. writer = p /\ writer # NoProc /\ pc'[p] = l
    BY WriterFacts DEF RInv, IInv, TypeOK
  <1>2. SentRows(graph, pc[p], todoNodes, todoEdges) = SentRows(graph, l, todoNodes', todoEdges')
    BY DEF SentRows
  <1> QED
    BY <1>1, <1>2 DEF CountInv

LEMMA NextCount == RInv /\ CountInv /\ [Next]_vars => CountInv'
  <1> SUFFICES ASSUME RInv, CountInv, [Next]_vars PROVE CountInv'
    OBVIOUS
  <1>t. pc \in [Procs -> {"idle"} \cup TxPhases \cup ClearPhases]
    BY DEF RInv, IInv, TypeOK
  <1>1. ASSUME NEW p \in Procs, SaveBegin(p) PROVE CountInv'
    <2>1. writer' = p /\ pc'[p] = "nodes" /\ edge_count' = 0
      BY <1>t, <1>1 DEF SaveBegin
    <2>2. SentRows(graph', "nodes", todoNodes', todoEdges') = {}
      BY DEF SentRows, Sent
    <2> QED
      BY <2>1, <2>2, FS_EmptySet DEF CountInv
  <1>2. ASSUME NEW p \in Procs, SaveNode(p) PROVE CountInv'
    <2>1. /\ pc[p] = "nodes" /\ pc[p] \in TxPhases /\ pc' = [pc EXCEPT ![p] = "nodes"]
          /\ UNCHANGED <<writer, graph, edge_count>>
      BY <1>t, <1>2 DEF SaveNode, TxPhases
    <2>2. \A e : ~Sent(e, graph, "nodes", todoNodes, todoEdges)
                 /\ ~Sent(e, graph, "nodes", todoNodes', todoEdges')
      BY DEF Sent
    <2> QED
      BY <2>1, <2>2, CountKept
  <1>3. ASSUME NEW p \in Procs, NodesDone(p) PROVE CountInv'
    <2>1. /\ pc[p] = "nodes" /\ pc[p] \in TxPhases /\ "edges" \in TxPhases
          /\ pc' = [pc EXCEPT ![p] = "edges"] /\ todoEdges' = graph.edges
          /\ UNCHANGED <<writer, graph, edge_count>>
      BY <1>3 DEF NodesDone, TxPhases
    <2>2. \A e : ~Sent(e, graph, "nodes", todoNodes, todoEdges)
                 /\ ~Sent(e, graph, "edges", todoNodes', graph.edges)
      BY DEF Sent
    <2> QED
      BY <2>1, <2>2, CountKept
  <1>4. ASSUME NEW p \in Procs, SaveEdge(p) PROVE CountInv'
    <2>1. /\ pc[p] = "edges" /\ pc[p] \in TxPhases /\ pc' = [pc EXCEPT ![p] = "edges"]
          /\ UNCHANGED <<writer, graph, todoNodes>>
      BY <1>t, <1>4 DEF SaveEdge, TxPhases
    <2>2. PICK e \in todoEdges :
            /\ todoEdges' = todoEdges \ {e}
            /\ IF Dangling(graph, e) THEN UNCHANGED <<work, edge_count>> ELSE AddEdgeRow(e)
      BY <1>4 DEF SaveEdge
    <2>3. e \in Edges /\ e \in graph.edges
      <3>1. Written(db, work, graph, "edges", todoNodes, todoEdges)
        BY <2>1, WriterFacts
      <3> QED
        BY <3>1 DEF Written, RInv, IInv, TypeOK
    <2>4. CASE Dangling(graph, e)
      <3>1. \A x : Sent(x, graph, "edges", todoNodes, todoEdges)
                      <=> Sent(x, graph, "edges", todoNodes, todoEdges \ {e})
        BY <2>4 DEF Sent
      <3> QED
        BY <2>1, <2>2, <2>4, <3>1, CountKept
    <2>5. CASE ~Dangling(graph, e)
      <3>1. \A x : Sent(x, graph, "edges", todoNodes, todoEdges \ {e})
                      <=> Sent(x, graph, "edges", todoNodes, todoEdges) \/ x = e
        BY <2>3, <2>5 DEF Sent
      <3>2. AddEdgeRow(e) /\ Touches(e, graph.nodes)
        BY <2>2, <2>5 DEF Dangling, Touches
      <3>3. LET S == SentRows(graph, "edges", todoNodes, todoEdges \ {e}) IN
            IsFiniteSet(S) /\ edge_count' = Cardinality(S)
        BY <2>1, <2>3, <3>1, <3>2, CountStep
      <3> QED
        BY <2>1, <2>2, <3>3, WriterFacts DEF CountInv
    <2> QED
      BY <2>4, <2>5
  <1>5. ASSUME NEW p \in Procs, EdgesDone(p) PROVE CountInv'
    <2>1. /\ pc[p] = "edges" /\ pc[p] \in TxPhases /\ "contains" \in TxPhases
          /\ pc' = [pc EXCEPT ![p] = "contains"]
          /\ todoEdges = {} /\ todoEdges' = {} /\ todoNodes' = graph.nodes
          /\ UNCHANGED <<writer, graph, edge_count>>
      BY <1>5 DEF EdgesDone, TxPhases
    <2>2. \A e : Sent(e, graph, "edges", todoNodes, {})
                    <=> Sent(e, graph, "contains", graph.nodes, {})
      BY DEF Sent
    <2> QED
      BY <2>1, <2>2, CountKept
  <1>6. ASSUME NEW p \in Procs, SaveContains(p) PROVE CountInv'
    <2>1. /\ pc[p] = "contains" /\ pc[p] \in TxPhases /\ pc' = [pc EXCEPT ![p] = "contains"]
          /\ UNCHANGED <<writer, graph, todoEdges>>
      BY <1>t, <1>6 DEF SaveContains, TxPhases
    <2>2. PICK i \in todoNodes :
            /\ todoNodes' = todoNodes \ {i}
            /\ IF graph.parent[i] \in graph.nodes THEN AddEdgeRow(ContainsEdge(graph, i))
               ELSE UNCHANGED <<work, edge_count>>
      BY <1>6 DEF SaveContains
    <2>3. i \in graph.nodes /\ i \in Ids /\ graph.nodes \subseteq Ids
      BY <2>1, WriterFacts
    <2>4. CASE graph.parent[i] \notin graph.nodes
      <3>1. \A x : Sent(x, graph, "contains", todoNodes, todoEdges)
                      <=> Sent(x, graph, "contains", todoNodes \ {i}, todoEdges)
        BY <2>4 DEF Sent
      <3> QED
        BY <2>1, <2>2, <2>4, <3>1, CountKept
    <2>5. CASE graph.parent[i] \in graph.nodes
      <3> DEFINE e == ContainsEdge(graph, i)
      <3>1. \A x : Sent(x, graph, "contains", todoNodes \ {i}, todoEdges)
                      <=> Sent(x, graph, "contains", todoNodes, todoEdges) \/ x = e
        BY <2>3, <2>5 DEF Sent
      <3>2. AddEdgeRow(e) /\ Touches(e, graph.nodes) /\ e \in Edges
        BY <2>2, <2>3, <2>5, ConstantsAssumption DEF ContainsEdge, Touches, Edges
      <3> HIDE DEF e
      <3>3. LET S == SentRows(graph, "contains", todoNodes \ {i}, todoEdges) IN
            IsFiniteSet(S) /\ edge_count' = Cardinality(S)
        BY <2>1, <3>1, <3>2, CountStep
      <3> QED
        BY <2>1, <2>2, <3>3, WriterFacts DEF CountInv
    <2> QED
      BY <2>4, <2>5
  <1>7. ASSUME NEW p \in Procs, ContainsDone(p) PROVE CountInv'
    <2>1. /\ pc[p] = "contains" /\ pc[p] \in TxPhases /\ "file_hashes" \in TxPhases
          /\ pc' = [pc EXCEPT ![p] = "file_hashes"] /\ todoNodes = {}
          /\ UNCHANGED <<writer, graph, todoNodes, todoEdges, edge_count>>
      BY <1>7 DEF ContainsDone, TxPhases
    <2>2. \A e : Sent(e, graph, "contains", {}, todoEdges)
                    <=> Sent(e, graph, "file_hashes", {}, todoEdges)
      BY DEF Sent
    <2> QED
      BY <2>1, <2>2, CountKept
  <1>8. ASSUME NEW p \in Procs, SaveHashes(p) PROVE CountInv'
    <2>1. /\ pc[p] = "file_hashes" /\ pc[p] \in TxPhases /\ "commit" \in TxPhases
          /\ pc' = [pc EXCEPT ![p] = "commit"]
          /\ UNCHANGED <<writer, graph, todoNodes, todoEdges, edge_count>>
      BY <1>8 DEF SaveHashes, TxPhases
    <2>2. \A e : Sent(e, graph, "file_hashes", todoNodes, todoEdges)
                    <=> Sent(e, graph, "commit", todoNodes, todoEdges)
      BY DEF Sent
    <2> QED
      BY <2>1, <2>2, CountKept
  <1>9. ASSUME writer' = NoProc PROVE CountInv'
    BY <1>9 DEF CountInv
  <1>10. ASSUME NEW p \in Procs, pc[p] \in ClearPhases,
                UNCHANGED <<writer, graph, todoNodes, todoEdges, edge_count>>,
                pc' = [pc EXCEPT ![p] = "idle"]
         PROVE  CountInv'
    <2>1. writer # p
      BY <1>10 DEF RInv, IInv, LockHeld, TxPhases, ClearPhases
    <2>2. ASSUME writer # NoProc PROVE pc'[writer] = pc[writer]
      BY <1>t, <1>10, <2>1, <2>2 DEF RInv, IInv, TypeOK
    <2> QED
      BY <1>10, <2>2 DEF CountInv
  <1>11. ASSUME NEW p \in Procs, Commit(p) \/ SaveFails(p) \/ remove_file_nodes(p)
                \/ ClearEdges(p) \/ ClearNodes(p) \/ ClearHashes(p)
         PROVE  writer' = NoProc
    BY <1>11 DEF Commit, SaveFails, EndTx, remove_file_nodes, ClearEdges, ClearNodes,
                 ClearHashes, Autocommit
  <1>12. ASSUME NEW p \in Procs, ClearFails(p) \/ Crash(p) PROVE CountInv'
    BY <1>9, <1>10, <1>12 DEF ClearFails, Crash, EndTx
  <1>13. ASSUME UNCHANGED vars PROVE CountInv'
    BY <1>13 DEF vars, CountInv
  <1> QED
    BY <1>1, <1>2, <1>3, <1>4, <1>5, <1>6, <1>7, <1>8, <1>9, <1>11, <1>12, <1>13
    DEF Next, Start, Continue

\* The number of edges that save_graph returns is that of the rows stored at the
\* nodes it saved: they are the graph's own, which it counted one by one
\* (mod.rs:84-117).
THEOREM CountIsExact == Spec => ReportedCountIsExact
  <1>1. Init => CountInv
    BY DEF Init, CountInv
  <1>2. RInv /\ CountInv /\ [Next]_vars
        /\ [\A p \in Procs : Saves(p) =>
              {e \in db'.edges : Touches(e, graph.nodes)} = EdgeRows(graph)]_vars =>
          [\A p \in Procs : Saves(p) =>
              edge_count = Cardinality({e \in db'.edges : Touches(e, graph.nodes)})]_vars
    <2> SUFFICES ASSUME RInv, CountInv, NEW p \in Procs, pc[p] = "commit"
                 PROVE  edge_count = Cardinality(EdgeRows(graph))
      BY DEF Saves
    <2>1. writer = p /\ writer # NoProc /\ graph.edges \subseteq Edges
          /\ graph.nodes \subseteq Ids
      BY WriterFacts DEF TxPhases
    <2>2. \A e \in EdgeRows(graph) : e \in Edges
      BY <2>1, ConstantsAssumption DEF EdgeRows, ContainsEdge, Edges
    <2>3. SentRows(graph, "commit", todoNodes, todoEdges) = EdgeRows(graph)
      BY <2>2, SentAreEdgeRows DEF SentRows
    <2> QED
      BY <2>1, <2>3 DEF CountInv
  <1> QED
    BY <1>1, <1>2, StaleEdgesLeave, NextCount, WrittenInvariance, PTL
    DEF Spec, ReportedCountIsExact, SaveReplacesEdges

(***************************************************************************)
(* SchemaMigration: the types of its variables.                             *)
(***************************************************************************)

Labels ==
    {"closed", "create", "create_again", "read_version", "count_nodes", "count_edges", "stamp",
     "to_v2", "to_v3", "to_v4", "add_column", "stamp_v4", "count_fts", "backfill", "opened",
     "failed"}

\* Every variable holds a value of its type.
SchemaTypeOK ==
    /\ objects \subseteq AllObjects /\ columns \subseteq AllColumns
    /\ version \in 0 .. 4
    /\ rows \in BOOLEAN /\ indexed \in {"none", "some", "all"}
    /\ stage \in [Openers -> Labels]
    /\ at \in [Openers -> 1 .. 10]
    /\ seen \in [Openers -> 0 .. 4]
    /\ counted \in [Openers -> BOOLEAN]
    /\ disturbed \in BOOLEAN

(***************************************************************************)
(* The inductive invariant: the layout of the edges table.                  *)
(***************************************************************************)

\* Where a process is that has run create_schema once.
Created == Labels \ {"closed", "create", "failed"}
Created4 == {"opened", "create_again", "count_fts", "backfill"}

\* An index stands on the columns it names; a file with an old stamp, or with
\* symbols and none, has an edges table of the first layout.
IndexesStand == \A object \in objects : NeededColumns(object) \subseteq columns
OldVersions == version \in {1, 2} \/ (version = 0 /\ rows) => "edges" \in objects /\ columns = {}

\* What p has behind it of its first batch.
BatchDone(p) ==
    stage[p] = "create" => \A k \in 1 .. (at[p] - 1) :
        k \in {6, 7} => NeededColumns(CreateStatements[k]) \subseteq columns

AtInv(p) ==
    /\ stage[p] = "to_v4" => at[p] \in 1 .. 4
    /\ stage[p] \in Created \ {"create_again", "to_v4"} => at[p] = 1

\* Whoever got through create_schema has the current columns, so that there is
\* never an old version to migrate from; what it has read and counted is still
\* so, unless another process has stamped the file since.
ProcessInv(p) ==
    /\ BatchDone(p) /\ AtInv(p)
    /\ stage[p] \in Created => columns = AllColumns
    /\ stage[p] \in Created4 => version = SCHEMA_VERSION
    /\ seen[p] \in {0, 3, 4} /\ stage[p] # "to_v3"
    /\ stage[p] \in {"count_nodes", "count_edges", "stamp"} =>
           version = SCHEMA_VERSION \/ seen[p] = version
    /\ stage[p] \in {"count_edges", "stamp"} /\ ~counted[p] => version = SCHEMA_VERSION \/ ~rows
    /\ stage[p] = "stamp" => seen[p] = 0 /\ ~counted[p]

LayoutInv ==
    IndexesStand /\ OldVersions /\ StampMeansColumns /\ (\A p \in Openers : ProcessInv(p))

(***************************************************************************)
(* The inductive invariant: the objects and the full-text index, as long as *)
(* no migration was disturbed.                                              *)
(***************************************************************************)

AloneInv == \A p, q \in Openers : p # q /\ Migrating(p) => stage[q] = "closed"

\* The statements of its batch that p has behind it did what they say.
ObjectsInv ==
    \A p \in Openers :
        /\ stage[p] \in {"create", "create_again"} =>
               \A k \in 1 .. (at[p] - 1) : CreateStatements[k] \in objects
        /\ stage[p] \in Created \ {"to_v4", "add_column", "stamp_v4", "create_again"} =>
               \A k \in 1 .. 10 : CreateStatements[k] \in objects

\* Only a migration empties the index, and it fills it before it ends.
IndexInv ==
    /\ version = SCHEMA_VERSION /\ rows /\ (\A p \in Openers : ~Migrating(p)) => indexed = "all"
    /\ \A p \in Openers :
         stage[p] \in {"add_column", "stamp_v4", "create_again", "count_fts", "backfill"} =>
                indexed = "none"

UsableInv == ~disturbed => AloneInv /\ ObjectsInv /\ IndexInv

SchemaInv == SchemaTypeOK /\ LayoutInv /\ UsableInv

(***************************************************************************)
(* The statements of the two batches.                                       *)
(***************************************************************************)

LEMMA Statements ==
    /\ Len(CreateStatements) = 10
    /\ \A k \in 1 .. 10 : CreateStatements[k] \in AllObjects
    /\ \A object \in AllObjects : \E k \in 1 .. 10 : object = CreateStatements[k]
    /\ CreateStatements[6] = "idx_edges_source_line"
    /\ CreateStatements[7] = "idx_edges_confidence"
    /\ "symbol_fts" \in AllObjects /\ "nodes_fts_ai" \in AllObjects
    /\ AllColumns = {"source_line", "confidence"}
  BY DEF CreateStatements, AllObjects, AllColumns

LEMMA Needed ==
    /\ \A object : NeededColumns(object) \subseteq AllColumns
    /\ NeededColumns(CreateStatements[6]) = {"source_line"}
    /\ NeededColumns(CreateStatements[7]) = {"confidence"}
  BY Statements DEF NeededColumns, AllColumns

LEMMA Drops ==
    /\ Len(DropStatements) = 4
    /\ DropStatements[4] = "symbol_fts"
    /\ \A k \in 1 .. 4 : DropStatements[k] # "edges"
  BY DEF DropStatements

LEMMA Origin ==
    ASSUME NEW name \in Origins
    PROVE  LET f == OriginFiles[name] IN
           /\ f.objects \subseteq AllObjects /\ f.columns \subseteq AllColumns /\ f.version \in 0 .. 4
           /\ \A object \in f.objects : NeededColumns(object) \subseteq f.columns
           /\ f.version \in {1, 2} \/ (f.version = 0 /\ name # "fresh") =>
                  "edges" \in f.objects /\ f.columns = {}
           /\ f.version = 4 => f.columns = AllColumns /\ "symbol_fts" \in f.objects
  <1> DEFINE f == OriginFiles[name]
  <1>1. name \in {"fresh", "v0", "v1", "v2", "v3", "half", "v4"}
    BY OriginsAssumption DEF OriginFiles
  <1>2. /\ BaseTables \subseteq AllObjects /\ "edges" \in BaseTables
        /\ BaseTables \cup {"idx_edges_source_line"} \subseteq AllObjects
        /\ \A object \in BaseTables : NeededColumns(object) = {}
        /\ NeededColumns("idx_edges_source_line") = {"source_line"}
    BY DEF BaseTables, AllObjects, CreateStatements, NeededColumns
  <1>3. CASE name = "fresh"
    <2>1. f.objects = {} /\ f.columns = {} /\ f.version = 0
      BY <1>3 DEF OriginFiles
    <2> QED
      BY <1>3, <2>1
  <1>4. CASE name \in {"v0", "v1", "v2"}
    <2>1. f.objects = BaseTables /\ f.columns = {} /\ f.version \in {0, 1, 2}
      BY <1>4 DEF OriginFiles
    <2> QED
      BY <1>2, <2>1
  <1>5. CASE name \in {"v3", "half"}
    <2>1. /\ f.objects = BaseTables \cup {"idx_edges_source_line"}
          /\ f.columns \in {{"source_line"}, AllColumns} /\ f.version = 3
      BY <1>5 DEF OriginFiles
    <2> QED
      BY <1>2, <2>1, Statements
  <1>6. CASE name = "v4"
    <2>1. f.objects = AllObjects /\ f.columns = AllColumns /\ f.version = 4
      BY <1>6 DEF OriginFiles
    <2> QED
      BY <1>6, <2>1, Statements, Needed
  <1> QED
    BY <1>1, <1>3, <1>4, <1>5, <1>6

LEMMA SchemaInitInv == SchemaInit => SchemaInv
  <1> SUFFICES ASSUME SchemaInit PROVE SchemaInv
    OBVIOUS
  <1>1. PICK name \in Origins : LET f == OriginFiles[name] IN
          /\ objects = f.objects /\ columns = f.columns /\ version = f.version
          /\ rows \in IF name = "fresh" THEN {FALSE} ELSE BOOLEAN
          /\ indexed = IF rows /\ "symbol_fts" \in objects THEN "all" ELSE "none"
    BY DEF SchemaInit
  <1>2. /\ stage = [p \in Openers |-> "closed"] /\ at = [p \in Openers |-> 1]
        /\ seen = [p \in Openers |-> 0] /\ counted = [p \in Openers |-> FALSE]
        /\ disturbed = FALSE
    BY DEF SchemaInit
  <1>3. SchemaTypeOK
    <2>1. rows \in BOOLEAN
      BY <1>1, Zenon
    <2>4. indexed \in {"none", "some", "all"}
      <3>1. indexed = IF rows /\ "symbol_fts" \in objects THEN "all" ELSE "none"
        BY <1>1, Zenon
      <3>2. CASE rows /\ "symbol_fts" \in objects
        BY <3>1, <3>2
      <3>3. CASE ~(rows /\ "symbol_fts" \in objects)
        BY <3>1, <3>3
      <3> QED
        BY <3>2, <3>3
    <2>2. objects \subseteq AllObjects /\ columns \subseteq AllColumns /\ version \in 0 .. 4
      BY <1>1, Origin
    <2>3. stage \in [Openers -> Labels] /\ at \in [Openers -> 1 .. 10] /\ seen \in [Openers -> 0 .. 4]
      BY <1>2 DEF Labels
    <2>5. counted \in [Openers -> BOOLEAN] /\ disturbed \in BOOLEAN
      BY <1>2, Zenon
    <2> QED
      BY <2>1, <2>2, <2>3, <2>4, <2>5 DEF SchemaTypeOK
  <1>4. LayoutInv
    <2>1. IndexesStand /\ OldVersions /\ StampMeansColumns
      BY <1>1, Origin DEF IndexesStand, OldVersions, StampMeansColumns, SCHEMA_VERSION
    <2>2. \A p \in Openers : ProcessInv(p)
      BY <1>2 DEF ProcessInv, BatchDone, AtInv, Created, Created4, Labels
    <2> QED
      BY <2>1, <2>2 DEF LayoutInv
  <1>5. UsableInv
    <2>1. AloneInv /\ ObjectsInv
      BY <1>2 DEF AloneInv, ObjectsInv, Migrating, Created, Labels
    <2>2. IndexInv
      BY <1>1, <1>2, Origin DEF IndexInv, Migrating, SCHEMA_VERSION
    <2> QED
      BY <2>1, <2>2 DEF UsableInv
  <1> QED
    BY <1>3, <1>4, <1>5 DEF SchemaInv

(***************************************************************************)
(* The steps.  Each keeps SchemaTypeOK and LayoutInv whether disturbed or not.    *)
(***************************************************************************)

\* No migration from before version 3 gets anywhere: create_schema, which runs
\* first, fails on the files it is written for.
LEMMA RebuildFails ==
    ASSUME SchemaInv, NEW p \in Openers, Rebuild(p)
    PROVE  stage[p] = "to_v2" /\ Goto(p, "failed") /\ UNCHANGED <<objects, columns, version>>
  <1>1. stage[p] = "to_v2" /\ columns = AllColumns
    BY DEF Rebuild, SchemaInv, LayoutInv, ProcessInv, Created, Labels
  <1> QED
    BY <1>1, Statements DEF Rebuild

\* The statement that a process executes next.
LEMMA NextStatement ==
    ASSUME SchemaInv, NEW p \in Openers, CreateStep(p), NEW object, object = CreateStatements[at[p]]
    PROVE  \/ /\ object \notin objects /\ ~(NeededColumns(object) \subseteq columns)
              /\ stage[p] = "create"
              /\ stage' = [stage EXCEPT ![p] = "failed"] /\ UNCHANGED <<objects, columns, indexed, at>>
           \/ /\ NeededColumns(object) \subseteq columns
              /\ objects' = objects \cup {object}
              /\ columns' = (IF object = "edges" /\ object \notin objects THEN AllColumns
                             ELSE columns)
              /\ UNCHANGED indexed
              /\ \/ at[p] < 10 /\ at' = [at EXCEPT ![p] = @ + 1] /\ UNCHANGED stage
                 \/ /\ at[p] = 10 /\ at' = [at EXCEPT ![p] = 1]
                    /\ stage' = [stage EXCEPT ![p] = IF stage[p] = "create" THEN "read_version"
                                                ELSE "count_fts"]
  <1>1. /\ stage[p] \in {"create", "create_again"} /\ at[p] \in 1 .. 10
        /\ stage[p] = "create_again" => columns = AllColumns
        /\ stage \in [Openers -> Labels] /\ at \in [Openers -> 1 .. 10]
    BY DEF CreateStep, SchemaInv, SchemaTypeOK, LayoutInv, ProcessInv, Created, Labels
  <1>2. CASE object \notin objects /\ ~(NeededColumns(object) \subseteq columns)
    BY <1>1, <1>2, Needed DEF CreateStep, Goto
  <1>3. CASE ~(object \notin objects /\ ~(NeededColumns(object) \subseteq columns))
    <2>1. NeededColumns(object) \subseteq columns
      BY <1>3 DEF SchemaInv, LayoutInv, IndexesStand
    <2>2. Create(object) /\ at' = [at EXCEPT ![p] = IF at[p] = 10 THEN 1 ELSE @ + 1]
          /\ Goto(p, IF at[p] = 10 THEN AfterCreate(p) ELSE stage[p])
      BY <1>3, Statements DEF CreateStep
    <2>3. CASE at[p] = 10
      BY <1>1, <2>1, <2>2, <2>3 DEF Create, Goto, AfterCreate
    <2>4. CASE at[p] # 10
      <3>1. stage' = stage
        BY <1>1, <2>2, <2>4 DEF Goto
      <3> QED
        BY <1>1, <2>1, <2>2, <2>4, <3>1 DEF Create
    <2> QED
      BY <2>3, <2>4
  <1> QED
    BY <1>2, <1>3

(* The layout. *)

LEMMA CreateStepLayout ==
    ASSUME SchemaInv, NEW p \in Openers, CreateStep(p)
    PROVE  LayoutInv'
  <1> DEFINE object == CreateStatements[at[p]]
  <1>1. /\ stage[p] \in {"create", "create_again"} /\ at[p] \in 1 .. 10
        /\ stage \in [Openers -> Labels] /\ at \in [Openers -> 1 .. 10]
        /\ UNCHANGED <<version, rows, seen, counted>>
        /\ object \in AllObjects /\ columns \subseteq AllColumns
    BY Statements DEF CreateStep, SchemaInv, SchemaTypeOK
  <1>2. /\ IndexesStand /\ OldVersions /\ StampMeansColumns
        /\ \A q \in Openers : ProcessInv(q)
    BY DEF SchemaInv, LayoutInv
  <1>3. columns \subseteq columns' /\ columns' \subseteq AllColumns /\ objects \subseteq objects'
    BY <1>1, NextStatement
  <1>4. IndexesStand'
    <2> SUFFICES ASSUME NEW o \in objects' PROVE NeededColumns(o) \subseteq columns'
      BY DEF IndexesStand
    <2>1. CASE o \in objects
      BY <1>2, <1>3, <2>1 DEF IndexesStand
    <2>2. CASE o \notin objects
      BY <1>1, <1>3, <2>2, NextStatement
    <2> QED
      BY <2>1, <2>2
  <1>5. OldVersions'
    BY <1>1, <1>2, NextStatement DEF OldVersions
  <1>6. StampMeansColumns'
    BY <1>1, <1>2, <1>3 DEF StampMeansColumns
  <1>7. ASSUME NEW q \in Openers PROVE ProcessInv(q)'
    <2>1. CASE q # p
      <3>1. stage'[q] = stage[q] /\ at'[q] = at[q]
        BY <1>1, <2>1, NextStatement
      <3>2. BatchDone(q)'
        BY <1>2, <1>3, <3>1 DEF ProcessInv, BatchDone
      <3> QED
        BY <1>1, <1>2, <1>3, <3>1, <3>2 DEF ProcessInv, AtInv
    <2>2. CASE q = p
      <3>1. CASE stage' = [stage EXCEPT ![p] = "failed"]
        BY <1>1, <1>2, <2>2, <3>1 DEF ProcessInv, BatchDone, AtInv, Created, Created4
      <3>2. CASE /\ NeededColumns(object) \subseteq columns
                 /\ at[p] < 10 /\ at' = [at EXCEPT ![p] = @ + 1] /\ UNCHANGED stage
        <4>1. BatchDone(p)'
          <5> SUFFICES ASSUME stage[p] = "create", NEW k \in 1 .. at[p], k \in {6, 7}
                       PROVE  NeededColumns(CreateStatements[k]) \subseteq columns'
            BY <1>1, <3>2 DEF BatchDone
          <5>1. CASE k = at[p]
            BY <1>3, <3>2, <5>1
          <5>2. CASE k < at[p]
            BY <1>1, <1>2, <1>3, <5>2 DEF ProcessInv, BatchDone
          <5> QED
            BY <1>1, <5>1, <5>2
        <4> QED
          BY <1>1, <1>2, <1>3, <2>2, <3>2, <4>1
          DEF ProcessInv, AtInv, Created, Created4, Labels
      <3>3. CASE /\ at[p] = 10 /\ at' = [at EXCEPT ![p] = 1]
                 /\ stage' = [stage EXCEPT ![p] = IF stage[p] = "create" THEN "read_version"
                                            ELSE "count_fts"]
        <4>1. columns' = AllColumns
          <5>1. CASE stage[p] = "create"
            <6>1. /\ NeededColumns(CreateStatements[6]) \subseteq columns
                  /\ NeededColumns(CreateStatements[7]) \subseteq columns
              BY <1>2, <3>3, <5>1 DEF ProcessInv, BatchDone
            <6> QED
              BY <1>3, <6>1, Needed, Statements
          <5>2. CASE stage[p] = "create_again"
            BY <1>2, <1>3, <5>2 DEF ProcessInv, Created, Labels
          <5> QED
            BY <1>1, <5>1, <5>2
        <4> QED
          BY <1>1, <1>2, <2>2, <3>3, <4>1
          DEF ProcessInv, BatchDone, AtInv, Created, Created4, Labels
      <3> QED
        BY <3>1, <3>2, <3>3, NextStatement
    <2> QED
      BY <2>1, <2>2
  <1> QED
    BY <1>4, <1>5, <1>6, <1>7 DEF LayoutInv

\* A step of p that creates nothing and leaves the edges table alone.
LEMMA OtherStepLayout ==
    ASSUME SchemaInv, NEW p \in Openers,
           objects' \subseteq objects, "edges" \in objects => "edges" \in objects',
           UNCHANGED columns,
           NEW l \in Labels, stage' = [stage EXCEPT ![p] = l],
           NEW r \in 0 .. 4, seen' = [seen EXCEPT ![p] = r],
           \A q \in Openers \ {p} : at'[q] = at[q] /\ counted'[q] = counted[q],
           version' \in {version, SCHEMA_VERSION}, version' # version => columns = AllColumns,
           rows' # rows => version = SCHEMA_VERSION,
           ProcessInv(p)'
    PROVE  LayoutInv'
  <1>1. /\ IndexesStand /\ OldVersions /\ StampMeansColumns
        /\ \A q \in Openers : ProcessInv(q)
        /\ stage \in [Openers -> Labels] /\ seen \in [Openers -> 0 .. 4]
    BY DEF SchemaInv, LayoutInv, SchemaTypeOK
  <1>2. IndexesStand' /\ StampMeansColumns' /\ OldVersions'
    BY <1>1, Statements DEF IndexesStand, StampMeansColumns, OldVersions, SCHEMA_VERSION
  <1>3. ASSUME NEW q \in Openers, q # p PROVE ProcessInv(q)'
    <2>1. stage'[q] = stage[q] /\ at'[q] = at[q] /\ seen'[q] = seen[q] /\ counted'[q] = counted[q]
      BY <1>1, <1>3
    <2>2. ProcessInv(q)
      BY <1>1
    <2>3. BatchDone(q)' /\ AtInv(q)'
      BY <2>1, <2>2 DEF ProcessInv, BatchDone, AtInv
    <2> QED
      BY <2>1, <2>2, <2>3 DEF ProcessInv
  <1> QED
    BY <1>2, <1>3 DEF LayoutInv

Action(p) == Open(p) \/ OpenStep(p) \/ Save(p) \/ Close(p) \/ Die(p)

LEMMA ActionLayout ==
    ASSUME SchemaInv, NEW p \in Openers, Action(p)
    PROVE  LayoutInv'
  <1>i. /\ StampMeansColumns /\ ProcessInv(p)
        /\ stage \in [Openers -> Labels] /\ at \in [Openers -> 1 .. 10]
        /\ seen \in [Openers -> 0 .. 4] /\ counted \in [Openers -> BOOLEAN]
        /\ version \in 0 .. 4
    BY DEF SchemaInv, LayoutInv, SchemaTypeOK
  <1>s. ASSUME UNCHANGED seen PROVE seen[p] \in 0 .. 4 /\ seen' = [seen EXCEPT ![p] = seen[p]]
    BY <1>i, <1>s
  <1> USE DEF Goto
  <1>1. CASE Open(p)
    <2>1. stage' = [stage EXCEPT ![p] = "create"] /\ seen' = [seen EXCEPT ![p] = 0] /\ "create" \in Labels
      BY <1>1 DEF Open, Labels
    <2>2. ProcessInv(p)'
      BY <1>i, <1>1 DEF Open, ProcessInv, BatchDone, AtInv, Created, Created4, Labels
    <2>3. \A q \in Openers \ {p} : at'[q] = at[q] /\ counted'[q] = counted[q]
      BY <1>i, <1>1 DEF Open
    <2>4. UNCHANGED <<objects, columns, version, rows>> /\ 0 \in 0 .. 4
      BY <1>1 DEF Open, file
    <2> QED
      BY <2>1, <2>2, <2>3, <2>4, OtherStepLayout
  <1>2. CASE CreateStep(p)
    BY <1>2, CreateStepLayout
  <1>3. CASE ReadVersion(p)
    <2>1. PICK l \in Labels : stage' = [stage EXCEPT ![p] = l]
      BY <1>3 DEF ReadVersion, Labels
    <2>2. ProcessInv(p)'
      <3>1. columns = AllColumns /\ version \in {0, 3, 4}
        BY <1>3, <1>i, Statements DEF ReadVersion, ProcessInv, Created, Labels, SchemaInv, LayoutInv, OldVersions
      <3> QED
        BY <1>i, <1>3, <3>1
        DEF ReadVersion, ProcessInv, BatchDone, AtInv, Created, Created4, Labels, file, SCHEMA_VERSION
    <2> QED
      BY <1>i, <1>3, <2>1, <2>2, OtherStepLayout DEF ReadVersion, file
  <1>4. CASE CountNodes(p)
    <2>1. stage' = [stage EXCEPT ![p] = "count_edges"] /\ "count_edges" \in Labels
      BY <1>4 DEF CountNodes, Labels
    <2>2. ProcessInv(p)'
      BY <1>i, <1>4
      DEF CountNodes, ProcessInv, BatchDone, AtInv, Created, Created4, Labels, file
    <2> QED
      BY <1>i, <1>4, <1>s, <2>1, <2>2, OtherStepLayout DEF CountNodes, file
  <1>5. CASE CountEdges(p)
    <2>1. PICK l \in Labels : stage' = [stage EXCEPT ![p] = l]
      BY <1>5 DEF CountEdges, FirstMigration, Labels
    <2>2. ProcessInv(p)'
      BY <1>i, <1>5
      DEF CountEdges, FirstMigration, ProcessInv, BatchDone, AtInv, Created, Created4, Labels, file
    <2> QED
      BY <1>i, <1>5, <1>s, <2>1, <2>2, OtherStepLayout DEF CountEdges, file
  <1>6. CASE StampFresh(p)
    <2>1. stage' = [stage EXCEPT ![p] = "opened"] /\ "opened" \in Labels
      BY <1>6 DEF StampFresh, Labels
    <2>2. ProcessInv(p)'
      BY <1>i, <1>6 DEF StampFresh, ProcessInv, BatchDone, AtInv, Created, Created4, Labels
    <2>3. columns = AllColumns
      BY <1>i, <1>6 DEF StampFresh, ProcessInv, Created, Labels
    <2> QED
      BY <1>i, <1>6, <1>s, <2>1, <2>2, <2>3, OtherStepLayout DEF StampFresh
  <1>7. CASE Rebuild(p)
    <2>1. stage' = [stage EXCEPT ![p] = "failed"] /\ "failed" \in Labels
      BY <1>7, RebuildFails DEF Labels
    <2>2. ProcessInv(p)'
      BY <1>i, <1>7, <2>1 DEF Rebuild, ProcessInv, BatchDone, AtInv, Created, Created4, Labels
    <2> QED
      BY <1>i, <1>7, <1>s, <2>1, <2>2, RebuildFails, OtherStepLayout DEF Rebuild
  <1>8. CASE DropFts(p)
    <2>1. ProcessInv(p)'
      BY <1>i, <1>8, Drops
      DEF DropFts, ProcessInv, BatchDone, AtInv, Created, Created4, Labels
    <2>2. PICK l \in Labels : stage' = [stage EXCEPT ![p] = l]
      BY <1>8 DEF DropFts, Labels
    <2>3. at[p] \in 1 .. 4 /\ objects' = objects \ {DropStatements[at[p]]}
      BY <1>i, <1>8 DEF DropFts, ProcessInv, AtInv
    <2> QED
      BY <1>i, <1>8, <1>s, <2>1, <2>2, <2>3, Drops, OtherStepLayout DEF DropFts
  <1>9. CASE AddColumn(p)
    <2>1. stage' = [stage EXCEPT ![p] = "stamp_v4"] /\ "stamp_v4" \in Labels
      BY <1>9 DEF AddColumn, Labels
    <2>2. columns = AllColumns /\ UNCHANGED columns
      BY <1>i, <1>9, Statements DEF AddColumn, ProcessInv, Created, Labels
    <2>3. ProcessInv(p)'
      BY <1>i, <1>9, <2>2 DEF AddColumn, ProcessInv, BatchDone, AtInv, Created, Created4, Labels
    <2> QED
      BY <1>i, <1>9, <1>s, <2>1, <2>2, <2>3, OtherStepLayout DEF AddColumn
  <1>10. CASE StampV4(p)
    <2>1. stage' = [stage EXCEPT ![p] = "create_again"] /\ "create_again" \in Labels
      BY <1>10 DEF StampV4, Labels
    <2>2. columns = AllColumns
      BY <1>i, <1>10 DEF StampV4, ProcessInv, Created, Labels
    <2>3. ProcessInv(p)'
      BY <1>i, <1>10
      DEF StampV4, ProcessInv, BatchDone, AtInv, Created, Created4, Labels, SCHEMA_VERSION
    <2> QED
      BY <1>i, <1>10, <1>s, <2>1, <2>2, <2>3, OtherStepLayout DEF StampV4, SCHEMA_VERSION
  <1>11. CASE CountFts(p)
    <2>1. PICK l \in Labels : stage' = [stage EXCEPT ![p] = l]
      BY <1>11 DEF CountFts, Labels
    <2>2. ProcessInv(p)'
      BY <1>i, <1>11 DEF CountFts, ProcessInv, BatchDone, AtInv, Created, Created4, Labels, file
    <2> QED
      BY <1>i, <1>11, <1>s, <2>1, <2>2, OtherStepLayout DEF CountFts, file
  <1>12. CASE Backfill(p)
    <2>1. PICK l \in Labels : stage' = [stage EXCEPT ![p] = l]
      BY <1>12 DEF Backfill, Labels
    <2>2. ProcessInv(p)'
      BY <1>i, <1>12 DEF Backfill, ProcessInv, BatchDone, AtInv, Created, Created4, Labels
    <2> QED
      BY <1>i, <1>12, <1>s, <2>1, <2>2, OtherStepLayout DEF Backfill
  <1>13. CASE Save(p)
    <2>1. /\ stage' = [stage EXCEPT ![p] = "opened"] /\ "opened" \in Labels
          /\ UNCHANGED <<objects, columns, version, local>> /\ stage[p] = "opened"
      BY <1>i, <1>13 DEF Save, local, Labels
    <2>2. version = SCHEMA_VERSION
      BY <1>i, <2>1 DEF ProcessInv, Created4
    <2>3. ProcessInv(p)'
      BY <1>i, <2>1, <2>2 DEF ProcessInv, BatchDone, AtInv, local
    <2> QED
      BY <1>i, <1>s, <2>1, <2>2, <2>3, OtherStepLayout DEF local
  <1>14. ASSUME stage' = [stage EXCEPT ![p] = "closed"], UNCHANGED <<file, at, seen, counted>>
         PROVE  LayoutInv'
    <2>1. ProcessInv(p)' /\ "closed" \in Labels
      BY <1>i, <1>14 DEF ProcessInv, BatchDone, AtInv, Created, Created4, Labels, file
    <2> QED
      BY <1>i, <1>14, <1>s, <2>1, OtherStepLayout DEF file
  <1> QED
    BY <1>1, <1>2, <1>3, <1>4, <1>5, <1>6, <1>7, <1>8, <1>9, <1>10, <1>11, <1>12, <1>13, <1>14
    DEF Action, OpenStep, Close, Die

LEMMA ActionType ==
    ASSUME SchemaInv, NEW p \in Openers, Action(p)
    PROVE  /\ objects' \subseteq AllObjects /\ columns' \subseteq AllColumns /\ version' \in 0 .. 4
           /\ rows' \in BOOLEAN /\ indexed' \in {"none", "some", "all"}
           /\ stage' \in [Openers -> Labels] /\ at' \in [Openers -> 1 .. 10]
           /\ seen' \in [Openers -> 0 .. 4] /\ counted' \in [Openers -> BOOLEAN]
  <1>i. SchemaTypeOK /\ ProcessInv(p)
    BY DEF SchemaInv, LayoutInv
  <1> USE DEF Goto
  <1>1. CASE Open(p)
    BY <1>i, <1>1 DEF Open, SchemaTypeOK, file, Labels
  <1>2. CASE CreateStep(p)
    <2>1. UNCHANGED <<version, rows, seen, counted>> /\ CreateStatements[at[p]] \in AllObjects
      BY <1>2, <1>i, Statements DEF CreateStep, SchemaTypeOK
    <2> QED
      BY <1>2, <1>i, <2>1, NextStatement DEF SchemaTypeOK, Labels
  <1>3. CASE ReadVersion(p)
    BY <1>i, <1>3 DEF ReadVersion, SchemaTypeOK, file, Labels
  <1>4. CASE CountNodes(p)
    BY <1>i, <1>4 DEF CountNodes, SchemaTypeOK, file, Labels
  <1>5. CASE CountEdges(p)
    BY <1>i, <1>5 DEF CountEdges, FirstMigration, SchemaTypeOK, file, Labels
  <1>6. CASE StampFresh(p)
    BY <1>i, <1>6 DEF StampFresh, SchemaTypeOK, Labels, SCHEMA_VERSION
  <1>7. CASE Rebuild(p)
    BY <1>i, <1>7, RebuildFails DEF Rebuild, SchemaTypeOK, Labels
  <1>8. CASE DropFts(p)
    BY <1>i, <1>8, Drops DEF DropFts, SchemaTypeOK, Labels, ProcessInv, AtInv
  <1>9. CASE AddColumn(p)
    BY <1>i, <1>9, Statements DEF AddColumn, SchemaTypeOK, Labels
  <1>10. CASE StampV4(p)
    BY <1>i, <1>10 DEF StampV4, SchemaTypeOK, Labels
  <1>11. CASE CountFts(p)
    BY <1>i, <1>11 DEF CountFts, SchemaTypeOK, file, Labels
  <1>12. CASE Backfill(p)
    BY <1>i, <1>12 DEF Backfill, SchemaTypeOK, Labels
  <1>13. CASE Save(p)
    BY <1>i, <1>13 DEF Save, SchemaTypeOK, local
  <1>14. CASE Close(p) \/ Die(p)
    BY <1>i, <1>14 DEF Close, Die, SchemaTypeOK, file, Labels
  <1> QED
    BY <1>1, <1>2, <1>3, <1>4, <1>5, <1>6, <1>7, <1>8, <1>9, <1>10, <1>11, <1>12, <1>13, <1>14
    DEF Action, OpenStep

(* The objects and the index. *)

\* An undisturbed step: nobody else is in a migration.
Undisturbed(p) == SchemaInv /\ Action(p) /\ ~disturbed /\ ~Disturbs

LEMMA OthersRest ==
    ASSUME NEW p \in Openers, Undisturbed(p), NEW q \in Openers, q # p
    PROVE  /\ stage'[q] = stage[q] /\ at'[q] = at[q]
           /\ ~Migrating(q)
  <1>i. /\ SchemaTypeOK /\ AloneInv /\ Action(p) /\ ProcessInv(p)
        /\ \A r, u \in Openers : ~(r # u /\ Migrating(r)' /\ stage'[u] # "closed")
    BY DEF Undisturbed, SchemaInv, LayoutInv, UsableInv, Disturbs
  <1>1. stage'[q] = stage[q] /\ at'[q] = at[q]
    BY <1>i, NextStatement
    DEF Undisturbed, Action, OpenStep, Open, CreateStep, ReadVersion, CountNodes, CountEdges,
        StampFresh, Rebuild, DropFts, AddColumn, StampV4, CountFts, Backfill, Save, Close, Die,
        Goto, SchemaTypeOK, local
  <1>2. stage[p] = "closed" => stage'[p] = "create"
    BY <1>i
    DEF Action, OpenStep, Open, CreateStep, ReadVersion, CountNodes, CountEdges,
        StampFresh, Rebuild, DropFts, AddColumn, StampV4, CountFts, Backfill, Save, Close, Die,
        Goto, SchemaTypeOK
  <1>3. ASSUME Migrating(q) PROVE FALSE
    <2>1. stage[p] = "closed" /\ Migrating(q)'
      BY <1>i, <1>1, <1>3 DEF AloneInv, Migrating
    <2> QED
      BY <1>i, <1>2, <2>1
  <1> QED
    BY <1>1, <1>3

\* What p's own step has to show for ObjectsInv.
OwnObjects(p) ==
    /\ stage[p] \in {"create", "create_again"} =>
           \A k \in 1 .. (at[p] - 1) : CreateStatements[k] \in objects
    /\ stage[p] \in Created \ {"to_v4", "add_column", "stamp_v4", "create_again"} =>
           \A k \in 1 .. 10 : CreateStatements[k] \in objects

LEMMA StepObjects ==
    ASSUME NEW p \in Openers, Undisturbed(p)
    PROVE  ObjectsInv'
  <1>i. /\ SchemaTypeOK /\ Action(p) /\ ProcessInv(p) /\ SchemaInv
        /\ \A q \in Openers : OwnObjects(q)
        /\ \A q, r \in Openers : q # r /\ Migrating(q)' => stage'[r] = "closed"
    BY DEF Undisturbed, SchemaInv, LayoutInv, UsableInv, ObjectsInv, OwnObjects, Disturbs
  <1>s. SUFFICES ASSUME NEW q \in Openers PROVE OwnObjects(q)'
    BY DEF ObjectsInv, OwnObjects
  <1> USE DEF Goto
  <1>1. CASE DropFts(p)
    <2>1. Migrating(p)' /\ stage'[p] \in {"to_v4", "add_column"}
      BY <1>i, <1>1 DEF DropFts, Migrating, SchemaTypeOK
    <2>2. q # p => stage'[q] = "closed"
      BY <1>i, <2>1
    <2> QED
      BY <2>1, <2>2 DEF OwnObjects, Created, Labels
  <1>2. CASE ~DropFts(p)
    <2>1. objects \subseteq objects'
      BY <1>i, <1>2, NextStatement, RebuildFails
      DEF Action, OpenStep, Open, ReadVersion, CountNodes, CountEdges, StampFresh, AddColumn,
          StampV4, CountFts, Backfill, Save, Close, Die, file
    <2>2. CASE q # p
      BY <1>i, <2>1, <2>2, OthersRest DEF OwnObjects
    <2>3. CASE q = p /\ CreateStep(p)
      <3> DEFINE object == CreateStatements[at[p]]
      <3>1. /\ stage[p] \in {"create", "create_again"} /\ at[p] \in 1 .. 10
            /\ stage \in [Openers -> Labels] /\ at \in [Openers -> 1 .. 10]
        BY <1>i, <2>3 DEF CreateStep, SchemaTypeOK
      <3>2. CASE stage' = [stage EXCEPT ![p] = "failed"]
        BY <2>3, <3>1, <3>2 DEF OwnObjects, Created
      <3>3. CASE /\ objects' = objects \cup {object}
                 /\ at[p] < 10 /\ at' = [at EXCEPT ![p] = @ + 1] /\ UNCHANGED stage
        BY <1>i, <2>3, <3>1, <3>3 DEF OwnObjects
      <3>4. CASE /\ objects' = objects \cup {object}
                 /\ at[p] = 10 /\ at' = [at EXCEPT ![p] = 1]
                 /\ stage' = [stage EXCEPT ![p] = IF stage[p] = "create" THEN "read_version"
                                            ELSE "count_fts"]
        BY <1>i, <2>3, <3>1, <3>4 DEF OwnObjects
      <3> QED
        BY <1>i, <2>3, <3>2, <3>3, <3>4, NextStatement
    <2>4. CASE q = p /\ (Open(p) \/ Close(p) \/ Die(p) \/ AddColumn(p) \/ Rebuild(p))
      <3>1. /\ stage'[p] \in {"create", "closed", "stamp_v4", "failed"}
            /\ stage'[p] = "create" => at'[p] = 1
        BY <1>i, <2>4, RebuildFails DEF Open, Close, Die, AddColumn, SchemaTypeOK
      <3> QED
        BY <2>4, <3>1 DEF OwnObjects, Created
    <2>5. CASE q = p /\ StampV4(p)
      BY <1>i, <2>5 DEF StampV4, OwnObjects, SchemaTypeOK, ProcessInv, AtInv, Created, Labels
    <2>6. CASE q = p /\ (ReadVersion(p) \/ CountNodes(p) \/ CountEdges(p) \/ StampFresh(p)
                          \/ CountFts(p) \/ Backfill(p) \/ Save(p))
      <3>1. /\ stage[p] \in Created \ {"to_v4", "add_column", "stamp_v4", "create_again"}
            /\ stage'[p] \notin {"create", "create_again"}
        BY <1>i, <2>6
        DEF ReadVersion, CountNodes, CountEdges, FirstMigration, StampFresh, CountFts, Backfill,
            Save, SchemaTypeOK, Created, Labels, local
      <3> QED
        BY <1>i, <2>1, <2>6, <3>1 DEF OwnObjects
    <2> QED
      BY <1>i, <1>2, <2>2, <2>3, <2>4, <2>5, <2>6 DEF Action, OpenStep
  <1> QED
    BY <1>1, <1>2

LEMMA StepIndex ==
    ASSUME NEW p \in Openers, Undisturbed(p)
    PROVE  IndexInv'
  <1>i. /\ SchemaTypeOK /\ Action(p) /\ ProcessInv(p) /\ SchemaInv /\ IndexInv /\ ObjectsInv
        /\ ~(Migrating(p) /\ stage'[p] = "closed")
    BY DEF Undisturbed, SchemaInv, LayoutInv, UsableInv, Disturbs
  <1>q. \A q \in Openers : q # p => ~Migrating(q) /\ ~Migrating(q)'
    BY OthersRest DEF Migrating
  <1>f. version = SCHEMA_VERSION /\ rows /\ ~Migrating(p) => indexed = "all"
    BY <1>i, <1>q DEF IndexInv
  <1>s. SUFFICES /\ (version = SCHEMA_VERSION /\ rows /\ ~Migrating(p) => indexed = "all")'
                 /\ stage'[p] \in {"add_column", "stamp_v4", "create_again", "count_fts",
                                "backfill"} => indexed' = "none"
    <2>1. \A q \in Openers \ {p} : stage'[q] \notin {"add_column", "stamp_v4", "create_again",
                                                 "count_fts", "backfill"}
      BY <1>q DEF Migrating
    <2> QED
      BY <2>1 DEF IndexInv
  <1> USE DEF Goto
  <1>1. CASE Open(p) \/ Close(p) \/ ReadVersion(p) \/ CountNodes(p) \/ CountEdges(p)
    <2>1. /\ ~Migrating(p) /\ UNCHANGED <<version, rows, indexed>>
          /\ stage'[p] \notin {"add_column", "stamp_v4", "create_again", "count_fts", "backfill"}
      BY <1>i, <1>1
      DEF Open, Close, ReadVersion, CountNodes, CountEdges, FirstMigration, SchemaTypeOK, Migrating, file
    <2> QED
      BY <1>f, <2>1
  <1>2. CASE Die(p)
    <2>1. /\ ~Migrating(p) /\ UNCHANGED <<version, rows, indexed>> /\ stage'[p] = "closed"
      BY <1>i, <1>2 DEF Die, SchemaTypeOK, file
    <2> QED
      BY <1>f, <2>1
  <1>3. CASE CreateStep(p)
    <2>1. UNCHANGED <<version, rows, indexed>> /\ stage[p] \in {"create", "create_again"}
      BY <1>i, <1>3, NextStatement DEF CreateStep
    <2>2. CASE stage[p] = "create"
      <3>1. stage'[p] \in {"create", "failed", "read_version"}
        BY <1>i, <1>3, <2>2, NextStatement DEF SchemaTypeOK
      <3> QED
        BY <1>f, <2>1, <2>2, <3>1 DEF Migrating
    <2>3. CASE stage[p] = "create_again"
      <3>1. stage'[p] \in {"create_again", "count_fts"} /\ indexed = "none"
        BY <1>i, <1>3, <2>3, NextStatement DEF SchemaTypeOK, IndexInv
      <3> QED
        BY <2>1, <3>1 DEF Migrating
    <2> QED
      BY <2>1, <2>2, <2>3
  <1>4. CASE StampFresh(p)
    <2>1. /\ stage[p] = "stamp" /\ stage'[p] = "opened" /\ UNCHANGED <<rows, indexed>>
          /\ version = SCHEMA_VERSION \/ ~rows
      BY <1>i, <1>4 DEF StampFresh, ProcessInv, SchemaTypeOK
    <2> QED
      BY <1>f, <2>1 DEF Migrating
  <1>5. CASE Rebuild(p)
    <2>1. /\ stage[p] = "to_v2" /\ stage'[p] = "failed" /\ UNCHANGED <<version, rows, indexed>>
      BY <1>i, <1>5, RebuildFails DEF Rebuild, SchemaTypeOK
    <2> QED
      BY <1>f, <2>1 DEF Migrating
  <1>6. CASE DropFts(p)
    <2>1. /\ stage'[p] \in {"to_v4", "add_column"}
          /\ stage'[p] = "add_column" => indexed' = "none"
      BY <1>i, <1>6, Drops DEF DropFts, SchemaTypeOK
    <2> QED
      BY <2>1 DEF Migrating
  <1>7. CASE AddColumn(p) \/ StampV4(p)
    <2>1. /\ stage'[p] \in {"stamp_v4", "create_again"} /\ UNCHANGED indexed /\ indexed = "none"
      BY <1>i, <1>7 DEF AddColumn, StampV4, SchemaTypeOK, IndexInv
    <2> QED
      BY <2>1 DEF Migrating
  <1>8. CASE CountFts(p)
    <2>1. /\ UNCHANGED <<version, rows, indexed>> /\ indexed = "none"
          /\ stage'[p] = "backfill" \/ (stage'[p] = "opened" /\ ~rows)
      BY <1>i, <1>8 DEF CountFts, SchemaTypeOK, IndexInv, file
    <2> QED
      BY <2>1 DEF Migrating
  <1>9. CASE Backfill(p)
    <2>1. "symbol_fts" \in objects
      BY <1>i, <1>9, Statements DEF Backfill, ObjectsInv, Created, Labels
    <2>2. indexed' = "all" /\ stage'[p] = "opened"
      BY <1>i, <1>9, <2>1 DEF Backfill, SchemaTypeOK
    <2> QED
      BY <2>2
  <1>10. CASE Save(p)
    <2>1. /\ stage[p] = "opened" /\ UNCHANGED stage /\ version = SCHEMA_VERSION
          /\ "nodes_fts_ai" \in objects /\ indexed' = IF rows THEN indexed ELSE "all"
      <3>1. stage[p] = "opened" /\ UNCHANGED stage /\ version = SCHEMA_VERSION
        BY <1>i, <1>10 DEF Save, local, ProcessInv, Created4
      <3>2. "nodes_fts_ai" \in objects
        BY <1>i, <3>1, Statements DEF ObjectsInv, Created, Labels
      <3>3. ~(rows /\ indexed = "none")
        BY <1>f, <3>1 DEF Migrating
      <3> QED
        BY <1>10, <3>1, <3>2, <3>3 DEF Save
    <2> QED
      BY <1>f, <2>1 DEF Migrating
  <1> QED
    BY <1>i, <1>1, <1>2, <1>3, <1>4, <1>5, <1>6, <1>7, <1>8, <1>9, <1>10 DEF Action, OpenStep

LEMMA SchemaNextInv == SchemaInv /\ [SchemaNext]_schemaVars => SchemaInv'
  <1>1. ASSUME SchemaInv, SchemaNext PROVE SchemaInv'
    <2>1. PICK p \in Openers : Action(p)
      BY <1>1 DEF SchemaNext, Action
    <2>2. disturbed' = (disturbed \/ Disturbs)
      BY <1>1 DEF SchemaNext
    <2>3. SchemaTypeOK'
      <3>1. disturbed' \in BOOLEAN
        BY <2>2, Zenon
      <3> QED
        BY <1>1, <2>1, <3>1, ActionType DEF SchemaTypeOK
    <2>4. LayoutInv'
      BY <1>1, <2>1, ActionLayout
    <2>5. UsableInv'
      <3>1. SUFFICES ASSUME ~disturbed' PROVE AloneInv' /\ ObjectsInv' /\ IndexInv'
        BY DEF UsableInv
      <3>2. Undisturbed(p)
        BY <1>1, <2>1, <2>2, <3>1, Zenon DEF Undisturbed
      <3>3. AloneInv'
        BY <3>2 DEF Undisturbed, Disturbs, AloneInv
      <3> QED
        BY <3>2, <3>3, StepObjects, StepIndex
    <2> QED
      BY <2>3, <2>4, <2>5 DEF SchemaInv
  <1>2. ASSUME SchemaInv, UNCHANGED schemaVars PROVE SchemaInv'
    BY <1>2
    DEF schemaVars, file, local, SchemaInv, SchemaTypeOK, LayoutInv, IndexesStand, OldVersions, StampMeansColumns,
        ProcessInv, BatchDone, AtInv, UsableInv, AloneInv, ObjectsInv, IndexInv, Migrating
  <1> QED
    BY <1>1, <1>2

\* The inductive invariant holds whatever is opened, by how many processes.
THEOREM SchemaInvariance == SchemaSpec => []SchemaInv
  BY SchemaInitInv, SchemaNextInv, PTL DEF SchemaSpec

(***************************************************************************)
(* The theorems.                                                            *)
(***************************************************************************)

\* Every variable keeps its type.
THEOREM SchemaTypeCorrect == SchemaSpec => []SchemaTypeOK
  <1>1. SchemaInv => SchemaTypeOK
    BY DEF SchemaInv
  <1> QED
    BY <1>1, SchemaInvariance, PTL

\* The stamp is not ahead of the edges table, whatever died before the stamp
\* (schema.rs:120, 132-138).
THEOREM StampIsHonest == SchemaSpec => []StampMeansColumns
  <1>1. SchemaInv => StampMeansColumns
    BY DEF SchemaInv, LayoutInv
  <1> QED
    BY <1>1, SchemaInvariance, PTL

\* Who is let in finds the whole schema and a full index, unless a migration
\* was disturbed (schema.rs:16-105, 238-254).
THEOREM LetInMeansUsable == SchemaSpec => []OpenedIsUsable
  <1>1. SchemaInv => OpenedIsUsable
    <2> SUFFICES ASSUME SchemaInv, ~disturbed, NEW p \in Openers, stage[p] = "opened"
                 PROVE  objects = AllObjects /\ (rows => indexed = "all")
      BY DEF OpenedIsUsable
    <2>1. SchemaTypeOK /\ ProcessInv(p) /\ AloneInv /\ ObjectsInv /\ IndexInv
      BY DEF SchemaInv, LayoutInv, UsableInv
    <2>2. objects = AllObjects
      <3>1. \A k \in 1 .. 10 : CreateStatements[k] \in objects
        BY <2>1 DEF ObjectsInv, Created, Labels
      <3> QED
        BY <2>1, <3>1, Statements DEF SchemaTypeOK
    <2>3. \A q \in Openers : ~Migrating(q)
      BY <2>1 DEF AloneInv, Migrating
    <2> QED
      BY <2>1, <2>2, <2>3 DEF IndexInv, ProcessInv, Created4
  <1> QED
    BY <1>1, SchemaInvariance, PTL

\* A file whose edges table lacks a column is never opened, and no migration
\* from version 1 or 2 is ever done: what schema.rs:141-212 is written for does
\* not get through create_schema (mod.rs:32).
OldFilesStayClosed ==
    /\ columns # AllColumns => \A p \in Openers : stage[p] # "opened"
    /\ \A p \in Openers : stage[p] # "to_v3"

\* No process gets into a file of the old layouts (mod.rs:32).
THEOREM OldFilesAreNotMigrated == SchemaSpec => []OldFilesStayClosed
  <1>1. SchemaInv => OldFilesStayClosed
    BY DEF SchemaInv, LayoutInv, ProcessInv, Created, Labels, OldFilesStayClosed
  <1> QED
    BY <1>1, SchemaInvariance, PTL
=============================================================================
