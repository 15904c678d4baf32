----------------------------- MODULE AtomicStore -----------------------------
(***************************************************************************)
(* What the GraphStorage trait (ast-graph-storage/src/lib.rs) promises when *)
(* the SQLite backend implements it: each operation that writes is one      *)
(* atomic step on the stored graph, except clear, which is three.           *)
(***************************************************************************)
EXTENDS Integers, FiniteSets

CONSTANTS Ids, Files, Texts, Hashes, Kinds, Lines, FileOf, LineOf, Graphs, NoId, NoHash

VARIABLE store      \* [nodes, parent, text, edges, file_hashes]

Among(e, S) == e.source \in S /\ e.target \in S
Avoids(e, S) == e.source \notin S /\ e.target \notin S

\* The parents a save leaves when the nodes of `lost` lose theirs.
ParentsAfterSave(g, lost) ==
    [i \in Ids |->
        IF i \in g.nodes
        THEN IF g.parent[i] \in g.nodes /\ i \notin lost THEN g.parent[i] ELSE NoId
        ELSE IF store.parent[i] \in g.nodes THEN NoId ELSE store.parent[i]]

\* A node may lose a parent that was stored already: the parent's row is
\* replaced, before or after the child is inserted.
MayLose(g) == {i \in g.nodes : g.parent[i] \in g.nodes \cap store.nodes}

EdgesOf(g) ==
    {e \in g.edges : Among(e, g.nodes)}
        \cup {[source |-> g.parent[i], target |-> i, kind |-> "CONTAINS", line |-> LineOf[i]] :
                 i \in {c \in g.nodes : g.parent[c] \in g.nodes}}

NoText == CHOOSE t \in Texts : TRUE

Init ==
    store = [nodes |-> {}, parent |-> [i \in Ids |-> NoId], text |-> [i \in Ids |-> NoText],
             edges |-> {}, file_hashes |-> [f \in Files |-> NoHash]]

Save == \E g \in Graphs : \E lost \in SUBSET MayLose(g) :
    store' = [nodes |-> store.nodes \cup g.nodes,
                parent |-> ParentsAfterSave(g, lost),
                text |-> [i \in Ids |-> IF i \in g.nodes THEN g.text[i] ELSE store.text[i]],
                edges |-> {e \in store.edges : Avoids(e, g.nodes)} \cup EdgesOf(g),
                file_hashes |-> [f \in Files |-> IF g.hashes[f] # NoHash THEN g.hashes[f]
                                                 ELSE store.file_hashes[f]]]

\* The rows of S leave, children elsewhere lose their parent; the hashes
\* become h.
Without(S, h) ==
    [nodes |-> store.nodes \ S,
     parent |-> [i \in Ids |-> IF i \in S \/ store.parent[i] \in S THEN NoId ELSE store.parent[i]],
     text |-> [i \in Ids |-> IF i \in S THEN NoText ELSE store.text[i]],
     edges |-> {e \in store.edges : Avoids(e, S)},
     file_hashes |-> h]

RemoveFile == \E f \in Files :
    store' = Without({i \in store.nodes : FileOf[i] = f}, [store.file_hashes EXCEPT ![f] = NoHash])

ClearEdges == store' = [store EXCEPT !.edges = {}]
ClearNodes == store' = Without(store.nodes, store.file_hashes)
ClearHashes == store' = [store EXCEPT !.file_hashes = [f \in Files |-> NoHash]]

Next == Save \/ RemoveFile \/ ClearEdges \/ ClearNodes \/ ClearHashes

Spec == Init /\ [][Next]_store
=============================================================================
