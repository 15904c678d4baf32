------------------------------ MODULE CodeGraph ------------------------------
(***************************************************************************)
(* The in-memory graph of ast-graph-core/src/graph.rs, as operators on a    *)
(* record.  Each adjacency map is a function that gives {} where the map    *)
(* has no key, and its Vec of edges is the set of them: kinds, lines and    *)
(* confidences, which no operation here looks at, are left out, and so are  *)
(* the counts of refresh_metadata.                                          *)
(***************************************************************************)
EXTENDS FiniteSets

CONSTANTS
    Files,      \* paths of source files
    Names,      \* names of symbols and of call targets
    Lines,      \* line numbers
    Contents,   \* what a file can hold; the hash of a file stands for it
    NoHash      \* a path that file_hashes does not have

ASSUME NoHashAssumption == NoHash \notin Contents

\* A NodeId hashes the path, the name and the line: symbol.rs.
NodeId == [file : Files, name : Names, line : Lines]
Edge == [source : NodeId, target : NodeId]
RawEdge == [source : NodeId, target : Names]

Graph ==
    [nodes : SUBSET NodeId,
     adjacency : [NodeId -> SUBSET Edge],
     reverse_adj : [NodeId -> SUBSET Edge],
     file_index : [Files -> SUBSET NodeId],
     file_hashes : [Files -> Contents \cup {NoHash}],
     raw_edges : SUBSET RawEdge]

EmptyGraph ==
    [nodes |-> {},
     adjacency |-> [n \in NodeId |-> {}],
     reverse_adj |-> [n \in NodeId |-> {}],
     file_index |-> [f \in Files |-> {}],
     file_hashes |-> [f \in Files |-> NoHash],
     raw_edges |-> {}]

\* add_node for each of a set of symbols.
AddNodes(g, symbols) ==
    [g EXCEPT
        !.nodes = @ \cup symbols,
        !.file_index = [f \in Files |-> @[f] \cup {n \in symbols : n.file = f}]]

AddRawEdges(g, raws) == [g EXCEPT !.raw_edges = @ \cup raws]

Reverse(e) == [source |-> e.target, target |-> e.source]

\* add_edge for each of a set of edges.
AddEdges(g, edges) ==
    [g EXCEPT
        !.adjacency = [n \in NodeId |-> @[n] \cup {e \in edges : e.source = n}],
        !.reverse_adj =
            [n \in NodeId |-> @[n] \cup {Reverse(e) : e \in {d \in edges : d.target = n}}]]

\* remove_file for each of a set of files: their symbols, the edges filed
\* under those, and in both maps the edges that lead to one of them.  The raw
\* edges stay.  Mutants: the reverse map is forgotten; a symbol with an edge
\* to a removed one loses all its edges.
RemoveFiles_ForwardOnly(g, files) ==
    LET ids == UNION {g.file_index[f] : f \in files} IN
    [g EXCEPT
        !.nodes = @ \ ids,
        !.adjacency =
            [n \in NodeId |-> IF n \in ids THEN {} ELSE {e \in @[n] : e.target \notin ids}],
        !.reverse_adj = [n \in NodeId |-> IF n \in ids THEN {} ELSE @[n]],
        !.file_index = [f \in Files |-> IF f \in files THEN {} ELSE @[f]],
        !.file_hashes = [f \in Files |-> IF f \in files THEN NoHash ELSE @[f]]]
RemoveFiles_TooMuch(g, files) ==
    LET ids == UNION {g.file_index[f] : f \in files}
        left(edges) == {e \in edges : e.target \notin ids} IN
    [g EXCEPT
        !.nodes = @ \ ids,
        !.adjacency = [n \in NodeId |-> IF left(@[n]) # @[n] THEN {} ELSE @[n]],
        !.reverse_adj = [n \in NodeId |-> IF left(@[n]) # @[n] THEN {} ELSE @[n]],
        !.file_index = [f \in Files |-> IF f \in files THEN {} ELSE @[f]],
        !.file_hashes = [f \in Files |-> IF f \in files THEN NoHash ELSE @[f]]]
RemoveFiles(g, files) ==
    LET ids == UNION {g.file_index[f] : f \in files}
        left(n, edges) == IF n \in ids THEN {} ELSE {e \in edges : e.target \notin ids} IN
    [g EXCEPT
        !.nodes = @ \ ids,
        !.adjacency = [n \in NodeId |-> left(n, @[n])],
        !.reverse_adj = [n \in NodeId |-> left(n, @[n])],
        !.file_index = [f \in Files |-> IF f \in files THEN {} ELSE @[f]],
        !.file_hashes = [f \in Files |-> IF f \in files THEN NoHash ELSE @[f]]]

EdgesOf(g) == UNION {g.adjacency[n] : n \in NodeId}
NodesOf(g, f) == {n \in g.nodes : n.file = f}

-----------------------------------------------------------------------------
\* The maps of a graph say the same.

IndexMatchesNodes(g) == \A f \in Files : g.file_index[f] = NodesOf(g, f)

EdgesJoinNodes(g) ==
    \A n \in NodeId : \A e \in g.adjacency[n] :
        e.source = n /\ e.source \in g.nodes /\ e.target \in g.nodes

Mirrored(g) ==
    \A e \in Edge : e \in g.adjacency[e.source] <=> Reverse(e) \in g.reverse_adj[e.target]

ReverseEdgesFiled(g) ==
    \A n \in NodeId : \A e \in g.reverse_adj[n] : e.source = n

WellFormed(g) ==
    /\ IndexMatchesNodes(g)
    /\ EdgesJoinNodes(g)
    /\ Mirrored(g)
    /\ ReverseEdgesFiled(g)
=============================================================================
