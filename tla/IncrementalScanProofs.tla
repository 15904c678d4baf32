------------------------ MODULE IncrementalScanProofs ------------------------
(***************************************************************************)
(* Proofs about IncrementalScan, for any files and contents and any number  *)
(* of edits and scans: the graph stays well formed when every scan is       *)
(* resolved, stored hashes describe the stored symbols, an undisturbed      *)
(* update gives the symbols of a full scan, and its edges where they ought  *)
(* to have changed, with all others kept.                                   *)
(***************************************************************************)
EXTENDS IncrementalScan, TLAPS

-----------------------------------------------------------------------------
\* The operations of CodeGraph keep a graph well formed.

LEMMA EmptyGraphFacts == EmptyGraph \in Graph /\ WellFormed(EmptyGraph)
  BY DEF EmptyGraph, Graph, WellFormed, IndexMatchesNodes, EdgesJoinNodes, Mirrored,
         ReverseEdgesFiled, NodesOf, Reverse, Edge, NodeId

LEMMA AddNodesFacts ==
  ASSUME NEW g \in Graph, WellFormed(g), NEW symbols \in SUBSET NodeId
  PROVE  AddNodes(g, symbols) \in Graph /\ WellFormed(AddNodes(g, symbols))
<1> DEFINE h == AddNodes(g, symbols)
<1>1. h \in Graph
  BY DEF AddNodes, Graph
<1>2. /\ h.nodes = g.nodes \cup symbols
      /\ h.adjacency = g.adjacency
      /\ h.reverse_adj = g.reverse_adj
      /\ \A f \in Files : h.file_index[f] = g.file_index[f] \cup {n \in symbols : n.file = f}
  BY DEF AddNodes, Graph
<1>3. IndexMatchesNodes(h)
  BY <1>2 DEF IndexMatchesNodes, NodesOf, WellFormed
<1>4. EdgesJoinNodes(h)
  BY <1>2 DEF EdgesJoinNodes, WellFormed
<1>5. Mirrored(h) /\ ReverseEdgesFiled(h)
  BY <1>2 DEF Mirrored, ReverseEdgesFiled, WellFormed
<1> QED
  BY <1>1, <1>3, <1>4, <1>5 DEF WellFormed

LEMMA ReverseFacts ==
  ASSUME NEW e \in Edge
  PROVE  /\ Reverse(e) \in Edge
         /\ Reverse(e).source = e.target /\ Reverse(e).target = e.source
         /\ e.source \in NodeId /\ e.target \in NodeId
         /\ \A d \in Edge : Reverse(d) = Reverse(e) => d = e
  BY DEF Reverse, Edge

LEMMA AddEdgesFacts ==
  ASSUME NEW g \in Graph, WellFormed(g), NEW edges \in SUBSET Edge,
         \A e \in edges : e.source \in g.nodes /\ e.target \in g.nodes
  PROVE  AddEdges(g, edges) \in Graph /\ WellFormed(AddEdges(g, edges))
<1> DEFINE h == AddEdges(g, edges)
<1>1. /\ h.nodes = g.nodes
      /\ h.file_index = g.file_index
      /\ \A n \in NodeId : h.adjacency[n] = g.adjacency[n] \cup {e \in edges : e.source = n}
      /\ \A n \in NodeId : h.reverse_adj[n] =
            g.reverse_adj[n] \cup {Reverse(e) : e \in {d \in edges : d.target = n}}
  BY DEF AddEdges, Graph
<1>2. h \in Graph
  <2> DEFINE back(n) == {Reverse(e) : e \in {d \in edges : d.target = n}}
  <2>1. \A n \in NodeId : back(n) \subseteq Edge
    BY ReverseFacts
  <2>2. h = [g EXCEPT
              !.adjacency = [n \in NodeId |-> @[n] \cup {e \in edges : e.source = n}],
              !.reverse_adj = [n \in NodeId |-> @[n] \cup back(n)]]
    BY DEF AddEdges
  <2> HIDE DEF back, h
  <2> QED
    BY <2>1, <2>2 DEF Graph
<1>3. IndexMatchesNodes(h)
  BY <1>1 DEF IndexMatchesNodes, NodesOf, WellFormed
<1>4. EdgesJoinNodes(h)
  BY <1>1 DEF EdgesJoinNodes, WellFormed
<1>5. Mirrored(h)
  <2> SUFFICES ASSUME NEW e \in Edge
               PROVE  e \in h.adjacency[e.source] <=> Reverse(e) \in h.reverse_adj[e.target]
    BY DEF Mirrored
  <2>1. e \in g.adjacency[e.source] <=> Reverse(e) \in g.reverse_adj[e.target]
    BY DEF WellFormed, Mirrored
  <2>2. e \in h.adjacency[e.source] <=> e \in g.adjacency[e.source] \/ e \in edges
    BY <1>1, ReverseFacts
  <2>3. Reverse(e) \in h.reverse_adj[e.target]
          <=> \/ Reverse(e) \in g.reverse_adj[e.target]
              \/ \E d \in edges : d.target = e.target /\ Reverse(d) = Reverse(e)
    BY <1>1, ReverseFacts
  <2>4. (\E d \in edges : d.target = e.target /\ Reverse(d) = Reverse(e)) <=> e \in edges
    BY ReverseFacts
  <2> QED
    BY <2>1, <2>2, <2>3, <2>4
<1>6. ReverseEdgesFiled(h)
  BY <1>1, ReverseFacts DEF ReverseEdgesFiled, WellFormed
<1> QED
  BY <1>2, <1>3, <1>4, <1>5, <1>6 DEF WellFormed

LEMMA RemoveFilesFacts ==
  ASSUME NEW g \in Graph, WellFormed(g), NEW files \in SUBSET Files
  PROVE  /\ RemoveFiles(g, files) \in Graph
         /\ WellFormed(RemoveFiles(g, files))
         /\ RemoveFiles(g, files).raw_edges = g.raw_edges
         /\ \A n : n \in RemoveFiles(g, files).nodes <=> n \in g.nodes /\ n.file \notin files
<1> DEFINE h == RemoveFiles(g, files)
           ids == UNION {g.file_index[f] : f \in files}
<1>1. /\ h.nodes = g.nodes \ ids
      /\ h.raw_edges = g.raw_edges
      /\ \A f \in Files : h.file_index[f] = IF f \in files THEN {} ELSE g.file_index[f]
  BY DEF RemoveFiles, Graph
<1>1a. \A n \in NodeId : \A e :
         /\ e \in h.adjacency[n]
              <=> n \notin ids /\ e \in g.adjacency[n] /\ e.target \notin ids
         /\ e \in h.reverse_adj[n]
              <=> n \notin ids /\ e \in g.reverse_adj[n] /\ e.target \notin ids
  BY DEF RemoveFiles, Graph
<1>2. h \in Graph
  BY DEF RemoveFiles, Graph
<1>3. \A n : n \in ids <=> n \in g.nodes /\ n.file \in files
  BY DEF WellFormed, IndexMatchesNodes, NodesOf
<1>3a. \A n : n \in h.nodes <=> n \in g.nodes /\ n.file \notin files
  BY <1>1, <1>3
<1> HIDE DEF h, ids
<1>4. IndexMatchesNodes(h)
  <2> SUFFICES ASSUME NEW f \in Files, NEW n
               PROVE  n \in h.file_index[f] <=> n \in h.nodes /\ n.file = f
    BY DEF IndexMatchesNodes, NodesOf
  <2>1. n \in g.file_index[f] <=> n \in g.nodes /\ n.file = f
    BY DEF WellFormed, IndexMatchesNodes, NodesOf
  <2> QED
    BY <1>1, <1>3a, <2>1
<1>5. EdgesJoinNodes(h)
  BY <1>1, <1>1a DEF EdgesJoinNodes, WellFormed
<1>6. Mirrored(h)
  <2> SUFFICES ASSUME NEW e \in Edge
               PROVE  e \in h.adjacency[e.source] <=> Reverse(e) \in h.reverse_adj[e.target]
    BY DEF Mirrored
  <2>1. e \in g.adjacency[e.source] <=> Reverse(e) \in g.reverse_adj[e.target]
    BY DEF WellFormed, Mirrored
  <2>2. e \in h.adjacency[e.source]
          <=> e \in g.adjacency[e.source] /\ e.source \notin ids /\ e.target \notin ids
    BY <1>1a, ReverseFacts
  <2>3. Reverse(e) \in h.reverse_adj[e.target]
          <=> Reverse(e) \in g.reverse_adj[e.target] /\ e.source \notin ids /\ e.target \notin ids
    BY <1>1a, ReverseFacts
  <2> QED
    BY <2>1, <2>2, <2>3
<1>7. ReverseEdgesFiled(h)
  BY <1>1a DEF ReverseEdgesFiled, WellFormed
<1> QED
  BY <1>1, <1>2, <1>3a, <1>4, <1>5, <1>6, <1>7 DEF WellFormed, h

-----------------------------------------------------------------------------
\* What a file contributes.

LEMMA SymbolsFacts ==
  ASSUME NEW f \in Files, NEW c \in OnDisk
  PROVE  /\ Symbols(f, c) \in SUBSET NodeId
         /\ \A n \in Symbols(f, c) : n.file = f
         /\ Calls(f, c) \in SUBSET RawEdge
         /\ \A r \in Calls(f, c) : r.source \in Symbols(f, c)
         /\ Symbols(f, Absent) = {} /\ Calls(f, Absent) = {}
<1>1. CASE c = Absent
  BY <1>1 DEF Symbols, Calls
<1>2. CASE c # Absent
  <2>1. c \in Contents
    BY <1>2 DEF OnDisk
  <2>2. /\ \A d \in c.defs : d \in Def
        /\ \A k \in c.calls : k.from \in c.defs /\ k.target \in Names
    BY <2>1, ContentsAssumption
  <2>3. /\ Symbols(f, c) = {[file |-> f, name |-> d.name, line |-> d.line] : d \in c.defs}
        /\ Calls(f, c) = {[source |-> [file |-> f, name |-> k.from.name, line |-> k.from.line],
                           target |-> k.target] : k \in c.calls}
    BY <1>2 DEF Symbols, Calls
  <2>4. \A d \in Def : [file |-> f, name |-> d.name, line |-> d.line] \in NodeId
    BY DEF Def, NodeId
  <2>5. Symbols(f, c) \in SUBSET NodeId /\ \A n \in Symbols(f, c) : n.file = f
    BY <2>2, <2>3, <2>4
  <2>6. \A r \in Calls(f, c) : r \in RawEdge /\ r.source \in Symbols(f, c)
    BY <2>2, <2>3, <2>4 DEF RawEdge
  <2> QED
    BY <2>5, <2>6 DEF Symbols, Calls
<1> QED
  BY <1>1, <1>2

LEMMA HashFacts ==
  ASSUME NEW c \in OnDisk
  PROVE  /\ Hash(c) \in Contents \cup {NoHash}
         /\ Hash(c) = NoHash <=> c = Absent
         /\ c # Absent => Hash(c) = c
  BY NoHashAssumption, ContentsAssumption DEF Hash, OnDisk

-----------------------------------------------------------------------------
\* The inductive invariant.

\* The symbols of f are those of the content its stored hash stands for.
Described(f) ==
    NodesOf(graph, f) =
        IF graph.file_hashes[f] = NoHash THEN {} ELSE Symbols(f, graph.file_hashes[f])

Unhashed(f) == graph.file_hashes[f] = NoHash => NodesOf(graph, f) = {}

GraphInv ==
    /\ WellFormed(graph)
    /\ \A r \in graph.raw_edges : r.source \in graph.nodes
    /\ pc # "idle" => graph.raw_edges = {}

\* A file awaiting its symbols has none; one that is not parsed again has
\* those of the content found.
BeingMerged(f) ==
    /\ parsed[f] # Absent => f \in reparsed \ to_parse
    /\ f \in reparsed => NodesOf(graph, f) = {} /\ found[f] # Absent
    /\ f \in (reparsed \ to_parse) \ raced => parsed[f] = found[f]
    /\ found[f] = Absent => NodesOf(graph, f) = {}
    /\ f \notin reparsed \cup raced => NodesOf(graph, f) = Symbols(f, found[f])

ScanInv ==
    /\ pc = "idle" \/ (mode = "update" /\ pc \in {"discover", "detect"}) =>
         \A f \in Files : Unhashed(f) /\ (f \notin raced => Described(f))
    /\ pc \in {"discover", "detect"} => parsed = Nothing
    /\ pc \in {"parse", "merge"} => \A f \in Files : BeingMerged(f)
    /\ pc = "parse" => to_parse \subseteq reparsed
    /\ pc = "merge" => to_parse = {}

CalmInv ==
    /\ calm => raced = {}
    /\ calm /\ pc # "idle" => \A f \in walked : found[f] = disk[f]
    /\ pc \in {"detect", "parse", "merge"} => walked = Files
    /\ calm /\ pc = "idle" /\ scans > 0 =>
         asOf = found /\ \A f \in Files : graph.file_hashes[f] = Hash(found[f])

IInv == TypeOK /\ GraphInv /\ ScanInv /\ CalmInv

LEMMA InitOK == Init => IInv
<1> SUFFICES ASSUME Init PROVE IInv
  OBVIOUS
<1> USE EmptyGraphFacts DEF Init
<1>1. TypeOK
  BY DEF TypeOK, Nothing, OnDisk
<1>2. GraphInv
  BY DEF GraphInv, EmptyGraph
<1>3. ScanInv
  BY DEF ScanInv, Unhashed, Described, NodesOf, EmptyGraph
<1>4. CalmInv
  BY DEF CalmInv
<1> QED
  BY <1>1, <1>2, <1>3, <1>4 DEF IInv

LEMMA EditOK ==
  ASSUME IInv, NEW f \in Files, NEW c \in OnDisk, Edit(f, c)
  PROVE  IInv'
<1> USE DEF Edit, IInv, scan
<1>1. TypeOK'
  BY DEF TypeOK
<1>2. GraphInv'
  BY DEF GraphInv
<1>3. ScanInv'
  BY DEF ScanInv, Unhashed, Described, BeingMerged
<1>4. CalmInv'
  BY DEF CalmInv, TypeOK
<1> QED
  BY <1>1, <1>2, <1>3, <1>4

LEMMA StartOK ==
  ASSUME AlwaysResolve, IInv, NEW m \in {"full", "update"}, Start(m)
  PROVE  IInv'
<1> USE DEF Start, IInv
<1>1. TypeOK'
  BY DEF TypeOK, Nothing, OnDisk, EdgesOf, Graph
<1>2. GraphInv'
  BY DEF GraphInv
<1>3. ScanInv'
  BY DEF ScanInv, Unhashed, Described
<1>4. CalmInv'
  BY DEF CalmInv, TypeOK
<1> QED
  BY <1>1, <1>2, <1>3, <1>4

LEMMA DiscoverOK ==
  ASSUME IInv, NEW f \in Files, Discover(f)
  PROVE  IInv'
<1> USE DEF Discover, IInv, history
<1>1. TypeOK'
  BY DEF TypeOK
<1>2. GraphInv'
  BY DEF GraphInv
<1>3. ScanInv'
  BY DEF ScanInv, Unhashed, Described, TypeOK
<1>4. CalmInv'
  BY DEF CalmInv, TypeOK
<1> QED
  BY <1>1, <1>2, <1>3, <1>4

LEMMA NewGraphOK ==
  ASSUME IInv, NewGraph
  PROVE  IInv'
<1> USE DEF NewGraph, IInv
<1>1. graph' \in Graph /\ WellFormed(graph') /\ graph'.raw_edges = {} /\ graph'.nodes = {}
  <2>1. [f \in Files |-> Hash(found[f])] \in [Files -> Contents \cup {NoHash}]
    BY HashFacts DEF TypeOK
  <2>2. graph' \in Graph
    BY <2>1, EmptyGraphFacts DEF Graph
  <2>3. /\ graph'.nodes = EmptyGraph.nodes /\ graph'.adjacency = EmptyGraph.adjacency
        /\ graph'.reverse_adj = EmptyGraph.reverse_adj
        /\ graph'.file_index = EmptyGraph.file_index
        /\ graph'.raw_edges = EmptyGraph.raw_edges
    BY DEF EmptyGraph
  <2>4. WellFormed(graph')
    BY <2>3, EmptyGraphFacts
       DEF WellFormed, IndexMatchesNodes, EdgesJoinNodes, Mirrored, ReverseEdgesFiled, NodesOf
  <2> QED
    BY <2>2, <2>3, <2>4 DEF EmptyGraph
<1>2. TypeOK'
  BY <1>1 DEF TypeOK, AfterDetect
<1>3. GraphInv'
  BY <1>1 DEF GraphInv
<1>4. ScanInv'
  <2>1. \A f \in Files : BeingMerged(f)'
    BY <1>1, SymbolsFacts DEF BeingMerged, ScanInv, Nothing, NodesOf, TypeOK
  <2> QED
    BY <2>1 DEF ScanInv, AfterDetect
<1>5. CalmInv'
  BY DEF CalmInv, AfterDetect
<1> QED
  BY <1>2, <1>3, <1>4, <1>5

LEMMA DetectChangesOK ==
  ASSUME IInv, DetectChanges
  PROVE  IInv'
<1> USE DEF DetectChanges, IInv
<1> DEFINE gone == Removed \cup Modified
<1>1. gone \in SUBSET Files /\ graph \in Graph /\ WellFormed(graph)
  BY DEF Removed, Modified, TypeOK, GraphInv
<1>2. /\ graph' \in Graph /\ WellFormed(graph') /\ graph'.raw_edges = graph.raw_edges
      /\ \A n : n \in graph'.nodes <=> n \in graph.nodes /\ n.file \notin gone
  BY <1>1, RemoveFilesFacts
<1>3. TypeOK'
  BY <1>2 DEF TypeOK, AfterDetect, Added, Modified
<1>4. GraphInv'
  BY <1>2 DEF GraphInv
<1>5. ScanInv'
  <2>1. ASSUME NEW f \in Files
        PROVE  BeingMerged(f)'
    <3>1. parsed'[f] = Absent
      BY DEF ScanInv, Nothing
    <3>2. Unhashed(f) /\ (f \notin raced => Described(f))
      BY DEF ScanInv
    <3>3. found[f] \in OnDisk /\ graph.file_hashes[f] \in Contents \cup {NoHash}
      BY DEF TypeOK, Graph
    <3>4. NodesOf(graph', f) = IF f \in gone THEN {} ELSE NodesOf(graph, f)
      BY <1>2 DEF NodesOf
    <3>5. CASE f \in Added
      <4>1. f \notin gone /\ found[f] # Absent /\ graph.file_hashes[f] = NoHash
        BY <3>5 DEF Added, Removed, Modified
      <4>2. NodesOf(graph', f) = {}
        BY <3>2, <3>4, <4>1 DEF Unhashed
      <4> QED
        BY <3>1, <3>5, <4>1, <4>2 DEF BeingMerged
    <3>6. CASE f \in Modified
      BY <3>1, <3>4, <3>6 DEF BeingMerged, Modified
    <3>7. CASE f \in Removed
      <4>1. found[f] = Absent /\ NodesOf(graph', f) = {} /\ f \notin Added \cup Modified
        BY <3>4, <3>7 DEF Removed, Added, Modified
      <4> QED
        BY <3>1, <4>1, SymbolsFacts DEF BeingMerged, OnDisk
    <3>8. CASE f \notin Added \cup Modified \cup Removed
      <4>1. found[f] = Absent => graph.file_hashes[f] = NoHash
        BY <3>8 DEF Removed
      <4>2. found[f] # Absent => graph.file_hashes[f] = found[f]
        BY <3>3, <3>8, HashFacts DEF Added, Modified
      <4>2a. found[f] = Absent => NodesOf(graph', f) = {}
        BY <3>2, <3>4, <4>1 DEF Unhashed
      <4>3. f \notin raced => NodesOf(graph', f) = Symbols(f, found[f])
        BY <3>2, <3>3, <3>4, <3>8, <4>1, <4>2, SymbolsFacts, HashFacts, NoHashAssumption DEF Described, OnDisk
      <4> QED
        BY <3>1, <3>8, <4>2a, <4>3 DEF BeingMerged
    <3> QED
      BY <3>5, <3>6, <3>7, <3>8
  <2> QED
    BY <2>1 DEF ScanInv, AfterDetect
<1>6. CalmInv'
  BY DEF CalmInv, AfterDetect
<1> QED
  BY <1>3, <1>4, <1>5, <1>6

LEMMA ParseOK ==
  ASSUME IInv, NEW f \in Files, Parse(f)
  PROVE  IInv'
<1> USE DEF Parse, IInv
<1>1. TypeOK'
  BY DEF TypeOK
<1>2. GraphInv'
  BY DEF GraphInv
<1>3. ScanInv'
  <2>1. ASSUME NEW h \in Files
        PROVE  BeingMerged(h)'
    <3>1. BeingMerged(h) /\ BeingMerged(f) /\ to_parse \subseteq Files
      BY DEF ScanInv, TypeOK
    <3>2. f \in to_parse => f \in reparsed
      BY DEF ScanInv
    <3> QED
      BY <3>1, <3>2 DEF BeingMerged, TypeOK
  <2> QED
    BY <2>1 DEF ScanInv
<1>4. CalmInv'
  BY DEF CalmInv, TypeOK
<1> QED
  BY <1>1, <1>2, <1>3, <1>4

LEMMA MergeOK ==
  ASSUME IInv, Merge
  PROVE  IInv'
<1> USE DEF Merge, IInv
<1> DEFINE new == UNION {Symbols(f, parsed[f]) : f \in Files}
           raws == UNION {Calls(f, parsed[f]) : f \in Files}
           grown == AddNodes(graph, new)
<1>1. \A f \in Files : parsed[f] \in OnDisk /\ found[f] \in OnDisk
  BY DEF TypeOK
<1>2. new \in SUBSET NodeId /\ raws \in SUBSET RawEdge
  BY <1>1, SymbolsFacts
<1>3. \A r \in raws : r.source \in new
  BY <1>1, SymbolsFacts
<1>4. grown \in Graph /\ WellFormed(grown) /\ grown.nodes = graph.nodes \cup new
  <2>1. graph \in Graph /\ WellFormed(graph)
    BY DEF TypeOK, GraphInv
  <2>2. grown.nodes = graph.nodes \cup new
    BY <2>1 DEF AddNodes, Graph
  <2> QED
    BY <1>2, <2>1, <2>2, AddNodesFacts
<1>5. graph.raw_edges = {}
  BY DEF GraphInv
<1>6. [f \in Files |-> Hash(found[f])] \in [Files -> Contents \cup {NoHash}]
  BY <1>1, HashFacts
<1>7. graph' = [grown EXCEPT !.raw_edges = graph.raw_edges \cup raws,
                             !.file_hashes = [f \in Files |-> Hash(found[f])]]
  BY <1>4 DEF Merged, AddRawEdges, AddNodes, Graph, TypeOK
<1> HIDE DEF new, raws, grown
<1>8. /\ graph' \in Graph
      /\ graph'.nodes = graph.nodes \cup new
      /\ graph'.raw_edges = raws
      /\ \A f \in Files : graph'.file_hashes[f] = Hash(found[f])
  <2>1. /\ graph'.nodes = grown.nodes
        /\ graph'.raw_edges = graph.raw_edges \cup raws
        /\ graph'.file_hashes = [f \in Files |-> Hash(found[f])]
    BY <1>4, <1>7 DEF Graph
  <2>2. graph' \in Graph
    <3>1. graph.raw_edges \cup raws \in SUBSET RawEdge
      BY <1>2, <1>5
    <3> QED
      BY <1>4, <1>6, <1>7, <3>1 DEF Graph
  <2> QED
    BY <1>4, <1>5, <2>1, <2>2
<1>9. WellFormed(graph')
  <2>1. /\ graph'.nodes = grown.nodes /\ graph'.adjacency = grown.adjacency
        /\ graph'.reverse_adj = grown.reverse_adj /\ graph'.file_index = grown.file_index
    BY <1>4, <1>7 DEF Graph
  <2> QED
    BY <2>1, <1>4
       DEF WellFormed, IndexMatchesNodes, EdgesJoinNodes, Mirrored, ReverseEdgesFiled, NodesOf
<1>10. TypeOK'
  BY <1>8 DEF TypeOK
<1>11. GraphInv'
  BY <1>3, <1>8, <1>9 DEF GraphInv
<1>12. ScanInv'
  <2> SUFFICES ASSUME NEW f \in Files
               PROVE  Unhashed(f)' /\ (f \notin raced => Described(f)')
    BY DEF ScanInv
  <2>1. BeingMerged(f) /\ to_parse = {}
    BY DEF ScanInv
  <2>2. \A n : n \in new /\ n.file = f <=> n \in Symbols(f, parsed[f])
    BY <1>1, SymbolsFacts DEF new
  <2>3. NodesOf(graph', f) = NodesOf(graph, f) \cup Symbols(f, parsed[f])
    BY <1>8, <2>2 DEF NodesOf
  <2>4. found[f] = Absent => NodesOf(graph', f) = {}
    BY <2>1, <2>3, <1>1, SymbolsFacts DEF BeingMerged
  <2>5. ASSUME f \notin raced
        PROVE  NodesOf(graph', f) = Symbols(f, found[f])
    <3>1. CASE f \in reparsed
      BY <2>1, <2>3, <2>5, <3>1 DEF BeingMerged
    <3>2. CASE f \notin reparsed
      <4>1. parsed[f] = Absent
        BY <2>1, <3>2 DEF BeingMerged
      <4>2. Symbols(f, parsed[f]) = {}
        BY <4>1 DEF Symbols
      <4> QED
        BY <2>1, <2>3, <2>5, <3>2, <4>2 DEF BeingMerged
    <3> QED
      BY <3>1, <3>2
  <2> QED
    BY <2>4, <2>5, <1>1, <1>8, HashFacts DEF Unhashed, Described
<1>13. CalmInv'
  <2>1. calm => found = disk
    BY DEF CalmInv, TypeOK
  <2> QED
    BY <2>1, <1>8 DEF CalmInv
<1> QED
  BY <1>10, <1>11, <1>12, <1>13

LEMMA ResolveOK ==
  ASSUME IInv, Resolve
  PROVE  IInv'
<1> USE DEF Resolve, IInv, scan, history
<1> DEFINE edges == EdgesFor(graph.nodes, graph.raw_edges)
           grown == AddEdges(graph, edges)
<1>1. \A e \in edges : e \in Edge /\ e.source \in graph.nodes /\ e.target \in graph.nodes
  <2>1. \A name : CallTargets(graph.nodes, name) \subseteq graph.nodes
    BY DEF CallTargets, Hits
  <2>2. graph.nodes \subseteq NodeId
    BY DEF TypeOK, Graph
  <2> QED
    BY <2>1, <2>2 DEF EdgesFor, Edge, GraphInv
<1> HIDE DEF edges
<1>2. grown \in Graph /\ WellFormed(grown)
  BY <1>1, AddEdgesFacts DEF TypeOK, GraphInv
<1>3. grown.nodes = graph.nodes /\ grown.file_hashes = graph.file_hashes
  BY DEF AddEdges, TypeOK, Graph
<1>4. graph' = [grown EXCEPT !.raw_edges = {}]
  BY DEF edges
<1> HIDE DEF grown
<1>5. /\ graph' \in Graph
      /\ graph'.nodes = graph.nodes /\ graph'.file_hashes = graph.file_hashes
      /\ graph'.raw_edges = {}
      /\ graph'.adjacency = grown.adjacency /\ graph'.reverse_adj = grown.reverse_adj
      /\ graph'.file_index = grown.file_index
  BY <1>2, <1>3, <1>4 DEF Graph
<1>6. WellFormed(graph')
  BY <1>2, <1>3, <1>5
     DEF WellFormed, IndexMatchesNodes, EdgesJoinNodes, Mirrored, ReverseEdgesFiled, NodesOf
<1>7. TypeOK'
  BY <1>5 DEF TypeOK
<1>8. GraphInv'
  BY <1>5, <1>6 DEF GraphInv
<1>9. ScanInv'
  BY <1>5 DEF ScanInv, Unhashed, Described, NodesOf
<1>10. CalmInv'
  BY <1>5 DEF CalmInv
<1> QED
  BY <1>7, <1>8, <1>9, <1>10

LEMMA NextOK ==
  ASSUME AlwaysResolve, IInv, [Next]_vars
  PROVE  IInv'
<1>1. CASE UNCHANGED vars
  BY <1>1 DEF vars, scan, history, IInv, TypeOK, GraphInv, ScanInv, CalmInv, Unhashed,
              Described, BeingMerged
<1>2. CASE Next
  BY <1>2, EditOK, StartOK, DiscoverOK, ParseOK, NewGraphOK, DetectChangesOK, MergeOK, ResolveOK
     DEF Next
<1> QED
  BY <1>1, <1>2

-----------------------------------------------------------------------------
\* The inductive invariant holds when every scan is resolved (scan.rs:28-35).
THEOREM Invariance == ASSUME AlwaysResolve PROVE Spec => []IInv
<1>1. Init => IInv
  BY InitOK
<1>2. IInv /\ [Next]_vars => IInv'
  BY NextOK
<1> QED
  BY <1>1, <1>2, PTL DEF Spec

\* The variables have their types.
THEOREM TypeCorrect == ASSUME AlwaysResolve PROVE Spec => []TypeOK
<1>1. IInv => TypeOK
  BY DEF IInv
<1> QED
  BY <1>1, Invariance, PTL

\* However files are edited while they are scanned, the two adjacency maps
\* mirror each other, no edge has lost an end, and the file index is right,
\* provided that the raw edges of each scan are resolved before the next.
THEOREM GraphStaysWellFormed == ASSUME AlwaysResolve PROVE Spec => []GraphIsWellFormed
<1>1. IInv => GraphIsWellFormed
  BY DEF IInv, GraphInv, GraphIsWellFormed
<1> QED
  BY <1>1, Invariance, PTL

\* A stored hash describes the stored symbols of every file that did not
\* change between hashing and parsing.
THEOREM HashesAreHonest == ASSUME AlwaysResolve PROVE Spec => []HashesDescribeSymbols
<1>1. IInv => HashesDescribeSymbols
  BY DEF IInv, ScanInv, Described, HashesDescribeSymbols
<1> QED
  BY <1>1, Invariance, PTL

\* Undisturbed updates give the symbols that a full scan gives.
THEOREM UpdatesAreExact == ASSUME AlwaysResolve PROVE Spec => []UpdateEqualsRescan
<1>1. IInv => UpdateEqualsRescan
  <2> SUFFICES ASSUME IInv, pc = "idle", scans > 0, calm
               PROVE  graph.nodes = UNION {Symbols(f, asOf[f]) : f \in Files}
    BY DEF UpdateEqualsRescan
  <2>1. ASSUME NEW f \in Files PROVE NodesOf(graph, f) = Symbols(f, asOf[f])
    <3>1. Described(f) /\ graph.file_hashes[f] = Hash(asOf[f]) /\ asOf[f] \in OnDisk
      BY DEF IInv, ScanInv, CalmInv, TypeOK
    <3> QED
      BY <3>1, HashFacts, SymbolsFacts DEF Described
  <2>2. \A n \in graph.nodes : n.file \in Files
    BY DEF IInv, TypeOK, Graph, NodeId
  <2> QED
    BY <2>1, <2>2 DEF NodesOf
<1> QED
  BY <1>1, Invariance, PTL


-----------------------------------------------------------------------------
(* What an incremental update leaves of the edges: those of the files it    *)
(* parses again are those of a full scan, and those between other files     *)
(* stay.                                                                    *)

\* The inductive invariant.

RawsOf(f) == {r \in graph.raw_edges : r.source.file = f}

NoEdgeFrom(f) == \A e \in EdgesOf(graph) : e.source.file # f

\* The calls of f wait in raw_edges, or lead where they lead in a full scan.
Fresh(f) ==
    \/ RawsOf(f) = Calls(f, asOf[f]) /\ NoEdgeFrom(f)
    \/ /\ graph.raw_edges = {}
       /\ {e \in EdgesOf(graph) : e.source.file = f} = EdgesFor(graph.nodes, Calls(f, asOf[f]))

FreshInv == pc = "idle" /\ scans > 0 /\ calm => \A f \in reparsed : Fresh(f)

\* Files that were found and are not parsed again.
Left(f) == found[f] # Absent /\ f \notin reparsed

KeepInv ==
    mode = "update" =>
        /\ pc \in {"discover", "detect"} => before = EdgesOf(graph)
        /\ pc \in {"parse", "merge"} =>
             \A e \in before :
                Left(e.source.file) /\ Left(e.target.file) => e \in EdgesOf(graph)
        /\ pc = "idle" =>
             \A e \in before :
                Untouched(e.source.file) /\ Untouched(e.target.file) => e \in EdgesOf(graph)

EInv == IInv /\ FreshInv /\ KeepInv

-----------------------------------------------------------------------------
\* The operations of CodeGraph and the edges.

LEMMA EdgesOfFacts ==
  ASSUME NEW g \in Graph, WellFormed(g)
  PROVE  \A e : e \in EdgesOf(g) <=> e \in Edge /\ e \in g.adjacency[e.source]
<1>1. \A n \in NodeId : \A e \in g.adjacency[n] : e \in Edge /\ e.source = n
  BY DEF Graph, WellFormed, EdgesJoinNodes
<1>2. \A e \in Edge : e.source \in NodeId
  BY DEF Edge
<1> QED
  BY <1>1, <1>2 DEF EdgesOf

\* An edge both of whose files stay survives.
LEMMA RemoveFilesEdges ==
  ASSUME NEW g \in Graph, WellFormed(g), NEW files \in SUBSET Files,
         NEW e \in EdgesOf(g), e.source.file \notin files, e.target.file \notin files
  PROVE  e \in EdgesOf(RemoveFiles(g, files))
<1> DEFINE h == RemoveFiles(g, files)
           ids == UNION {g.file_index[f] : f \in files}
<1>1. e \in Edge /\ e.source \in NodeId /\ e \in g.adjacency[e.source]
  BY EdgesOfFacts DEF Edge
<1>2. \A n : n \in ids => n.file \in files
  BY DEF WellFormed, IndexMatchesNodes, NodesOf
<1>3. e.source \notin ids /\ e.target \notin ids
  BY <1>2
<1>4. e \in h.adjacency[e.source]
  BY <1>1, <1>3 DEF RemoveFiles, Graph
<1> QED
  BY <1>1, <1>4 DEF EdgesOf

\* add_edge adds the edges.
LEMMA AddEdgesEdges ==
  ASSUME NEW g \in Graph, WellFormed(g), NEW edges \in SUBSET Edge
  PROVE  \A e : e \in EdgesOf(AddEdges(g, edges)) <=> e \in EdgesOf(g) \/ e \in edges
<1> DEFINE h == AddEdges(g, edges)
<1>1. \A n \in NodeId : h.adjacency[n] = g.adjacency[n] \cup {e \in edges : e.source = n}
  BY DEF AddEdges, Graph
<1>2. \A e \in edges : e.source \in NodeId
  BY DEF Edge
<1> HIDE DEF h
<1> QED
  BY <1>1, <1>2 DEF EdgesOf, h

-----------------------------------------------------------------------------
\* The invariant is inductive.

LEMMA InitEdges == Init => EInv
<1> SUFFICES ASSUME Init PROVE EInv
  OBVIOUS
<1>1. IInv
  BY InitOK
<1>2. FreshInv /\ KeepInv
  BY DEF Init, FreshInv, KeepInv
<1> QED
  BY <1>1, <1>2 DEF EInv

\* Steps that leave the graph, the scan's results and the history alone.
LEMMA EditEdges ==
  ASSUME EInv, NEW f \in Files, NEW c \in OnDisk, Edit(f, c)
  PROVE  FreshInv' /\ KeepInv'
BY DEF Edit, scan, EInv, FreshInv, KeepInv, Fresh, RawsOf, NoEdgeFrom, Left, Untouched

LEMMA StartEdges ==
  ASSUME EInv, NEW m \in {"full", "update"}, Start(m)
  PROVE  FreshInv' /\ KeepInv'
BY DEF Start, FreshInv, KeepInv

LEMMA DiscoverEdges ==
  ASSUME EInv, NEW f \in Files, Discover(f)
  PROVE  FreshInv' /\ KeepInv'
BY DEF Discover, history, EInv, FreshInv, KeepInv

LEMMA ParseEdges ==
  ASSUME EInv, NEW f \in Files, Parse(f)
  PROVE  FreshInv' /\ KeepInv'
BY DEF Parse, EInv, FreshInv, KeepInv, Left

LEMMA NewGraphEdges ==
  ASSUME EInv, NewGraph
  PROVE  FreshInv' /\ KeepInv'
BY DEF NewGraph, AfterDetect, FreshInv, KeepInv

LEMMA DetectChangesEdges ==
  ASSUME EInv, DetectChanges
  PROVE  FreshInv' /\ KeepInv'
<1> USE DEF DetectChanges
<1>1. FreshInv'
  BY DEF FreshInv, AfterDetect
<1>2. /\ graph \in Graph /\ WellFormed(graph) /\ Removed \cup Modified \in SUBSET Files
      /\ before = EdgesOf(graph)
  BY DEF EInv, IInv, TypeOK, GraphInv, KeepInv, Removed, Modified
<1>3. \A e \in before : e.source.file \in Files /\ e.target.file \in Files
  BY <1>2, EdgesOfFacts DEF Edge, NodeId
<1>4. ASSUME NEW e \in before, Left(e.source.file)', Left(e.target.file)'
      PROVE  e \in EdgesOf(graph')
  <2>1. e.source.file \notin Removed \cup Modified /\ e.target.file \notin Removed \cup Modified
    BY <1>4 DEF Left, Removed
  <2> QED
    BY <1>2, <2>1, RemoveFilesEdges
<1>5. KeepInv'
  BY <1>4 DEF KeepInv, AfterDetect, Left
<1> QED
  BY <1>1, <1>5

\* Merge adds symbols and raw edges, no edge.
LEMMA MergedFacts ==
  ASSUME IInv, Merge
  PROVE  /\ EdgesOf(graph') = EdgesOf(graph)
         /\ graph'.raw_edges = UNION {Calls(f, parsed[f]) : f \in Files}
         /\ \A f \in Files : graph'.file_hashes[f] = Hash(found[f])
<1>1. graph \in Graph /\ graph.raw_edges = {}
  BY DEF IInv, TypeOK, GraphInv, Merge
<1>2. /\ graph'.adjacency = graph.adjacency
      /\ graph'.raw_edges = graph.raw_edges \cup UNION {Calls(f, parsed[f]) : f \in Files}
      /\ graph'.file_hashes = [f \in Files |-> Hash(found[f])]
  BY <1>1 DEF Merge, Merged, AddRawEdges, AddNodes, Graph
<1> QED
  BY <1>1, <1>2 DEF EdgesOf

LEMMA MergeEdges ==
  ASSUME EInv, Merge
  PROVE  FreshInv' /\ KeepInv'
<1>1. /\ IInv /\ graph \in Graph /\ WellFormed(graph)
      /\ \A f \in Files : parsed[f] \in OnDisk /\ found[f] \in OnDisk
      /\ pc = "merge" /\ reparsed \subseteq Files
  BY DEF EInv, IInv, TypeOK, GraphInv, Merge
<1>2. FreshInv'
  <2> SUFFICES ASSUME calm, NEW f \in reparsed
               PROVE  RawsOf(f)' = Calls(f, asOf'[f]) /\ NoEdgeFrom(f)'
    BY DEF Merge, FreshInv, Fresh
  <2>1. BeingMerged(f) /\ to_parse = {} /\ raced = {} /\ found[f] = disk[f] /\ f \in Files
    <3>1. f \in Files /\ BeingMerged(f) /\ to_parse = {}
      BY <1>1 DEF IInv, ScanInv
    <3>2. raced = {} /\ walked = Files /\ \A h \in walked : found[h] = disk[h]
      BY <1>1 DEF IInv, CalmInv
    <3> QED
      BY <3>1, <3>2
  <2>2. parsed[f] = asOf'[f]
    BY <2>1 DEF BeingMerged, Merge
  <2>3. NoEdgeFrom(f)'
    <3>1. \A e \in EdgesOf(graph) : e.source \in graph.nodes
      BY <1>1, EdgesOfFacts DEF WellFormed, EdgesJoinNodes, Edge
    <3>2. NodesOf(graph, f) = {}
      BY <2>1 DEF BeingMerged
    <3> QED
      BY <1>1, <3>1, <3>2, MergedFacts DEF NoEdgeFrom, NodesOf
  <2>4. \A h \in Files : \A r \in Calls(h, parsed[h]) : r.source.file = h
    BY <1>1, SymbolsFacts
  <2>5. RawsOf(f)' = Calls(f, parsed[f])
    BY <1>1, <2>1, <2>4, MergedFacts DEF RawsOf
  <2> QED
    BY <2>2, <2>3, <2>5
<1>3. KeepInv'
  <2>1. \A f \in Files : Untouched(f)' => Left(f)
    BY <1>1, MergedFacts, HashFacts DEF Merge, Untouched, Left
  <2>2. \A e \in before : e.source.file \in Files /\ e.target.file \in Files
    BY DEF EInv, IInv, TypeOK, Edge, NodeId
  <2> QED
    BY <1>1, <2>1, <2>2, MergedFacts DEF EInv, KeepInv, Merge
<1> QED
  BY <1>2, <1>3

LEMMA ResolveEdges ==
  ASSUME EInv, Resolve
  PROVE  FreshInv' /\ KeepInv'
<1> DEFINE edges == EdgesFor(graph.nodes, graph.raw_edges)
<1>1. graph \in Graph /\ WellFormed(graph)
  BY DEF EInv, IInv, TypeOK, GraphInv
<1>2. /\ edges \subseteq Edge
      /\ \A f : \A e : e \in edges /\ e.source.file = f <=> e \in EdgesFor(graph.nodes, RawsOf(f))
  <2>1. \A name : CallTargets(graph.nodes, name) \subseteq NodeId
    BY <1>1 DEF CallTargets, Hits, Graph
  <2>2. \A r \in graph.raw_edges : r.source \in NodeId
    BY <1>1 DEF Graph, RawEdge
  <2> QED
    BY <2>1, <2>2 DEF EdgesFor, Edge, RawsOf
<1>3. /\ graph'.nodes = graph.nodes /\ graph'.raw_edges = {}
      /\ graph'.adjacency = AddEdges(graph, edges).adjacency
      /\ graph'.file_hashes = graph.file_hashes
      /\ UNCHANGED <<pc, mode, calm, scans, reparsed, asOf, before>>
  BY <1>1 DEF Resolve, AddEdges, Graph, scan, history
<1>4. \A e : e \in EdgesOf(graph') <=> e \in EdgesOf(graph) \/ e \in edges
  <2> HIDE DEF edges
  <2>1. EdgesOf(graph') = EdgesOf(AddEdges(graph, edges))
    BY <1>3 DEF EdgesOf
  <2> QED
    BY <1>1, <1>2, <2>1, AddEdgesEdges
<1> HIDE DEF edges
<1>5. FreshInv'
  <2> SUFFICES ASSUME pc = "idle", scans > 0, calm, NEW f \in reparsed
               PROVE  Fresh(f)'
    BY <1>3 DEF FreshInv
  <2>1. RawsOf(f) = Calls(f, asOf[f]) /\ NoEdgeFrom(f)
    BY DEF EInv, FreshInv, Fresh, Resolve
  <2>2. {e \in EdgesOf(graph') : e.source.file = f} = EdgesFor(graph.nodes, RawsOf(f))
    BY <1>2, <1>4, <2>1 DEF NoEdgeFrom
  <2> QED
    BY <1>3, <2>1, <2>2 DEF Fresh
<1>6. KeepInv'
  BY <1>3, <1>4 DEF EInv, KeepInv, Untouched, Resolve
<1> QED
  BY <1>5, <1>6

LEMMA NextEdges ==
  ASSUME AlwaysResolve, EInv, [Next]_vars
  PROVE  EInv'
<1>1. IInv'
  BY NextOK DEF EInv
<1>2. FreshInv' /\ KeepInv'
  <2>1. CASE UNCHANGED vars
    BY <2>1 DEF vars, scan, history, EInv, FreshInv, KeepInv, Fresh, RawsOf, NoEdgeFrom, Left,
                Untouched
  <2>2. CASE Next
    BY <2>2, EditEdges, StartEdges, DiscoverEdges, ParseEdges, NewGraphEdges, DetectChangesEdges,
       MergeEdges, ResolveEdges DEF Next
  <2> QED
    BY <2>1, <2>2
<1> QED
  BY <1>1, <1>2 DEF EInv

-----------------------------------------------------------------------------
\* The invariant holds when every scan is resolved (scan.rs:28-35).
THEOREM EdgeInvariance == ASSUME AlwaysResolve PROVE Spec => []EInv
<1>1. Init => EInv
  BY InitEdges
<1>2. EInv /\ [Next]_vars => EInv'
  BY NextEdges
<1> QED
  BY <1>1, <1>2, PTL DEF Spec

\* After an undisturbed update the calls of the files it parsed lead where
\* they would lead in a full scan (parser.rs:128-190).
THEOREM FreshCallsAreExact == ASSUME AlwaysResolve PROVE Spec => []FreshCallsAreResolved
<1>1. EInv => FreshCallsAreResolved
  <2> SUFFICES ASSUME EInv, Done, calm, NEW f \in reparsed
               PROVE  {e \in EdgesOf(graph) : e.source.file = f} =
                         EdgesFor(graph.nodes, Calls(f, asOf[f]))
    BY DEF FreshCallsAreResolved
  <2>1. Fresh(f) /\ graph.raw_edges = {}
    BY DEF EInv, FreshInv, Done
  <2>2. CASE RawsOf(f) = Calls(f, asOf[f]) /\ NoEdgeFrom(f)
    <3>1. Calls(f, asOf[f]) = {}
      BY <2>1, <2>2 DEF RawsOf
    <3> QED
      BY <2>2, <3>1 DEF NoEdgeFrom, EdgesFor
  <2> QED
    BY <2>1, <2>2 DEF Fresh
<1> QED
  BY <1>1, EdgeInvariance, PTL

\* An update keeps the edges between files that it neither removes nor parses
\* again, however the others changed.
THEOREM OtherEdgesAreKept == ASSUME AlwaysResolve PROVE Spec => []UpdateKeepsOtherEdges
<1>1. EInv => UpdateKeepsOtherEdges
  BY DEF EInv, KeepInv, Done, UpdateKeepsOtherEdges
<1> QED
  BY <1>1, EdgeInvariance, PTL
=============================================================================
