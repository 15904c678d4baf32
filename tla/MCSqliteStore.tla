---------------------------- MODULE MCSqliteStore ----------------------------
(***************************************************************************)
(* A project seen by three scans: file f1 holds the file node n1 and the    *)
(* class n2 with its method n3; f2 holds n4, which calls n3.                *)
(***************************************************************************)
EXTENDS SqliteStore

CONSTANTS n1, n2, n3, n4, f1, f2, t1, t2, h1, h2

MCIds == {n1, n2, n3, n4}
MCFiles == {f1, f2}
MCFileOf == [i \in MCIds |-> IF i = n4 THEN f2 ELSE f1]
MCLineOf == [i \in MCIds |-> IF i = n1 THEN 1 ELSE 2]

MCEdge(s, t, k, l) == [source |-> s, target |-> t, kind |-> k, line |-> l]

\* The whole project: a parser-emitted CONTAINS edge that the synthesized one
\* repeats, and a call across files.
Whole ==
    [nodes |-> MCIds,
     parent |-> [i \in MCIds |-> CASE i = n2 -> n1 [] i = n3 -> n2 [] OTHER -> NoId],
     text |-> [i \in MCIds |-> t1],
     edges |-> {MCEdge(n1, n2, "CONTAINS", 2), MCEdge(n4, n3, "CALLS", 1)},
     hashes |-> [f \in MCFiles |-> h1]]

\* f1 edited: n2's comment changed, n3 moved away (its id is gone); f2 unedited
\* but its call now dangles.
Edited ==
    [nodes |-> {n1, n2, n4},
     parent |-> [i \in MCIds |-> IF i = n2 THEN n1 ELSE NoId],
     text |-> [i \in MCIds |-> IF i = n2 THEN t2 ELSE t1],
     edges |-> {MCEdge(n4, n3, "CALLS", 1), MCEdge(n4, n2, "CALLS", 2)},
     hashes |-> [f \in MCFiles |-> IF f = f1 THEN h2 ELSE h1]]

\* A scan of f2's directory alone.
Part ==
    [nodes |-> {n4},
     parent |-> [i \in MCIds |-> NoId],
     text |-> [i \in MCIds |-> t1],
     edges |-> {},
     hashes |-> [f \in MCFiles |-> IF f = f2 THEN h1 ELSE NoHash]]

MCGraphs == {Whole, Edited, Part}

=============================================================================
