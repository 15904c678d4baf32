---------------------------- MODULE FalkorQueries ----------------------------
(***************************************************************************)
(* The same read side as the Cypher of the FalkorDB backend computes it    *)
(* (storage falkor/mod.rs).  A pattern with a variable length matches      *)
(* paths that use no relationship twice, where the SQL of GraphQueries     *)
(* walks on; members follow CONTAINS, where SQL compares parent_id; dead   *)
(* symbols are those without a pattern, where SQL lists ids not IN.        *)
(***************************************************************************)
EXTENDS Integers, Sequences, FiniteSets, SequencesExt

CONSTANTS Ids, Names, Files, Vendored, Patterns, Matches, Words, Liked, NameLength,
          MaxPath, MaxImpl,
          Prefixed,   \* Prefixed[t]: the names that start with t + '::'
          Containing  \* Containing[p]: the names with p in them

Sql == INSTANCE GraphQueries

Symbols(g) == {n.id : n \in g.nodes}
Edges(g, kind) == {e \in g.edges : e.kind = kind}
Listed(g) == {n \in g.nodes : n.kind \notin {"File", "Import"}}
NameOf(g, id) == (CHOOSE n \in g.nodes : n.id = id).name

\* The bounds of a pattern: depth.clamp(1, 20), limit.max(1).
Hops(depth) == IF depth < 1 THEN 1 ELSE IF depth > 20 THEN 20 ELSE depth
AtLeastOne(limit) == IF limit < 1 THEN 1 ELSE limit

\* The paths (sequences of relationships) of 1..depth edges in E that continue
\* a path in P and use none twice.  Mutant: nor a node twice.
Extended(P, E) ==
    {Append(t[1], t[2]) : t \in {u \in P \X E :
        Last(u[1]).dst = u[2].src /\ ~Contains(u[1], u[2])}}
Paths_Simple(E, depth) ==
    LET of[k \in 1..depth] ==
          IF k = 1 THEN {<<e>> : e \in {x \in E : x.src # x.dst}}
          ELSE {p \in Extended(of[k - 1], E) :
                  \A i \in 1..(k - 1) : p[i].src # Last(p).dst}
    IN  UNION {of[k] : k \in 1..depth}
Paths(E, depth) ==
    LET of[k \in 1..depth] ==
          IF k = 1 THEN {<<e>> : e \in E} ELSE Extended(of[k - 1], E)
    IN  UNION {of[k] : k \in 1..depth}

NodeNames(g, p) ==
    [i \in 1..(Len(p) + 1) |-> NameOf(g, IF i = 1 THEN p[1].src ELSE p[i - 1].dst)]

\* One row for each path.
call_chain(g, id, depth) ==
    {[id |-> Last(p).dst, depth |-> Len(p), path |-> NodeNames(g, p),
      call_lines |-> [i \in DOMAIN p |-> p[i].line]] :
        p \in {q \in Paths(Edges(g, "CALLS"), Hops(depth)) : q[1].src = id}}

reverse_call_chain(g, id, depth) ==
    {[id |-> p[1].src, depth |-> Len(p), path |-> NodeNames(g, p), line |-> p[1].line] :
        p \in {q \in Paths(Edges(g, "CALLS"), Hops(depth)) : Last(q).dst = id}}

dead_symbols(g, kinds, excluded, limit) ==
    LET dead == {n \in g.nodes :
                   /\ n.kind \in kinds /\ n.file \notin excluded
                   /\ \A e \in Edges(g, "CALLS") : e.dst # n.id}
    IN  Sql!Take(dead, [n \in dead |-> 0], AtLeastOne(limit))

\* A relationship of any kind as a step in either direction.
Steps(g) == {[src |-> e.src, dst |-> e.dst, rel |-> e] : e \in g.edges}
            \cup {[src |-> e.dst, dst |-> e.src, rel |-> e] : e \in g.edges}

\* shortestPath over [*..15]: at least one relationship, none twice in either
\* direction, so that a symbol has no path to itself but around a cycle.
shortest_path(g, from, to) ==
    LET ends == {p \in Paths(Steps(g), MaxPath) :
                   /\ p[1].src = from /\ Last(p).dst = to
                   /\ \A i, j \in DOMAIN p : p[i].rel = p[j].rel => i = j}
        least == CHOOSE p \in ends : \A q \in ends : Len(p) <= Len(q)
    IN  IF ends = {} THEN {} ELSE {<<from>> \o [i \in DOMAIN least |-> least[i].dst]}

\* t.name = $name OR t.name STARTS WITH ($name + '::').
IsTrait(name, trait) == name = trait \/ name \in Prefixed[trait]

find_implementations(g, trait) ==
    {p[1].src : p \in {q \in Paths(Edges(g, "IMPLEMENTS"), MaxImpl) :
                         IsTrait(NameOf(g, Last(q).dst), trait)}}

\* size((n)-->()): relationships, where the SQL counts neighbours.
hotspots(g, limit) ==
    LET degree == [n \in Listed(g) |->
            Cardinality({e \in g.edges : e.src = n.id})
            + Cardinality({e \in g.edges : e.dst = n.id})]
    IN  Sql!Take(Listed(g), [n \in Listed(g) |-> -degree[n]], AtLeastOne(limit))

\* WHERE n.name CONTAINS $pat, shortest names first, whatever the kind.
find_symbols(g, pattern, limit) ==
    LET found == {n \in Listed(g) : n.name \in Containing[pattern]}
    IN  Sql!Take(found, [n \in found |-> NameLength[n.name]], limit)

symbol_callers(g, id) == {e.src : e \in {x \in Edges(g, "CALLS") : x.dst = id}}
symbol_callees(g, id) == {e.dst : e \in {x \in Edges(g, "CALLS") : x.src = id}}
symbol_members(g, id) ==
    {n \in g.nodes : n.kind # "Import"
        /\ \E e \in Edges(g, "CONTAINS") : e.src = id /\ e.dst = n.id}
=============================================================================
