---------------------------- MODULE GraphQueries ----------------------------
(***************************************************************************)
(* The read side of GraphStorage as the SQL of the SQLite backend computes *)
(* it (storage sqlite/mod.rs).  A graph is what one statement sees: one    *)
(* committed state of the tables.  g.nodes holds rows [id, name, kind,     *)
(* file, parent], g.edges rows [src, dst, kind, line].                     *)
(*                                                                         *)
(* Text is abstracted: Matches[p] are the names LIKE '%p%', Words[q] the   *)
(* names the full-text query q finds, Liked[t] the names LIKE t || '::%',   *)
(* Vendored the files whose path a default exclusion matches.  Where ORDER *)
(* BY leaves ties the id decides (SQLite is free to choose).               *)
(***************************************************************************)
EXTENDS Integers, Sequences, FiniteSets, SequencesExt

CONSTANTS Ids, Names, Files, Vendored, Patterns, Matches, Words, Liked, NameLength,
          MaxPath,   \* shortest_path: 15
          MaxImpl    \* find_implementations: 5

Types == {"Class", "Interface", "Trait", "Struct", "Enum"}
Callables == {"Method", "Function", "Constructor"}

EmptyGraph == [nodes |-> {}, edges |-> {}]
Edges(g, kind) == {e \in g.edges : e.kind = kind}
Rows(g, id) == {n \in g.nodes : n.id = id}
Listed(g) == {n \in g.nodes : n.kind \notin {"File", "Import"}}

\* ORDER BY rank, id.
Before(rank, a, b) == rank[a] < rank[b] \/ (rank[a] = rank[b] /\ a.id < b.id)

\* The i-th row of that order has i - 1 rows before it.
Nth(rows, rank, i) ==
    CHOOSE a \in rows : Cardinality({b \in rows : Before(rank, b, a)}) = i - 1

\* ... LIMIT n.  Mutant: LIMIT n - 1.
Take_Fewer(rows, rank, n) ==
    LET size == Cardinality(rows)
    IN  [i \in 1 .. (IF n <= size THEN n - 1 ELSE size) |-> Nth(rows, rank, i)]
Take(rows, rank, n) ==
    LET size == Cardinality(rows)
    IN  [i \in 1 .. (IF n < size THEN n ELSE size) |-> Nth(rows, rank, i)]

-----------------------------------------------------------------------------
(* Lookup *)

KindRank(kind) == CASE kind \in Types -> 1 [] kind \in Callables -> 2 [] OTHER -> 3

find_symbols(g, pattern, limit) ==
    LET found == {n \in Listed(g) : n.name \in Matches[pattern]}
    IN  Take(found, [n \in found |-> 1000 * KindRank(n.kind) + NameLength[n.name]], limit)

search_symbols(g, query, limit) ==
    LET found == {n \in Listed(g) : n.name \in Words[query]}
    IN  Take(found, [n \in found |-> 0], limit)

symbol_callers(g, id) ==
    {n \in g.nodes : \E e \in Edges(g, "CALLS") : e.dst = id /\ e.src = n.id}


symbol_callees(g, id) ==
    {n \in g.nodes : \E e \in Edges(g, "CALLS") : e.src = id /\ e.dst = n.id}

symbol_members(g, id) == {n \in g.nodes : n.parent = id /\ n.kind # "Import"}

-----------------------------------------------------------------------------
(* Walks.  A step of a recursive SELECT goes from one level of partial      *)
(* walks to the next; the rows are what SELECT DISTINCT leaves.             *)

\* A step from the walks of one level along a call.
Called(g, walks) ==
    {t \in walks \X Edges(g, "CALLS") \X g.nodes :
       t[2].src = t[1].id /\ t[2].dst = t[3].id}
\* Mutant: recursive calls are left out.
Calling_NoSelf(g, walks) ==
    {t \in walks \X Edges(g, "CALLS") \X g.nodes :
       t[2].dst = t[1].id /\ t[2].src = t[3].id /\ t[1].id # t[3].id}
Calling(g, walks) ==
    {t \in walks \X Edges(g, "CALLS") \X g.nodes :
       t[2].dst = t[1].id /\ t[2].src = t[3].id}

CallLevels(g, id) ==
    LET level[d \in Nat] ==
          IF d = 0
          THEN {[id |-> n.id, path |-> <<n.name>>, line |-> 0] : n \in Rows(g, id)}
          ELSE {[id |-> t[3].id, path |-> Append(t[1].path, t[3].name),
                 line |-> t[2].line] :
                  t \in Called(g, level[d - 1])}
    IN  level

call_chain(g, id, depth) ==
    LET level == CallLevels(g, id)
    IN  UNION {{[id |-> w.id, depth |-> d, path |-> w.path, line |-> w.line] :
                  w \in level[d]} : d \in 1..depth}

CallerLevels(g, id) ==
    LET level[d \in Nat] ==
          IF d = 0
          THEN {[id |-> n.id, path |-> <<n.name>>, line |-> 0] : n \in Rows(g, id)}
          ELSE {[id |-> t[3].id, path |-> <<t[3].name>> \o t[1].path,
                 line |-> t[2].line] :
                  t \in Calling(g, level[d - 1])}
    IN  level

reverse_call_chain(g, id, depth) ==
    LET level == CallerLevels(g, id)
    IN  UNION {{[id |-> w.id, depth |-> d, path |-> w.path, line |-> w.line] :
                  w \in level[d]} : d \in 1..depth}

Neighbour(g, a, b) == \E e \in g.edges : {e.src, e.dst} = {a, b}

\* Trails: both directions and every kind of edge; a node already on the trail
\* is not entered again.
TrailLevels(g, from) ==
    LET level[d \in Nat] ==
          IF d = 0 THEN {<<n.id>> : n \in Rows(g, from)}
          ELSE {Append(t[1], t[2].id) :
                  t \in {u \in level[d - 1] \X g.nodes :
                           /\ Neighbour(g, Last(u[1]), u[2].id)
                           /\ ~Contains(u[1], u[2].id)}}
    IN  level

\* The row with the least depth, or none.
shortest_path(g, from, to) ==
    LET level == TrailLevels(g, from)
        found == {d \in 0..MaxPath : \E p \in level[d] : Last(p) = to}
    IN  IF found = {} THEN {}
        ELSE LET least == CHOOSE d \in found : \A c \in found : d <= c
             IN  {CHOOSE p \in level[least] : Last(p) = to}

\* t.name = ?1 OR t.name LIKE ?1 || '::%'.
IsTrait(n, trait) == n.name = trait \/ n.name \in Liked[trait]

ImplLevels(g, trait) ==
    LET impl == Edges(g, "IMPLEMENTS")
        level[d \in Nat] ==
          IF d = 0
          THEN {e.src : e \in {x \in impl : \E t \in Rows(g, x.dst) : IsTrait(t, trait)}}
          ELSE {e.src : e \in {x \in impl : x.dst \in level[d - 1]}}
    IN  level

find_implementations(g, trait) ==
    LET level == ImplLevels(g, trait)
    IN  UNION {{[id |-> n.id, depth |-> d] :
                  n \in {m \in g.nodes : m.id \in level[d - 1]}} : d \in 1..MaxImpl}

-----------------------------------------------------------------------------
(* Listings and totals *)

\* Mutant: a call of itself does not count.
dead_symbols_Recursion(g, kinds, excluded, limit) ==
    LET dead == {n \in g.nodes :
                   /\ n.kind \in kinds /\ n.file \notin excluded
                   /\ \A e \in Edges(g, "CALLS") : e.dst = n.id => e.src = n.id}
    IN  Take(dead, [n \in dead |-> 0], limit)

dead_symbols(g, kinds, excluded, limit) ==
    LET dead == {n \in g.nodes :
                   /\ n.kind \in kinds /\ n.file \notin excluded
                   /\ \A e \in Edges(g, "CALLS") : e.dst # n.id}
    IN  Take(dead, [n \in dead |-> 0], limit)

hotspots(g, limit) ==
    LET degree == [n \in Listed(g) |->
            Cardinality({e.dst : e \in {x \in g.edges : x.src = n.id}})
            + Cardinality({e.src : e \in {x \in g.edges : x.dst = n.id}})]
    IN  Take(Listed(g), [n \in Listed(g) |-> -degree[n]], limit)

\* The SQL of the commands routes and processes: sources counted per target.
CountInto(g, kind, edge, limit) ==
    LET nodes == {n \in g.nodes : n.kind = kind}
        count == [n \in nodes |->
            Cardinality({e.src : e \in {x \in Edges(g, edge) : x.dst = n.id}})]
        top == Take(nodes, [n \in nodes |-> IF kind = "Process" THEN -count[n] ELSE 0], limit)
    IN  [i \in DOMAIN top |-> [id |-> top[i].id, count |-> count[top[i]]]]

\* get_stats is five statements, each on the graph of its moment.  Of the
\* breakdowns by language and by kind, the sums are kept.
StatParts == <<"nodes", "edges", "files", "languages", "kinds">>
Stat(g, part) ==
    CASE part = "nodes" -> Cardinality(g.nodes)
      [] part = "edges" -> Cardinality(g.edges)
      [] part = "files" -> Cardinality({n.file : n \in g.nodes})
      [] part = "languages" -> Cardinality(g.nodes)
      [] part = "kinds" -> Cardinality(g.nodes)

-----------------------------------------------------------------------------
(* What the answers should be: statements about one graph, for its ids and  *)
(* for depths up to d.                                                      *)

\* A walk of calls of length 1..d.
Walk(g, a, b, d) ==
    \E k \in 1..d : \E p \in [0..k -> {n.id : n \in g.nodes}] :
        /\ p[0] = a /\ p[k] = b
        /\ \A i \in 1..k : \E e \in Edges(g, "CALLS") : e.src = p[i - 1] /\ e.dst = p[i]

\* Both traversals find exactly the symbols a walk of at most d calls leads to
\* or from, cycles and recursion included: what lies downstream of a has a
\* upstream.
WalksAreExact(g, d) ==
    \A a, b \in {n.id : n \in g.nodes} :
        /\ (\E r \in call_chain(g, a, d) : r.id = b) <=> Walk(g, a, b, d)
        /\ (\E r \in reverse_call_chain(g, b, d) : r.id = a) <=> Walk(g, a, b, d)

\* The two ends of an edge tell the same story: the callers of a symbol, its
\* callees' view of it and the first level of both traversals.
EndsAgree(g) ==
    \A a, b \in g.nodes :
        /\ a \in symbol_callers(g, b.id) <=> b \in symbol_callees(g, a.id)
        /\ b \in symbol_callees(g, a.id) <=>
             \E r \in call_chain(g, a.id, 1) : r.id = b.id

\* dead-code and blast-radius agree: a function is listed as dead exactly when
\* nothing is upstream of it.
DeadIsUnreached(g) ==
    LET dead == ToSet(dead_symbols(g, Callables, {}, Cardinality(Ids)))
    IN  \A n \in g.nodes : n.kind \in Callables =>
          (n \in dead <=> reverse_call_chain(g, n.id, 1) = {})

\* A path is found whenever one of at most MaxPath edges exists, in whatever
\* direction, and none is shorter.
PathsAreShortest(g) ==
    \A a, b \in {n.id : n \in g.nodes} :
      LET Joined(k) == \E p \in [0..k -> {n.id : n \in g.nodes}] :
              /\ p[0] = a /\ p[k] = b
              /\ \A i \in 1..k : \E e \in g.edges :
                   <<e.src, e.dst>> \in {<<p[i - 1], p[i]>>, <<p[i], p[i - 1]>>}
          lengths == {k \in 0..MaxPath : Joined(k)}
      IN  IF lengths = {} THEN shortest_path(g, a, b) = {}
          ELSE \E p \in shortest_path(g, a, b) :
                 Len(p) - 1 = CHOOSE k \in lengths : \A j \in lengths : k <= j

\* The types listed for a trait are the ones a chain of at most MaxImpl
\* IMPLEMENTS edges leads from, to the trait or to what is in it.
ImplementationsAreExact(g) ==
    \A trait \in Names :
      {r.id : r \in find_implementations(g, trait)} =
      {a \in {n.id : n \in g.nodes} :
         \E k \in 1..MaxImpl : \E p \in [0..k -> {n.id : n \in g.nodes}] :
            /\ p[0] = a /\ \E t \in Rows(g, p[k]) : IsTrait(t, trait)
            /\ \A i \in 1..k : \E e \in Edges(g, "IMPLEMENTS") :
                 e.src = p[i - 1] /\ e.dst = p[i]}
=============================================================================
