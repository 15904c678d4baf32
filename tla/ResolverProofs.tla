---------------------------- MODULE ResolverProofs ----------------------------
(***************************************************************************)
(* Proofs, for every project, order of its files and order in which edges   *)
(* are added, of the invariants of Resolver that say what its edges may be: *)
(* linearizations are Python's, super() leads to the method that Python     *)
(* runs, a high tier is that of a lone edge, an edge starts at the symbol   *)
(* around the line that it is written on, and self.m() leads to the own m.  *)
(***************************************************************************)
EXTENDS Resolver, PureLemmas

-----------------------------------------------------------------------------
(* What is around a node *)

\* The nodes of a file form a forest.
IsForest(rows) ==
    /\ Len(rows) \in Nat /\ DOMAIN rows = 1 .. Len(rows)
    /\ \A r \in 1 .. Len(rows) : rows[r].up \in 0 .. r - 1

\* Around, by the node that a node is in.
LEMMA AroundStep ==
  ASSUME NEW rows, IsForest(rows)
  PROVE  /\ Around(rows, 0) = {}
         /\ \A r \in 1 .. Len(rows) : Around(rows, r) = {rows[r].up} \cup Around(rows, rows[r].up)
<1> DEFINE N == Len(rows)
           U == SUBSET (0 .. N)
           F == [p \in (1 .. N) \X U |-> {rows[p[1]].up} \cup p[2]]
           Fits(f) == f = [k \in 0 .. N |-> IF k = 0 THEN {} ELSE {rows[k].up} \cup f[rows[k].up]]
           up == [k \in 1 .. N |-> rows[k].up]
           around[k \in 0 .. N] == IF k = 0 THEN {} ELSE {rows[k].up} \cup around[rows[k].up]
<1>1. N \in Nat /\ \A k \in 1 .. N : up[k] = rows[k].up /\ up[k] \in 0 .. k - 1
  BY DEF IsForest
<1>2. ASSUME NEW k \in 1 .. N, NEW u \in U PROVE F[<<k, u>>] = {rows[k].up} \cup u /\ F[<<k, u>>] \in U
  <2>1. F[<<k, u>>] = {rows[k].up} \cup u
    <3>1. <<k, u>> \in (1 .. N) \X U
      BY <1>2
    <3> QED
      BY <3>1
  <2>2. rows[k].up \in 0 .. N
    BY <1>1
  <2> QED
    BY <2>1, <2>2
<1>3. {} \in U
  OBVIOUS
<1> HIDE DEF F, U, up, N
<1>4. PICK g : Descent(g, up, {}, F, U, N)
  <2>1. N \in Nat /\ Descends(up, F, U, N)
    BY <1>1, <1>2 DEF Descends
  <2> QED
    BY <1>3, <2>1, DescentExists, Zenon
<1>4a. g \in [0 .. N -> U] /\ g[0] = {} /\ \A k \in 1 .. N : g[k] = F[<<k, g[up[k]]>>]
  BY <1>4 DEF Descent
<1>5. \A k \in 0 .. N : g[k] = IF k = 0 THEN {} ELSE {rows[k].up} \cup g[rows[k].up]
  <2> TAKE k \in 0 .. N
  <2>1. CASE k = 0
    BY <1>4a, <2>1
  <2>2. CASE k # 0
    <3>1. k \in 1 .. N /\ rows[k].up = up[k] /\ rows[k].up \in 0 .. N
      BY <1>1, <2>2
    <3>2. g[rows[k].up] \in U
      BY <1>4a, <3>1
    <3>3. g[k] = F[<<k, g[rows[k].up]>>]
      BY <1>4a, <3>1
    <3> QED
      BY <1>2, <2>2, <3>1, <3>2, <3>3, Zenon
  <2> QED
    BY <2>1, <2>2
<1>6. Fits(g)
  <2>1. g = [k \in 0 .. N |-> g[k]]
    BY <1>4a
  <2> QED
    BY <1>5, <2>1
<1>7. \E f : Fits(f)
  BY <1>6
<1>8. Fits(around)
  BY <1>7, Zenon
<1> DEFINE K == [k \in 0 .. N |-> IF k = 0 THEN {} ELSE {rows[k].up} \cup around[rows[k].up]]
<1>9. around = K
  BY <1>8, Zenon
<1>10. \A r : Around(rows, r) = around[r]
  BY Zenon DEF Around, N
<1> HIDE DEF around
<1>11. \A k \in 0 .. N : K[k] = IF k = 0 THEN {} ELSE {rows[k].up} \cup around[rows[k].up]
  BY Zenon
<1> HIDE DEF K
<1>12. \A k \in 0 .. N : around[k] = IF k = 0 THEN {} ELSE {rows[k].up} \cup around[rows[k].up]
  BY <1>9, <1>11, Zenon
<1>13. 0 \in 0 .. N /\ \A r \in 1 .. N : r \in 0 .. N /\ r # 0
  BY <1>1
<1>14. Around(rows, 0) = {}
  BY <1>10, <1>12, <1>13, Zenon
<1>15. \A r \in 1 .. N : Around(rows, r) = {rows[r].up} \cup Around(rows, rows[r].up)
  BY <1>10, <1>12, <1>13, Zenon
<1> QED
  BY <1>14, <1>15 DEF N

\* Around a node is a chain, from 0 to the node it stands in.
Chain(rows, r) ==
    /\ Around(rows, r) \subseteq 0 .. r - 1
    /\ r # 0 => 0 \in Around(rows, r)
    /\ \A k \in Around(rows, r) : Around(rows, k) \subseteq Around(rows, r)
    /\ \A j, k \in Around(rows, r) : j < k => j \in Around(rows, k)

\* What is around a node is around what is in it, and comes before.
LEMMA AroundChain ==
  ASSUME NEW rows, IsForest(rows)
  PROVE  \A r \in 0 .. Len(rows) : Chain(rows, r)
<1> DEFINE N == Len(rows)
           S == {n \in Nat : \A r \in 0 .. n : Chain(rows, r)}
<1>1. /\ N \in Nat /\ \A r \in 1 .. N : rows[r].up \in 0 .. r - 1
      /\ Around(rows, 0) = {}
      /\ \A r \in 1 .. N : Around(rows, r) = {rows[r].up} \cup Around(rows, rows[r].up)
  BY AroundStep DEF IsForest
<1> HIDE DEF N
<1>2. 0 \in S
  <2>1. Chain(rows, 0)
    BY <1>1 DEF Chain
  <2>2. \A r \in 0 .. 0 : r = 0
    OBVIOUS
  <2> QED
    BY <2>1, <2>2
<1>3. ASSUME NEW n \in 0 .. N - 1, n \in S PROVE n + 1 \in S
  <2> DEFINE r == n + 1
             u == rows[r].up
             X == Around(rows, u)
  <2>1. r \in 1 .. N /\ u \in 0 .. n /\ Around(rows, r) = {u} \cup X
    BY <1>1
  <2>2. Chain(rows, u)
    BY <1>3, <2>1
  <2>3. X \subseteq 0 .. u - 1 /\ (u # 0 => 0 \in X)
    BY <2>2 DEF Chain
  <2>4. \A k \in X : Around(rows, k) \subseteq X
    BY <2>2 DEF Chain
  <2>5. \A j, k \in X : j < k => j \in Around(rows, k)
    BY <2>2 DEF Chain
  <2>6. Around(rows, r) \subseteq 0 .. r - 1 /\ 0 \in Around(rows, r)
    BY <2>1, <2>3
  <2>7. \A k \in Around(rows, r) : Around(rows, k) \subseteq Around(rows, r)
    BY <2>1, <2>4
  <2>8. \A j, k \in Around(rows, r) : j < k => j \in Around(rows, k)
    <3> TAKE j, k \in Around(rows, r)
    <3> HAVE j < k
    <3>1. CASE k = u
      BY <2>1, <2>3, <3>1
    <3>2. CASE k \in X /\ j = u
      BY <2>1, <2>3, <3>2
    <3>3. CASE k \in X /\ j \in X
      BY <2>5, <3>3
    <3> QED
      BY <2>1, <3>1, <3>2, <3>3
  <2>9. Chain(rows, r)
    BY <2>6, <2>7, <2>8 DEF Chain
  <2>10. \A q \in 0 .. n + 1 : q \in 0 .. n \/ q = r
    OBVIOUS
  <2> HIDE DEF r
  <2> QED
    BY <1>3, <2>9, <2>10
<1> HIDE DEF S
<1>4. \A n \in 0 .. N : n \in S
  BY <1>1, <1>2, <1>3, InductUpTo
<1>5. N \in S
  BY <1>1, <1>4
<1> QED
  BY <1>5 DEF S, N

-----------------------------------------------------------------------------
(* The text order *)

\* In the order of a text a node is in the one before it or around that.
InOrder(rows) ==
    \A r \in DOMAIN rows : rows[r].up \in {r - 1} \cup Around(rows, r - 1)

\* What is around a node goes on from where the node before it is.
LEMMA AroundGoesOn ==
  ASSUME NEW rows, IsForest(rows), InOrder(rows)
  PROVE  \A r \in 1 .. Len(rows) : Around(rows, r) \subseteq {r - 1} \cup Around(rows, r - 1)
<1> TAKE r \in 1 .. Len(rows)
<1>1. rows[r].up \in {r - 1} \cup Around(rows, r - 1)
      /\ Around(rows, r) = {rows[r].up} \cup Around(rows, rows[r].up)
  BY AroundStep DEF IsForest, InOrder
<1>2. r - 1 \in 0 .. Len(rows)
  BY DEF IsForest
<1>3. \A k \in Around(rows, r - 1) : Around(rows, k) \subseteq Around(rows, r - 1)
  BY <1>2, AroundChain DEF Chain
<1> QED
  BY <1>1, <1>3

\* What a node is around of is a stretch of lines behind it.
LEMMA InsideIsStretch ==
  ASSUME NEW rows, IsForest(rows), InOrder(rows), NEW k \in Nat
  PROVE  \A j \in 0 .. Len(rows) : k \in Around(rows, j) => \A r \in k + 1 .. j : k \in Around(rows, r)
<1> DEFINE N == Len(rows)
           S == {j \in Nat : k \in Around(rows, j) => \A r \in k + 1 .. j : k \in Around(rows, r)}
<1>1. N \in Nat /\ \A r \in 1 .. N : Around(rows, r) \subseteq {r - 1} \cup Around(rows, r - 1)
  BY AroundGoesOn DEF IsForest
<1>2. Around(rows, 0) = {}
  BY AroundStep
<1>3. \A j \in 0 .. N : Around(rows, j) \subseteq 0 .. j - 1
  BY AroundChain DEF Chain
<1> HIDE DEF N
<1>4. 0 \in S
  BY <1>2
<1>5. ASSUME NEW j \in 0 .. N - 1, j \in S PROVE j + 1 \in S
  <2> SUFFICES ASSUME k \in Around(rows, j + 1), NEW r \in k + 1 .. j + 1 PROVE k \in Around(rows, r)
    OBVIOUS
  <2>1. j + 1 \in 1 .. N /\ (j + 1) - 1 = j
    BY <1>1
  <2>2. k = j \/ k \in Around(rows, j)
    BY <1>1, <2>1
  <2>3. CASE r = j + 1
    BY <2>3
  <2>4. CASE r # j + 1
    BY <1>5, <2>2, <2>4
  <2> QED
    BY <2>3, <2>4
<1> HIDE DEF S
<1>6. \A j \in 0 .. N : j \in S
  BY <1>1, <1>4, <1>5, InductUpTo
<1> QED
  BY <1>6 DEF S, N

-----------------------------------------------------------------------------
(* First and last *)

\* Max and Min of a finite set of integers.
LEMMA MaxMin ==
  ASSUME NEW m \in Int, NEW n \in Int, NEW T \in SUBSET (m .. n), T # {}
  PROVE  /\ Max(T) \in T /\ \A y \in T : y <= Max(T)
         /\ Min(T) \in T /\ \A y \in T : Min(T) <= y
<1>1. (\E x \in T : \A y \in T : x <= y) /\ \E x \in T : \A y \in T : x >= y
  BY BoundsExist
<1>2. Max(T) \in T /\ \A y \in T : Max(T) >= y
  BY <1>1, Zenon DEF Max
<1>3. Min(T) \in T /\ \A y \in T : Min(T) <= y
  BY <1>1, Zenon DEF Min
<1>4. \A y \in T : y \in Int
  OBVIOUS
<1>5. Max(T) \in Int
  BY <1>2, <1>4
<1> QED
  BY <1>2, <1>3, <1>4, <1>5

\* The lines of a node are its own and those of what it is around of.
LEMMA LinesOfNode ==
  ASSUME NEW rows, IsForest(rows), InOrder(rows), NEW k \in DOMAIN rows
  PROVE  /\ LastLine(rows, k) \in k .. Len(rows)
         /\ \A r \in DOMAIN rows : r \in k .. LastLine(rows, k) <=> r = k \/ k \in Around(rows, r)
<1> DEFINE N == Len(rows)
           T == {k} \cup {j \in DOMAIN rows : k \in Around(rows, j)}
           l == LastLine(rows, k)
<1>1. N \in Nat /\ DOMAIN rows = 1 .. N
  BY DEF IsForest
<1>2. \A j \in 1 .. N : Around(rows, j) \subseteq 0 .. j - 1
  BY <1>1, AroundChain DEF Chain
<1>3. T \in SUBSET (k .. N) /\ T # {}
  BY <1>1, <1>2
<1>4. k \in Int /\ N \in Int
  BY <1>1
<1>5. l = Max(T)
  BY Zenon DEF LastLine
<1>6. \A j : j \in T <=> j = k \/ (j \in 1 .. N /\ k \in Around(rows, j))
  BY <1>1
<1> HIDE DEF T, l, N
<1>7. l \in T /\ \A y \in T : y <= l
  BY <1>3, <1>4, <1>5, MaxMin
<1>8. ASSUME NEW r \in 1 .. N, r \in k .. l, r # k PROVE k \in Around(rows, r)
  <2>1. k \in Nat /\ l \in 0 .. N
    BY <1>1, <1>3, <1>7
  <2>2. l \in 1 .. N /\ k \in Around(rows, l)
    BY <1>3, <1>4, <1>6, <1>7, <1>8
  <2>3. \A q \in k + 1 .. l : k \in Around(rows, q)
    BY <2>1, <2>2, InsideIsStretch DEF N
  <2> QED
    BY <1>8, <2>1, <2>3
<1>9. l \in k .. N
  BY <1>3, <1>7
<1>10. ASSUME NEW r \in 1 .. N, r = k \/ k \in Around(rows, r) PROVE r \in k .. l
  BY <1>3, <1>6, <1>7, <1>9, <1>10
<1>11. \A r \in 1 .. N : r \in k .. l <=> r = k \/ k \in Around(rows, r)
  BY <1>8, <1>10
<1> QED
  BY <1>1, <1>9, <1>11 DEF l, N

\* The innermost and the outermost of the nodes of some kinds around a line.
LEMMA InnermostFacts ==
  ASSUME NEW rows, IsForest(rows), NEW r \in 0 .. Len(rows), NEW kinds
  PROVE  LET m == Innermost(rows, r, kinds)
         IN /\ m \in 0 .. Len(rows)
            /\ m # 0 => m \in AroundOfKind(rows, r, kinds)
            /\ \A k \in AroundOfKind(rows, r, kinds) : m # 0 /\ k <= m
<1> DEFINE A == AroundOfKind(rows, r, kinds)
<1>1. Len(rows) \in Nat /\ A \subseteq 1 .. Len(rows)
  <2>1. Around(rows, r) \subseteq 0 .. r - 1
    BY AroundChain DEF Chain
  <2> QED
    BY <2>1 DEF AroundOfKind, IsForest
<1> HIDE DEF A
<1>2. A \cup {0} \in SUBSET (0 .. Len(rows)) /\ A \cup {0} # {} /\ 0 \in Int /\ Len(rows) \in Int
  BY <1>1
<1> DEFINE m == Max(A \cup {0})
<1>3. m \in A \cup {0} /\ \A y \in A \cup {0} : y <= m
  BY <1>2, MaxMin
<1> HIDE DEF m
<1>4. m \in 0 .. Len(rows) /\ (m # 0 => m \in A) /\ \A k \in A : m # 0 /\ k <= m
  BY <1>1, <1>3
<1> QED
  BY <1>4, Zenon DEF Innermost, m, A

\* The outermost node of some kinds that is around a node.
LEMMA OutermostFacts ==
  ASSUME NEW rows, IsForest(rows), NEW r \in 0 .. Len(rows), NEW kinds
  PROVE  LET m == Outermost(rows, r, kinds)
         IN /\ m \in 0 .. Len(rows)
            /\ m # 0 => m \in AroundOfKind(rows, r, kinds)
            /\ \A k \in AroundOfKind(rows, r, kinds) : m # 0 /\ m <= k
<1> DEFINE A == AroundOfKind(rows, r, kinds)
<1>1. Len(rows) \in Nat /\ A \subseteq 1 .. Len(rows)
  <2>1. Around(rows, r) \subseteq 0 .. r - 1
    BY AroundChain DEF Chain
  <2> QED
    BY <2>1 DEF AroundOfKind, IsForest
<1> HIDE DEF A
<1>2. CASE A = {}
  <2>1. Outermost(rows, r, kinds) = 0
    BY <1>2 DEF Outermost, A
  <2> QED
    BY <1>1, <1>2, <2>1 DEF A
<1>3. CASE A # {}
  <2>1. Outermost(rows, r, kinds) = Min(A)
    BY <1>3 DEF Outermost, A
  <2>2. A \in SUBSET (1 .. Len(rows)) /\ Len(rows) \in Int /\ 1 \in Int
    BY <1>1
  <2>3. Min(A) \in A /\ \A y \in A : Min(A) <= y
    BY <1>3, <2>2, MaxMin
  <2> DEFINE x == Min(A)
  <2> HIDE DEF x
  <2>4. x \in 0 .. Len(rows) /\ x # 0
    <3>1. x \in A
      BY <2>3 DEF x
    <3> QED
      BY <1>1, <3>1
  <2> QED
    BY <2>1, <2>3, <2>4, Zenon DEF A, x
<1> QED
  BY <1>2, <1>3

-----------------------------------------------------------------------------
(* Where the edges of a line start *)

\* What the project's assumption says of the nodes of a file.
IsFile(rows) == IsForest(rows) /\ InOrder(rows) /\ \A r \in DOMAIN rows : rows[r] \in Row

\* The nodes that line r is in, its own included.
Within(rows, r) == {r} \cup Around(rows, r)

\* The symbols of a file.
FileSymbols(fileId, ids) == {fileId} \cup {ids[k] : k \in DOMAIN ids}

\* Symbols have the lines of their nodes.
IdsFit(file, rows, ids) ==
    /\ DOMAIN ids \subseteq DOMAIN rows
    /\ \A k \in DOMAIN ids :
          ids[k].file = file /\ ids[k].line = k - 1 /\ ids[k].kind \notin {"File", "Route"}

\* No symbol of some kinds is in another one.
Apart(rows, ids, kinds) ==
    \A r \in DOMAIN rows : \A c, d \in DOMAIN ids \cap Within(rows, r) :
        ids[c].kind \in kinds /\ ids[d].kind \in kinds => c = d

FunctionsApart(rows, ids) == Apart(rows, ids, FunctionKinds)

\* A symbol whose text has line r, and the innermost one of some kinds.
Sits(i, X, rows, r) == i \in X /\ (i.kind # "File" => i.line + 1 \in Within(rows, r))
Deepest(i, X, rows, r, kinds) ==
    /\ Sits(i, X, rows, r) /\ i.kind \in kinds
    /\ \A j \in X : j # i /\ Sits(j, X, rows, r) /\ j.kind \in kinds =>
          i.kind # "File" /\ (j.kind = "File" \/ j.line < i.line)

\* The IMPLEMENTS edges that start on line 0 whatever is there.
IsLoose(language, rows, r, kind) ==
    kind = "Implements" /\ (language = "rust" \/ rows[r].node = "extension")

\* StartsAt, of one file.
Starts(i, kind, language, file, X, rows, r, kinds) ==
    /\ i.file = file
    /\ IsLoose(language, rows, r, kind) => i.kind \in {"Struct", "Class"} /\ i.line = 0
    /\ kind = "Calls" =>
          \/ Deepest(i, X, rows, r, kinds)
          \/ /\ AroundOfKind(rows, r, {"anonymous"}) # {}
             /\ Sits(i, X, rows, r) /\ i.kind \in kinds
    /\ kind # "Calls" /\ ~IsLoose(language, rows, r, kind) => Sits(i, X, rows, r)

\* An edge of line r starts where StartsAt allows.
EdgeFits(e, language, file, X, rows, r, kinds) ==
    /\ e.line = r - 1 /\ e.kind # "HandlesRoute"
    /\ Starts(e.source, e.kind, language, file, X, rows, r, kinds)

\* Sequences, of whatever.
IsSeq(s) == s \in Seq(ToSet(s))

\* All the edges of line r do.
EdgesFit(edges, language, file, X, rows, r, kinds) ==
    IsSeq(edges) /\ \A e \in ToSet(edges) : EdgeFits(e, language, file, X, rows, r, kinds)

\* An empty list of edges.
LEMMA NoEdges == IsSeq(<<>>) /\ ToSet(<<>>) = {}
BY DEF IsSeq, ToSet

\* A list of one edge.
LEMMA OneEdge ==
  ASSUME NEW e
  PROVE  IsSeq(<<e>>) /\ ToSet(<<e>>) = {e}
<1>1. ToSet(<<e>>) = {e}
  BY DEF ToSet
<1> QED
  BY <1>1 DEF IsSeq

\* Sequences over a set.
LEMMA IsSeqOf ==
  ASSUME NEW A, NEW s \in Seq(A)
  PROVE  IsSeq(s)
BY RangeFacts DEF IsSeq

\* The edges to names, from one symbol and line.
LEMMA EdgesToFacts ==
  ASSUME NEW A, NEW names \in Seq(A), NEW source, NEW kind, NEW r
  PROVE  /\ IsSeq(EdgesTo(source, kind, names, r))
         /\ \A e \in ToSet(EdgesTo(source, kind, names, r)) :
               e.source = source /\ e.kind = kind /\ e.line = r - 1
<1> DEFINE s == EdgesTo(source, kind, names, r)
           n == Len(names)
           B == {Edge(source, kind, x, r - 1) : x \in A}
<1>1. n \in Nat /\ DOMAIN names = 1 .. n /\ \A k \in 1 .. n : names[k] \in A
  OBVIOUS
<1>2. s = [k \in 1 .. n |-> Edge(source, kind, names[k], r - 1)]
  BY <1>1 DEF EdgesTo
<1>3. \A k \in 1 .. n : Edge(source, kind, names[k], r - 1) \in B
  BY <1>1
<1> HIDE DEF B, n, s
<1>4. s \in Seq(B)
  BY <1>1, <1>2, <1>3
<1>5. IsSeq(s) /\ ToSet(s) \subseteq B
  BY <1>4, RangeFacts, IsSeqOf
<1>6. \A e \in B : e.source = source /\ e.kind = kind /\ e.line = r - 1
  BY DEF B, Edge
<1> QED
  BY <1>5, <1>6 DEF s

\* Two sequences one after the other.
LEMMA Joined ==
  ASSUME NEW s, NEW t, IsSeq(s), IsSeq(t)
  PROVE  IsSeq(s \o t) /\ ToSet(s \o t) = ToSet(s) \cup ToSet(t)
<1> DEFINE A == ToSet(s) \cup ToSet(t)
<1>1. s \in Seq(A) /\ t \in Seq(A)
  <2>1. s \in Seq(ToSet(s)) /\ t \in Seq(ToSet(t)) /\ ToSet(s) \subseteq A /\ ToSet(t) \subseteq A
    BY DEF IsSeq
  <2> HIDE DEF A
  <2> QED
    BY <2>1
<1> HIDE DEF A
<1>2. s \o t \in Seq(A) /\ \A x : x \in ToSet(s \o t) <=> x \in ToSet(s) \/ x \in ToSet(t)
  BY <1>1, ConcatRange
<1>3. ToSet(s \o t) = ToSet(s) \cup ToSet(t)
  BY <1>2
<1> QED
  BY <1>2, <1>3, IsSeqOf

\* Edges of classes.
LEMMA InheritsFacts ==
  ASSUME NEW source, NEW row \in Row, NEW r
  PROVE  /\ IsSeq(Inherits(source, row, r))
         /\ \A e \in ToSet(Inherits(source, row, r)) :
               e.source = source /\ e.kind \in {"Extends", "Implements"} /\ e.line = r - 1
<1> DEFINE s == EdgesTo(source, "Extends", row.bases, r)
           t == EdgesTo(source, "Implements", row.traits, r)
<1>1. row.bases \in Seq(Name) /\ row.traits \in Seq(Name)
  BY DEF Row
<1>2. IsSeq(s) /\ \A e \in ToSet(s) : e.source = source /\ e.kind = "Extends" /\ e.line = r - 1
  BY <1>1, EdgesToFacts
<1>3. IsSeq(t) /\ \A e \in ToSet(t) : e.source = source /\ e.kind = "Implements" /\ e.line = r - 1
  BY <1>1, EdgesToFacts
<1> HIDE DEF s, t
<1>4. IsSeq(s \o t) /\ ToSet(s \o t) = ToSet(s) \cup ToSet(t)
  BY <1>2, <1>3, Joined
<1>5. Inherits(source, row, r) = s \o t
  BY DEF Inherits, s, t
<1> QED
  BY <1>2, <1>3, <1>4, <1>5

\* The symbol of a node in or around a line sits there, and so does the file's.
LEMMA SymbolSits ==
  ASSUME NEW file, NEW rows, NEW ids, NEW fileId, fileId.kind = "File",
         IdsFit(file, rows, ids), IsForest(rows), NEW r
  PROVE  LET X == FileSymbols(fileId, ids)
         IN /\ Sits(fileId, X, rows, r)
            /\ \A c \in DOMAIN ids \cap Within(rows, r) : Sits(ids[c], X, rows, r)
<1>1. \A c \in DOMAIN ids : c \in Int /\ ids[c].line = c - 1
  BY DEF IdsFit, IsForest
<1> QED
  BY <1>1 DEF Sits, FileSymbols

\* The symbol of the innermost node that has one of a kind that calls.
LEMMA CallerIsDeepest ==
  ASSUME NEW file, NEW rows, NEW ids, NEW fileId, fileId.kind = "File",
         IdsFit(file, rows, ids), IsForest(rows), NEW r, NEW kinds,
         NEW c \in DOMAIN ids \cap Within(rows, r), ids[c].kind \in kinds,
         \A d \in DOMAIN ids \cap Within(rows, r) : ids[d].kind \in kinds => d <= c
  PROVE  Deepest(ids[c], FileSymbols(fileId, ids), rows, r, kinds)
<1> DEFINE X == FileSymbols(fileId, ids)
<1>1. \A d \in DOMAIN ids : d \in Int /\ ids[d].line = d - 1 /\ ids[d].kind # "File"
  BY DEF IdsFit, IsForest
<1>2. Sits(ids[c], X, rows, r)
  BY SymbolSits
<1>3. ASSUME NEW j \in X, j # ids[c], Sits(j, X, rows, r), j.kind \in kinds, j.kind # "File"
      PROVE  j.line < ids[c].line
  <2>1. PICK d \in DOMAIN ids : j = ids[d]
    BY <1>3 DEF FileSymbols
  <2>2. d \in Within(rows, r)
    BY <1>1, <1>3, <2>1 DEF Sits
  <2>3. d <= c /\ d # c
    BY <1>3, <2>1, <2>2
  <2> QED
    BY <1>1, <2>1, <2>3
<1> QED
  BY <1>1, <1>2, <1>3 DEF Deepest
\* What is around a node, of any kinds.
LEMMA Inside ==
  ASSUME NEW rows, IsForest(rows), NEW r \in 0 .. Len(rows)
  PROVE  /\ \A k \in Around(rows, r) \ {0} : k \in 1 .. Len(rows) /\ k < r
         /\ \A kinds : \A k \in AroundOfKind(rows, r, kinds) :
               k \in 1 .. Len(rows) /\ k < r /\ k \in Around(rows, r) /\ rows[k].node \in kinds
         /\ \A kinds : \A k \in Around(rows, r) \ {0} :
               rows[k].node \in kinds => k \in AroundOfKind(rows, r, kinds)
         /\ \A kinds : \A k \in Around(rows, r) :
               AroundOfKind(rows, k, kinds) \subseteq AroundOfKind(rows, r, kinds)
         /\ \A kinds : \A c, d \in Around(rows, r) \ {0} :
               c < d /\ rows[c].node \in kinds => c \in AroundOfKind(rows, d, kinds)
<1>1. Len(rows) \in Nat /\ Chain(rows, r)
  BY AroundChain DEF IsForest
<1>2. /\ Around(rows, r) \subseteq 0 .. r - 1
      /\ \A k \in Around(rows, r) : Around(rows, k) \subseteq Around(rows, r)
      /\ \A j, k \in Around(rows, r) : j < k => j \in Around(rows, k)
  BY <1>1 DEF Chain
<1> QED
  BY <1>1, <1>2 DEF AroundOfKind

\* Of two nodes that a line is in the first is around the other.
LEMMA EarlierIsAround ==
  ASSUME NEW rows, IsForest(rows), NEW r \in 0 .. Len(rows),
         NEW c \in Within(rows, r), NEW d \in Within(rows, r), c < d
  PROVE  c \in Around(rows, d)
<1>1. Len(rows) \in Nat /\ Chain(rows, r)
  BY AroundChain DEF IsForest
<1> QED
  BY <1>1 DEF Chain, Within

\* Symbols of some kinds are apart if none has one of their nodes around.
LEMMA ApartBy ==
  ASSUME NEW rows, IsForest(rows), NEW ids, DOMAIN ids \subseteq DOMAIN rows, NEW kinds,
         \A c, d \in DOMAIN ids :
            ids[c].kind \in kinds /\ ids[d].kind \in kinds => c \notin Around(rows, d)
  PROVE  Apart(rows, ids, kinds)
<1> SUFFICES ASSUME NEW r \in DOMAIN rows, NEW c \in DOMAIN ids \cap Within(rows, r),
                    NEW d \in DOMAIN ids \cap Within(rows, r),
                    ids[c].kind \in kinds, ids[d].kind \in kinds
             PROVE  c = d
  BY DEF Apart
<1>1. r \in 0 .. Len(rows) /\ c \in Int /\ d \in Int
  BY DEF IsForest
<1>2. ~ c < d /\ ~ d < c
  BY <1>1, EarlierIsAround
<1> QED
  BY <1>1, <1>2

\* Fewer kinds are apart too.
LEMMA FewerApart ==
  ASSUME NEW rows, NEW ids, NEW kinds, Apart(rows, ids, kinds), FunctionKinds \subseteq kinds
  PROVE  FunctionsApart(rows, ids)
BY DEF Apart, FunctionsApart

\* A call starts at the only symbol around of a kind that calls.
LEMMA LoneCaller ==
  ASSUME NEW file, NEW rows, NEW ids, NEW fileId, fileId.kind = "File",
         IdsFit(file, rows, ids), IsForest(rows), NEW r \in DOMAIN rows, NEW kinds,
         Apart(rows, ids, kinds), NEW language,
         NEW c \in DOMAIN ids \cap Within(rows, r), ids[c].kind \in kinds
  PROVE  Starts(ids[c], "Calls", language, file, FileSymbols(fileId, ids), rows, r, kinds)
<1>1. \A d \in DOMAIN ids : d \in Int /\ ids[d].file = file
  BY DEF IdsFit, IsForest
<1>2. \A d \in DOMAIN ids \cap Within(rows, r) : ids[d].kind \in kinds => d <= c
  BY <1>1 DEF Apart
<1>3. Deepest(ids[c], FileSymbols(fileId, ids), rows, r, kinds)
  BY <1>2, CallerIsDeepest
<1> QED
  BY <1>1, <1>3 DEF Starts, IsLoose

\* Any other edge starts at a symbol around.
LEMMA SitsStarts ==
  ASSUME NEW i, NEW kind, NEW language, NEW file, NEW X, NEW rows, NEW r, NEW kinds,
         i.file = file, kind # "Calls", ~ IsLoose(language, rows, r, kind), Sits(i, X, rows, r)
  PROVE  Starts(i, kind, language, file, X, rows, r, kinds)
BY DEF Starts

\* No edges fit.
LEMMA NoneFits ==
  ASSUME NEW language, NEW file, NEW X, NEW rows, NEW r, NEW kinds
  PROVE  EdgesFit(<<>>, language, file, X, rows, r, kinds)
BY NoEdges DEF EdgesFit

\* One edge that fits.
LEMMA OneFits ==
  ASSUME NEW language, NEW file, NEW X, NEW rows, NEW r, NEW kinds, NEW x,
         x.line = r - 1, x.kind # "HandlesRoute",
         Starts(x.source, x.kind, language, file, X, rows, r, kinds)
  PROVE  EdgesFit(<<x>>, language, file, X, rows, r, kinds)
<1>1. EdgeFits(x, language, file, X, rows, r, kinds)
  BY DEF EdgeFits
<1>2. IsSeq(<<x>>) /\ ToSet(<<x>>) = {x}
  BY OneEdge
<1> QED
  BY <1>1, <1>2, Zenon DEF EdgesFit

\* Edges to names, from a symbol that fits.
LEMMA ToFits ==
  ASSUME NEW language, NEW file, NEW X, NEW rows, NEW r, NEW kinds, NEW i, NEW kind,
         NEW A, NEW names \in Seq(A), kind # "HandlesRoute",
         Starts(i, kind, language, file, X, rows, r, kinds)
  PROVE  EdgesFit(EdgesTo(i, kind, names, r), language, file, X, rows, r, kinds)
<1> DEFINE s == EdgesTo(i, kind, names, r)
<1>1. IsSeq(s) /\ \A e \in ToSet(s) : e.source = i /\ e.kind = kind /\ e.line = r - 1
  BY EdgesToFacts
<1> HIDE DEF s
<1>2. \A e \in ToSet(s) : EdgeFits(e, language, file, X, rows, r, kinds)
  BY <1>1 DEF EdgeFits
<1>3. EdgesFit(s, language, file, X, rows, r, kinds)
  BY <1>1, <1>2, Zenon DEF EdgesFit
<1> QED
  BY <1>3 DEF s

\* Two lists that fit.
LEMMA BothFit ==
  ASSUME NEW language, NEW file, NEW X, NEW rows, NEW r, NEW kinds, NEW s, NEW t,
         EdgesFit(s, language, file, X, rows, r, kinds),
         EdgesFit(t, language, file, X, rows, r, kinds)
  PROVE  EdgesFit(s \o t, language, file, X, rows, r, kinds)
<1>1. IsSeq(s \o t) /\ ToSet(s \o t) = ToSet(s) \cup ToSet(t)
  BY Joined DEF EdgesFit
<1>2. \A e \in ToSet(s) \cup ToSet(t) : EdgeFits(e, language, file, X, rows, r, kinds)
  BY DEF EdgesFit
<1> QED
  BY <1>1, <1>2, Zenon DEF EdgesFit

\* The bases and traits of a type's symbol.
LEMMA InheritsFit ==
  ASSUME NEW language, language # "rust", NEW file, NEW X, NEW rows, NEW r,
         NEW kinds, NEW row \in Row, rows[r].node # "extension", NEW i,
         i.file = file, Sits(i, X, rows, r)
  PROVE  EdgesFit(Inherits(i, row, r), language, file, X, rows, r, kinds)
<1>1. row.bases \in Seq(Name) /\ row.traits \in Seq(Name)
  BY DEF Row
<1>2. /\ Starts(i, "Extends", language, file, X, rows, r, kinds)
      /\ Starts(i, "Implements", language, file, X, rows, r, kinds)
  BY SitsStarts DEF IsLoose
<1>3. EdgesFit(EdgesTo(i, "Extends", row.bases, r), language, file, X, rows, r, kinds)
  BY <1>1, <1>2, ToFits
<1>4. EdgesFit(EdgesTo(i, "Implements", row.traits, r), language, file, X, rows, r, kinds)
  BY <1>1, <1>2, ToFits
<1> QED
  BY <1>3, <1>4, BothFit DEF Inherits

-----------------------------------------------------------------------------
(* Python *)

PyIds(file, rows) == [k \in PySymbols(rows) |-> PyId(file, rows, k)]

\* What the Python extractor makes of any file fits.
LEMMA PythonFits ==
  ASSUME NEW file, NEW rows, IsFile(rows), \A k \in DOMAIN rows : rows[k].node \in PyNodes
  PROVE  LET ids == PyIds(file, rows)
             X == FileSymbols(FileId(file, "py"), ids)
         IN /\ IdsFit(file, rows, ids) /\ FunctionsApart(rows, ids)
            /\ \A r \in DOMAIN rows :
                  EdgesFit(PyEdges(file, rows, r), "python", file, X, rows, r, FunctionKinds)
<1> DEFINE ids == PyIds(file, rows)
           X == FileSymbols(FileId(file, "py"), ids)
           N == Len(rows)
<1>1. IsForest(rows) /\ N \in Nat /\ DOMAIN rows = 1 .. N /\ \A k \in DOMAIN rows : rows[k] \in Row
  BY DEF IsFile, IsForest
<1>2. \A k \in DOMAIN ids : k \in 1 .. N /\ k \in PySymbols(rows) /\ ids[k] = PyId(file, rows, k)
  BY <1>1 DEF PyIds, PySymbols
<1>3. DOMAIN ids = PySymbols(rows)
  BY DEF PyIds
<1> HIDE DEF ids, N
<1>4. ASSUME NEW k \in PySymbols(rows)
      PROVE  /\ PyKind(rows, k) \in {"Class", "Import", "Function", "Constructor", "Method"}
             /\ PyKind(rows, k) \in FunctionKinds <=> rows[k].node = "function"
  BY DEF PySymbols, PyKind, FunctionKinds
<1>5. \A k \in DOMAIN ids :
         ids[k].file = file /\ ids[k].line = k - 1 /\ ids[k].kind = PyKind(rows, k)
  BY <1>2 DEF PyId, Id
<1>6. IdsFit(file, rows, ids)
  BY <1>1, <1>2, <1>4, <1>5 DEF IdsFit
<1>7. ASSUME NEW r \in 1 .. N, NEW c \in DOMAIN ids \cap Within(rows, r),
             NEW d \in DOMAIN ids \cap Within(rows, r),
             rows[c].node = "function", rows[d].node = "function"
      PROVE  ~ c < d
  <2> SUFFICES ASSUME c < d PROVE FALSE
    OBVIOUS
  <2>1. AroundOfKind(rows, d, {"function"}) = {}
    BY <1>2 DEF PySymbols, PyWalked
  <2>2. c \in Around(rows, d)
    BY <1>1, <1>7, EarlierIsAround DEF N
  <2> QED
    BY <1>2, <1>7, <2>1, <2>2 DEF AroundOfKind
<1>8. FunctionsApart(rows, ids)
  <2> SUFFICES ASSUME NEW r \in 1 .. N, NEW c \in DOMAIN ids \cap Within(rows, r),
                      NEW d \in DOMAIN ids \cap Within(rows, r),
                      ids[c].kind \in FunctionKinds, ids[d].kind \in FunctionKinds
               PROVE  c = d
    BY <1>1 DEF FunctionsApart, Apart
  <2>1. rows[c].node = "function" /\ rows[d].node = "function" /\ c \in Int /\ d \in Int
    BY <1>2, <1>4, <1>5
  <2> QED
    BY <1>7, <2>1
<1>9. FileId(file, "py").kind = "File" /\ FileId(file, "py").file = file
  BY DEF FileId, Id
<1>10. ASSUME NEW r \in 1 .. N
       PROVE  EdgesFit(PyEdges(file, rows, r), "python", file, X, rows, r, FunctionKinds)
  <2> DEFINE edges == PyEdges(file, rows, r)
             Fits(e) == EdgeFits(e, "python", file, X, rows, r, FunctionKinds)
  <2>0. Sits(FileId(file, "py"), X, rows, r) /\ \A c \in DOMAIN ids \cap Within(rows, r) : Sits(ids[c], X, rows, r)
    BY <1>1, <1>6, <1>9, SymbolSits
  <2>1. rows[r] \in Row /\ rows[r].bases \in Seq(Name) /\ rows[r].node # "extension"
    BY <1>1 DEF Row, PyNodes
  <2>2. CASE rows[r].node = "class" /\ PyWalked(rows, r)
    <3>1. edges = EdgesTo(PyId(file, rows, r), "Extends", rows[r].bases, r)
      BY <2>2 DEF PyEdges
    <3>2. r \in DOMAIN ids /\ ids[r] = PyId(file, rows, r)
      BY <1>1, <1>2, <1>3, <2>2 DEF PySymbols
    <3>3. IsSeq(edges) /\ \A e \in ToSet(edges) : e.source = ids[r] /\ e.kind = "Extends" /\ e.line = r - 1
      BY <2>1, <3>1, <3>2, EdgesToFacts
    <3>4. \A e \in ToSet(edges) : Fits(e)
      BY <1>5, <2>0, <3>2, <3>3 DEF EdgeFits, Starts, IsLoose, Within
    <3> QED
      BY <3>3, <3>4, Zenon DEF EdgesFit
  <2>3. CASE rows[r].node \in {"import", "from"} /\ PyWalked(rows, r)
    <3> DEFINE x == [Edge(PyParent(file, rows, r), "Imports", rows[r].name, r - 1)
                       EXCEPT !.path = IF rows[r].node = "from" THEN rows[r].module ELSE NoPath]
    <3>1. edges = <<x>>
      BY <2>3 DEF PyEdges
    <3>2. IsSeq(edges) /\ ToSet(edges) = {x}
      BY <3>1, OneEdge
    <3>3. x.source = PyParent(file, rows, r) /\ x.kind = "Imports" /\ x.line = r - 1
      BY DEF Edge
    <3> DEFINE c == PyClass(rows, r)
    <3>4. c # 0 => c \in DOMAIN ids \cap Within(rows, r) /\ PyId(file, rows, c) = ids[c]
      <4>1. r \in 0 .. Len(rows)
        BY <1>1 DEF N
      <4>2. c # 0 => c \in AroundOfKind(rows, r, {"class"})
        BY <1>1, <4>1, InnermostFacts DEF PyClass
      <4>3. ASSUME c # 0 PROVE c \in PySymbols(rows) /\ c \in Around(rows, r)
        <5>1. c \in 1 .. N /\ c \in Around(rows, r) /\ rows[c].node = "class"
          BY <1>1, <4>1, <4>2, <4>3, Inside DEF N
        <5>2. AroundOfKind(rows, c, {"function"}) \subseteq AroundOfKind(rows, r, {"function"})
          BY <1>1, <4>1, <5>1, Inside
        <5> QED
          BY <1>1, <2>3, <5>1, <5>2 DEF PySymbols, PyWalked
      <4> QED
        BY <1>2, <1>3, <4>3 DEF Within
    <3>5. Sits(x.source, X, rows, r) /\ x.source.file = file
      BY <1>5, <1>9, <2>0, <3>3, <3>4 DEF PyParent
    <3> HIDE DEF x
    <3>6. Fits(x)
      BY <3>3, <3>5 DEF EdgeFits, Starts, IsLoose
    <3> QED
      BY <3>2, <3>6, Zenon DEF EdgesFit
  <2>4. CASE rows[r].node = "call" /\ PyCaller(rows, r) # 0
    <3> DEFINE c == PyCaller(rows, r)
               x == Edge(PyId(file, rows, c), "Calls", PyCallTarget(rows, r), r - 1)
    <3>1. edges = <<x>>
      BY <2>4 DEF PyEdges
    <3>2. IsSeq(edges) /\ ToSet(edges) = {x}
      BY <3>1, OneEdge
    <3>3. x.source = PyId(file, rows, c) /\ x.kind = "Calls" /\ x.line = r - 1
      BY DEF Edge
    <3>4. r \in 0 .. Len(rows)
      BY <1>1 DEF N
    <3>5. c \in AroundOfKind(rows, r, {"function"}) /\ \A k \in AroundOfKind(rows, r, {"function"}) : c <= k
      BY <1>1, <2>4, <3>4, OutermostFacts DEF PyCaller
    <3>6. c \in 1 .. N /\ c \in Around(rows, r) /\ rows[c].node = "function" /\ c < r
      BY <1>1, <3>4, <3>5, Inside DEF N
    <3>7. c \in PySymbols(rows)
      <4>1. AroundOfKind(rows, c, {"function"}) \subseteq AroundOfKind(rows, r, {"function"})
        BY <1>1, <3>4, <3>6, Inside
      <4>2. \A k \in AroundOfKind(rows, c, {"function"}) : k < c /\ k \in Int
        BY <1>1, <3>6, Inside DEF N
      <4>3. AroundOfKind(rows, c, {"function"}) = {}
        BY <3>5, <3>6, <4>1, <4>2
      <4> QED
        BY <1>1, <3>6, <4>3 DEF PySymbols, PyWalked
    <3>8. c \in DOMAIN ids \cap Within(rows, r) /\ ids[c] = PyId(file, rows, c) /\ ids[c].kind \in FunctionKinds
      BY <1>2, <1>3, <1>4, <1>5, <3>6, <3>7 DEF Within
    <3>9. \A d \in DOMAIN ids \cap Within(rows, r) : ids[d].kind \in FunctionKinds => d <= c
      BY <1>1, <1>8, <3>8, <3>6 DEF FunctionsApart, Apart
    <3>10. Deepest(ids[c], X, rows, r, FunctionKinds)
      BY <1>1, <1>6, <1>9, <3>8, <3>9, CallerIsDeepest
    <3> HIDE DEF x, c
    <3>11. Fits(x)
      BY <1>5, <3>3, <3>8, <3>10 DEF EdgeFits, Starts, IsLoose
    <3> QED
      BY <3>2, <3>11, Zenon DEF EdgesFit
  <2>5. CASE edges = <<>>
    BY <2>5, NoEdges DEF EdgesFit
  <2> QED
    BY <2>2, <2>3, <2>4, <2>5 DEF PyEdges
<1> QED
  BY <1>1, <1>6, <1>8, <1>10 DEF ids

-----------------------------------------------------------------------------
(* Rust *)

RsIds(file, rows) == [k \in RsSymbols(rows) |-> RsId(file, rows, k)]

\* The Rust extractor's edges fit, those of impl blocks as loose ones.
LEMMA RustFits ==
  ASSUME NEW file, NEW rows, IsFile(rows), \A k \in DOMAIN rows : rows[k].node \in RsNodes
  PROVE  LET ids == RsIds(file, rows)
             X == FileSymbols(FileId(file, "rs"), ids)
         IN /\ IdsFit(file, rows, ids) /\ FunctionsApart(rows, ids)
            /\ \A r \in DOMAIN rows :
                  EdgesFit(RsEdges(file, rows, r), "rust", file, X, rows, r, FunctionKinds)
<1> DEFINE ids == RsIds(file, rows)
           X == FileSymbols(FileId(file, "rs"), ids)
           N == Len(rows)
<1>1. IsForest(rows) /\ N \in Nat /\ DOMAIN rows = 1 .. N /\ \A k \in DOMAIN rows : rows[k] \in Row
  BY DEF IsFile, IsForest
<1>2. DOMAIN ids = RsSymbols(rows) /\ \A k \in DOMAIN ids : ids[k] = RsId(file, rows, k)
  BY DEF RsIds
<1> HIDE DEF ids, N
<1>3. \A k \in RsSymbols(rows) : k \in 1 .. N
  BY <1>1 DEF RsSymbols, RsItems, RsMethods, RsFields, RsInside
<1>4. ASSUME NEW k \in RsSymbols(rows)
      PROVE  /\ RsKind(rows, k) \notin {"File", "Route"}
             /\ RsKind(rows, k) \in FunctionKinds <=> rows[k].node = "fn"
  BY DEF RsSymbols, RsItems, RsMethods, RsFields, RsInside, RsKind, RsKindOf, FunctionKinds
<1>5. \A k \in DOMAIN ids :
         ids[k].file = file /\ ids[k].line = k - 1 /\ ids[k].kind = RsKind(rows, k)
  BY <1>2 DEF RsId, Id
<1>6. IdsFit(file, rows, ids)
  BY <1>1, <1>2, <1>3, <1>4, <1>5 DEF IdsFit
<1>7. ASSUME NEW d \in RsSymbols(rows), rows[d].node = "fn",
             NEW c \in Around(rows, d), rows[c].node = "fn", c # 0
      PROVE  FALSE
  <2>1. CASE d \in RsItems(rows)
    BY <1>7, <2>1 DEF RsItems, RsWalked, AroundOfKind
  <2>2. CASE d \in RsMethods(rows)
    <3>1. /\ rows[rows[d].up].node = "impl" /\ RsWalked(rows, rows[d].up)
      BY <2>2 DEF RsMethods, RsInside
    <3>2. c = rows[d].up \/ c \in Around(rows, rows[d].up)
      BY <1>1, <1>3, <1>7, AroundStep DEF N
    <3> QED
      BY <1>7, <3>1, <3>2 DEF RsWalked, AroundOfKind
  <2> QED
    BY <1>7, <2>1, <2>2 DEF RsSymbols, RsFields, RsInside
<1>8. FunctionsApart(rows, ids)
  <2> SUFFICES ASSUME NEW r \in 1 .. N, NEW c \in DOMAIN ids \cap Within(rows, r),
                      NEW d \in DOMAIN ids \cap Within(rows, r),
                      ids[c].kind \in FunctionKinds, ids[d].kind \in FunctionKinds
               PROVE  ~ c < d
    BY <1>1, <1>2, <1>3 DEF FunctionsApart, Apart
  <2>1. rows[c].node = "fn" /\ rows[d].node = "fn" /\ c \in 1 .. N /\ d \in 1 .. N
    BY <1>2, <1>3, <1>4, <1>5
  <2>2. c < d => c \in Around(rows, d)
    BY <1>1, EarlierIsAround DEF N
  <2> QED
    BY <1>2, <1>7, <2>1, <2>2
<1>9. FileId(file, "rs").kind = "File" /\ FileId(file, "rs").file = file
  BY DEF FileId, Id
<1>10. ASSUME NEW r \in 1 .. N
       PROVE  EdgesFit(RsEdges(file, rows, r), "rust", file, X, rows, r, FunctionKinds)
  <2> DEFINE edges == RsEdges(file, rows, r)
             Fits(e) == EdgeFits(e, "rust", file, X, rows, r, FunctionKinds)
  <2>0. Sits(FileId(file, "rs"), X, rows, r) /\ \A c \in DOMAIN ids \cap Within(rows, r) : Sits(ids[c], X, rows, r)
    BY <1>1, <1>6, <1>9, SymbolSits
  <2>1. rows[r] \in Row /\ rows[r].bases \in Seq(Name) /\ rows[r].traits \in Seq(Name)
        /\ r \in 0 .. Len(rows)
    BY <1>1 DEF Row, N
  <2>2. ASSUME RsWalked(rows, r), r \notin RsFields(rows)
        PROVE  LET i == RsParent(file, rows, r) IN Sits(i, X, rows, r) /\ i.file = file
    <3> DEFINE c == Innermost(rows, r, {"trait", "mod"})
    <3>1. CASE c = 0
      BY <1>9, <2>0, <2>2, <3>1 DEF RsParent
    <3>2. CASE c # 0
      <4>1. c \in AroundOfKind(rows, r, {"trait", "mod"})
        BY <1>1, <2>1, <3>2, InnermostFacts
      <4>2. c \in 1 .. N /\ c \in Around(rows, r) /\ rows[c].node \in {"trait", "mod"}
        BY <1>1, <2>1, <4>1, Inside DEF N
      <4>3. RsWalked(rows, c)
        BY <1>1, <2>1, <2>2, <4>2, Inside DEF RsWalked
      <4>4. c \in RsItems(rows)
        BY <1>1, <4>2, <4>3 DEF RsItems, RsKindOf
      <4>5. c \in DOMAIN ids \cap Within(rows, r) /\ ids[c] = RsId(file, rows, c)
        BY <1>2, <4>2, <4>4 DEF RsSymbols, Within
      <4>6. RsParent(file, rows, r) = ids[c]
        BY <2>2, <3>2, <4>5 DEF RsParent
      <4> QED
        BY <1>5, <2>0, <4>5, <4>6
    <3> QED
      BY <3>1, <3>2
  <2>3. CASE rows[r].node \in {"fn", "struct"} /\ r \in RsItems(rows)
    <3> DEFINE x == [Edge(RsParent(file, rows, r), "Contains", rows[r].name, r - 1)
                       EXCEPT !.id = RsId(file, rows, r)]
    <3>1. edges = <<x>>
      BY <2>3 DEF RsEdges, RsItems, RsFields, RsInside
    <3>2. IsSeq(edges) /\ ToSet(edges) = {x}
      BY <3>1, OneEdge
    <3>3. x.source = RsParent(file, rows, r) /\ x.kind = "Contains" /\ x.line = r - 1
      BY DEF Edge
    <3>4. RsWalked(rows, r) /\ r \notin RsFields(rows)
      BY <2>3 DEF RsItems, RsFields, RsInside
    <3> HIDE DEF x
    <3>5. Fits(x)
      BY <2>2, <3>3, <3>4 DEF EdgeFits, Starts, IsLoose
    <3> QED
      BY <3>2, <3>5, Zenon DEF EdgesFit
  <2>4. CASE rows[r].node = "impl" /\ RsWalked(rows, r)
    <3> DEFINE i == RsImplementor(file, rows[r].name)
    <3>1. edges = EdgesTo(i, "Implements", rows[r].traits, r)
      BY <2>4 DEF RsEdges, RsItems, RsFields, RsInside
    <3>2. IsSeq(edges) /\ \A e \in ToSet(edges) : e.source = i /\ e.kind = "Implements" /\ e.line = r - 1
      BY <2>1, <3>1, EdgesToFacts
    <3>3. i.file = file /\ i.kind = "Struct" /\ i.line = 0
      BY DEF RsImplementor, Id
    <3> HIDE DEF i
    <3>4. \A e \in ToSet(edges) : Fits(e)
      BY <3>2, <3>3 DEF EdgeFits, Starts, IsLoose
    <3> QED
      BY <3>2, <3>4, Zenon DEF EdgesFit
  <2>5. CASE rows[r].node = "use" /\ RsWalked(rows, r)
    <3> DEFINE x == Edge(RsParent(file, rows, r), "Imports", rows[r].name, r - 1)
    <3>1. edges = <<x>>
      BY <2>5 DEF RsEdges, RsItems, RsFields, RsInside
    <3>2. IsSeq(edges) /\ ToSet(edges) = {x}
      BY <3>1, OneEdge
    <3>3. x.source = RsParent(file, rows, r) /\ x.kind = "Imports" /\ x.line = r - 1
      BY DEF Edge
    <3>4. r \notin RsFields(rows)
      BY <2>5 DEF RsFields, RsInside
    <3> HIDE DEF x
    <3>5. Fits(x)
      BY <2>2, <2>5, <3>3, <3>4 DEF EdgeFits, Starts, IsLoose
    <3> QED
      BY <3>2, <3>5, Zenon DEF EdgesFit
  <2>6. CASE r \in RsFields(rows)
    <3>1. edges = EdgesTo(RsId(file, rows, r), "References", rows[r].bases, r)
      BY <2>6 DEF RsEdges, RsFields, RsInside
    <3>2. r \in DOMAIN ids /\ ids[r] = RsId(file, rows, r)
      BY <1>2, <2>6 DEF RsSymbols
    <3>3. IsSeq(edges) /\ \A e \in ToSet(edges) : e.source = ids[r] /\ e.kind = "References" /\ e.line = r - 1
      BY <2>1, <3>1, <3>2, EdgesToFacts
    <3>4. \A e \in ToSet(edges) : Fits(e)
      BY <1>5, <2>0, <3>2, <3>3 DEF EdgeFits, Starts, IsLoose, Within
    <3> QED
      BY <3>3, <3>4, Zenon DEF EdgesFit
  <2>7. CASE rows[r].node = "call" /\ RsCaller(rows, r) # 0
    <3> DEFINE c == RsCaller(rows, r)
               F == AroundOfKind(rows, r, {"fn"}) \cap RsSymbols(rows)
               x == Edge(RsId(file, rows, c), "Calls", rows[r].name, r - 1)
    <3>1. edges = <<x>>
      BY <2>7 DEF RsEdges, RsItems, RsFields, RsInside
    <3>2. IsSeq(edges) /\ ToSet(edges) = {x}
      BY <3>1, OneEdge
    <3>3. x.source = RsId(file, rows, c) /\ x.kind = "Calls" /\ x.line = r - 1
      BY DEF Edge
    <3>4. F # {} /\ c = Min(F)
      BY <2>7 DEF RsCaller
    <3>5. F \in SUBSET (1 .. N) /\ N \in Int /\ 1 \in Int
      BY <1>1, <1>3
    <3>6. c \in F
      BY <3>4, <3>5, MaxMin
    <3>7. c \in 1 .. N /\ c \in Around(rows, r) /\ rows[c].node = "fn" /\ c \in RsSymbols(rows)
      BY <1>1, <2>1, <3>6, Inside DEF N
    <3>8. c \in DOMAIN ids \cap Within(rows, r) /\ ids[c] = RsId(file, rows, c) /\ ids[c].kind \in FunctionKinds
      BY <1>2, <1>4, <1>5, <3>7 DEF Within
    <3>9. \A d \in DOMAIN ids \cap Within(rows, r) : ids[d].kind \in FunctionKinds => d <= c
      BY <1>1, <1>8, <3>7, <3>8 DEF FunctionsApart, Apart
    <3>10. Deepest(ids[c], X, rows, r, FunctionKinds)
      BY <1>1, <1>6, <1>9, <3>8, <3>9, CallerIsDeepest
    <3> HIDE DEF x, c
    <3>11. Fits(x)
      BY <1>5, <3>3, <3>8, <3>10 DEF EdgeFits, Starts, IsLoose
    <3> QED
      BY <3>2, <3>11, Zenon DEF EdgesFit
  <2>8. CASE edges = <<>>
    BY <2>8, NoEdges DEF EdgesFit
  <2> QED
    BY <2>3, <2>4, <2>5, <2>6, <2>7, <2>8 DEF RsEdges
<1> QED
  BY <1>1, <1>6, <1>8, <1>10 DEF ids

-----------------------------------------------------------------------------
(* JavaScript *)

JsIds(file, rows) == [k \in JsSymbols(rows) |-> JsId(file, rows, k)]
JsCallerKinds == FunctionKinds \cup {"Constant", "Property"}

\* The JavaScript extractor's do; variables and properties call too.
LEMMA JavaScriptFits ==
  ASSUME NEW file, NEW rows, IsFile(rows), \A k \in DOMAIN rows : rows[k].node \in JsNodes
  PROVE  LET ids == JsIds(file, rows)
             X == FileSymbols(FileId(file, "js"), ids)
         IN /\ IdsFit(file, rows, ids) /\ FunctionsApart(rows, ids)
            /\ \A r \in DOMAIN rows :
                  EdgesFit(JsEdges(file, rows, r), "javascript", file, X, rows, r, JsCallerKinds)
<1> DEFINE ids == JsIds(file, rows)
           X == FileSymbols(FileId(file, "js"), ids)
           N == Len(rows)
           Calling == {"function", "method", "field", "arrow", "variable", "new"}
<1>1. IsForest(rows) /\ N \in Nat /\ DOMAIN rows = 1 .. N /\ \A k \in DOMAIN rows : rows[k] \in Row
  BY DEF IsFile, IsForest
<1>2. DOMAIN ids = JsSymbols(rows) /\ \A k \in DOMAIN ids : ids[k] = JsId(file, rows, k)
  BY DEF JsIds
<1> HIDE DEF ids, N
<1>3. \A k \in JsSymbols(rows) : k \in 1 .. N
  BY <1>1 DEF JsSymbols, JsItems, JsMembers
<1>3a. ASSUME NEW k \in JsItems(rows), k \in JsMembers(rows) PROVE FALSE
  <2>1. k \in 1 .. N /\ rows[k].up # 0 /\ rows[rows[k].up].node = "class" /\ JsWalked(rows, k)
    BY <1>1, <1>3a DEF JsItems, JsMembers
  <2>2. rows[k].up \in Around(rows, k)
    BY <1>1, <2>1, AroundStep DEF N
  <2> QED
    BY <2>1, <2>2 DEF JsWalked, AroundOfKind
<1>4. ASSUME NEW k \in JsSymbols(rows)
      PROVE  /\ JsKind(rows, k) \notin {"File", "Route"}
             /\ JsKind(rows, k) \in JsCallerKinds <=> rows[k].node \in Calling
  <2>1. CASE k \in JsItems(rows)
    <3>1. rows[k].node \in DOMAIN JsKindOf /\ JsKind(rows, k) = JsKindOf[rows[k].node]
      BY <1>3a, <2>1 DEF JsItems, JsKind
    <3> QED
      BY <3>1 DEF JsKindOf, JsCallerKinds, FunctionKinds
  <2>2. CASE k \in JsMembers(rows) /\ k \notin JsItems(rows)
    BY <2>2 DEF JsMembers, JsKind, JsCallerKinds, FunctionKinds
  <2> QED
    BY <2>1, <2>2 DEF JsSymbols
<1>5. \A k \in DOMAIN ids :
         ids[k].file = file /\ ids[k].line = k - 1 /\ ids[k].kind = JsKind(rows, k)
  BY <1>2 DEF JsId, Id
<1>6. IdsFit(file, rows, ids)
  BY <1>1, <1>2, <1>3, <1>4, <1>5 DEF IdsFit
<1>7. ASSUME NEW c \in JsSymbols(rows), rows[c].node \in Calling, NEW w \in 0 .. N,
             c \in Around(rows, w)
      PROVE  ~JsWalked(rows, w)
  <2>1. CASE c \in JsItems(rows)
    <3>1. rows[c].node \in {"function", "arrow", "variable", "new"} /\ c # 0
      BY <1>3, <1>7, <2>1 DEF JsItems, JsKindOf
    <3> QED
      BY <1>7, <3>1 DEF JsWalked, AroundOfKind
  <2>2. CASE c \in JsMembers(rows)
    <3> DEFINE u == rows[c].up
    <3>1. u # 0 /\ rows[u].node = "class"
      BY <2>2 DEF JsMembers
    <3>2. u \in Around(rows, c)
      BY <1>1, <1>3, AroundStep DEF N
    <3>3. Around(rows, c) \subseteq Around(rows, w)
      BY <1>1, <1>7, AroundChain DEF Chain, N
    <3> QED
      BY <3>1, <3>2, <3>3 DEF JsWalked, AroundOfKind
  <2> QED
    BY <2>1, <2>2 DEF JsSymbols
<1>8. Apart(rows, ids, JsCallerKinds)
  <2> SUFFICES ASSUME NEW c \in DOMAIN ids, NEW d \in DOMAIN ids,
                      ids[c].kind \in JsCallerKinds, ids[d].kind \in JsCallerKinds,
                      c \in Around(rows, d)
               PROVE  FALSE
    BY <1>1, <1>2, <1>3, ApartBy
  <2>1. c \in JsSymbols(rows) /\ rows[c].node \in Calling /\ d \in JsSymbols(rows)
        /\ rows[d].node \in Calling /\ d \in 1 .. N
    BY <1>2, <1>3, <1>4, <1>5
  <2>2. CASE d \in JsItems(rows)
    BY <1>7, <2>1, <2>2 DEF JsItems
  <2>3. CASE d \in JsMembers(rows)
    <3> DEFINE u == rows[d].up
    <3>1. u \in 1 .. N /\ rows[u].node = "class" /\ JsWalked(rows, u)
      BY <1>1, <2>1, <2>3 DEF JsMembers, IsForest, N
    <3>2. c = u \/ c \in Around(rows, u)
      BY <1>1, <2>1, AroundStep DEF N
    <3> QED
      BY <1>7, <2>1, <3>1, <3>2
  <2> QED
    BY <2>1, <2>2, <2>3 DEF JsSymbols
<1>9. FileId(file, "js").kind = "File" /\ FileId(file, "js").file = file
  BY DEF FileId, Id
<1>10. ASSUME NEW r \in 1 .. N
       PROVE  EdgesFit(JsEdges(file, rows, r), "javascript", file, X, rows, r, JsCallerKinds)
  <2> DEFINE edges == JsEdges(file, rows, r)
             Fit(s) == EdgesFit(s, "javascript", file, X, rows, r, JsCallerKinds)
             Start(i, kind) == Starts(i, kind, "javascript", file, X, rows, r, JsCallerKinds)
  <2>0. Sits(FileId(file, "js"), X, rows, r) /\ \A c \in DOMAIN ids \cap Within(rows, r) : Sits(ids[c], X, rows, r)
    BY <1>1, <1>6, <1>9, SymbolSits
  <2>1. rows[r] \in Row /\ rows[r].node # "extension" /\ r \in 0 .. Len(rows)
    BY <1>1 DEF JsNodes, JsKindOf, N
  <2>2. r \in JsSymbols(rows) => ids[r] = JsId(file, rows, r) /\ Sits(ids[r], X, rows, r) /\ ids[r].file = file
    BY <1>2, <1>5, <2>0 DEF Within
  <2>3. \A i : i.file = file /\ Sits(i, X, rows, r) =>
           Start(i, "Imports") /\ Start(i, "References")
    BY SitsStarts DEF IsLoose
  <2>4. CASE rows[r].node = "class" /\ JsWalked(rows, r)
    <3>1. r \in JsSymbols(rows)
      BY <1>1, <2>4 DEF JsSymbols, JsItems, JsKindOf
    <3>2. Fit(Inherits(ids[r], rows[r], r))
      BY <2>1, <2>2, <3>1, InheritsFit
    <3>3. edges = Inherits(ids[r], rows[r], r)
      BY <2>2, <2>4, <3>1 DEF JsEdges, JsFound
    <3> QED
      BY <3>2, <3>3
  <2>5. CASE rows[r].node = "import" /\ JsWalked(rows, r)
    <3> DEFINE x == [Edge(FileId(file, "js"), "Imports", Head(rows[r].bases), r - 1)
                       EXCEPT !.path = rows[r].module]
    <3>1. x.source = FileId(file, "js") /\ x.kind = "Imports" /\ x.line = r - 1
      BY DEF Edge
    <3>2. edges = <<x>>
      BY <2>5 DEF JsEdges, JsFound
    <3> HIDE DEF x
    <3>3. Start(x.source, x.kind)
      BY <1>9, <2>0, <2>3, <3>1
    <3>4. Fit(<<x>>)
      BY <3>1, <3>3, OneFits
    <3> QED
      BY <3>2, <3>4
  <2>6. CASE rows[r].node = "new" /\ JsWalked(rows, r)
    <3> DEFINE x == Edge(JsId(file, rows, r), "References", Head(rows[r].bases), r - 1)
    <3>0. r \in JsSymbols(rows)
      BY <1>1, <2>6 DEF JsSymbols, JsItems, JsKindOf
    <3>1. x.source = ids[r] /\ x.kind = "References" /\ x.line = r - 1
      BY <2>2, <3>0 DEF Edge
    <3>2. edges = <<x>>
      BY <2>6 DEF JsEdges, JsFound
    <3> HIDE DEF x
    <3>3. Start(x.source, x.kind)
      BY <2>2, <2>3, <3>0, <3>1
    <3>4. Fit(<<x>>)
      BY <3>1, <3>3, OneFits
    <3> QED
      BY <3>2, <3>4
  <2>7. CASE JsFound(rows, r)
    <3> DEFINE c == JsCaller(rows, r)
               F == AroundOfKind(rows, r, {"function", "method", "arrow", "variable", "new"})
                      \cap JsSymbols(rows)
               x == Edge(JsId(file, rows, c), "Calls", JsCallTarget(rows, r), r - 1)
    <3>0. edges = <<x>>
      BY <2>7 DEF JsEdges, JsFound
    <3>1. F # {} /\ c = Min(F)
      BY <2>7 DEF JsCaller, JsFound
    <3>2. F \in SUBSET (1 .. N) /\ N \in Int /\ 1 \in Int
      BY <1>1, <1>3
    <3>3. c \in F
      BY <3>1, <3>2, MaxMin
    <3>4. c \in JsSymbols(rows) /\ c \in Around(rows, r) /\ rows[c].node \in Calling
      BY <3>3 DEF AroundOfKind
    <3>5. c \in DOMAIN ids \cap Within(rows, r) /\ ids[c] = JsId(file, rows, c) /\ ids[c].kind \in JsCallerKinds
      BY <1>2, <1>4, <1>5, <3>4 DEF Within
    <3>6. Start(ids[c], "Calls")
      BY <1>1, <1>6, <1>8, <1>9, <3>5, LoneCaller
    <3>7. x.source = ids[c] /\ x.kind = "Calls" /\ x.line = r - 1
      BY <3>5 DEF Edge
    <3> HIDE DEF x, c
    <3>8. Fit(<<x>>)
      BY <3>6, <3>7, OneFits
    <3> QED
      BY <3>0, <3>8
  <2>8. CASE edges = <<>>
    BY <2>8, NoneFits
  <2> QED
    BY <2>4, <2>5, <2>6, <2>7, <2>8 DEF JsEdges
<1>11. FunctionsApart(rows, ids)
  BY <1>8, FewerApart DEF JsCallerKinds
<1> QED
  BY <1>1, <1>6, <1>10, <1>11 DEF ids

-----------------------------------------------------------------------------
(* Go *)

GoIds(file, rows) == [k \in GoSymbols(rows) |-> GoId(file, rows, k)]

\* The Go extractor's do, where functions that have a name are in no other node.
LEMMA GoFits ==
  ASSUME NEW file, NEW rows, IsFile(rows), \A k \in DOMAIN rows : rows[k].node \in GoNodes,
         \A k \in DOMAIN rows : rows[k].node \in {"function", "method"} => rows[k].up = 0
  PROVE  LET ids == GoIds(file, rows)
             X == FileSymbols(FileId(file, "go"), ids)
         IN /\ IdsFit(file, rows, ids) /\ FunctionsApart(rows, ids)
            /\ \A r \in DOMAIN rows :
                  EdgesFit(GoEdges(file, rows, r), "go", file, X, rows, r, FunctionKinds)
<1> DEFINE ids == GoIds(file, rows)
           X == FileSymbols(FileId(file, "go"), ids)
           N == Len(rows)
           Calling == {"function", "method", "spec"}
<1>1. IsForest(rows) /\ N \in Nat /\ DOMAIN rows = 1 .. N /\ \A k \in DOMAIN rows : rows[k] \in Row
  BY DEF IsFile, IsForest
<1>2. DOMAIN ids = GoSymbols(rows) /\ \A k \in DOMAIN ids : ids[k] = GoId(file, rows, k)
  BY DEF GoIds
<1> HIDE DEF ids, N
<1>3. \A k \in GoSymbols(rows) : k \in 1 .. N
  BY <1>1 DEF GoSymbols, GoItems, GoMembers
<1>4. ASSUME NEW k \in GoSymbols(rows)
      PROVE  /\ GoKind(rows, k) \notin {"File", "Route"}
             /\ GoKind(rows, k) \in FunctionKinds <=> rows[k].node \in Calling
  <2>1. rows[k].node \in DOMAIN GoKindOf \cup {"field", "spec"}
    BY DEF GoSymbols, GoItems, GoMembers
  <2> QED
    BY <2>1 DEF GoKind, GoKindOf, FunctionKinds
<1>5. \A k \in DOMAIN ids :
         ids[k].file = file /\ ids[k].line = k - 1 /\ ids[k].kind = GoKind(rows, k)
  BY <1>2 DEF GoId, Id
<1>6. IdsFit(file, rows, ids)
  BY <1>1, <1>2, <1>3, <1>4, <1>5 DEF IdsFit
<1>7. FunctionsApart(rows, ids)
  <2> SUFFICES ASSUME NEW c \in DOMAIN ids, NEW d \in DOMAIN ids,
                      ids[c].kind \in FunctionKinds, ids[d].kind \in FunctionKinds,
                      c \in Around(rows, d)
               PROVE  FALSE
    BY <1>1, <1>2, <1>3, ApartBy DEF FunctionsApart
  <2>1. /\ c \in 1 .. N /\ rows[c].node \in Calling
        /\ d \in GoSymbols(rows) /\ d \in 1 .. N /\ rows[d].node \in Calling
    BY <1>2, <1>3, <1>4, <1>5
  <2>2. Around(rows, 0) = {} /\ \A k \in 1 .. N : Around(rows, k) = {rows[k].up} \cup Around(rows, rows[k].up)
    BY <1>1, AroundStep DEF N
  <2>3. CASE rows[d].node # "spec"
    BY <1>1, <2>1, <2>2, <2>3
  <2>4. CASE rows[d].node = "spec"
    <3> DEFINE u == rows[d].up
    <3>1. u \in 1 .. N /\ rows[u].node = "interface" /\ rows[u].up = 0
      BY <1>1, <2>1, <2>4 DEF GoSymbols, GoItems, GoMembers, GoKindOf
    <3> QED
      BY <2>1, <2>2, <3>1
  <2> QED
    BY <2>3, <2>4
<1>8. FileId(file, "go").kind = "File" /\ FileId(file, "go").file = file
  BY DEF FileId, Id
<1>9. ASSUME NEW r \in 1 .. N
      PROVE  EdgesFit(GoEdges(file, rows, r), "go", file, X, rows, r, FunctionKinds)
  <2> DEFINE edges == GoEdges(file, rows, r)
             Fit(s) == EdgesFit(s, "go", file, X, rows, r, FunctionKinds)
             Start(i, kind) == Starts(i, kind, "go", file, X, rows, r, FunctionKinds)
  <2>0. Sits(FileId(file, "go"), X, rows, r) /\ \A c \in DOMAIN ids \cap Within(rows, r) : Sits(ids[c], X, rows, r)
    BY <1>1, <1>6, <1>8, SymbolSits
  <2>1. rows[r] \in Row /\ rows[r].bases \in Seq(Name) /\ r \in 0 .. Len(rows)
    BY <1>1 DEF Row, N
  <2>2. \A i : i.file = file /\ Sits(i, X, rows, r) =>
           Start(i, "Imports") /\ (rows[r].node # "extension" => Start(i, "References"))
    BY SitsStarts DEF IsLoose
  <2>3. CASE rows[r].node = "import"
    <3>1. edges = EdgesTo(FileId(file, "go"), "Imports", <<rows[r].name>>, r)
      BY <2>3 DEF GoEdges
    <3>2. <<rows[r].name>> \in Seq({rows[r].name})
      OBVIOUS
    <3>3. Start(FileId(file, "go"), "Imports")
      BY <1>8, <2>0, <2>2
    <3>4. Fit(EdgesTo(FileId(file, "go"), "Imports", <<rows[r].name>>, r))
      BY <3>2, <3>3, ToFits
    <3> QED
      BY <3>1, <3>4
  <2>4. CASE rows[r].node = "field" /\ r \in GoMembers(rows)
    <3>1. edges = EdgesTo(GoId(file, rows, r), "References", rows[r].bases, r)
      BY <2>4 DEF GoEdges
    <3>2. r \in DOMAIN ids \cap Within(rows, r) /\ ids[r] = GoId(file, rows, r)
      BY <1>2, <2>4 DEF GoSymbols, Within
    <3>3. Start(ids[r], "References")
      BY <1>5, <2>0, <2>2, <2>4, <3>2
    <3>4. Fit(EdgesTo(ids[r], "References", rows[r].bases, r))
      BY <2>1, <3>3, ToFits
    <3> QED
      BY <3>1, <3>2, <3>4
  <2>5. CASE rows[r].node = "call" /\ GoCaller(rows, r) # 0
    <3> DEFINE c == GoCaller(rows, r)
    <3>1. edges = EdgesTo(GoId(file, rows, c), "Calls", <<GoCallTarget(rows, r)>>, r)
      BY <2>5 DEF GoEdges
    <3>2. <<GoCallTarget(rows, r)>> \in Seq({GoCallTarget(rows, r)})
      OBVIOUS
    <3>3. c \in AroundOfKind(rows, r, {"function", "method"})
      BY <1>1, <2>1, <2>5, OutermostFacts DEF GoCaller
    <3>4. c \in 1 .. N /\ c \in Around(rows, r) /\ rows[c].node \in {"function", "method"}
      BY <1>1, <2>1, <3>3, Inside DEF N
    <3>5. c \in GoSymbols(rows)
      BY <1>1, <3>4 DEF GoSymbols, GoItems, GoKindOf
    <3>6. c \in DOMAIN ids \cap Within(rows, r) /\ ids[c] = GoId(file, rows, c) /\ ids[c].kind \in FunctionKinds
      BY <1>2, <1>4, <1>5, <3>4, <3>5 DEF Within
    <3> HIDE DEF c
    <3>7. Start(ids[c], "Calls")
      BY <1>1, <1>6, <1>7, <1>8, <3>6, LoneCaller DEF FunctionsApart
    <3>8. Fit(EdgesTo(ids[c], "Calls", <<GoCallTarget(rows, r)>>, r))
      BY <3>2, <3>7, ToFits
    <3> QED
      BY <3>1, <3>6, <3>8
  <2>6. CASE edges = <<>>
    BY <2>6, NoneFits
  <2> QED
    BY <2>3, <2>4, <2>5, <2>6 DEF GoEdges
<1> QED
  BY <1>1, <1>6, <1>7, <1>9 DEF ids

-----------------------------------------------------------------------------
(* Java *)

JavaIds(file, rows) == [k \in JavaSymbols(rows) |-> JavaId(file, rows, k)]

\* The Java extractor's do.
LEMMA JavaFits ==
  ASSUME NEW file, NEW rows, IsFile(rows), \A k \in DOMAIN rows : rows[k].node \in JavaNodes
  PROVE  LET ids == JavaIds(file, rows)
             X == FileSymbols(FileId(file, "java"), ids)
         IN /\ IdsFit(file, rows, ids) /\ FunctionsApart(rows, ids)
            /\ \A r \in DOMAIN rows :
                  EdgesFit(JavaEdges(file, rows, r), "java", file, X, rows, r, FunctionKinds)
<1> DEFINE ids == JavaIds(file, rows)
           X == FileSymbols(FileId(file, "java"), ids)
           N == Len(rows)
           Calling == {"method", "constructor"}
<1>1. IsForest(rows) /\ N \in Nat /\ DOMAIN rows = 1 .. N /\ \A k \in DOMAIN rows : rows[k] \in Row
  BY DEF IsFile, IsForest
<1>2. DOMAIN ids = JavaSymbols(rows) /\ \A k \in DOMAIN ids : ids[k] = JavaId(file, rows, k)
  BY DEF JavaIds
<1> HIDE DEF ids, N
<1>3. \A k \in JavaSymbols(rows) : k \in 1 .. N
  BY <1>1 DEF JavaSymbols
<1>4. ASSUME NEW k \in JavaSymbols(rows)
      PROVE  /\ JavaKindOf[rows[k].node] \notin {"File", "Route"}
             /\ JavaKindOf[rows[k].node] \in FunctionKinds <=> rows[k].node \in Calling
  BY DEF JavaSymbols, JavaKindOf, FunctionKinds
<1>5. \A k \in DOMAIN ids :
         ids[k].file = file /\ ids[k].line = k - 1 /\ ids[k].kind = JavaKindOf[rows[k].node]
  BY <1>2 DEF JavaId, Id
<1>6. IdsFit(file, rows, ids)
  BY <1>1, <1>2, <1>3, <1>4, <1>5 DEF IdsFit
<1>7. FunctionsApart(rows, ids)
  <2> SUFFICES ASSUME NEW c \in DOMAIN ids, NEW d \in DOMAIN ids,
                      ids[c].kind \in FunctionKinds, ids[d].kind \in FunctionKinds,
                      c \in Around(rows, d)
               PROVE  FALSE
    BY <1>1, <1>2, <1>3, ApartBy DEF FunctionsApart
  <2>1. c # 0 /\ rows[c].node \in Calling /\ JavaWalked(rows, d)
    BY <1>2, <1>3, <1>4, <1>5 DEF JavaSymbols
  <2> QED
    BY <2>1 DEF JavaWalked, AroundOfKind
<1>8. FileId(file, "java").kind = "File" /\ FileId(file, "java").file = file
  BY DEF FileId, Id
<1>9. ASSUME NEW r \in 1 .. N
      PROVE  EdgesFit(JavaEdges(file, rows, r), "java", file, X, rows, r, FunctionKinds)
  <2> DEFINE edges == JavaEdges(file, rows, r)
             Fit(s) == EdgesFit(s, "java", file, X, rows, r, FunctionKinds)
             Start(i, kind) == Starts(i, kind, "java", file, X, rows, r, FunctionKinds)
  <2>0. Sits(FileId(file, "java"), X, rows, r) /\ \A c \in DOMAIN ids \cap Within(rows, r) : Sits(ids[c], X, rows, r)
    BY <1>1, <1>6, <1>8, SymbolSits
  <2>1. rows[r] \in Row /\ rows[r].node # "extension" /\ r \in 0 .. Len(rows)
    BY <1>1 DEF JavaNodes, JavaKindOf, N
  <2>2. \A i : i.file = file /\ Sits(i, X, rows, r) =>
           Start(i, "Imports") /\ Start(i, "References")
    BY <2>1, SitsStarts DEF IsLoose
  <2>3. CASE rows[r].node \in JavaTypes /\ JavaWalked(rows, r)
    <3>1. edges = Inherits(JavaId(file, rows, r), rows[r], r)
      BY <2>3 DEF JavaEdges, JavaTypes
    <3>2. r \in DOMAIN ids \cap Within(rows, r) /\ ids[r] = JavaId(file, rows, r)
      BY <1>1, <1>2, <2>3 DEF JavaSymbols, JavaTypes, JavaKindOf, Within
    <3>3. Fit(Inherits(ids[r], rows[r], r))
      BY <1>5, <2>0, <2>1, <3>2, InheritsFit
    <3> QED
      BY <3>1, <3>2, <3>3
  <2>4. CASE rows[r].node = "import" /\ JavaWalked(rows, r)
    <3> DEFINE i == JavaParent(file, rows, r)
               t == JavaType(rows, r)
    <3>1. edges = EdgesTo(i, "Imports", <<rows[r].name>>, r)
      BY <2>4 DEF JavaEdges, JavaTypes
    <3>2. <<rows[r].name>> \in Seq({rows[r].name})
      OBVIOUS
    <3>3. CASE t = 0
      <4>1. i = FileId(file, "java")
        BY <3>3 DEF JavaParent
      <4>2. Start(i, "Imports")
        BY <1>8, <2>0, <2>2, <4>1
      <4> QED
        BY <3>1, <3>2, <4>2, ToFits
    <3>4. CASE t # 0
      <4>1. t \in AroundOfKind(rows, r, JavaTypes)
        BY <1>1, <2>1, <3>4, InnermostFacts DEF JavaType
      <4>2. t \in 1 .. N /\ t \in Around(rows, r) /\ rows[t].node \in JavaTypes
        BY <1>1, <2>1, <4>1, Inside DEF N
      <4>3. JavaWalked(rows, t)
        BY <1>1, <2>1, <2>4, <4>2, Inside DEF JavaWalked
      <4>4. t \in JavaSymbols(rows)
        BY <1>1, <4>2, <4>3 DEF JavaSymbols, JavaTypes, JavaKindOf
      <4>5. t \in DOMAIN ids \cap Within(rows, r) /\ ids[t] = JavaId(file, rows, t)
        BY <1>2, <4>2, <4>4 DEF Within
      <4>6. i = ids[t]
        BY <3>4, <4>5 DEF JavaParent
      <4> HIDE DEF t, i
      <4>7. Start(i, "Imports")
        BY <1>5, <2>0, <2>2, <4>5, <4>6
      <4> QED
        BY <3>1, <3>2, <4>7, ToFits
    <3> QED
      BY <3>3, <3>4
  <2>5. ASSUME JavaCaller(rows, r) # 0
        PROVE  /\ Start(JavaId(file, rows, JavaCaller(rows, r)), "Calls")
               /\ Start(JavaId(file, rows, JavaCaller(rows, r)), "References")
    <3> DEFINE c == JavaCaller(rows, r)
    <3>1. c = Outermost(rows, r, Calling) /\ c \in JavaSymbols(rows)
      BY <2>5 DEF JavaCaller
    <3>2. c \in AroundOfKind(rows, r, Calling)
      BY <1>1, <2>1, <2>5, <3>1, OutermostFacts
    <3>3. c \in 1 .. N /\ c \in Around(rows, r) /\ rows[c].node \in Calling
      BY <1>1, <2>1, <3>2, Inside DEF N
    <3>4. c \in DOMAIN ids \cap Within(rows, r) /\ ids[c] = JavaId(file, rows, c) /\ ids[c].kind \in FunctionKinds
      BY <1>2, <1>4, <1>5, <3>1, <3>3 DEF Within
    <3> HIDE DEF c
    <3>5. Start(ids[c], "Calls")
      BY <1>1, <1>6, <1>7, <1>8, <3>4, LoneCaller DEF FunctionsApart
    <3>6. Start(ids[c], "References")
      BY <1>5, <2>0, <2>2, <3>4
    <3> QED
      BY <3>4, <3>5, <3>6 DEF c
  <2>6. CASE rows[r].node = "call" /\ JavaCaller(rows, r) # 0
    <3> DEFINE i == JavaId(file, rows, JavaCaller(rows, r))
               t == JavaCallTarget(rows, r)
    <3>1. edges = EdgesTo(i, "Calls", <<t>>, r)
      BY <2>6 DEF JavaEdges, JavaTypes
    <3>2. Start(i, "Calls")
      BY <2>5, <2>6
    <3> HIDE DEF i, t
    <3>3. <<t>> \in Seq({t})
      OBVIOUS
    <3> QED
      BY <3>1, <3>2, <3>3, ToFits
  <2>7. CASE rows[r].node = "new" /\ JavaCaller(rows, r) # 0
    <3> DEFINE i == JavaId(file, rows, JavaCaller(rows, r))
               t == rows[r].name
    <3>1. edges = EdgesTo(i, "References", <<t>>, r)
      BY <2>7 DEF JavaEdges, JavaTypes
    <3>2. Start(i, "References")
      BY <2>5, <2>7
    <3> HIDE DEF i, t
    <3>3. <<t>> \in Seq({t})
      OBVIOUS
    <3> QED
      BY <3>1, <3>2, <3>3, ToFits
  <2>8. CASE edges = <<>>
    BY <2>8, NoneFits
  <2> QED
    BY <2>3, <2>4, <2>6, <2>7, <2>8 DEF JavaEdges
<1> QED
  BY <1>1, <1>6, <1>7, <1>9 DEF ids

-----------------------------------------------------------------------------
(* C# *)

CsIds(file, rows) == [k \in CsSymbols(rows) |-> CsId(file, rows, k)]

\* What is doubled holds the same edges.
LEMMA Doubled ==
  ASSUME NEW file, NEW rows, IsForest(rows), NEW r \in 1 .. Len(rows), IsSeq(CsOnce(file, rows, r))
  PROVE  /\ CsEdges(file, rows, r) \in Seq(ToSet(CsOnce(file, rows, r)))
         /\ ToSet(CsEdges(file, rows, r)) = ToSet(CsOnce(file, rows, r))
<1> DEFINE N == Len(rows)
           s == CsOnce(file, rows, r)
           U == {u \in Seq(ToSet(s)) : ToSet(u) = ToSet(s)}
           F == [p \in (1 .. N) \X U |->
                   IF rows[p[1]].node = "namespace" THEN p[2] \o p[2] ELSE p[2]]
           up == [k \in 1 .. N |-> rows[k].up]
           Step(f, k) == CASE k = 0 -> s
                           [] k # 0 /\ rows[k].node = "namespace" -> f[rows[k].up] \o f[rows[k].up]
                           [] OTHER -> f[rows[k].up]
           Fits(f) == f = [k \in 0 .. N |-> Step(f, k)]
           edges[k \in 0 .. N] == CASE k = 0 -> s
                           [] k # 0 /\ rows[k].node = "namespace" -> edges[rows[k].up] \o edges[rows[k].up]
                           [] OTHER -> edges[rows[k].up]
<1>1. N \in Nat /\ \A k \in 1 .. N : up[k] = rows[k].up /\ up[k] \in 0 .. k - 1
  BY DEF IsForest
<1>2. s \in U
  BY DEF IsSeq
<1>3. ASSUME NEW k \in 1 .. N, NEW u \in U
      PROVE  F[<<k, u>>] = (IF rows[k].node = "namespace" THEN u \o u ELSE u) /\ F[<<k, u>>] \in U
  <2>1. <<k, u>> \in (1 .. N) \X U
    BY <1>3
  <2>2. u \in Seq(ToSet(s)) /\ ToSet(u) = ToSet(s)
    BY <1>3
  <2> HIDE DEF s
  <2>3. IsSeq(u)
    BY <2>2, Zenon DEF IsSeq
  <2>4. u \o u \in Seq(ToSet(u \o u)) /\ ToSet(u \o u) = ToSet(u)
    <3>1. IsSeq(u \o u) /\ ToSet(u \o u) = ToSet(u) \cup ToSet(u)
      BY <2>3, Joined, Zenon
    <3>2. ToSet(u) \cup ToSet(u) = ToSet(u)
      OBVIOUS
    <3> QED
      BY <3>1, <3>2, Zenon DEF IsSeq
  <2>5. u \o u \in U
    BY <2>2, <2>4, Zenon
  <2> HIDE DEF U
  <2> QED
    BY <1>3, <2>1, <2>5
<1> HIDE DEF F, U, up, N, s
<1>4. PICK g : Descent(g, up, s, F, U, N)
  <2>1. N \in Nat /\ Descends(up, F, U, N)
    BY <1>1, <1>3 DEF Descends
  <2> QED
    BY <1>2, <2>1, DescentExists, Zenon
<1>5. g \in [0 .. N -> U] /\ g[0] = s /\ \A k \in 1 .. N : g[k] = F[<<k, g[up[k]]>>]
  BY <1>4 DEF Descent
<1>6. \A k \in 0 .. N : g[k] = Step(g, k)
  <2> TAKE k \in 0 .. N
  <2>1. CASE k = 0
    BY <1>5, <2>1
  <2>2. CASE k # 0
    <3>1. k \in 1 .. N /\ rows[k].up = up[k] /\ rows[k].up \in 0 .. N
      BY <1>1, <2>2
    <3>2. g[rows[k].up] \in U /\ g[k] = F[<<k, g[rows[k].up]>>]
      BY <1>5, <3>1
    <3>3. g[k] = IF rows[k].node = "namespace" THEN g[rows[k].up] \o g[rows[k].up] ELSE g[rows[k].up]
      BY <1>3, <3>1, <3>2, Zenon
    <3> QED
      BY <2>2, <3>3
  <2> QED
    BY <2>1, <2>2
<1>7. \E f : Fits(f)
  <2>1. g = [k \in 0 .. N |-> g[k]]
    BY <1>5
  <2>2. Fits(g)
    BY <1>6, <2>1
  <2> QED
    BY <2>2
<1>8. Fits(edges)
  BY <1>7, Zenon
<1>9. CsEdges(file, rows, r) = edges[rows[r].up]
  BY Zenon DEF CsEdges, N, s
<1> DEFINE K == [k \in 0 .. N |-> Step(edges, k)]
<1>10. edges = K
  BY <1>8, Zenon
<1> HIDE DEF edges, Step
<1>11. \A k \in 0 .. N : K[k] = Step(edges, k)
  BY Zenon
<1> HIDE DEF K
<1>12. \A k \in 0 .. N : edges[k] = Step(edges, k)
  BY <1>10, <1>11, Zenon
<1>13. edges[0] = s
  BY <1>1, <1>12 DEF Step
<1>14. ASSUME NEW k \in 1 .. N, edges[up[k]] \in U PROVE edges[k] = F[<<k, edges[up[k]]>>]
  BY <1>1, <1>3, <1>12, <1>14 DEF Step
<1>15. \A k \in 0 .. N : edges[k] \in U
  <2>1. Descends(up, F, U, N) /\ N \in Nat /\ edges[0] \in U
    BY <1>1, <1>2, <1>3, <1>13 DEF Descends
  <2>2. \A k \in 1 .. N : edges[up[k]] \in U => edges[k] = F[<<k, edges[up[k]]>>]
    BY <1>14
  <2> QED
    BY <2>1, <2>2, DescentStays, ZenonT(60)
<1> QED
  BY <1>1, <1>9, <1>15 DEF N, U, s

\* The C# extractor's do.
LEMMA CSharpFits ==
  ASSUME NEW file, NEW rows, IsFile(rows), \A k \in DOMAIN rows : rows[k].node \in CsNodes
  PROVE  LET ids == CsIds(file, rows)
             X == FileSymbols(FileId(file, "cs"), ids)
         IN /\ IdsFit(file, rows, ids) /\ FunctionsApart(rows, ids)
            /\ \A r \in DOMAIN rows :
                  EdgesFit(CsEdges(file, rows, r), "csharp", file, X, rows, r, FunctionKinds)
<1> DEFINE ids == CsIds(file, rows)
           X == FileSymbols(FileId(file, "cs"), ids)
           N == Len(rows)
           Calling == {"method", "constructor"}
<1>1. IsForest(rows) /\ N \in Nat /\ DOMAIN rows = 1 .. N /\ \A k \in DOMAIN rows : rows[k] \in Row
  BY DEF IsFile, IsForest
<1>2. DOMAIN ids = CsSymbols(rows) /\ \A k \in DOMAIN ids : ids[k] = CsId(file, rows, k)
  BY DEF CsIds
<1> HIDE DEF ids, N
<1>3. \A k \in CsSymbols(rows) : k \in 1 .. N
  BY <1>1 DEF CsSymbols
<1>4. ASSUME NEW k \in CsSymbols(rows)
      PROVE  /\ CsKindOf[rows[k].node] \notin {"File", "Route"}
             /\ CsKindOf[rows[k].node] \in FunctionKinds <=> rows[k].node \in Calling
  BY DEF CsSymbols, CsKindOf, FunctionKinds
<1>5. \A k \in DOMAIN ids :
         ids[k].file = file /\ ids[k].line = k - 1 /\ ids[k].kind = CsKindOf[rows[k].node]
  BY <1>2 DEF CsId, Id
<1>6. IdsFit(file, rows, ids)
  BY <1>1, <1>2, <1>3, <1>4, <1>5 DEF IdsFit
<1>7. FunctionsApart(rows, ids)
  <2> SUFFICES ASSUME NEW c \in DOMAIN ids, NEW d \in DOMAIN ids,
                      ids[c].kind \in FunctionKinds, ids[d].kind \in FunctionKinds,
                      c \in Around(rows, d)
               PROVE  FALSE
    BY <1>1, <1>2, <1>3, ApartBy DEF FunctionsApart
  <2>1. c # 0 /\ rows[c].node \in Calling /\ CsWalked(rows, d)
    BY <1>2, <1>3, <1>4, <1>5 DEF CsSymbols
  <2> QED
    BY <2>1 DEF CsWalked, AroundOfKind
<1>8. FileId(file, "cs").kind = "File" /\ FileId(file, "cs").file = file
  BY DEF FileId, Id
<1>9. ASSUME NEW r \in 1 .. N
      PROVE  EdgesFit(CsOnce(file, rows, r), "csharp", file, X, rows, r, FunctionKinds)
  <2> DEFINE edges == CsOnce(file, rows, r)
             Fit(s) == EdgesFit(s, "csharp", file, X, rows, r, FunctionKinds)
             Start(i, kind) == Starts(i, kind, "csharp", file, X, rows, r, FunctionKinds)
  <2>0. Sits(FileId(file, "cs"), X, rows, r) /\ \A c \in DOMAIN ids \cap Within(rows, r) : Sits(ids[c], X, rows, r)
    BY <1>1, <1>6, <1>8, SymbolSits
  <2>1. rows[r] \in Row /\ rows[r].node # "extension" /\ r \in 0 .. Len(rows)
    BY <1>1 DEF CsNodes, CsKindOf, N
  <2>2. \A i : i.file = file /\ Sits(i, X, rows, r) =>
           Start(i, "Imports") /\ Start(i, "References")
    BY <2>1, SitsStarts DEF IsLoose
  <2>3. CASE rows[r].node = "class" /\ CsWalked(rows, r)
    <3>1. edges = Inherits(CsId(file, rows, r), rows[r], r)
      BY <2>3 DEF CsOnce
    <3>2. r \in DOMAIN ids \cap Within(rows, r) /\ ids[r] = CsId(file, rows, r)
      BY <1>1, <1>2, <2>3 DEF CsSymbols, CsTypes, CsNamespaces, CsKindOf, Within
    <3>3. Fit(Inherits(ids[r], rows[r], r))
      BY <1>5, <2>0, <2>1, <3>2, InheritsFit
    <3> QED
      BY <3>1, <3>2, <3>3
  <2>4. CASE rows[r].node = "using" /\ CsWalked(rows, r)
    <3> DEFINE i == CsParent(file, rows, r)
               t == CsScope(rows, r)
               x == [Edge(i, "Imports", rows[r].name, r - 1) EXCEPT !.id = CsId(file, rows, r)]
    <3>1. edges = <<x>>
      BY <2>4 DEF CsOnce
    <3>2. x.source = i /\ x.kind = "Imports" /\ x.line = r - 1
      BY DEF Edge
    <3> HIDE DEF x
    <3>3. CASE t = 0
      <4>1. i = FileId(file, "cs")
        BY <3>3 DEF CsParent
      <4>2. Start(i, "Imports")
        BY <1>8, <2>0, <2>2, <4>1
      <4> QED
        BY <3>1, <3>2, <4>2, OneFits
    <3>4. CASE t # 0
      <4>1. t \in AroundOfKind(rows, r, CsTypes \cup CsNamespaces)
        BY <1>1, <2>1, <3>4, InnermostFacts DEF CsScope
      <4>2. t \in 1 .. N /\ t \in Around(rows, r) /\ rows[t].node \in CsTypes \cup CsNamespaces
        BY <1>1, <2>1, <4>1, Inside DEF N
      <4>3. CsWalked(rows, t)
        BY <1>1, <2>1, <2>4, <4>2, Inside DEF CsWalked
      <4>4. t \in CsSymbols(rows)
        BY <1>1, <4>2, <4>3 DEF CsSymbols, CsTypes, CsNamespaces, CsKindOf
      <4>5. t \in DOMAIN ids \cap Within(rows, r) /\ ids[t] = CsId(file, rows, t)
        BY <1>2, <4>2, <4>4 DEF Within
      <4>6. i = ids[t]
        BY <3>4, <4>5 DEF CsParent
      <4> HIDE DEF t, i
      <4>7. Start(i, "Imports")
        BY <1>5, <2>0, <2>2, <4>5, <4>6
      <4> QED
        BY <3>1, <3>2, <4>7, OneFits
    <3> QED
      BY <3>3, <3>4
  <2>5. ASSUME CsCaller(rows, r) # 0
        PROVE  /\ Start(CsId(file, rows, CsCaller(rows, r)), "Calls")
               /\ Start(CsId(file, rows, CsCaller(rows, r)), "References")
    <3> DEFINE c == CsCaller(rows, r)
    <3>1. c = Outermost(rows, r, Calling) /\ c \in CsSymbols(rows)
      BY <2>5 DEF CsCaller
    <3>2. c \in AroundOfKind(rows, r, Calling)
      BY <1>1, <2>1, <2>5, <3>1, OutermostFacts
    <3>3. c \in 1 .. N /\ c \in Around(rows, r) /\ rows[c].node \in Calling
      BY <1>1, <2>1, <3>2, Inside DEF N
    <3>4. c \in DOMAIN ids \cap Within(rows, r) /\ ids[c] = CsId(file, rows, c) /\ ids[c].kind \in FunctionKinds
      BY <1>2, <1>4, <1>5, <3>1, <3>3 DEF Within
    <3> HIDE DEF c
    <3>5. Start(ids[c], "Calls")
      BY <1>1, <1>6, <1>7, <1>8, <3>4, LoneCaller DEF FunctionsApart
    <3>6. Start(ids[c], "References")
      BY <1>5, <2>0, <2>2, <3>4
    <3> QED
      BY <3>4, <3>5, <3>6 DEF c
  <2>6. CASE rows[r].node = "call" /\ CsCaller(rows, r) # 0
    <3> DEFINE i == CsId(file, rows, CsCaller(rows, r))
               t == CsCallTarget(rows, r)
    <3>1. edges = EdgesTo(i, "Calls", <<t>>, r)
      BY <2>6 DEF CsOnce
    <3>2. Start(i, "Calls")
      BY <2>5, <2>6
    <3> HIDE DEF i, t
    <3>3. <<t>> \in Seq({t})
      OBVIOUS
    <3> QED
      BY <3>1, <3>2, <3>3, ToFits
  <2>7. CASE rows[r].node = "new" /\ CsCaller(rows, r) # 0
    <3> DEFINE i == CsId(file, rows, CsCaller(rows, r))
               t == rows[r].name
    <3>1. edges = EdgesTo(i, "References", <<t>>, r)
      BY <2>7 DEF CsOnce
    <3>2. Start(i, "References")
      BY <2>5, <2>7
    <3> HIDE DEF i, t
    <3>3. <<t>> \in Seq({t})
      OBVIOUS
    <3> QED
      BY <3>1, <3>2, <3>3, ToFits
  <2>8. CASE edges = <<>>
    BY <2>8, NoneFits
  <2> QED
    BY <2>3, <2>4, <2>6, <2>7, <2>8 DEF CsOnce
<1>10. ASSUME NEW r \in 1 .. N
       PROVE  EdgesFit(CsEdges(file, rows, r), "csharp", file, X, rows, r, FunctionKinds)
  <2> DEFINE s == CsOnce(file, rows, r)
  <2>1. IsSeq(s) /\ \A e \in ToSet(s) : EdgeFits(e, "csharp", file, X, rows, r, FunctionKinds)
    BY <1>9 DEF EdgesFit
  <2>2. CsEdges(file, rows, r) \in Seq(ToSet(s))
    BY <1>1, <2>1, Doubled DEF N
  <2> DEFINE t == CsEdges(file, rows, r)
  <2>3. IsSeq(t) /\ ToSet(t) \subseteq ToSet(s)
    BY <2>2, IsSeqOf, RangeFacts
  <2> HIDE DEF s, t
  <2>4. EdgesFit(t, "csharp", file, X, rows, r, FunctionKinds)
    BY <2>1, <2>3, Zenon DEF EdgesFit
  <2> QED
    BY <2>4 DEF t
<1> QED
  BY <1>1, <1>6, <1>7, <1>10 DEF ids

-----------------------------------------------------------------------------
(* PHP *)

PhpIds(file, rows) == [k \in PhpSymbols(rows) |-> PhpId(file, rows, k)]
PhpCallerKinds == FunctionKinds \cup {"File"}
PhpFunctions == {"arrow", "method", "function"}

\* Methods stand in classes.
PhpPlaced(rows) ==
    \A k \in DOMAIN rows : rows[k].node = "method" =>
        rows[k].up # 0 /\ rows[rows[k].up].node \in PhpClasses \cup {"anonymous"}

\* A search in an anonymous class goes before each of the others.
LEMMA FlattenPairs ==
  ASSUME NEW C, NEW u \in Seq(C), NEW own \in C
  PROVE  LET s == FlattenSeq([n \in DOMAIN u |-> <<own, u[n]>>])
         IN /\ s \in Seq(C) /\ \A x \in ToSet(s) : u # <<>> /\ (x = own \/ x \in ToSet(u))
            /\ u # <<>> => own \in ToSet(s)
<1> DEFINE ss == [n \in DOMAIN u |-> <<own, u[n]>>]
           N == Len(u)
<1>1. N \in Nat /\ DOMAIN u = 1 .. N /\ \A n \in 1 .. N : u[n] \in C
  OBVIOUS
<1>2. CASE N = 0
  <2>1. ss = <<>> /\ Len(ss) = 0
    BY <1>1, <1>2
  <2> HIDE DEF ss
  <2>2. FlattenSeq(ss) = <<>>
    BY <2>1, Zenon DEF FlattenSeq
  <2>3. FlattenSeq(ss) \in Seq(C) /\ ToSet(FlattenSeq(ss)) = {}
    BY <2>2, NoEdges
  <2>4. u = <<>>
    BY <1>1, <1>2
  <2> QED
    BY <2>3, <2>4 DEF ss
<1>3. CASE N # 0
  <2>1. N \in Nat \ {0} /\ u # <<>>
    BY <1>1, <1>3
  <2>2. \A n \in 1 .. N : ss[n] = <<own, u[n]>> /\ ss[n] \in Seq(C) /\ ToSet(ss[n]) = {own, u[n]}
    <3> TAKE n \in 1 .. N
    <3>1. ss[n] = <<own, u[n]>>
      BY <1>1
    <3>2. <<own, u[n]>> \in Seq(C)
      BY <1>1
    <3>3. ToSet(<<own, u[n]>>) = {own, u[n]}
      BY DEF ToSet
    <3> QED
      BY <3>1, <3>2, <3>3
  <2>3. ss \in [1 .. N -> Seq(C)]
    BY <1>1, <2>2
  <2>4. \A n \in 1 .. N : u[n] \in ToSet(u)
    BY <1>1 DEF ToSet
  <2> HIDE DEF ss
  <2>5. /\ FlattenSeq(ss) \in Seq(C)
        /\ \A x : x \in ToSet(FlattenSeq(ss)) <=> \E k \in 1 .. N : x \in ToSet(ss[k])
    BY <2>1, <2>3, FlattenFacts
  <2>6. \A x \in ToSet(FlattenSeq(ss)) : u # <<>> /\ (x = own \/ x \in ToSet(u))
    <3> TAKE x \in ToSet(FlattenSeq(ss))
    <3>1. PICK n \in 1 .. N : x \in ToSet(ss[n])
      BY <2>5
    <3>2. x \in {own, u[n]} /\ u[n] \in ToSet(u)
      BY <2>2, <2>4, <3>1
    <3> QED
      BY <2>1, <3>2
  <2>7. own \in ToSet(FlattenSeq(ss))
    <3>1. 1 \in 1 .. N
      BY <2>1
    <3> QED
      BY <2>2, <2>5, <3>1
  <2> QED
    BY <2>5, <2>6, <2>7, Zenon DEF ss
<1> QED
  BY <1>1, <1>2, <1>3

\* As often as there are searches, the same edges.
LEMMA FlattenSame ==
  ASSUME NEW C, NEW u \in Seq(C), NEW t, IsSeq(t)
  PROVE  LET s == FlattenSeq([n \in DOMAIN u |-> t])
         IN IsSeq(s) /\ \A x \in ToSet(s) : u # <<>> /\ x \in ToSet(t)
<1> DEFINE ss == [n \in DOMAIN u |-> t]
           N == Len(u)
<1>1. N \in Nat /\ DOMAIN u = 1 .. N
  OBVIOUS
<1>2. CASE N = 0
  <2>1. ss = <<>> /\ Len(ss) = 0
    BY <1>1, <1>2
  <2> HIDE DEF ss
  <2>2. FlattenSeq(ss) = <<>>
    BY <2>1, Zenon DEF FlattenSeq
  <2> QED
    BY <2>2, NoEdges DEF ss
<1>3. CASE N # 0
  <2>1. N \in Nat \ {0} /\ u # <<>>
    BY <1>1, <1>3
  <2>2. ss \in [1 .. N -> Seq(ToSet(t))] /\ \A n \in 1 .. N : ss[n] = t
    BY <1>1 DEF IsSeq
  <2> HIDE DEF ss
  <2>3. /\ FlattenSeq(ss) \in Seq(ToSet(t))
        /\ \A x : x \in ToSet(FlattenSeq(ss)) <=> \E k \in 1 .. N : x \in ToSet(ss[k])
    BY <2>1, <2>2, FlattenFacts
  <2>4. IsSeq(FlattenSeq(ss))
    BY <2>3, IsSeqOf
  <2> QED
    BY <2>1, <2>2, <2>3, <2>4 DEF ss
<1> QED
  BY <1>1, <1>2, <1>3

\* One step of the search of a PHP statement for calls: who calls on line k.
PhpStep(rows, k, u) ==
    LET own == [caller |-> k, class |-> rows[k].up]
    IN CASE rows[k].node = "arrow" ->
                [n \in DOMAIN u |-> [caller |-> k, class |-> u[n].class]]
         [] rows[k].node = "method" /\ rows[rows[k].up].node = "anonymous" ->
                FlattenSeq([n \in DOMAIN u |-> <<own, u[n]>>])
         [] rows[k].node = "method" /\ rows[k].up \in PhpItems(rows) -> <<own>>
         [] rows[k].node = "function" /\ k \in PhpItems(rows) -> <<[caller |-> k, class |-> 0]>>
         [] rows[k].node \in PhpClasses /\ k \in PhpItems(rows) -> <<>>
         [] OTHER -> u

\* What the searches of a line are, from those of the node around it.
\* What is searched where: s is what it is on line k, u around it.
PhpSearched(rows, k, s, u) ==
    LET anonymous == rows[k].node = "method" /\ rows[rows[k].up].node = "anonymous"
    IN \A x \in ToSet(s) :
         \/ rows[k].node = "arrow" /\ u # <<>> /\ x.caller = k
         \/ anonymous /\ u # <<>> /\ (x.caller = k \/ x \in ToSet(u))
         \/ rows[k].node = "method" /\ rows[k].up \in PhpItems(rows) /\ x.caller = k
         \/ rows[k].node = "function" /\ k \in PhpItems(rows) /\ x.caller = k
         \/ /\ x \in ToSet(u) /\ rows[k].node # "arrow" /\ ~ anonymous
            /\ ~(rows[k].node = "method" /\ rows[k].up \in PhpItems(rows))
            /\ ~(rows[k].node = "function" /\ k \in PhpItems(rows))

\* What a step gives: callers that are around line k.
LEMMA PhpStepFacts ==
  ASSUME NEW rows, IsForest(rows), NEW k \in 1 .. Len(rows),
         NEW U, U = Seq([caller : 0 .. Len(rows), class : 0 .. Len(rows)]), NEW u \in U
  PROVE  PhpStep(rows, k, u) \in U /\ PhpSearched(rows, k, PhpStep(rows, k, u), u)
<1> DEFINE N == Len(rows)
           C == [caller : 0 .. N, class : 0 .. N]
           own == [caller |-> k, class |-> rows[k].up]
           o == [caller |-> k, class |-> 0]
           t == [n \in DOMAIN u |-> [caller |-> k, class |-> u[n].class]]
           v == FlattenSeq([n \in DOMAIN u |-> <<own, u[n]>>])
           s == PhpStep(rows, k, u)
<1>1. N \in Nat /\ own \in C /\ o \in C /\ own.caller = k /\ o.caller = k
  BY DEF IsForest
<1>2. u \in Seq(C) /\ Len(u) \in Nat /\ DOMAIN u = 1 .. Len(u) /\ \A n \in DOMAIN u : u[n] \in C
  <2>1. u \in Seq(C)
    BY Zenon
  <2> HIDE DEF C
  <2> QED
    BY <2>1
<1>3. s = CASE rows[k].node = "arrow" -> t
            [] rows[k].node = "method" /\ rows[rows[k].up].node = "anonymous" -> v
            [] rows[k].node = "method" /\ rows[k].up \in PhpItems(rows) -> <<own>>
            [] rows[k].node = "function" /\ k \in PhpItems(rows) -> <<o>>
            [] rows[k].node \in PhpClasses /\ k \in PhpItems(rows) -> <<>>
            [] OTHER -> u
  BY Zenon DEF PhpStep
<1>4. t \in U /\ \A x \in ToSet(t) : u # <<>> /\ x.caller = k
  <2>1. \A n \in 1 .. Len(u) : [caller |-> k, class |-> u[n].class] \in C
    BY <1>1, <1>2
  <2>2. t \in Seq(C)
    BY <1>2, <2>1
  <2>3. \A x \in ToSet(t) : u # <<>> /\ x.caller = k
    BY <1>2 DEF ToSet
  <2> HIDE DEF t
  <2> QED
    BY <2>2, <2>3
<1> HIDE DEF own, o, t, s
<1>5. v \in U /\ \A x \in ToSet(v) : u # <<>> /\ (x = own \/ x \in ToSet(u))
  <2> HIDE DEF C
  <2>1. v \in Seq(C) /\ \A x \in ToSet(v) : u # <<>> /\ (x = own \/ x \in ToSet(u))
    <3>1. own \in C /\ u \in Seq(C)
      BY <1>1, <1>2
    <3>2. v \in Seq(C)
      BY <3>1, FlattenPairs
    <3>3. \A x \in ToSet(v) : u # <<>> /\ (x = own \/ x \in ToSet(u))
      BY <3>1, FlattenPairs
    <3> QED
      BY <3>2, <3>3
  <2> QED
    BY <2>1 DEF C
<1>6. <<own>> \in U /\ <<o>> \in U /\ <<>> \in U
  BY <1>1
<1>7. ToSet(<<own>>) = {own} /\ ToSet(<<o>>) = {o} /\ ToSet(<<>>) = {}
  BY OneEdge, NoEdges
<1> DEFINE w == <<own>>
           q == <<o>>
           e == <<>>
           F == k \in PhpItems(rows)
           G == rows[k].up \in PhpItems(rows)
<1>0. G => rows[rows[k].up].node # "anonymous"
  BY DEF PhpItems, PhpItemOf
<1>8. s = CASE rows[k].node = "arrow" -> t
            [] rows[k].node = "method" /\ rows[rows[k].up].node = "anonymous" -> v
            [] rows[k].node = "method" /\ G -> w
            [] rows[k].node = "function" /\ F -> q
            [] rows[k].node \in PhpClasses /\ F -> e
            [] OTHER -> u
  BY <1>3
<1>9. w \in U /\ q \in U /\ e \in U /\ ToSet(w) = {own} /\ ToSet(q) = {o} /\ ToSet(e) = {}
  BY <1>6, <1>7
<1> HIDE DEF v, w, q, e, F, G
<1>10. CASE rows[k].node = "arrow"
  <2>1. s = t
    BY <1>8, <1>10 DEF PhpClasses
  <2> QED
    BY <1>4, <1>10, <2>1 DEF PhpSearched, s
<1>11. CASE rows[k].node = "method" /\ rows[rows[k].up].node = "anonymous"
  <2>1. s = v
    BY <1>0, <1>8, <1>11 DEF PhpClasses
  <2> QED
    BY <1>1, <1>5, <1>11, <2>1 DEF PhpSearched, s
<1>12. CASE rows[k].node = "method" /\ G /\ rows[rows[k].up].node # "anonymous"
  <2>1. s = w
    BY <1>8, <1>12 DEF PhpClasses
  <2> QED
    BY <1>1, <1>9, <1>12, <2>1 DEF PhpSearched, s, G
<1>13. CASE rows[k].node = "function" /\ F
  <2>1. s = q
    BY <1>8, <1>13 DEF PhpClasses
  <2> QED
    BY <1>1, <1>9, <1>13, <2>1 DEF PhpSearched, s, F
<1>14. CASE rows[k].node \in PhpClasses /\ F
  <2>1. s = e
    BY <1>8, <1>14 DEF PhpClasses
  <2> QED
    BY <1>9, <1>14, <2>1 DEF PhpSearched, s, PhpClasses
<1>15. CASE /\ rows[k].node # "arrow"
            /\ ~(rows[k].node = "method" /\ rows[rows[k].up].node = "anonymous")
            /\ ~(rows[k].node = "method" /\ G)
            /\ ~(rows[k].node = "function" /\ F)
            /\ ~(rows[k].node \in PhpClasses /\ F)
  <2>1. s = u
    BY <1>8, <1>15 DEF PhpClasses
  <2> QED
    BY <1>15, <2>1 DEF PhpSearched, s, F, G
<1> QED
  BY <1>10, <1>11, <1>12, <1>13, <1>14, <1>15

\* A step that only passes on gives what it got.
LEMMA PhpStepSame ==
  ASSUME NEW rows, NEW k, NEW u, rows[k].node = "anonymous"
  PROVE  PhpStep(rows, k, u) = u
<1> DEFINE own == [caller |-> k, class |-> rows[k].up]
           o == <<[caller |-> k, class |-> 0]>>
           t == [n \in DOMAIN u |-> [caller |-> k, class |-> u[n].class]]
           v == FlattenSeq([n \in DOMAIN u |-> <<own, u[n]>>])
           w == <<own>>
           e == <<>>
           F == k \in PhpItems(rows)
           G == rows[k].up \in PhpItems(rows)
           H == rows[rows[k].up].node = "anonymous"
<1>1. PhpStep(rows, k, u) =
        CASE rows[k].node = "arrow" -> t
          [] rows[k].node = "method" /\ H -> v
          [] rows[k].node = "method" /\ G -> w
          [] rows[k].node = "function" /\ F -> o
          [] rows[k].node \in PhpClasses /\ F -> e
          [] OTHER -> u
  BY Zenon DEF PhpStep
<1> HIDE DEF t, v, w, o, e, F, G, H
<1> QED
  BY <1>1 DEF PhpClasses

\* The search through all the lines gives only callers around them.
LEMMA PhpSearchesFacts ==
  ASSUME NEW rows, IsForest(rows)
  PROVE  LET U == Seq([caller : 0 .. Len(rows), class : 0 .. Len(rows)])
         IN /\ PhpSearches(rows, 0) = <<[caller |-> 0, class |-> 0]>>
            /\ \A k \in 0 .. Len(rows) : PhpSearches(rows, k) \in U
            /\ \A k \in 1 .. Len(rows) :
                  /\ PhpSearches(rows, k) = PhpStep(rows, k, PhpSearches(rows, rows[k].up))
                  /\ PhpSearched(rows, k, PhpSearches(rows, k), PhpSearches(rows, rows[k].up))
<1> DEFINE N == Len(rows)
           U == Seq([caller : 0 .. N, class : 0 .. N])
           A == <<[caller |-> 0, class |-> 0]>>
           Step(k, u) ==
             LET own == [caller |-> k, class |-> rows[k].up]
             IN CASE rows[k].node = "arrow" ->
                         [n \in DOMAIN u |-> [caller |-> k, class |-> u[n].class]]
                  [] rows[k].node = "method" /\ rows[rows[k].up].node = "anonymous" ->
                         FlattenSeq([n \in DOMAIN u |-> <<own, u[n]>>])
                  [] rows[k].node = "method" /\ rows[k].up \in PhpItems(rows) -> <<own>>
                  [] rows[k].node = "function" /\ k \in PhpItems(rows) ->
                         <<[caller |-> k, class |-> 0]>>
                  [] rows[k].node \in PhpClasses /\ k \in PhpItems(rows) -> <<>>
                  [] OTHER -> u
           F == [p \in (1 .. N) \X U |-> PhpStep(rows, p[1], p[2])]
           up == [k \in 1 .. N |-> rows[k].up]
           Fits(f) == f = [k \in 0 .. N |-> IF k = 0 THEN <<[caller |-> 0, class |-> 0]>>
                                            ELSE Step(k, f[rows[k].up])]
           searches[k \in 0 .. N] ==
             IF k = 0 THEN <<[caller |-> 0, class |-> 0]>>
             ELSE LET outer == searches[rows[k].up]
                      own == [caller |-> k, class |-> rows[k].up]
                  IN CASE rows[k].node = "arrow" ->
                              [n \in DOMAIN outer |-> [caller |-> k, class |-> outer[n].class]]
                       [] rows[k].node = "method" /\ rows[rows[k].up].node = "anonymous" ->
                              FlattenSeq([n \in DOMAIN outer |-> <<own, outer[n]>>])
                       [] rows[k].node = "method" /\ rows[k].up \in PhpItems(rows) -> <<own>>
                       [] rows[k].node = "function" /\ k \in PhpItems(rows) ->
                              <<[caller |-> k, class |-> 0]>>
                       [] rows[k].node \in PhpClasses /\ k \in PhpItems(rows) -> <<>>
                       [] OTHER -> outer
<1>1. N \in Nat /\ \A k \in 1 .. N : up[k] = rows[k].up /\ up[k] \in 0 .. k - 1
  BY DEF IsForest
<1>2. ASSUME NEW k \in 1 .. N, NEW u \in U PROVE  /\ F[<<k, u>>] = PhpStep(rows, k, u) /\ F[<<k, u>>] \in U
             /\ PhpSearched(rows, k, PhpStep(rows, k, u), u)
  <2> HIDE DEF U
  <2>1. F[<<k, u>>] = PhpStep(rows, k, u)
    OBVIOUS
  <2>2. PhpStep(rows, k, u) \in U /\ PhpSearched(rows, k, PhpStep(rows, k, u), u)
    BY PhpStepFacts DEF U
  <2> QED
    BY <2>1, <2>2
<1>3. A \in U
  BY <1>1
<1>4. \A k, u : Step(k, u) = PhpStep(rows, k, u)
  BY Zenon DEF PhpStep
<1> HIDE DEF F, U, up, N
<1>5. PICK g : Descent(g, up, A, F, U, N)
  <2>1. N \in Nat /\ Descends(up, F, U, N)
    BY <1>1, <1>2 DEF Descends
  <2> HIDE DEF A
  <2> QED
    BY <1>3, <2>1, DescentExists, Zenon
<1>6. g \in [0 .. N -> U] /\ g[0] = A /\ \A k \in 1 .. N : g[k] = F[<<k, g[up[k]]>>]
  BY <1>5, Zenon DEF Descent
<1>7. \A k \in 1 .. N : g[k] = PhpStep(rows, k, g[rows[k].up])
  <2> TAKE k \in 1 .. N
  <2> HIDE DEF A, Step, Fits, searches
  <2>1. up[k] = rows[k].up /\ rows[k].up \in 0 .. N
    BY <1>1
  <2>2. g[rows[k].up] \in U
    BY <1>6, <2>1
  <2> QED
    BY <1>2, <1>6, <2>1, <2>2
<1>8. Fits(g)
  <2>1. \A k \in 0 .. N : g[k] = IF k = 0 THEN A ELSE Step(k, g[rows[k].up])
    <3> HIDE DEF A, Step
    <3> TAKE k \in 0 .. N
    <3>1. k = 0 \/ k \in 1 .. N
      BY <1>1
    <3>2. CASE k = 0
      BY <1>6, <3>2
    <3>3. CASE k # 0
      <4>1. g[k] = PhpStep(rows, k, g[rows[k].up])
        BY <1>7, <3>1, <3>3
      <4> QED
        BY <1>4, <3>3, <4>1, Zenon
    <3> QED
      BY <3>2, <3>3
  <2> HIDE DEF Step, A
  <2>2. g = [k \in 0 .. N |-> g[k]]
    BY <1>6
  <2>3. g = [k \in 0 .. N |-> IF k = 0 THEN A ELSE Step(k, g[rows[k].up])]
    BY <2>1, <2>2
  <2> QED
    BY <2>3, Zenon DEF A
<1>9. \E f : Fits(f)
  BY <1>8, Zenon
<1>10. Fits(searches)
  BY <1>9, Zenon
<1>11. \A k : PhpSearches(rows, k) = searches[k]
  BY Zenon DEF PhpSearches, N
<1> DEFINE K == [k \in 0 .. N |-> IF k = 0 THEN A ELSE Step(k, searches[rows[k].up])]
<1>12. searches = K
  BY <1>10, Zenon
<1> HIDE DEF searches, Step, A
<1>13. \A k \in 0 .. N : K[k] = IF k = 0 THEN A ELSE Step(k, searches[rows[k].up])
  BY Zenon
<1> HIDE DEF K
<1>14. \A k \in 0 .. N : searches[k] = IF k = 0 THEN A ELSE Step(k, searches[rows[k].up])
  BY <1>12, <1>13, Zenon
<1>15. 0 \in 0 .. N /\ \A k \in 1 .. N : k \in 0 .. N /\ k # 0
  BY <1>1
<1>16. searches[0] = A
  BY <1>14, <1>15, Zenon
<1>17. \A k \in 1 .. N : searches[k] = PhpStep(rows, k, searches[rows[k].up])
  BY <1>4, <1>14, <1>15, Zenon
<1>18. \A k \in 0 .. N : searches[k] \in U
  <2>1. \A k \in 1 .. N : searches[up[k]] \in U => searches[k] = F[<<k, searches[up[k]]>>]
    BY <1>1, <1>2, <1>17
  <2>2. N \in Nat /\ Descends(up, F, U, N) /\ searches[0] \in U
    BY <1>1, <1>2, <1>3, <1>16 DEF Descends
  <2> QED
    BY <2>1, <2>2, DescentStays, ZenonT(60)
<1>19. \A k \in 1 .. N : PhpSearched(rows, k, searches[k], searches[rows[k].up])
  <2> TAKE k \in 1 .. N
  <2>1. rows[k].up \in 0 .. N
    BY <1>1
  <2>2. searches[rows[k].up] \in U
    BY <1>18, <2>1
  <2> QED
    BY <1>2, <1>17, <2>2
<1> QED
  BY <1>11, <1>16, <1>17, <1>18, <1>19, Zenon DEF N, U, A

\* The symbols that the calls of line k are ascribed to.
PhpCallers(rows, k) ==
    \A x \in ToSet(PhpSearches(rows, k)) :
        /\ x.caller # 0 => /\ x.caller \in PhpSymbols(rows) \cap Within(rows, k)
                           /\ rows[x.caller].node \in PhpFunctions
        /\ (\A d \in Within(rows, k) \ {0} : rows[d].node # "anonymous") =>
              \A d \in PhpSymbols(rows) \cap Within(rows, k) :
                 rows[d].node \in PhpFunctions => d <= x.caller

\* What is searched is ascribed to functions around, and to the innermost one
\* if there is no anonymous class.
LEMMA PhpCallersFacts ==
  ASSUME NEW rows, IsForest(rows), PhpPlaced(rows)
  PROVE  \A k \in 0 .. Len(rows) : PhpCallers(rows, k)
<1> DEFINE N == Len(rows)
           U == Seq([caller : 0 .. N, class : 0 .. N])
           S == {n \in Nat : \A k \in 0 .. n : PhpCallers(rows, k)}
           Searches(k) == PhpSearches(rows, k)
<1>1. N \in Nat /\ DOMAIN rows = 1 .. N /\ \A k \in 1 .. N : rows[k].up \in 0 .. k - 1
  BY DEF IsForest
<1>2. /\ Searches(0) = <<[caller |-> 0, class |-> 0]>>
      /\ \A k \in 0 .. N : Searches(k) \in U
      /\ \A k \in 1 .. N : /\ Searches(k) = PhpStep(rows, k, Searches(rows[k].up))
                            /\ PhpSearched(rows, k, Searches(k), Searches(rows[k].up))
  BY PhpSearchesFacts
<1>3. \A k \in PhpSymbols(rows) : k \in 1 .. N
  BY <1>1 DEF PhpSymbols, PhpItems, PhpInline, PhpMembers
<1>8. ASSUME NEW k \in 1 .. N, rows[k].node = "anonymous"
      PROVE  Searches(k) = Searches(rows[k].up)
  <2>1. rows[k].up \in 0 .. N
    BY <1>1
  <2> DEFINE v == Searches(rows[k].up)
  <2>2. v \in U /\ Searches(k) = PhpStep(rows, k, v)
    BY <1>2, <2>1
  <2>3. PhpStep(rows, k, v) = v
    BY <1>8, PhpStepSame
  <2> QED
    BY <2>2, <2>3
<1>4. 0 \in S
  <2>1. ToSet(Searches(0)) = {[caller |-> 0, class |-> 0]}
    BY <1>2, OneEdge
  <2>2. Around(rows, 0) = {}
    BY AroundStep
  <2>3. PhpCallers(rows, 0)
    BY <1>3, <2>1, <2>2 DEF PhpCallers, Within
  <2>4. \A k \in 0 .. 0 : k = 0
    OBVIOUS
  <2> QED
    BY <2>3, <2>4
<1>5. ASSUME NEW n \in 0 .. N - 1, n \in S PROVE n + 1 \in S
  <2> DEFINE k == n + 1
             u == rows[k].up
             W == Within(rows, k)
             V == Within(rows, u)
             Sy == PhpSymbols(rows)
             Fn(d) == rows[d].node \in PhpFunctions
  <2>1. k \in 1 .. N /\ u \in 0 .. n /\ n \in Nat
    BY <1>1
  <2>2. PhpCallers(rows, u)
    BY <1>5, <2>1
  <2>3. Around(rows, k) = {u} \cup Around(rows, u)
    BY <2>1, AroundStep
  <2>4. W = {k} \cup V
    BY <2>3 DEF Within
  <2>5. \A d \in V : d \in 0 .. n
    <3>1. Chain(rows, u)
      BY <1>1, <2>1, AroundChain
    <3> QED
      BY <2>1, <3>1 DEF Chain, Within
  <2>6. PhpSearched(rows, k, Searches(k), Searches(u))
    <3>1. u \in 0 .. N
      BY <1>1, <2>1
    <3> HIDE DEF U
    <3> QED
      BY <1>2, <2>1, <3>1, Zenon
  <2> DEFINE anonymous == rows[k].node = "method" /\ rows[u].node = "anonymous"
  <2>7. \A x \in ToSet(Searches(k)) :
           \/ rows[k].node = "arrow" /\ Searches(u) # <<>> /\ x.caller = k
           \/ anonymous /\ Searches(u) # <<>> /\ (x.caller = k \/ x \in ToSet(Searches(u)))
           \/ rows[k].node = "method" /\ u \in PhpItems(rows) /\ x.caller = k
           \/ rows[k].node = "function" /\ k \in PhpItems(rows) /\ x.caller = k
           \/ /\ x \in ToSet(Searches(u)) /\ rows[k].node # "arrow" /\ ~ anonymous
              /\ ~(rows[k].node = "method" /\ u \in PhpItems(rows))
              /\ ~(rows[k].node = "function" /\ k \in PhpItems(rows))
    BY <2>6, Zenon DEF PhpSearched
  <2>8. u # 0 /\ rows[u].node = "anonymous" => u \in 1 .. N /\ Searches(u) = Searches(rows[u].up)
    BY <1>8, <2>1
  <2>9. rows[k].node = "method" => u # 0 /\ rows[u].node \in PhpClasses \cup {"anonymous"}
    BY <1>1, <2>1 DEF PhpPlaced
  <2>10. /\ rows[k].node = "arrow" /\ Searches(u) # <<>> => k \in Sy
         /\ anonymous /\ Searches(u) # <<>> => k \in Sy
         /\ rows[k].node = "method" /\ u \in PhpItems(rows) => k \in Sy
         /\ rows[k].node = "function" /\ k \in PhpItems(rows) => k \in Sy
    <3>1. CASE rows[k].node = "arrow" /\ Searches(u) # <<>>
      BY <1>1, <2>1, <3>1 DEF PhpSymbols, PhpInline, PhpInlineOf
    <3>2. CASE anonymous /\ Searches(u) # <<>>
      <4>1. u \in PhpInline(rows)
        BY <1>1, <2>8, <2>9, <3>2 DEF PhpInline, PhpInlineOf
      <4>2. PhpIsMember(rows, k, DOMAIN PhpMemberOf)
        BY <2>9, <3>2, <4>1 DEF PhpIsMember, PhpMemberOf
      <4> QED
        BY <1>1, <2>1, <4>2 DEF PhpSymbols, PhpMembers
    <3>3. CASE rows[k].node = "method" /\ u \in PhpItems(rows)
      <4>1. rows[u].node \in PhpClasses
        BY <2>9, <3>3 DEF PhpItems, PhpItemOf
      <4>2. PhpIsMember(rows, k, DOMAIN PhpMemberOf)
        BY <2>9, <3>3, <4>1 DEF PhpIsMember, PhpMemberOf
      <4> QED
        BY <1>1, <2>1, <4>2 DEF PhpSymbols, PhpMembers
    <3> QED
      BY <3>1, <3>2, <3>3 DEF PhpSymbols
  <2>11. k \in Sy /\ Fn(k) /\ rows[k].node # "arrow" /\ ~ anonymous =>
            \/ rows[k].node = "method" /\ u \in PhpItems(rows)
            \/ rows[k].node = "function" /\ k \in PhpItems(rows)
    BY DEF PhpSymbols, PhpItems, PhpInline, PhpMembers, PhpIsMember, PhpItemOf, PhpInlineOf,
           PhpMemberOf, PhpFunctions, PhpClasses
  <2>12. /\ rows[k].node = "arrow" => Fn(k)
         /\ rows[k].node = "method" => Fn(k)
         /\ rows[k].node = "function" => Fn(k)
    BY DEF PhpFunctions
  <2>13. ASSUME NEW x \in ToSet(Searches(k))
         PROVE  /\ x.caller # 0 => x.caller \in Sy \cap W /\ Fn(x.caller)
                /\ (\A d \in W \ {0} : rows[d].node # "anonymous") =>
                      \A d \in Sy \cap W : Fn(d) => d <= x.caller
    <3>1. CASE x.caller = k
      <4>1. (k \in Sy /\ Fn(k)) \/ x \in ToSet(Searches(u))
        BY <2>7, <2>10, <2>12, <2>13
      <4>2. x \in ToSet(Searches(u)) => x.caller \in V \/ x.caller = 0
        BY <2>2 DEF PhpCallers
      <4>3. k \in Sy /\ Fn(k)
        BY <2>1, <2>5, <3>1, <4>1, <4>2
      <4>4. \A d \in W : d <= k
        BY <2>1, <2>4, <2>5
      <4> QED
        BY <2>4, <3>1, <4>3, <4>4
    <3>2. CASE x.caller # k
      <4>1. x \in ToSet(Searches(u))
        BY <2>7, <2>13, <3>2
      <4>2. /\ x.caller # 0 => x.caller \in Sy \cap V /\ Fn(x.caller)
            /\ (\A d \in V \ {0} : rows[d].node # "anonymous") =>
                  \A d \in Sy \cap V : Fn(d) => d <= x.caller
        BY <2>2, <4>1 DEF PhpCallers
      <4>3. (\A d \in W \ {0} : rows[d].node # "anonymous") => ~(k \in Sy /\ Fn(k))
        <5> HAVE \A d \in W \ {0} : rows[d].node # "anonymous"
        <5>1. u \in W
          BY <2>4 DEF Within
        <5>2. ~ anonymous
          BY <2>9, <5>1
        <5>3. /\ rows[k].node # "arrow"
              /\ ~(rows[k].node = "method" /\ u \in PhpItems(rows))
              /\ ~(rows[k].node = "function" /\ k \in PhpItems(rows))
          BY <2>7, <2>13, <3>2, <5>2
        <5> QED
          BY <2>11, <5>2, <5>3
      <4> HIDE DEF W, V, Sy, Fn, k, u
      <4> QED
        BY <2>4, <4>2, <4>3
    <3> QED
      BY <3>1, <3>2
  <2>14. PhpCallers(rows, k)
    BY <2>13 DEF PhpCallers
  <2>15. \A j \in 0 .. n + 1 : j \in 0 .. n \/ j = k
    OBVIOUS
  <2> HIDE DEF k
  <2> QED
    BY <1>5, <2>1, <2>14, <2>15 DEF k
<1> HIDE DEF S
<1>6. \A n \in 0 .. N : n \in S
  BY <1>1, <1>4, <1>5, InductUpTo
<1>7. N \in S
  BY <1>1, <1>6
<1> QED
  BY <1>7 DEF S

\* Which kinds of symbols calls are ascribed to.
LEMMA PhpKinds ==
  ASSUME NEW rows, NEW k \in PhpSymbols(rows)
  PROVE  /\ PhpKind(rows, k) \notin {"File", "Route"}
         /\ PhpKind(rows, k) \in PhpCallerKinds <=> rows[k].node \in PhpFunctions
<1>1. CASE k \in PhpInline(rows)
  <2>1. rows[k].node \in {"arrow", "anonymous"} /\ PhpKind(rows, k) = PhpInlineOf[rows[k].node]
    BY <1>1 DEF PhpInline, PhpInlineOf, PhpKind, PhpItems, PhpItemOf
  <2> QED
    BY <2>1 DEF PhpInlineOf, FunctionKinds, PhpCallerKinds, PhpFunctions
<1>2. CASE k \in PhpItems(rows)
  <2>1. rows[k].node \in DOMAIN PhpItemOf /\ PhpKind(rows, k) = PhpItemOf[rows[k].node]
    BY <1>2 DEF PhpInline, PhpInlineOf, PhpKind, PhpItems, PhpItemOf
  <2> QED
    BY <2>1 DEF PhpItemOf, FunctionKinds, PhpCallerKinds, PhpFunctions
<1>3. CASE k \in PhpMembers(rows) /\ k \notin PhpItems(rows) /\ k \notin PhpInline(rows)
  <2>1. rows[k].node \in DOMAIN PhpMemberOf
    BY <1>3 DEF PhpMembers, PhpIsMember
  <2>2. \/ rows[k].node = "method" /\ PhpKind(rows, k) \in {"Constructor", "Method"}
        \/ rows[k].node # "method" /\ PhpKind(rows, k) = PhpMemberOf[rows[k].node]
    BY <1>3, <2>1 DEF PhpKind, PhpMemberOf
  <2> QED
    BY <2>1, <2>2 DEF PhpMemberOf, FunctionKinds, PhpCallerKinds, PhpFunctions
<1> QED
  BY <1>1, <1>2, <1>3 DEF PhpSymbols

\* The PHP extractor's do, of anonymous classes from any function around.
LEMMA PhpFits ==
  ASSUME NEW file, NEW rows, IsFile(rows), \A k \in DOMAIN rows : rows[k].node \in PhpNodes,
         PhpPlaced(rows)
  PROVE  LET ids == PhpIds(file, rows)
             X == FileSymbols(FileId(file, "php"), ids)
         IN /\ IdsFit(file, rows, ids)
            /\ \A r \in DOMAIN rows :
                  EdgesFit(PhpEdges(file, rows, r), "php", file, X, rows, r, PhpCallerKinds)
<1> DEFINE ids == PhpIds(file, rows)
           X == FileSymbols(FileId(file, "php"), ids)
           N == Len(rows)
<1>1. IsForest(rows) /\ N \in Nat /\ DOMAIN rows = 1 .. N /\ \A k \in DOMAIN rows : rows[k] \in Row
  BY DEF IsFile, IsForest
<1>2. DOMAIN ids = PhpSymbols(rows) /\ \A k \in DOMAIN ids : ids[k] = PhpId(file, rows, k)
  BY DEF PhpIds
<1> HIDE DEF ids, N
<1>3. \A k \in PhpSymbols(rows) : k \in 1 .. N
  BY <1>1 DEF PhpSymbols, PhpItems, PhpInline, PhpMembers
<1>4. ASSUME NEW k \in PhpSymbols(rows)
      PROVE  /\ PhpKind(rows, k) \notin {"File", "Route"}
             /\ PhpKind(rows, k) \in PhpCallerKinds <=> rows[k].node \in PhpFunctions
  BY PhpKinds
<1>5. \A k \in DOMAIN ids :
         ids[k].file = file /\ ids[k].line = k - 1 /\ ids[k].kind = PhpKind(rows, k)
  BY <1>2, <1>3 DEF PhpId, Id
<1>6. IdsFit(file, rows, ids)
  BY <1>1, <1>2, <1>3, <1>4, <1>5 DEF IdsFit
<1>7. FileId(file, "php").kind = "File" /\ FileId(file, "php").file = file
  BY DEF FileId, Id
<1>8. PhpId(file, rows, 0) = FileId(file, "php")
  BY DEF PhpId
<1>9. ASSUME NEW r \in 1 .. N
      PROVE  EdgesFit(PhpEdges(file, rows, r), "php", file, X, rows, r, PhpCallerKinds)
  <2> DEFINE edges == PhpEdges(file, rows, r)
             Fit(s) == EdgesFit(s, "php", file, X, rows, r, PhpCallerKinds)
             Start(i, kind) == Starts(i, kind, "php", file, X, rows, r, PhpCallerKinds)
             up == rows[r].up
             searches == PhpSearches(rows, up)
             U == Seq([caller : 0 .. N, class : 0 .. N])
  <2>1. rows[r] \in Row /\ rows[r].bases \in Seq(Name) /\ rows[r].traits \in Seq(Name)
    BY <1>1 DEF Row
  <2>2. up \in 0 .. N /\ Around(rows, r) = {up} \cup Around(rows, up)
    BY <1>1, AroundStep DEF IsForest, N
  <2>3. /\ Sits(FileId(file, "php"), X, rows, r)
        /\ \A c \in DOMAIN ids \cap Within(rows, r) : Sits(ids[c], X, rows, r)
    BY <1>1, <1>6, <1>7, SymbolSits
  <2>4. rows[r].node \in PhpNodes /\ rows[r].node # "extension"
    BY <1>1 DEF PhpNodes, PhpItemOf, PhpMemberOf, PhpInlineOf
  <2>5. \A i, kind : i.file = file /\ Sits(i, X, rows, r) /\ kind # "Calls" => Start(i, kind)
    BY <2>4, SitsStarts DEF IsLoose
  <2>6. searches \in U
    BY <1>1, <2>2, PhpSearchesFacts DEF N
  <2>7. \A c \in DOMAIN ids \cap Within(rows, r) : ids[c].file = file /\ ids[c] = PhpId(file, rows, c)
    BY <1>2, <1>5
  <2>8. ASSUME r \in DOMAIN ids
        PROVE  Fit(Inherits(PhpId(file, rows, r), rows[r], r))
    <3>1. r \in DOMAIN ids \cap Within(rows, r)
      BY <2>8 DEF Within
    <3>2. PhpId(file, rows, r).file = file /\ Sits(PhpId(file, rows, r), X, rows, r)
      BY <2>3, <2>7, <3>1
    <3> QED
      BY <2>1, <2>4, <3>2, InheritsFit
  <2> DEFINE kind == IF rows[r].node = "call" THEN "Calls" ELSE "References"
             edge(x) == Edge(PhpId(file, rows, x.caller), kind, PhpCallTarget(file, rows, r, x.class), r - 1)
             inherited == Inherits(PhpId(file, rows, r), rows[r], r)
             repeated == FlattenSeq([n \in DOMAIN searches |-> inherited])
             mixed == EdgesTo(PhpId(file, rows, up), "Implements", rows[r].traits, r)
             used == EdgesTo(FileId(file, "php"), "Imports", <<rows[r].name>>, r)
             called == [n \in DOMAIN searches |-> edge(searches[n])]
             none == <<>>
             Item == r \in PhpItems(rows)
             Mixin == PhpIsMember(rows, r, {"mixin"})
  <2>9. edges = CASE rows[r].node \in PhpClasses \ {"enum"} /\ Item -> inherited
                  [] rows[r].node = "anonymous" -> repeated
                  [] Mixin -> mixed
                  [] rows[r].node = "use" /\ Item -> used
                  [] rows[r].node \in {"call", "callable"} -> called
                  [] OTHER -> none
    BY Zenon DEF PhpEdges
  <2>10. Mixin => rows[r].node = "mixin"
    BY DEF PhpIsMember
  <2>12. Item => r \in DOMAIN ids
    BY <1>2 DEF PhpSymbols
  <2> HIDE DEF inherited, repeated, mixed, used, called, none, Item, Mixin, edges
  <2>13. CASE rows[r].node \in PhpClasses \ {"enum"} /\ Item
    <3>1. edges = inherited
      BY <2>9, <2>10, <2>13 DEF PhpClasses
    <3> QED
      BY <2>8, <2>12, <2>13, <3>1 DEF inherited, edges
  <2>14. CASE rows[r].node = "anonymous"
    <3>1. edges = repeated
      BY <2>9, <2>10, <2>14 DEF PhpClasses
    <3>2. IsSeq(inherited)
      BY <2>1, InheritsFacts DEF inherited
    <3>3. searches # <<>> => r \in DOMAIN ids
      BY <1>1, <1>2, <2>14 DEF PhpSymbols, PhpInline, PhpInlineOf
    <3>4. searches # <<>> => Fit(inherited)
      BY <2>8, <3>3 DEF inherited
    <3> HIDE DEF searches, U
    <3>5. IsSeq(repeated) /\ \A x \in ToSet(repeated) : searches # <<>> /\ x \in ToSet(inherited)
      BY <2>6, <3>2, FlattenSame, Zenon DEF U, repeated
    <3>6. \A x \in ToSet(repeated) : EdgeFits(x, "php", file, X, rows, r, PhpCallerKinds)
      BY <3>4, <3>5, Zenon DEF EdgesFit
    <3>7. Fit(repeated)
      BY <3>5, <3>6, Zenon DEF EdgesFit
    <3> QED
      BY <3>1, <3>7 DEF edges
  <2>15. CASE Mixin
    <3>1. edges = mixed
      BY <2>9, <2>10, <2>15 DEF PhpClasses
    <3>2. up \in DOMAIN ids
      BY <1>2, <2>15 DEF PhpIsMember, PhpSymbols, Mixin
    <3>3. up \in DOMAIN ids \cap Within(rows, r)
      BY <2>2, <3>2 DEF Within
    <3>4. Start(PhpId(file, rows, up), "Implements")
      BY <2>3, <2>5, <2>7, <3>3
    <3> HIDE DEF up
    <3>5. Fit(EdgesTo(PhpId(file, rows, up), "Implements", rows[r].traits, r))
      BY <2>1, <3>4, ToFits
    <3> QED
      BY <3>1, <3>5 DEF mixed, edges
  <2>16. CASE rows[r].node = "use" /\ Item
    <3>1. edges = used
      BY <2>9, <2>10, <2>16 DEF PhpClasses
    <3>2. <<rows[r].name>> \in Seq({rows[r].name})
      OBVIOUS
    <3>3. Start(FileId(file, "php"), "Imports")
      BY <1>7, <2>3, <2>5
    <3>4. Fit(EdgesTo(FileId(file, "php"), "Imports", <<rows[r].name>>, r))
      BY <3>2, <3>3, ToFits
    <3> QED
      BY <3>1, <3>4 DEF used, edges
  <2>17. CASE rows[r].node \in {"call", "callable"}
    <3>1. edges = called
      BY <2>9, <2>10, <2>17 DEF PhpClasses
    <3>2. PhpCallers(rows, up)
      BY <1>1, <2>2, PhpCallersFacts DEF N
    <3>3. Within(rows, r) = {r} \cup Within(rows, up) /\ Within(rows, up) = Around(rows, r)
      BY <2>2 DEF Within
    <3>4. r \notin {c \in DOMAIN ids : rows[c].node \in PhpFunctions}
      BY <2>17 DEF PhpFunctions
    <3>5. ASSUME NEW x \in ToSet(searches)
          PROVE  Start(PhpId(file, rows, x.caller), kind)
      <4> DEFINE c == x.caller
                 i == PhpId(file, rows, c)
      <4>1. /\ c # 0 => c \in DOMAIN ids \cap Within(rows, up) /\ rows[c].node \in PhpFunctions
            /\ (\A d \in Within(rows, up) \ {0} : rows[d].node # "anonymous") =>
                  \A d \in DOMAIN ids \cap Within(rows, up) : rows[d].node \in PhpFunctions => d <= c
        BY <1>2, <3>2, <3>5 DEF PhpCallers
      <4>2. i.file = file /\ i.kind \in PhpCallerKinds /\ Sits(i, X, rows, r)
        <5>1. CASE c = 0
          BY <1>7, <1>8, <2>3, <5>1 DEF PhpCallerKinds
        <5>2. CASE c # 0
          <6>1. c \in DOMAIN ids \cap Within(rows, r)
            BY <3>3, <4>1, <5>2
          <6> HIDE DEF c
          <6> QED
            BY <1>2, <1>4, <1>5, <2>3, <4>1, <5>2, <6>1
        <5> QED
          BY <5>1, <5>2
      <4>3. CASE kind = "Calls" /\ AroundOfKind(rows, r, {"anonymous"}) # {}
        BY <2>4, <4>2, <4>3 DEF Starts, IsLoose
      <4>4. CASE kind = "Calls" /\ AroundOfKind(rows, r, {"anonymous"}) = {}
        <5>1. \A d \in Within(rows, up) \ {0} : rows[d].node # "anonymous"
          BY <3>3, <4>4 DEF AroundOfKind
        <5>2. \A d \in DOMAIN ids \cap Within(rows, r) : ids[d].kind \in PhpCallerKinds => d <= c
          BY <1>2, <1>4, <1>5, <3>3, <3>4, <4>1, <5>1
        <5>3. Deepest(i, X, rows, r, PhpCallerKinds)
          <6>1. CASE c # 0
            <7>1. c \in DOMAIN ids \cap Within(rows, r) /\ ids[c] = i /\ ids[c].kind \in PhpCallerKinds
              BY <1>2, <3>3, <4>1, <4>2, <6>1
            <7> HIDE DEF c, i
            <7>2. Deepest(ids[c], X, rows, r, PhpCallerKinds)
              BY <1>1, <1>6, <1>7, <5>2, <7>1, CallerIsDeepest
            <7> QED
              BY <7>1, <7>2
          <6>2. CASE c = 0
            <7>1. i = FileId(file, "php")
              BY <1>8, <6>2
            <7>2. ASSUME NEW j \in X, j # i, Sits(j, X, rows, r), j.kind \in PhpCallerKinds
                  PROVE  FALSE
              <8>1. PICK d \in DOMAIN ids : j = ids[d]
                BY <7>1, <7>2 DEF FileSymbols
              <8>2. d \in 1 .. N /\ ids[d].line = d - 1 /\ ids[d].kind # "File"
                BY <1>2, <1>3, <1>4, <1>5
              <8>3. d \in Within(rows, r)
                BY <7>2, <8>1, <8>2 DEF Sits
              <8>4. d <= c
                BY <5>2, <7>2, <8>1, <8>3
              <8> QED
                BY <6>2, <8>2, <8>4
            <7> HIDE DEF i, c
            <7> QED
              BY <4>2, <7>2 DEF Deepest
          <6> QED
            BY <6>1, <6>2
        <5> QED
          BY <2>4, <4>2, <5>3 DEF Starts, IsLoose
      <4>5. CASE kind = "References"
        BY <2>5, <4>2, <4>5
      <4> QED
        BY <4>3, <4>4, <4>5
    <3>6. Len(searches) \in Nat /\ DOMAIN searches = 1 .. Len(searches)
      <4> HIDE DEF searches
      <4> QED
        BY <2>6
    <3> DEFINE B == {edge(x) : x \in ToSet(searches)}
    <3>7. \A x \in B : EdgeFits(x, "php", file, X, rows, r, PhpCallerKinds)
      <4> TAKE y \in B
      <4>1. PICK x \in ToSet(searches) : y = edge(x)
        OBVIOUS
      <4>2. y.source = PhpId(file, rows, x.caller) /\ y.kind = kind /\ y.line = r - 1
        BY <4>1 DEF Edge
      <4> HIDE DEF edge, searches, B
      <4>3. Starts(y.source, y.kind, "php", file, X, rows, r, PhpCallerKinds)
        BY <3>5, <4>2
      <4> QED
        BY <4>2, <4>3 DEF EdgeFits
    <3>8. \A n \in 1 .. Len(searches) : edge(searches[n]) \in B
      <4> TAKE n \in 1 .. Len(searches)
      <4> HIDE DEF searches, edge
      <4>1. searches[n] \in ToSet(searches)
        BY <3>6 DEF ToSet
      <4> QED
        BY <4>1
    <3> HIDE DEF searches, edge, B
    <3>9. called \in Seq(B)
      BY <3>6, <3>8 DEF called
    <3>10. IsSeq(called) /\ ToSet(called) \subseteq B
      BY <3>9, RangeFacts, IsSeqOf
    <3>11. Fit(called)
      BY <3>7, <3>10 DEF EdgesFit
    <3> QED
      BY <3>1, <3>11 DEF edges
  <2>18. CASE edges = none
    BY <2>18, NoneFits DEF none, edges
  <2> QED
    BY <2>9, <2>13, <2>14, <2>15, <2>16, <2>17, <2>18 DEF edges
<1> QED
  BY <1>1, <1>6, <1>9 DEF ids

-----------------------------------------------------------------------------
(* Ruby and Rails *)

\* The "routes" node whose block a line is in stands in the file and around the line.
LEMMA RoutesOfFacts ==
  ASSUME NEW rows, IsForest(rows), NEW r \in 1 .. Len(rows), RoutesOf(rows, r) # 0
  PROVE  LET q == RoutesOf(rows, r)
         IN q \in 1 .. Len(rows) /\ q \in Around(rows, r) /\ rows[q].node = "routes" /\ rows[q].up = 0
<1> DEFINE N == Len(rows)
           U == 0 .. N
           Step(k, u) == CASE rows[k].up = 0 -> 0
                           [] rows[k].up # 0 /\ rows[rows[k].up].node = "routes" ->
                                 IF rows[rows[k].up].up = 0 THEN rows[k].up ELSE 0
                           [] rows[k].up # 0 /\ rows[rows[k].up].node \in {"resources", "resource", "scope"} ->
                                 u
                           [] OTHER -> 0
           F == [p \in (1 .. N) \X U |-> Step(p[1], p[2])]
           up == [k \in 1 .. N |-> rows[k].up]
           Fits(f) == f = [k \in 1 .. N |-> Step(k, f[rows[k].up])]
           of[k \in 1 .. N] == 
             CASE rows[k].up = 0 -> 0
               [] rows[k].up # 0 /\ rows[rows[k].up].node = "routes" ->
                     IF rows[rows[k].up].up = 0 THEN rows[k].up ELSE 0
               [] rows[k].up # 0 /\ rows[rows[k].up].node \in {"resources", "resource", "scope"} ->
                     of[rows[k].up]
               [] OTHER -> 0
<1>1. N \in Nat /\ \A k \in 1 .. N : up[k] = rows[k].up /\ up[k] \in 0 .. k - 1
  BY DEF IsForest
<1>2. ASSUME NEW k \in 1 .. N, NEW u \in U PROVE F[<<k, u>>] = Step(k, u) /\ F[<<k, u>>] \in U
  <2>1. <<k, u>> \in (1 .. N) \X U
    BY <1>2
  <2>2. F[<<k, u>>] = Step(k, u)
    BY <2>1
  <2>3. Step(k, u) \in U
    BY <1>1, <1>2
  <2> HIDE DEF U, F, Step
  <2> QED
    BY <2>2, <2>3
<1>3. 0 \in U
  BY <1>1
<1> HIDE DEF F, U, up, N
<1>4. PICK g : Descent(g, up, 0, F, U, N)
  <2>1. N \in Nat /\ Descends(up, F, U, N)
    BY <1>1, <1>2 DEF Descends
  <2> QED
    BY <1>3, <2>1, DescentExists, Zenon
<1>5. g \in [0 .. N -> U] /\ g[0] = 0 /\ \A k \in 1 .. N : g[k] = F[<<k, g[up[k]]>>]
  BY <1>4 DEF Descent
<1> DEFINE h == [k \in 1 .. N |-> g[k]]
<1>6. ASSUME NEW k \in 1 .. N PROVE h[k] = Step(k, h[rows[k].up])
  <2>1. rows[k].up = up[k] /\ rows[k].up \in 0 .. N /\ h[k] = g[k]
    BY <1>1
  <2>2. g[rows[k].up] \in U /\ g[k] = F[<<k, g[rows[k].up]>>]
    BY <1>5, <2>1
  <2>3. g[k] = Step(k, g[rows[k].up])
    BY <1>2, <2>2
  <2>4. rows[k].up # 0 => h[rows[k].up] = g[rows[k].up]
    BY <2>1
  <2> QED
    BY <2>1, <2>3, <2>4
<1>7. \E f : Fits(f)
  <2>1. Fits(h)
    BY <1>6, Zenon
  <2> QED
    BY <2>1
<1>8. Fits(of)
  BY <1>7, SMT
<1>9. \A k : RoutesOf(rows, k) = of[k]
  BY Zenon DEF RoutesOf, N
<1> DEFINE K == [k \in 1 .. N |-> Step(k, of[rows[k].up])]
<1>10. of = K
  BY <1>8, Zenon
<1> HIDE DEF of, Step, h
<1>11. \A k \in 1 .. N : K[k] = Step(k, of[rows[k].up])
  BY Zenon
<1> HIDE DEF K
<1>12. \A k \in 1 .. N : of[k] = Step(k, of[rows[k].up])
  BY <1>10, <1>11, Zenon
<1> DEFINE Good(k) == of[k] # 0 => /\ of[k] \in 1 .. N /\ of[k] \in Around(rows, k)
                                   /\ rows[of[k]].node = "routes" /\ rows[of[k]].up = 0
           S == {n \in Nat : \A k \in 1 .. n : Good(k)}
<1>13. 0 \in S
  OBVIOUS
<1>14. ASSUME NEW n \in 0 .. N - 1, n \in S PROVE n + 1 \in S
  <2> DEFINE k == n + 1
             u == rows[k].up
  <2>0. k \in 1 .. N
    BY <1>1
  <2>1. k \in 1 .. N /\ u \in 0 .. n /\ of[k] = Step(k, of[u])
    BY <1>1, <1>12, <2>0
  <2>2. Around(rows, k) = {u} \cup Around(rows, u)
    BY <2>1, AroundStep DEF N
  <2>3. u # 0 => Good(u)
    BY <1>14, <2>1
  <2>4. of[k] # 0 =>
           \/ u # 0 /\ rows[u].node = "routes" /\ rows[u].up = 0 /\ of[k] = u
           \/ u # 0 /\ of[k] = of[u]
    BY <2>1 DEF Step
  <2>5. u # 0 => u \in 1 .. N
    BY <1>1, <2>1
  <2> HIDE DEF u
  <2>6. Good(k)
    BY <2>2, <2>3, <2>4, <2>5
  <2>7. \A q \in 1 .. n + 1 : q \in 1 .. n \/ q = k
    OBVIOUS
  <2> HIDE DEF k
  <2> QED
    BY <1>14, <2>6, <2>7
<1> HIDE DEF S
<1>15. \A n \in 0 .. N : n \in S
  BY <1>1, <1>13, <1>14, InductUpTo
<1>16. N \in S
  BY <1>1, <1>15
<1>17. Good(r)
  BY <1>16 DEF S, N
<1> QED
  BY <1>9, <1>17 DEF N

\* What a line of a routes file routes to, and from within which block.
LEMMA ActionsRouted ==
  ASSUME NEW rows, IsForest(rows), NEW r \in 1 .. Len(rows)
  PROVE  /\ IsSeq(RoutedActions(rows, r))
         /\ RoutedActions(rows, r) # <<>> =>
               \E q \in Around(rows, r) : q \in 1 .. Len(rows) /\ rows[q].node = "routes" /\ rows[q].up = 0
<1> DEFINE N == Len(rows)
           inMember == rows[r].up # 0 /\ rows[rows[r].up].node = "member"
           place == IF inMember THEN rows[r].up ELSE r
           walked == RoutesOf(rows, place) # 0 /\ (inMember => CurrentResource(rows, r) # 0)
           actions == RoutedActions(rows, r)
<1>1. N \in Nat /\ rows[r].up \in 0 .. r - 1 /\ rows[r].up \in Around(rows, r)
  BY AroundStep DEF IsForest
<1>2. place \in 1 .. N /\ (place = r \/ place \in Around(rows, r))
  BY <1>1
<1>3. ASSUME walked
      PROVE  \E q \in Around(rows, r) : q \in 1 .. N /\ rows[q].node = "routes" /\ rows[q].up = 0
  <2>1. LET q == RoutesOf(rows, place)
        IN q \in 1 .. N /\ q \in Around(rows, place) /\ rows[q].node = "routes" /\ rows[q].up = 0
    BY <1>2, <1>3, RoutesOfFacts DEF N
  <2>2. r \in 0 .. N /\ Chain(rows, r)
    BY <1>1, AroundChain DEF N
  <2>3. Around(rows, place) \subseteq Around(rows, r)
    BY <1>2, <2>2 DEF Chain
  <2> QED
    BY <2>1, <2>3
<1> DEFINE listed == ResourceActions(rows, r)
           to == [n \in DOMAIN listed |-> Action(ResourceController(rows, r), listed[n])]
<1>4. IsSeq(to)
  <2> DEFINE Names == {"index", "show", "new", "create", "edit", "update", "destroy"}
             all == IF rows[r].node = "resources" THEN RoutesActions ELSE Tail(RoutesActions)
             M == Len(all)
             given(node) == {Head(rows[Max(Arguments(rows, r, node))].bases[n].path) :
                               n \in DOMAIN rows[Max(Arguments(rows, r, node))].bases}
             routed(a) == /\ Arguments(rows, r, "only") # {} => a \in given("only")
                          /\ Arguments(rows, r, "except") # {} => a \notin given("except")
             ss == [n \in DOMAIN all |-> IF routed(all[n]) THEN <<all[n]>> ELSE <<>>]
  <2>1. all \in Seq(Names) /\ Len(all) \in Nat \ {0}
    <3> DEFINE A == RoutesActions
    <3>1. A \in Seq(Names)
      BY DEF RoutesActions
    <3>2. Len(A) = 7
      BY DEF RoutesActions
    <3> HIDE DEF A
    <3> HIDE DEF Names
    <3>3. Tail(A) \in Seq(Names) /\ Len(Tail(A)) = 6
      <4>1. A # <<>>
        BY <3>2
      <4> QED
        BY <3>1, <3>2, <4>1
    <3> QED
      BY <3>1, <3>2, <3>3 DEF A
  <2>2. listed = FlattenSeq(ss)
    BY DEF ResourceActions
  <2>3. M \in Nat \ {0} /\ DOMAIN all = 1 .. M /\ \A n \in 1 .. M : all[n] \in Names
    <3> HIDE DEF all
    <3> QED
      BY <2>1
  <2> HIDE DEF all, M, routed, Names
  <2>4. ss \in [1 .. M -> Seq(Names)]
    <3>1. \A n \in 1 .. M : <<all[n]>> \in Seq(Names) /\ <<>> \in Seq(Names)
      BY <2>3
    <3>2. ss = [n \in 1 .. M |-> IF routed(all[n]) THEN <<all[n]>> ELSE <<>>]
      BY <2>3
    <3> QED
      BY <3>1, <3>2
  <2> HIDE DEF ss
  <2>5. listed \in Seq(Names)
    BY <2>2, <2>3, <2>4, FlattenFacts
  <2> DEFINE c == ResourceController(rows, r)
             B == {Action(c, a) : a \in Names}
  <2> HIDE DEF listed, c
  <2>6. Len(listed) \in Nat /\ DOMAIN listed = 1 .. Len(listed) /\ \A n \in 1 .. Len(listed) : listed[n] \in Names
    BY <2>5
  <2>7. \A n \in 1 .. Len(listed) : Action(c, listed[n]) \in B
    BY <2>6
  <2> HIDE DEF B
  <2>8. [n \in 1 .. Len(listed) |-> Action(c, listed[n])] \in Seq(B)
    BY <2>6, <2>7
  <2>9. to \in Seq(B)
    BY <2>6, <2>8 DEF c
  <2> QED
    BY <2>9, IsSeqOf
<1> HIDE DEF to, listed
<1>5. CASE walked /\ ~inMember /\ rows[r].node \in {"resources", "resource"}
  <2>1. actions = to
    BY <1>5 DEF RoutedActions, to, listed
  <2> QED
    BY <1>3, <1>4, <1>5, <2>1
<1>6. CASE walked /\ rows[r].node = "verb"
  <2> DEFINE a == rows[r].name
  <2>1. actions = <<a>>
    BY <1>6 DEF RoutedActions
  <2> HIDE DEF a
  <2> QED
    BY <1>3, <1>6, <2>1, OneEdge
<1>7. CASE walked /\ inMember /\ rows[r].node = "symbol"
  <2> DEFINE a == Action(ResourceController(rows, CurrentResource(rows, r)), Head(rows[r].name.path))
  <2>1. actions = <<a>>
    BY <1>7 DEF RoutedActions
  <2> HIDE DEF a
  <2> QED
    BY <1>3, <1>7, <2>1, OneEdge
<1>8. CASE actions = <<>>
  BY <1>8, NoEdges
<1> QED
  BY <1>5, <1>6, <1>7, <1>8, ZenonT(30) DEF RoutedActions

RbIds(file, rows) == [k \in RbSymbols(rows) |-> RbId(file, rows, k)]
RbCallerKinds == FunctionKinds \cup {"File", "Class", "Module"}

\* The Ruby extractor's do, those of Rails and its routes included.
LEMMA RubyFits ==
  ASSUME NEW file, NEW rows, IsFile(rows), \A k \in DOMAIN rows : rows[k].node \in RbNodes
  PROVE  LET ids == RbIds(file, rows)
             X == FileSymbols(FileId(file, "rb"), ids)
         IN /\ IdsFit(file, rows, ids)
            /\ \A r \in DOMAIN rows :
                  EdgesFit(RbEdges(file, rows, r), "ruby", file, X, rows, r, RbCallerKinds)
<1> DEFINE ids == RbIds(file, rows)
           X == FileSymbols(FileId(file, "rb"), ids)
           N == Len(rows)
           Calling == RbClasses \cup RbDefs \cup {"generated", "routes"}
<1>1. IsForest(rows) /\ N \in Nat /\ DOMAIN rows = 1 .. N /\ \A k \in DOMAIN rows : rows[k] \in Row
  BY DEF IsFile, IsForest
<1>2. DOMAIN ids = RbSymbols(rows) /\ \A k \in DOMAIN ids : ids[k] = RbId(file, rows, k)
  BY DEF RbIds
<1> HIDE DEF ids, N
<1>3. \A k \in RbSymbols(rows) : k \in 1 .. N /\ rows[k].node \in DOMAIN RbKindOf
  BY <1>1 DEF RbSymbols, RbDefined, RbVariables, RbAssigned, RailsDefined, RbInEigen, RailsNodes,
              RbKindOf, RbClasses, RbDefs
<1>4. ASSUME NEW k \in RbSymbols(rows)
      PROVE  /\ RbKind(rows, k) \notin {"File", "Route"}
             /\ RbKind(rows, k) \in RbCallerKinds <=> rows[k].node \in Calling
  BY <1>3 DEF RbKind, RbKindOf, FunctionKinds, RbCallerKinds, RbClasses, RbDefs
<1>5. \A k \in DOMAIN ids :
         ids[k].file = file /\ ids[k].line = k - 1 /\ ids[k].kind = RbKind(rows, k)
  BY <1>2 DEF RbId, Id
<1>6. IdsFit(file, rows, ids)
  BY <1>1, <1>2, <1>3, <1>4, <1>5 DEF IdsFit
<1>7. ASSUME NEW d \in RbSymbols(rows), rows[d].node \in Calling,
             NEW c \in Around(rows, d), c # 0, rows[c].node \notin RbClasses \cup {"eigen"}
      PROVE  FALSE
  <2>1. d \in RbDefined(rows) /\ d \in 1 .. N
    BY <1>3, <1>7 DEF RbSymbols, RbVariables, RbAssigned, RbClasses, RbDefs
  <2>2. ~RbWalked(rows, d)
    BY <1>7 DEF RbWalked
  <2>3. Around(rows, d) = {rows[d].up} \cup Around(rows, rows[d].up) /\ Around(rows, 0) = {}
    BY <1>1, <2>1, AroundStep DEF N
  <2>4. rows[d].up # 0
    BY <1>7, <2>3
  <2>5. RbInEigen(rows, d)
    BY <2>1, <2>2, <2>4 DEF RbDefined, RailsDefined
  <2>6. c \in Around(rows, rows[d].up) /\ RbWalked(rows, rows[d].up)
    BY <1>7, <2>3, <2>5 DEF RbInEigen
  <2> QED
    BY <1>7, <2>6 DEF RbWalked
<1>8. FileId(file, "rb").kind = "File" /\ FileId(file, "rb").file = file
  BY DEF FileId, Id
<1>9. ASSUME NEW r \in 1 .. N
      PROVE  EdgesFit(RbEdges(file, rows, r), "ruby", file, X, rows, r, RbCallerKinds)
  <2> DEFINE edges == RbEdges(file, rows, r)
             Fit(s) == EdgesFit(s, "ruby", file, X, rows, r, RbCallerKinds)
             Start(i, kind) == Starts(i, kind, "ruby", file, X, rows, r, RbCallerKinds)
  <2>0. Sits(FileId(file, "rb"), X, rows, r) /\ \A c \in DOMAIN ids \cap Within(rows, r) : Sits(ids[c], X, rows, r)
    BY <1>1, <1>6, <1>8, SymbolSits
  <2>1. /\ rows[r] \in Row /\ rows[r].bases \in Seq(Name) /\ rows[r].traits \in Seq(Name)
        /\ rows[r].node # "extension" /\ r \in 0 .. Len(rows)
    BY <1>1 DEF Row, N, RbNodes, RbKindOf, RoutesNodes
  <2>2. \A i : i.file = file /\ Sits(i, X, rows, r) =>
           Start(i, "Imports") /\ Start(i, "Extends") /\ Start(i, "Implements") /\ Start(i, "References")
    BY <2>1, SitsStarts DEF IsLoose
  <2>3. ASSUME NEW c \in DOMAIN ids \cap Within(rows, r), rows[c].node \in Calling,
               \A d \in DOMAIN ids \cap Within(rows, r) : rows[d].node \in Calling => d <= c
        PROVE  Start(ids[c], "Calls")
    <3>1. ids[c].kind \in RbCallerKinds /\ \A d \in DOMAIN ids \cap Within(rows, r) :
             ids[d].kind \in RbCallerKinds => d <= c
      BY <1>2, <1>4, <1>5, <2>3
    <3>2. Deepest(ids[c], X, rows, r, RbCallerKinds)
      BY <1>1, <1>6, <1>8, <3>1, CallerIsDeepest
    <3> QED
      BY <1>5, <3>2 DEF Starts, IsLoose
  <2>4. ASSUME NEW c \in DOMAIN ids \cap Around(rows, r), rows[c].node \in Calling \ RbClasses
        PROVE  Start(ids[c], "Calls")
    <3>1. c \in Within(rows, r) /\ c \in 1 .. N /\ rows[c].node # "eigen"
      BY <1>2, <1>3, <2>4 DEF Within, RbDefs
    <3>2. ASSUME NEW d \in DOMAIN ids \cap Within(rows, r), rows[d].node \in Calling, ~(d <= c)
          PROVE  FALSE
      <4>1. d \in 1 .. N /\ c < d
        BY <1>2, <1>3, <3>1, <3>2
      <4>2. c \in Around(rows, d)
        BY <1>1, <2>1, <3>1, <4>1, EarlierIsAround
      <4> QED
        BY <1>2, <1>7, <2>4, <3>1, <3>2, <4>2
    <3> QED
      BY <2>3, <2>4, <3>1, <3>2
  <2>5. ASSUME NEW t, NEW i, NEW kind, kind # "HandlesRoute", Start(i, kind)
        PROVE  Fit(EdgesTo(i, kind, <<t>>, r))
    <3>1. <<t>> \in Seq({t})
      OBVIOUS
    <3> QED
      BY <2>5, <3>1, ToFits
  <2> DEFINE k == RbClass(rows, r)
  <2>6. ASSUME k # 0, RbWalked(rows, r)
        PROVE  /\ k \in DOMAIN ids \cap Around(rows, r) /\ ids[k] = RbId(file, rows, k)
               /\ rows[k].node \in RbClasses
               /\ \A d \in Around(rows, r) \ {0} : d <= k
    <3>1. k \in AroundOfKind(rows, r, RbClasses) /\ \A d \in AroundOfKind(rows, r, RbClasses) : d <= k
      BY <1>1, <2>1, <2>6, InnermostFacts DEF RbClass
    <3>2. k \in 1 .. N /\ k \in Around(rows, r) /\ rows[k].node \in RbClasses
      BY <1>1, <2>1, <3>1, Inside DEF N
    <3>3. RbWalked(rows, k)
      BY <1>1, <2>1, <2>6, <3>2, Inside DEF RbWalked
    <3>4. k \in DOMAIN ids /\ ids[k] = RbId(file, rows, k)
      BY <1>1, <1>2, <3>2, <3>3 DEF RbSymbols, RbDefined
    <3>5. \A d \in Around(rows, r) \ {0} : d \in AroundOfKind(rows, r, RbClasses)
      BY <2>6 DEF RbWalked, AroundOfKind
    <3> QED
      BY <3>1, <3>2, <3>4, <3>5
  <2>7. CASE rows[r].node = "class" /\ RbWalked(rows, r)
    <3>1. edges = EdgesTo(RbId(file, rows, r), "Extends", rows[r].bases, r)
      BY <2>7 DEF RbEdges, RoutesNodes
    <3>2. r \in DOMAIN ids \cap Within(rows, r) /\ ids[r] = RbId(file, rows, r)
      BY <1>1, <1>2, <2>7 DEF RbSymbols, RbDefined, RbClasses, Within
    <3>3. Start(ids[r], "Extends")
      BY <1>5, <2>0, <2>2, <3>2
    <3>4. Fit(EdgesTo(ids[r], "Extends", rows[r].bases, r))
      BY <2>1, <3>3, ToFits
    <3> QED
      BY <3>1, <3>2, <3>4
  <2>8. CASE rows[r].node = "require" /\ RbWalked(rows, r)
    <3> DEFINE i == RbParent(file, rows, r)
    <3>1. edges = EdgesTo(i, "Imports", <<rows[r].name>>, r)
      BY <2>8 DEF RbEdges, RoutesNodes
    <3>2. i.file = file /\ Sits(i, X, rows, r)
      BY <1>5, <1>8, <2>0, <2>6, <2>8 DEF RbParent, Within
    <3> HIDE DEF i
    <3>3. Start(i, "Imports")
      BY <2>2, <3>2
    <3> QED
      BY <2>5, <3>1, <3>3
  <2>9. CASE rows[r].node = "call" /\ RbCaller(rows, r) # 0
    <3> DEFINE c == RbCaller(rows, r)
               t == RbCallTarget(rows, r)
    <3>1. edges = EdgesTo(RbId(file, rows, c), "Calls", <<t>>, r)
      BY <2>9 DEF RbEdges, RoutesNodes
    <3>2. c = Outermost(rows, r, RbDefs) /\ c \in RbDefined(rows)
      BY <2>9 DEF RbCaller
    <3>3. c \in AroundOfKind(rows, r, RbDefs)
      BY <1>1, <2>1, <2>9, <3>2, OutermostFacts
    <3>4. c \in Around(rows, r) /\ rows[c].node \in RbDefs
      BY <1>1, <2>1, <3>3, Inside DEF N
    <3>5. c \in DOMAIN ids \cap Around(rows, r) /\ ids[c] = RbId(file, rows, c) /\ rows[c].node \in Calling \ RbClasses
      BY <1>2, <3>2, <3>4 DEF RbSymbols, RbClasses, RbDefs
    <3> HIDE DEF c, t
    <3>6. Start(ids[c], "Calls")
      BY <2>4, <3>5
    <3>7. Fit(EdgesTo(ids[c], "Calls", <<t>>, r))
      BY <2>5, <3>6
    <3> QED
      BY <3>1, <3>5, <3>7
  <2>10. CASE rows[r].node \in RoutesNodes
    <3> DEFINE o == Outermost(rows, r, {"routes"})
               to == RoutedActions(rows, r)
    <3>1. edges = EdgesTo(RbId(file, rows, o), "Calls", to, r)
      BY <2>10 DEF RbEdges, RoutesNodes
    <3>2. /\ IsSeq(to)
          /\ to # <<>> => \E q \in Around(rows, r) : q \in 1 .. N /\ rows[q].node = "routes" /\ rows[q].up = 0
      BY <1>1, ActionsRouted DEF N
    <3>3. CASE to = <<>>
      <4>1. edges = <<>>
        BY <3>1, <3>3 DEF EdgesTo
      <4> QED
        BY <4>1, NoneFits
    <3>4. CASE to # <<>>
      <4>1. PICK q \in Around(rows, r) : q \in 1 .. N /\ rows[q].node = "routes" /\ rows[q].up = 0
        BY <3>2, <3>4
      <4>2. q \in AroundOfKind(rows, r, {"routes"})
        BY <4>1 DEF AroundOfKind
      <4>3. o # 0 /\ o <= q /\ o \in AroundOfKind(rows, r, {"routes"})
        BY <1>1, <2>1, <4>2, OutermostFacts
      <4>4. o \in 1 .. N /\ o \in Around(rows, r)
        BY <1>1, <2>1, <4>3, Inside DEF N
      <4>5. Around(rows, q) = {0}
        BY <1>1, <4>1, AroundStep DEF N
      <4>6. o = q
        <5>1. r \in 0 .. N /\ Chain(rows, r)
          BY <1>1, <2>1, AroundChain DEF N
        <5> QED
          BY <4>1, <4>3, <4>4, <4>5, <5>1 DEF Chain
      <4>7. o \in DOMAIN ids \cap Around(rows, r) /\ ids[o] = RbId(file, rows, o) /\ rows[o].node \in Calling \ RbClasses
        BY <1>1, <1>2, <4>1, <4>6 DEF RbSymbols, RbDefined, RbClasses
      <4> HIDE DEF o, to
      <4>8. Start(ids[o], "Calls")
        BY <2>4, <4>7
      <4>9. Fit(EdgesTo(ids[o], "Calls", to, r))
        BY <3>2, <4>8, ToFits DEF IsSeq
      <4> QED
        BY <3>1, <4>7, <4>9
    <3> QED
      BY <3>3, <3>4
  <2>11. CASE /\ rows[r].node \in {"association", "mixin", "callback", "validation"}
              /\ rows[r].up # 0 /\ RbWalked(rows, r) /\ edges = RailsEdges(file, rows, r)
    <3> DEFINE class == RbId(file, rows, k)
               member == <<Dotted(rows[k].name.path \o rows[r].name.path)>>
    <3>1. rows[r].up \in Around(rows, r)
      BY <1>1, AroundStep DEF N
    <3>2. k # 0
      <4>1. rows[r].up \in AroundOfKind(rows, r, RbClasses)
        BY <2>11, <3>1 DEF RbWalked, AroundOfKind
      <4> QED
        BY <1>1, <2>1, <4>1, InnermostFacts DEF RbClass
    <3>3. k \in DOMAIN ids \cap Within(rows, r) /\ ids[k] = class
      BY <2>6, <2>11, <3>2 DEF Within
    <3>4. Start(class, "Implements") /\ Start(class, "References")
      BY <1>5, <2>0, <2>2, <3>3
    <3>5. CASE rows[r].node = "association"
      <4> DEFINE names == IF rows[r].bases # <<>> THEN rows[r].bases
                          ELSE <<Simple(ClassCase[Head(rows[r].name.path)])>>
      <4>1. edges = EdgesTo(RbId(file, rows, r), "References", names, r)
        BY <2>11, <3>5 DEF RailsEdges
      <4>2. IsSeq(names)
        BY <2>1, IsSeqOf, OneEdge
      <4>3. r \in DOMAIN ids \cap Within(rows, r) /\ ids[r] = RbId(file, rows, r)
        BY <1>1, <1>2, <2>11, <3>5 DEF RbSymbols, RbDefined, RailsDefined, RailsNodes, Within
      <4>4. Start(ids[r], "References")
        BY <1>5, <2>0, <2>2, <4>3
      <4> HIDE DEF names
      <4>5. Fit(EdgesTo(ids[r], "References", names, r))
        BY <4>2, <4>4, ToFits DEF IsSeq
      <4> QED
        BY <4>1, <4>3, <4>5
    <3>6. CASE rows[r].node = "mixin"
      <4>1. edges = EdgesTo(class, "Implements", rows[r].traits, r)
        BY <2>11, <3>6 DEF RailsEdges
      <4> HIDE DEF class
      <4> QED
        BY <2>1, <3>4, <4>1, ToFits
    <3>7. CASE rows[r].node = "callback"
      <4>1. edges = EdgesTo(class, "Calls", member, r)
        BY <2>11, <3>7 DEF RailsEdges
      <4>2. r \notin DOMAIN ids
        BY <1>2, <1>3, <3>7 DEF RbKindOf
      <4>3. \A d \in DOMAIN ids \cap Within(rows, r) : d <= k
        <5>1. \A d \in DOMAIN ids : d # 0
          BY <1>2, <1>3
        <5> QED
          BY <2>6, <2>11, <3>2, <4>2, <5>1 DEF Within
      <4>4. Start(ids[k], "Calls")
        BY <2>3, <2>6, <2>11, <3>2, <3>3, <4>3
      <4> HIDE DEF class, k
      <4> QED
        BY <2>5, <3>3, <4>1, <4>4
    <3>8. CASE rows[r].node = "validation"
      <4>1. edges = EdgesTo(class, "References", member, r)
        BY <2>11, <3>8 DEF RailsEdges
      <4> HIDE DEF class, k
      <4> QED
        BY <2>5, <3>4, <4>1
    <3> QED
      BY <2>11, <3>5, <3>6, <3>7, <3>8
  <2>12. CASE edges = <<>>
    BY <2>12, NoneFits
  <2> QED
    BY <2>7, <2>8, <2>9, <2>10, <2>11, <2>12 DEF RbEdges
<1> QED
  BY <1>1, <1>6, <1>9 DEF ids

-----------------------------------------------------------------------------
(* Swift *)

SwIds(file, rows) == [k \in SwSymbols(rows) |-> SwId(file, rows, k)]
SwCallerKinds == FunctionKinds \cup {"Property"}

\* The Swift extractor's do, those of extensions as loose ones.
LEMMA SwiftFits ==
  ASSUME NEW file, NEW rows, IsFile(rows), \A k \in DOMAIN rows : rows[k].node \in SwNodes
  PROVE  LET ids == SwIds(file, rows)
             X == FileSymbols(FileId(file, "swift"), ids)
         IN /\ IdsFit(file, rows, ids)
            /\ \A r \in DOMAIN rows :
                  EdgesFit(SwEdges(file, rows, r), "swift", file, X, rows, r, SwCallerKinds)
<1> DEFINE ids == SwIds(file, rows)
           X == FileSymbols(FileId(file, "swift"), ids)
           N == Len(rows)
           Calling == {"function", "init", "property", "computed", "subscript"}
<1>1. IsForest(rows) /\ N \in Nat /\ DOMAIN rows = 1 .. N /\ \A k \in DOMAIN rows : rows[k] \in Row
  BY DEF IsFile, IsForest
<1>2. DOMAIN ids = SwSymbols(rows) /\ \A k \in DOMAIN ids : ids[k] = SwId(file, rows, k)
  BY DEF SwIds
<1> HIDE DEF ids, N
<1>3. \A k \in SwSymbols(rows) : k \in 1 .. N /\ rows[k].node # "extension"
  BY <1>1 DEF SwSymbols, SwKindOf
<1>4. ASSUME NEW k \in SwSymbols(rows)
      PROVE  /\ SwKind(rows, k) \notin {"File", "Route"}
             /\ SwKind(rows, k) \in SwCallerKinds <=> rows[k].node \in Calling
  <2>1. rows[k].node \in DOMAIN SwKindOf
    BY DEF SwSymbols
  <2> QED
    BY <2>1 DEF SwKind, SwKindOf, FunctionKinds, SwCallerKinds
<1>5. \A k \in DOMAIN ids :
         ids[k].file = file /\ ids[k].line = k - 1 /\ ids[k].kind = SwKind(rows, k)
  BY <1>2, <1>3 DEF SwId, Id
<1>6. IdsFit(file, rows, ids)
  BY <1>1, <1>2, <1>3, <1>4, <1>5 DEF IdsFit
<1>7. Apart(rows, ids, SwCallerKinds)
  <2> SUFFICES ASSUME NEW c \in DOMAIN ids, NEW d \in DOMAIN ids,
                      ids[c].kind \in SwCallerKinds, ids[d].kind \in SwCallerKinds,
                      c \in Around(rows, d)
               PROVE  FALSE
    BY <1>1, <1>2, <1>3, ApartBy
  <2>1. c # 0 /\ rows[c].node \in Calling /\ SwWalked(rows, d)
    BY <1>2, <1>3, <1>4, <1>5 DEF SwSymbols
  <2> QED
    BY <2>1 DEF SwWalked, SwTypes
<1>8. FileId(file, "swift").kind = "File" /\ FileId(file, "swift").file = file
  BY DEF FileId, Id
<1>9. ASSUME NEW r \in 1 .. N
      PROVE  EdgesFit(SwEdges(file, rows, r), "swift", file, X, rows, r, SwCallerKinds)
  <2> DEFINE edges == SwEdges(file, rows, r)
             Fit(s) == EdgesFit(s, "swift", file, X, rows, r, SwCallerKinds)
             Start(i, kind) == Starts(i, kind, "swift", file, X, rows, r, SwCallerKinds)
  <2>0. Sits(FileId(file, "swift"), X, rows, r) /\ \A c \in DOMAIN ids \cap Within(rows, r) : Sits(ids[c], X, rows, r)
    BY <1>1, <1>6, <1>8, SymbolSits
  <2>1. rows[r] \in Row /\ rows[r].bases \in Seq(Name) /\ r \in 0 .. Len(rows)
    BY <1>1 DEF Row, N
  <2>2. \A i : i.file = file /\ Sits(i, X, rows, r) =>
           Start(i, "Imports") /\ Start(i, "Extends") /\ (rows[r].node # "extension" => Start(i, "Implements"))
    BY SitsStarts DEF IsLoose
  <2>3. CASE rows[r].node \in SwTypes /\ SwWalked(rows, r)
    <3> DEFINE i == SwId(file, rows, r)
               b == rows[r].bases
    <3>1. edges = SwInherits(file, rows, r)
      BY <2>3 DEF SwEdges, SwTypes
    <3>2. CASE rows[r].node = "extension"
      <4>1. edges = EdgesTo(i, "Implements", b, r)
        BY <3>1, <3>2 DEF SwInherits
      <4>2. i.file = file /\ i.kind = "Class" /\ i.line = 0
        BY <3>2 DEF SwId, Id
      <4>3. Start(i, "Implements")
        BY <3>2, <4>2 DEF Starts, IsLoose
      <4> QED
        BY <2>1, <4>1, <4>3, ToFits
    <3>3. CASE rows[r].node # "extension"
      <4>1. r \in DOMAIN ids \cap Within(rows, r) /\ ids[r] = i
        BY <1>1, <1>2, <2>3, <3>3 DEF SwSymbols, SwTypes, SwKindOf, Within
      <4>2. Start(i, "Implements") /\ Start(i, "Extends")
        BY <1>5, <2>0, <2>2, <3>3, <4>1
      <4>3. \/ edges = EdgesTo(i, "Implements", b, r)
            \/ b # <<>> /\ edges = EdgesTo(i, "Extends", <<Head(b)>>, r) \o EdgesTo(i, "Implements", Tail(b), r)
        BY <3>1 DEF SwInherits
      <4> HIDE DEF i
      <4>4. Fit(EdgesTo(i, "Implements", b, r))
        BY <2>1, <4>2, ToFits
      <4>5. ASSUME b # <<>>
            PROVE  Fit(EdgesTo(i, "Extends", <<Head(b)>>, r) \o EdgesTo(i, "Implements", Tail(b), r))
        <5>1. <<Head(b)>> \in Seq(Name) /\ Tail(b) \in Seq(Name)
          BY <2>1, <4>5
        <5>2. Fit(EdgesTo(i, "Extends", <<Head(b)>>, r))
          BY <4>2, <5>1, ToFits
        <5>3. Fit(EdgesTo(i, "Implements", Tail(b), r))
          BY <4>2, <5>1, ToFits
        <5> QED
          BY <5>2, <5>3, BothFit
      <4> QED
        BY <4>3, <4>4, <4>5
    <3> QED
      BY <3>2, <3>3
  <2>4. CASE rows[r].node = "import" /\ r \in SwSymbols(rows)
    <3>1. edges = EdgesTo(FileId(file, "swift"), "Imports", <<rows[r].name>>, r)
      BY <2>4 DEF SwEdges, SwTypes
    <3>2. <<rows[r].name>> \in Seq({rows[r].name})
      OBVIOUS
    <3>3. Start(FileId(file, "swift"), "Imports")
      BY <1>8, <2>0, <2>2
    <3>4. Fit(EdgesTo(FileId(file, "swift"), "Imports", <<rows[r].name>>, r))
      BY <3>2, <3>3, ToFits
    <3> QED
      BY <3>1, <3>4
  <2>5. CASE rows[r].node = "call" /\ SwCaller(rows, r) # 0
    <3> DEFINE c == SwCaller(rows, r)
               t == SwCallTarget(rows, r)
    <3>0. edges = EdgesTo(SwId(file, rows, c), "Calls", <<t>>, r)
      BY <2>5 DEF SwEdges, SwTypes
    <3>1. c = Outermost(rows, r, Calling) /\ c \in SwSymbols(rows)
      BY <2>5 DEF SwCaller
    <3>2. c \in AroundOfKind(rows, r, Calling)
      BY <1>1, <2>1, <2>5, <3>1, OutermostFacts
    <3>3. c \in 1 .. N /\ c \in Around(rows, r) /\ rows[c].node \in Calling
      BY <1>1, <2>1, <3>2, Inside DEF N
    <3>4. c \in DOMAIN ids \cap Within(rows, r) /\ ids[c] = SwId(file, rows, c) /\ ids[c].kind \in SwCallerKinds
      BY <1>2, <1>4, <1>5, <3>1, <3>3 DEF Within
    <3> HIDE DEF c, t
    <3>5. Start(ids[c], "Calls")
      BY <1>1, <1>6, <1>7, <1>8, <3>4, LoneCaller
    <3>6. <<t>> \in Seq({t})
      OBVIOUS
    <3>7. Fit(EdgesTo(ids[c], "Calls", <<t>>, r))
      BY <3>5, <3>6, ToFits
    <3> QED
      BY <3>0, <3>4, <3>7
  <2>6. CASE edges = <<>>
    BY <2>6, NoneFits
  <2> QED
    BY <2>3, <2>4, <2>5, <2>6 DEF SwEdges
<1> QED
  BY <1>1, <1>6, <1>9 DEF ids

-----------------------------------------------------------------------------
(* Routes *)

\* Sequences one after the other.
LEMMA FlattenLines ==
  ASSUME NEW N \in Nat, NEW ss, ss = [k \in 1 .. N |-> ss[k]], \A k \in 1 .. N : IsSeq(ss[k])
  PROVE  /\ IsSeq(FlattenSeq(ss))
         /\ \A x : x \in ToSet(FlattenSeq(ss)) <=> \E k \in 1 .. N : x \in ToSet(ss[k])
<1>1. CASE N = 0
  <2>1. ss = <<>> /\ Len(ss) = 0
    BY <1>1
  <2>2. FlattenSeq(ss) = <<>>
    BY <2>1, Zenon DEF FlattenSeq
  <2> QED
    BY <1>1, <2>2, NoEdges
<1>2. CASE N # 0
  <2> DEFINE A == UNION {ToSet(ss[k]) : k \in 1 .. N}
  <2>1. \A k \in 1 .. N : ss[k] \in Seq(A)
    <3> TAKE k \in 1 .. N
    <3> DEFINE B == ToSet(ss[k])
    <3>1. ss[k] \in Seq(B) /\ B \subseteq A
      BY DEF IsSeq
    <3> HIDE DEF A, B
    <3> QED
      BY <3>1
  <2> DEFINE V == Seq(A)
  <2> HIDE DEF A
  <2>2. ss \in [1 .. N -> V] /\ N \in Nat \ {0}
    <3>1. \A k \in 1 .. N : ss[k] \in V
      BY <2>1
    <3> HIDE DEF V
    <3> QED
      BY <1>2, <3>1
  <2>3. /\ FlattenSeq(ss) \in Seq(A)
        /\ \A x : x \in ToSet(FlattenSeq(ss)) <=> \E k \in 1 .. N : x \in ToSet(ss[k])
    BY <2>2, FlattenFacts
  <2> QED
    BY <2>3, IsSeqOf
<1> QED
  BY <1>1, <1>2

\* The functions whose text has line r.
FunctionsAt(X, rows, r) == {i \in X : Sits(i, X, rows, r) /\ i.kind \in FunctionKinds}

\* The nodes of a file's routes.
RouteIds(file, rows) == {RouteId(file, rows, r) : r \in {k \in DOMAIN rows : rows[k].node = "route"}}

\* What routes.rs adds for a route: an edge from the function around it.
IsHandling(e, file, X, rows, r) ==
    /\ rows[r].node = "route" /\ e.kind = "HandlesRoute" /\ e.line = r - 1
    /\ e.id = RouteId(file, rows, r) /\ FunctionsAt(X, rows, r) = {e.source}

\* The smallest function around a route is the only one.
LEMMA HandlersFacts ==
  ASSUME NEW file, NEW rows, IsFile(rows), NEW ids, NEW fileId, fileId.kind = "File",
         IdsFit(file, rows, ids), FunctionsApart(rows, ids), NEW r \in DOMAIN rows, NEW symbols,
         DOMAIN symbols = FileSymbols(fileId, ids)
  PROVE  LET F == FunctionsAt(FileSymbols(fileId, ids), rows, r)
         IN Handlers(rows, r, symbols) = F /\ (F = {} \/ \E i : F = {i})
<1> DEFINE X == FileSymbols(fileId, ids)
           F == FunctionsAt(X, rows, r)
           span(i) == LastLine(rows, i.line + 1) - i.line
           around == {i \in DOMAIN symbols : /\ i.kind \in FunctionKinds
                                           /\ r \in (i.line + 1)..LastLine(rows, i.line + 1)}
<1>1. IsForest(rows) /\ InOrder(rows) /\ Len(rows) \in Nat /\ DOMAIN rows = 1 .. Len(rows)
  BY DEF IsFile, IsForest
<1>2. ASSUME NEW i \in X, i.kind \in FunctionKinds
      PROVE  /\ i.line + 1 \in DOMAIN ids /\ i = ids[i.line + 1] /\ span(i) \in Int
             /\ r \in (i.line + 1)..LastLine(rows, i.line + 1) <=> i.line + 1 \in Within(rows, r)
  <2>1. i # fileId
    BY <1>2 DEF FunctionKinds
  <2>2. PICK k \in DOMAIN ids : i = ids[k]
    BY <2>1 DEF FileSymbols
  <2>3. k \in DOMAIN rows /\ i.line = k - 1
    BY <2>2 DEF IdsFit
  <2>4. i.line + 1 = k /\ k \in Int
    BY <1>1, <2>3
  <2>5. LastLine(rows, k) \in k .. Len(rows) /\ (r \in k .. LastLine(rows, k) <=> r = k \/ k \in Around(rows, r))
    BY <1>1, <2>3, LinesOfNode
  <2>6. span(i) \in Int
    BY <1>1, <2>3, <2>4, <2>5
  <2> QED
    BY <2>2, <2>4, <2>5, <2>6 DEF Within
<1>3. around = F
  BY <1>2 DEF FunctionsAt, Sits, FunctionKinds
<1>4. \A i, j \in F : i = j
  <2> SUFFICES ASSUME NEW i \in F, NEW j \in F PROVE i = j
    OBVIOUS
  <2>1. /\ i \in X /\ j \in X /\ i.kind \in FunctionKinds /\ j.kind \in FunctionKinds
        /\ i.line + 1 \in Within(rows, r) /\ j.line + 1 \in Within(rows, r)
    BY DEF FunctionsAt, Sits, FunctionKinds
  <2> QED
    BY <1>2, <2>1 DEF FunctionsApart, Apart
<1>5. Handlers(rows, r, symbols) = {i \in around : \A j \in around : span(i) <= span(j)}
  BY DEF Handlers
<1>6. \A i \in F : i \in X /\ i.kind \in FunctionKinds /\ span(i) \in Int
  BY <1>2 DEF FunctionsAt
<1> HIDE DEF around, F, span
<1>7. Handlers(rows, r, symbols) = F
  BY <1>3, <1>4, <1>5, <1>6
<1> QED
  BY <1>4, <1>7 DEF F

\* What AddRoutes adds: the routes and one edge from the function around each.
RoutesAdded(all, got, X, file, rows) ==
    /\ DOMAIN all.nodes = X \cup RouteIds(file, rows)
    /\ IsSeq(all.raws)
    /\ \A e \in ToSet(all.raws) :
          e \in ToSet(got.raws) \/ \E r \in DOMAIN rows : IsHandling(e, file, X, rows, r)
    /\ \A e \in ToSet(got.raws) : e \in ToSet(all.raws)
    /\ \A r \in DOMAIN rows : rows[r].node = "route" =>
          \A i \in FunctionsAt(X, rows, r) : \E e \in ToSet(all.raws) :
             e.source = i /\ IsHandling(e, file, X, rows, r)

\* AddRoutes adds just that.
LEMMA RoutesFit ==
  ASSUME NEW file, NEW rows, IsFile(rows), NEW ids, NEW fileId, fileId.kind = "File",
         IdsFit(file, rows, ids), FunctionsApart(rows, ids), NEW language, NEW got,
         DOMAIN got.nodes = FileSymbols(fileId, ids), IsSeq(got.raws)
  PROVE  RoutesAdded(AddRoutes(file, language, rows, got), got, FileSymbols(fileId, ids), file, rows)
<1> DEFINE X == FileSymbols(fileId, ids)
           all == AddRoutes(file, language, rows, got)
           N == Len(rows)
           H(r) == Handlers(rows, r, got.nodes)
           edge(i, r) == [Edge(i, "HandlesRoute", rows[r].name, r - 1) EXCEPT !.id = RouteId(file, rows, r)]
           handling(r) == [k \in 1..Cardinality(H(r)) |-> edge(SetToSeq(H(r))[k], r)]
           routes == {r \in DOMAIN rows : rows[r].node = "route"}
           ss == [r \in DOMAIN rows |-> IF r \in routes THEN handling(r) ELSE <<>>]
           F(r) == FunctionsAt(X, rows, r)
<1>1. N \in Nat /\ DOMAIN rows = 1 .. N
  BY DEF IsFile, IsForest
<1>2. DOMAIN all.nodes = RouteIds(file, rows) \cup X /\ all.raws = got.raws \o FlattenSeq(ss)
  BY DEF AddRoutes, RouteIds
<1>3. \A i, r : /\ edge(i, r).source = i /\ edge(i, r).kind = "HandlesRoute" /\ edge(i, r).line = r - 1
                /\ edge(i, r).id = RouteId(file, rows, r)
  BY DEF Edge
<1>4. ASSUME NEW r \in DOMAIN rows
      PROVE  /\ IsSeq(handling(r))
             /\ \A e \in ToSet(handling(r)) : \E i : F(r) = {i} /\ e = edge(i, r)
             /\ \A i \in F(r) : edge(i, r) \in ToSet(handling(r)) /\ F(r) = {i}
  <2>1. H(r) = F(r) /\ (F(r) = {} \/ \E i : F(r) = {i})
    BY HandlersFacts
  <2>2. CASE F(r) = {}
    <3>1. Cardinality(H(r)) = 0
      BY <2>1, <2>2, FS_EmptySet
    <3>2. handling(r) = <<>>
      BY <3>1
    <3> HIDE DEF handling, F
    <3> QED
      BY <2>2, <3>2, NoEdges
  <2>3. ASSUME NEW i, F(r) = {i}
        PROVE  /\ IsSeq(handling(r))
               /\ \A e \in ToSet(handling(r)) : \E j : F(r) = {j} /\ e = edge(j, r)
               /\ \A j \in F(r) : edge(j, r) \in ToSet(handling(r)) /\ F(r) = {j}
    <3> DEFINE order == SetToSeq({i})
    <3>1. Cardinality({i}) = 1 /\ IsFiniteSet({i})
      BY FS_Singleton
    <3>2. Enumerates(order, {i})
      BY <3>1, SetToSeqsFacts
    <3> HIDE DEF order
    <3>3. order[1] = i
      BY <3>1, <3>2 DEF Enumerates
    <3> DEFINE y == edge(i, r)
    <3>4. handling(r) = [k \in 1 .. 1 |-> edge(order[k], r)]
      BY <2>1, <2>3, <3>1 DEF order
    <3> HIDE DEF edge, handling
    <3>5. handling(r) = <<y>>
      BY <3>3, <3>4
    <3> HIDE DEF F
    <3>6. IsSeq(handling(r)) /\ ToSet(handling(r)) = {y}
      BY <3>5, OneEdge
    <3> QED
      BY <2>3, <3>6
  <2> QED
    BY <2>1, <2>2, <2>3
<1> HIDE DEF handling, edge, F, H
<1>5. /\ ss = [k \in 1 .. N |-> ss[k]]
      /\ \A k \in 1 .. N : /\ IsSeq(ss[k])
                           /\ k \in routes => ss[k] = handling(k)
                           /\ k \notin routes => ToSet(ss[k]) = {}
  BY <1>1, <1>4, NoEdges
<1> HIDE DEF ss
<1>6. /\ IsSeq(FlattenSeq(ss))
      /\ \A x : x \in ToSet(FlattenSeq(ss)) <=> \E k \in 1 .. N : x \in ToSet(ss[k])
  BY <1>1, <1>5, FlattenLines
<1>7. IsSeq(all.raws) /\ ToSet(all.raws) = ToSet(got.raws) \cup ToSet(FlattenSeq(ss))
  BY <1>2, <1>6, Joined
<1>8. ASSUME NEW e \in ToSet(FlattenSeq(ss))
      PROVE  \E r \in DOMAIN rows : IsHandling(e, file, X, rows, r)
  <2>1. PICK r \in 1 .. N : e \in ToSet(ss[r])
    BY <1>6
  <2>2. r \in routes /\ e \in ToSet(handling(r))
    BY <1>5, <2>1
  <2>3. PICK i : F(r) = {i} /\ e = edge(i, r)
    BY <1>4, <2>2
  <2> QED
    BY <1>1, <1>3, <2>2, <2>3 DEF IsHandling, F
<1>9. ASSUME NEW r \in DOMAIN rows, rows[r].node = "route", NEW i \in F(r)
      PROVE  \E e \in ToSet(FlattenSeq(ss)) : e.source = i /\ IsHandling(e, file, X, rows, r)
  <2>1. edge(i, r) \in ToSet(handling(r)) /\ F(r) = {i}
    BY <1>4
  <2>2. edge(i, r) \in ToSet(FlattenSeq(ss))
    BY <1>1, <1>5, <1>6, <1>9, <2>1
  <2> QED
    BY <1>3, <1>9, <2>1, <2>2 DEF IsHandling, F
<1> HIDE DEF all, X
<1>10. RoutesAdded(all, got, X, file, rows)
  BY <1>2, <1>7, <1>8, <1>9 DEF RoutesAdded, F
<1> QED
  BY <1>10 DEF all, X

-----------------------------------------------------------------------------
(* The calls of a type's own members *)

\* The edges that an extractor makes of line r.
LineEdges(language, file, rows, r) ==
    CASE language = "python" -> PyEdges(file, rows, r)
      [] language = "rust" -> RsEdges(file, rows, r)
      [] language = "javascript" -> JsEdges(file, rows, r)
      [] language = "go" -> GoEdges(file, rows, r)
      [] language = "java" -> JavaEdges(file, rows, r)
      [] language = "csharp" -> CsEdges(file, rows, r)
      [] language = "php" -> PhpEdges(file, rows, r)
      [] language = "ruby" -> RbEdges(file, rows, r)
      [] language = "swift" -> SwEdges(file, rows, r)

\* A name like C.m, which is of a class and not of super().
IsMemberName(language, n) ==
    /\ n.sep = "." /\ Len(n.path) \in Nat /\ Len(n.path) > 1
    /\ language = "python" => Head(n.path) # super

\* Whether the call on line r leads to its type's own members, by their names.
OwnFits(language, file, X, rows, r) ==
    LET own == OwnMembers(language, rows, X, r)
        calls == {e \in ToSet(LineEdges(language, file, rows, r)) : e.kind = "Calls"}
    IN own # {} => \E n :
          /\ IsMemberName(language, n) /\ \A i \in own : i.name = n
          /\ \E e \in calls : e.target = n /\ Deepest(e.source, X, rows, r, CallerKinds(language))
          /\ AroundOfKind(rows, r, {"anonymous"}) = {} => \A e \in calls : e.target = n

\* The lines of members, and of those that the call on line r may mean.
LinesOfMembers(language, ids) ==
    {k \in DOMAIN ids : ids[k].kind \in FunctionKinds \cup
                           IF language \in {"javascript", "ruby", "swift"} THEN {"Property"} ELSE {}}
OwnLines(language, rows, ids, r) ==
    {k \in LinesOfMembers(language, ids) :
        /\ k \in MemberLines(language, rows, LinesOfMembers(language, ids), r)
        /\ rows[k].node # "constructor" /\ ~(language = "php" /\ rows[k].node = "arrow")
        /\ rows[k].name = Simple(rows[r].name.path[2])}

\* Symbols by their lines.
LEMMA OwnByLine ==
  ASSUME NEW file, NEW rows, IsForest(rows), NEW ids, IdsFit(file, rows, ids),
         NEW fileId, fileId.kind = "File", NEW language, NEW r
  PROVE  \A i \in OwnMembers(language, rows, FileSymbols(fileId, ids), r) :
            \E k \in OwnLines(language, rows, ids, r) : i = ids[k]
<1> DEFINE X == FileSymbols(fileId, ids)
           kinds == FunctionKinds \cup IF language \in {"javascript", "ruby", "swift"} THEN {"Property"} ELSE {}
           M == MembersIn(language, X)
           L == LinesOfMembers(language, ids)
<1>1. "File" \notin kinds
  BY DEF FunctionKinds
<1>2. \A k \in DOMAIN ids : k \in Int /\ ids[k].line = k - 1
  BY DEF IdsFit, IsForest
<1>3. M = {i \in X : i.kind \in kinds} /\ L = {k \in DOMAIN ids : ids[k].kind \in kinds}
  BY Zenon DEF MembersIn, LinesOfMembers
<1> HIDE DEF kinds
<1>4. \A i : i \in M <=> \E k \in L : i = ids[k]
  BY <1>1, <1>3 DEF FileSymbols
<1>5. \A k \in L : k \in Int /\ ids[k].line + 1 = k
  BY <1>2, <1>3
<1> HIDE DEF M, L
<1>6. {i.line + 1 : i \in M} = L
  BY <1>4, <1>5
<1>7. OwnMembers(language, rows, X, r) =
         {i \in M : /\ i.line + 1 \in MemberLines(language, rows, {j.line + 1 : j \in M}, r)
                    /\ rows[i.line + 1].node # "constructor"
                    /\ ~(language = "php" /\ rows[i.line + 1].node = "arrow")
                    /\ rows[i.line + 1].name = Simple(rows[r].name.path[2])}
  BY Zenon DEF OwnMembers, M
<1>8. OwnLines(language, rows, ids, r) =
         {k \in L : /\ k \in MemberLines(language, rows, L, r)
                    /\ rows[k].node # "constructor" /\ ~(language = "php" /\ rows[k].node = "arrow")
                    /\ rows[k].name = Simple(rows[r].name.path[2])}
  BY Zenon DEF OwnLines, L
<1> DEFINE ML == MemberLines(language, rows, L, r)
<1> HIDE DEF X, ML
<1>9. OwnMembers(language, rows, X, r) =
         {i \in M : /\ i.line + 1 \in ML
                    /\ rows[i.line + 1].node # "constructor"
                    /\ ~(language = "php" /\ rows[i.line + 1].node = "arrow")
                    /\ rows[i.line + 1].name = Simple(rows[r].name.path[2])}
  BY <1>6, <1>7, Zenon DEF ML
<1>10. ASSUME NEW i \in OwnMembers(language, rows, X, r)
       PROVE  \E k \in OwnLines(language, rows, ids, r) : i = ids[k]
  <2>1. PICK k \in L : i = ids[k]
    BY <1>4, <1>9
  <2>2. i.line + 1 = k
    BY <1>5, <2>1
  <2>3. k \in OwnLines(language, rows, ids, r)
    BY <1>8, <1>9, <2>2, Zenon DEF ML
  <2> QED
    BY <2>1, <2>3
<1> QED
  BY <1>10 DEF X

\* Some edges, all calls of n.
AllCall(edges, n) ==
    ToSet(edges) # {} /\ \A e \in ToSet(edges) : e.kind = "Calls" /\ e.target = n

\* An edge that a call becomes.
LEMMA OneCalls ==
  ASSUME NEW source, NEW n, NEW line
  PROVE  AllCall(<<Edge(source, "Calls", n, line)>>, n)
<1> DEFINE e == Edge(source, "Calls", n, line)
<1>1. e.kind = "Calls" /\ e.target = n
  BY DEF Edge
<1> HIDE DEF e
<1>2. ToSet(<<e>>) = {e}
  BY OneEdge
<1> QED
  BY <1>1, <1>2 DEF AllCall, e

\* The same, from what an extractor's names and edges are.
LEMMA OwnFitsBy ==
  ASSUME NEW file, NEW rows, IsForest(rows), NEW ids, IdsFit(file, rows, ids),
         NEW fileId, fileId.kind = "File", NEW language, NEW r, NEW edges,
         AroundOfKind(rows, r, {"anonymous"}) = {},
         LineEdges(language, file, rows, r) = edges,
         EdgesFit(edges, language, file, FileSymbols(fileId, ids), rows, r, CallerKinds(language)),
         NEW n,
         \A k \in OwnLines(language, rows, ids, r) :
            ids[k].name = n /\ IsMemberName(language, n) /\ AllCall(edges, n)
  PROVE  OwnFits(language, file, FileSymbols(fileId, ids), rows, r)
<1> DEFINE X == FileSymbols(fileId, ids)
           own == OwnMembers(language, rows, X, r)
           calls == {e \in ToSet(edges) : e.kind = "Calls"}
<1> SUFFICES ASSUME own # {}
             PROVE  \E m :
               /\ IsMemberName(language, m) /\ \A i \in own : i.name = m
               /\ \E e \in calls : e.target = m /\ Deepest(e.source, X, rows, r, CallerKinds(language))
               /\ AroundOfKind(rows, r, {"anonymous"}) = {} => \A e \in calls : e.target = m
  BY Zenon DEF OwnFits
<1>1. \A i \in own : \E k \in OwnLines(language, rows, ids, r) : i = ids[k]
  BY OwnByLine
<1>2. /\ \A i \in own : i.name = n
      /\ IsMemberName(language, n) /\ AllCall(edges, n)
  BY <1>1
<1>3. PICK e \in ToSet(edges) : e.kind = "Calls" /\ e.target = n
  BY <1>2 DEF AllCall
<1>4. Deepest(e.source, X, rows, r, CallerKinds(language))
  BY <1>3 DEF EdgesFit, EdgeFits, Starts
<1>5. \A d \in calls : d.target = n
  BY <1>2 DEF AllCall
<1> HIDE DEF X, own
<1> QED
  BY <1>2, <1>3, <1>4, <1>5

\* The innermost node of fewer kinds is the innermost, or around that.
LEMMA InnermostOfFewer ==
  ASSUME NEW rows, IsForest(rows), NEW r \in 0 .. Len(rows), NEW all, NEW some, some \subseteq all,
         Innermost(rows, r, all) # 0
  PROVE  LET m == Innermost(rows, r, all)
         IN Innermost(rows, r, some) = IF rows[m].node \in some THEN m ELSE Innermost(rows, m, some)
<1> DEFINE m == Innermost(rows, r, all)
           n == Innermost(rows, r, some)
           u == Innermost(rows, m, some)
<1>1. /\ m \in AroundOfKind(rows, r, all) /\ m \in 0 .. Len(rows)
      /\ \A k \in AroundOfKind(rows, r, all) : k <= m
  BY InnermostFacts, Zenon
<1>2. /\ n \in 0 .. Len(rows) /\ (n # 0 => n \in AroundOfKind(rows, r, some))
      /\ \A k \in AroundOfKind(rows, r, some) : n # 0 /\ k <= n
  BY InnermostFacts, Zenon
<1>3. /\ u \in 0 .. Len(rows) /\ (u # 0 => u \in AroundOfKind(rows, m, some))
      /\ \A k \in AroundOfKind(rows, m, some) : u # 0 /\ k <= u
  BY <1>1, InnermostFacts, Zenon
<1>4. m \in Around(rows, r) \ {0} /\ m \in 1 .. Len(rows)
  BY <1>1, Inside
<1>5. AroundOfKind(rows, r, some) \subseteq AroundOfKind(rows, r, all)
  BY DEF AroundOfKind
<1>6. AroundOfKind(rows, m, some) \subseteq AroundOfKind(rows, r, some)
  BY <1>4, Inside
<1>7. \A k \in AroundOfKind(rows, r, some) : k \in Around(rows, r) \ {0} /\ rows[k].node \in some
  BY DEF AroundOfKind
<1>8. \A k \in Around(rows, r) \ {0} : k < m /\ rows[k].node \in some => k \in AroundOfKind(rows, m, some)
  BY <1>4, Inside
<1>9. rows[m].node \in some => m \in AroundOfKind(rows, r, some)
  BY <1>4, Inside
<1>10. Len(rows) \in Nat
  BY DEF IsForest
<1> HIDE DEF m, n, u
<1>11. CASE rows[m].node \in some
  BY <1>1, <1>2, <1>5, <1>9, <1>10, <1>11 DEF m, n
<1>12. CASE rows[m].node \notin some
  <2>1. \A k \in AroundOfKind(rows, r, some) : k \in AroundOfKind(rows, m, some)
    <3> TAKE k \in AroundOfKind(rows, r, some)
    <3>1. k <= m /\ k # m /\ k \in Int /\ m \in Int
      BY <1>1, <1>4, <1>5, <1>7, <1>10, <1>12, Inside
    <3> QED
      BY <1>7, <1>8, <3>1
  <2>2. n = u
    BY <1>2, <1>3, <1>6, <1>10, <2>1
  <2> QED
    BY <1>12, <2>2 DEF m, n, u
<1> QED
  BY <1>11, <1>12

\* The type that self is of has a function of it around the line.
LEMMA SelfFacts ==
  ASSUME NEW rows, IsForest(rows), NEW language, NEW members, NEW q \in 0 .. Len(rows),
         SelfType(language, rows, members, q) # 0
  PROVE  LET t == SelfType(language, rows, members, q)
         IN /\ t = TypeAround(language, rows, q) /\ t \in DOMAIN rows /\ t \in Around(rows, q)
            /\ rows[t].node \in SelfTypes(language) /\ ~OfOther(rows, q)
            /\ \E k \in members :
                  /\ k \in DOMAIN rows /\ k \in Around(rows, q) /\ t < k /\ t \in Around(rows, k)
                  /\ rows[k].node \in SelfFunctions(language) /\ TypeAround(language, rows, k) = t
<1> DEFINE t == TypeAround(language, rows, q)
           T == SelfTypes(language)
           F == SelfFunctions(language)
<1>1. /\ SelfType(language, rows, members, q) = t /\ t # 0 /\ ~OfOther(rows, q)
      /\ \E k \in AroundOfKind(rows, q, F) \cap members : k > t
  BY DEF SelfType
<1>2. t = Innermost(rows, q, T)
  BY DEF TypeAround
<1> HIDE DEF T, F
<1>3. /\ t \in 0 .. Len(rows) /\ t \in AroundOfKind(rows, q, T)
      /\ \A k \in AroundOfKind(rows, q, T) : k <= t
  BY <1>1, <1>2, InnermostFacts, Zenon
<1>4. t \in 1 .. Len(rows) /\ t \in Around(rows, q) /\ rows[t].node \in T
  BY <1>3, Inside
<1>5. PICK k \in AroundOfKind(rows, q, F) \cap members : k > t
  BY <1>1
<1>6. k \in 1 .. Len(rows) /\ k \in Around(rows, q) /\ rows[k].node \in F
  BY <1>5, Inside
<1>7. t \in AroundOfKind(rows, k, T) /\ AroundOfKind(rows, k, T) \subseteq AroundOfKind(rows, q, T)
  BY <1>1, <1>4, <1>5, <1>6, Inside
<1>8. t \in Around(rows, k)
  BY <1>7 DEF AroundOfKind
<1> DEFINE u == Innermost(rows, k, T)
<1>9. /\ u \in 0 .. Len(rows) /\ (u # 0 => u \in AroundOfKind(rows, k, T))
      /\ \A j \in AroundOfKind(rows, k, T) : u # 0 /\ j <= u
  <2>1. k \in 0 .. Len(rows)
    BY <1>6
  <2> QED
    BY <2>1, InnermostFacts, Zenon
<1> HIDE DEF t, u
<1>10. u = t
  BY <1>3, <1>7, <1>9 DEF IsForest
<1>11. u = TypeAround(language, rows, k)
  BY DEF u, T, TypeAround
<1>12. DOMAIN rows = 1 .. Len(rows)
  BY DEF IsForest
<1> QED
  BY <1>1, <1>4, <1>5, <1>6, <1>8, <1>10, <1>11, <1>12 DEF t, T, F

\* What OwnLines says of a member, but in Go.
LEMMA OwnLineFacts ==
  ASSUME NEW rows, NEW language, language # "go", NEW ids, NEW r \in CallsOf(language, rows),
         NEW k \in OwnLines(language, rows, ids, r)
  PROVE  LET t == SelfType(language, rows, LinesOfMembers(language, ids), CallLine(rows, r))
         IN /\ t # 0 /\ Head(rows[r].name.path) \in SelfWords(language)
            /\ \/ TypeAround(language, rows, k) = t /\ ~OfOther(rows, k)
               \/ /\ language = "swift" /\ TypeAround(language, rows, k) # 0
                  /\ rows[TypeAround(language, rows, k)].name = rows[t].name
            /\ k \in DOMAIN ids /\ k \in LinesOfMembers(language, ids)
            /\ rows[k].node # "constructor" /\ ~(language = "php" /\ rows[k].node = "arrow")
            /\ rows[k].name = Simple(rows[r].name.path[2])
<1> DEFINE L == LinesOfMembers(language, ids)
           t == SelfType(language, rows, L, CallLine(rows, r))
           ok(j) == \/ TypeAround(language, rows, j) = t /\ ~OfOther(rows, j)
                    \/ /\ language = "swift" /\ TypeAround(language, rows, j) # 0
                       /\ rows[TypeAround(language, rows, j)].name = rows[t].name
           word == Head(rows[r].name.path) \in SelfWords(language)
<1>1. MemberLines(language, rows, L, r) = IF word /\ t # 0 THEN {j \in DOMAIN rows : ok(j)} ELSE {}
  <2> DEFINE A == {j \in DOMAIN rows : /\ rows[j].node = "method" /\ OnReceiver(rows, r)
                                       /\ Head(rows[j].bases) = Head(rows[GoCaller(rows, r)].bases)}
             B == {j \in DOMAIN rows : ok(j)}
  <2>1. MemberLines(language, rows, L, r) = CASE language = "go" -> A
                                              [] language # "go" /\ word /\ t # 0 -> B
                                              [] OTHER -> {}
    BY Zenon DEF MemberLines
  <2> HIDE DEF A, B, word, t
  <2> QED
    BY <2>1 DEF B
<1>2. k \in MemberLines(language, rows, L, r)
  BY Zenon DEF OwnLines
<1> HIDE DEF ok, word, t
<1>3. word /\ t # 0 /\ ok(k)
  BY <1>1, <1>2
<1>4. /\ k \in DOMAIN ids /\ k \in L
      /\ rows[k].node # "constructor" /\ ~(language = "php" /\ rows[k].node = "arrow")
      /\ rows[k].name = Simple(rows[r].name.path[2])
  BY DEF OwnLines, LinesOfMembers
<1> QED
  BY <1>3, <1>4, Zenon DEF ok, word, t

\* A node with none of its kinds around is the outermost of them.
LEMMA OutermostIs ==
  ASSUME NEW rows, IsForest(rows), NEW r \in 0 .. Len(rows), NEW kinds,
         NEW c \in DOMAIN rows, c \in Around(rows, r), rows[c].node \in kinds,
         AroundOfKind(rows, c, kinds) = {}
  PROVE  Outermost(rows, r, kinds) = c
<1> DEFINE m == Outermost(rows, r, kinds)
<1>1. /\ m \in 0 .. Len(rows) /\ (m # 0 => m \in AroundOfKind(rows, r, kinds))
      /\ \A k \in AroundOfKind(rows, r, kinds) : m # 0 /\ m <= k
  BY OutermostFacts, Zenon
<1>2. DOMAIN rows = 1 .. Len(rows) /\ Len(rows) \in Nat
  BY DEF IsForest
<1>3. c \in AroundOfKind(rows, r, kinds)
  BY <1>2, Inside
<1> HIDE DEF m
<1>4. m \in Around(rows, r) \ {0} /\ rows[m].node \in kinds /\ m <= c
  BY <1>1, <1>3 DEF AroundOfKind
<1>5. ~ m < c
  BY <1>2, <1>4, Inside
<1> QED
  BY <1>1, <1>2, <1>4, <1>5 DEF m

\* A qualified call of self's or this's member.
LEMMA QualifiedCall ==
  ASSUME NEW n, n.sep = ".", Len(n.path) = 2, Head(n.path) \in {"self", "this"}, NEW class
  PROVE  qualify_member_call(n, class) = Dotted(<<Last(class.path), n.path[2]>>)
<1>1. Last(n.path) = n.path[2]
  BY DEF Last
<1> QED
  BY <1>1 DEF qualify_member_call

\* Such a name is a member's.
LEMMA TwoSegments ==
  ASSUME NEW a, NEW b, NEW language, language = "python" => a # super
  PROVE  IsMemberName(language, Dotted(<<a, b>>))
<1> DEFINE p == <<a, b>>
<1>1. Dotted(p).sep = "." /\ Dotted(p).path = p
  BY DEF Dotted
<1>2. Len(p) = 2 /\ Head(p) = a
  OBVIOUS
<1> HIDE DEF p
<1>3. IsMemberName(language, Dotted(p))
  BY <1>1, <1>2 DEF IsMemberName
<1> QED
  BY <1>3 DEF p

\* What is known of a call, but in JavaScript.
LEMMA CallRow ==
  ASSUME NEW rows, IsFile(rows), NEW language, NEW r \in CallsOf(language, rows)
  PROVE  /\ r \in DOMAIN rows /\ r \in 0 .. Len(rows) /\ IsForest(rows)
         /\ rows[r].name.sep = "." /\ Len(rows[r].name.path) = 2
         /\ language # "javascript" => rows[r].node = "call" /\ CallLine(rows, r) = r
         /\ CallLine(rows, r) \in 0 .. Len(rows)
<1>1. r \in DOMAIN rows /\ IsForest(rows)
  BY DEF CallsOf, IsFile
<1>2. r \in 1 .. Len(rows) /\ rows[r].up \in 0 .. r - 1 /\ Len(rows) \in Nat
  BY <1>1 DEF IsForest
<1> QED
  BY <1>1, <1>2 DEF CallsOf, CallLine

\* self.m() in Python's methods.
LEMMA PythonOwn ==
  ASSUME NEW file, NEW rows, IsFile(rows), Spelled("python", rows),
         NEW r \in CallsOf("python", rows), NEW k \in OwnLines("python", rows, PyIds(file, rows), r)
  PROVE  /\ PyIds(file, rows)[k].name = PyCallTarget(rows, r)
         /\ IsMemberName("python", PyCallTarget(rows, r))
         /\ AllCall(PyEdges(file, rows, r), PyCallTarget(rows, r))
<1> DEFINE ids == PyIds(file, rows)
           t == SelfType("python", rows, LinesOfMembers("python", ids), r)
           s == rows[r].name.path[2]
<1>1. /\ r \in DOMAIN rows /\ r \in 0 .. Len(rows) /\ IsForest(rows)
      /\ rows[r].name.sep = "." /\ Len(rows[r].name.path) = 2
      /\ rows[r].node = "call" /\ CallLine(rows, r) = r
  BY CallRow
<1>2. /\ t # 0 /\ Head(rows[r].name.path) = "self"
      /\ TypeAround("python", rows, k) = t /\ k \in LinesOfMembers("python", ids)
      /\ rows[k].name = Simple(s)
  <2>1. SelfWords("python") = {"self"}
    BY DEF SelfWords
  <2> QED
    BY <1>1, <2>1, OwnLineFacts
<1> HIDE DEF ids
<1>3. /\ t = TypeAround("python", rows, r) /\ t \in DOMAIN rows /\ t \in Around(rows, r)
      /\ rows[t].node = "class"
      /\ \E f \in LinesOfMembers("python", ids) :
            /\ f \in DOMAIN rows /\ f \in Around(rows, r)
            /\ rows[f].node = "function" /\ TypeAround("python", rows, f) = t
  <2>1. SelfTypes("python") = {"class"} /\ SelfFunctions("python") = {"function"}
    BY DEF SelfTypes, SelfFunctions
  <2> QED
    BY <1>1, <1>2, <2>1, SelfFacts
<1>4. \A x : TypeAround("python", rows, x) = PyClass(rows, x)
  BY DEF TypeAround, PyClass, SelfTypes
<1>5. ASSUME NEW j \in LinesOfMembers("python", ids)
      PROVE  rows[j].node = "function" /\ PyWalked(rows, j) /\ ids[j].name = PyName(rows, j)
  <2>1. j \in DOMAIN ids /\ ids[j].kind \in FunctionKinds
    BY DEF LinesOfMembers
  <2>2. j \in PySymbols(rows) /\ ids[j] = PyId(file, rows, j)
    BY <2>1 DEF ids, PyIds
  <2>3. rows[j].node \in {"function", "class", "import", "from"} /\ PyWalked(rows, j)
    BY <2>2 DEF PySymbols
  <2>4. ids[j].kind = PyKind(rows, j) /\ ids[j].name = PyName(rows, j)
    BY <2>2 DEF PyId, Id
  <2>5. rows[j].node = "function"
    BY <2>1, <2>3, <2>4 DEF PyKind, FunctionKinds
  <2> QED
    BY <2>3, <2>4, <2>5
<1>6. PICK f \in LinesOfMembers("python", ids) :
         /\ f \in DOMAIN rows /\ f \in Around(rows, r)
         /\ rows[f].node = "function" /\ PyClass(rows, f) = t
  BY <1>3, <1>4
<1>7. PyCaller(rows, r) = f /\ f # 0
  <2>1. AroundOfKind(rows, f, {"function"}) = {}
    BY <1>5 DEF PyWalked
  <2>2. Outermost(rows, r, {"function"}) = f
    BY <1>1, <1>6, <2>1, OutermostIs
  <2> QED
    BY <1>1, <1>6, <2>2 DEF PyCaller, IsForest
<1> HIDE DEF t
<1>8. PyCallTarget(rows, r) = Dotted(<<Last(rows[t].name.path), s>>)
  <2>1. PyCallTarget(rows, r) = qualify_member_call(rows[r].name, rows[t].name)
    BY <1>2, <1>6, <1>7 DEF PyCallTarget
  <2> QED
    BY <1>1, <1>2, <2>1, QualifiedCall
<1>9. ids[k].name = Dotted(<<Last(rows[t].name.path), s>>)
  <2>1. PyClass(rows, k) = t /\ rows[k].node = "function" /\ ids[k].name = PyName(rows, k)
    BY <1>2, <1>4, <1>5
  <2>2. Last(rows[k].name.path) = s
    BY <1>2 DEF Simple, Dotted, Last
  <2> QED
    BY <1>2, <2>1, <2>2 DEF PyName
<1>10. IsMemberName("python", PyCallTarget(rows, r))
  <2>1. Last(rows[t].name.path) # super
    BY <1>3 DEF Spelled
  <2> QED
    BY <1>8, <2>1, TwoSegments
<1>11. PyEdges(file, rows, r) =
          <<Edge(PyId(file, rows, f), "Calls", PyCallTarget(rows, r), r - 1)>>
  BY <1>1, <1>7 DEF PyEdges
<1>12. AllCall(PyEdges(file, rows, r), PyCallTarget(rows, r))
  BY <1>11, OneCalls
<1> QED
  BY <1>8, <1>9, <1>10, <1>12 DEF ids

\* A sequence of one and another are one of two.
LEMMA TwoOfOnes ==
  ASSUME NEW A, NEW p \in Seq(A), NEW x \in Seq(A), Len(p) = 1, Len(x) = 1
  PROVE  p \o x = <<p[1], x[1]>>
<1> DEFINE y == p \o x
           m == Len(p)
           n == Len(x)
<1>1. y \in Seq(A) /\ Len(y) = m + n /\ m \in Nat /\ n \in Nat
  OBVIOUS
<1>2. m = 1 /\ n = 1
  OBVIOUS
<1>3. y[1] = p[1] /\ y[2] = x[1]
  OBVIOUS
<1> HIDE DEF y, m, n
<1>4. y = [i \in 1 .. 2 |-> y[i]]
  BY <1>1, <1>2
<1>5. y = <<y[1], y[2]>>
  BY <1>4
<1> QED
  BY <1>3, <1>5 DEF y

\* A name of one segment and another.
LEMMA OneThenOne ==
  ASSUME NEW p, NEW A, p \in Seq(A), Len(p) = 1, NEW s
  PROVE  p \o <<s>> = <<Last(p), s>>
<1>1. Last(p) = p[1]
  BY DEF Last
<1> DEFINE B == A \cup {s}
<1>1a. A \subseteq B /\ s \in B
  OBVIOUS
<1> HIDE DEF B
<1> DEFINE x == <<s>>
<1>2. p \in Seq(B) /\ x \in Seq(B)
  BY <1>1a
<1>3. Len(x) = 1 /\ x[1] = s
  OBVIOUS
<1> HIDE DEF x
<1>4. p \o x = <<p[1], x[1]>>
  BY <1>2, <1>3, TwoOfOnes
<1> QED
  BY <1>1, <1>3, <1>4 DEF x

\* The members of JavaScript's classes that are around a line.
LEMMA JsMember ==
  ASSUME NEW file, NEW rows, IsFile(rows),
         NEW f \in LinesOfMembers("javascript", JsIds(file, rows)),
         TypeAround("javascript", rows, f) # 0
  PROVE  /\ f \in JsMembers(rows) /\ f \in DOMAIN rows
         /\ TypeAround("javascript", rows, f) = rows[f].up
         /\ \A d \in Around(rows, f) : d \in JsSymbols(rows) =>
               rows[d].node \notin {"function", "method", "arrow", "variable", "new"}
<1> DEFINE t == TypeAround("javascript", rows, f)
           u == rows[f].up
<1>1. IsForest(rows) /\ Len(rows) \in Nat /\ DOMAIN rows = 1 .. Len(rows)
  BY DEF IsFile, IsForest
<1>2. f \in JsSymbols(rows) /\ f \in DOMAIN rows
  BY DEF LinesOfMembers, JsIds, JsSymbols, JsItems, JsMembers
<1>3. t = Innermost(rows, f, {"class"})
  BY DEF TypeAround, SelfTypes
<1>4. f \in 0 .. Len(rows) /\ f \in 1 .. Len(rows)
  BY <1>1, <1>2
<1>5. t \in AroundOfKind(rows, f, {"class"}) /\ \A k \in AroundOfKind(rows, f, {"class"}) : k <= t
  BY <1>1, <1>3, <1>4, InnermostFacts, Zenon
<1>6. t \in 1 .. Len(rows) /\ t \in Around(rows, f) /\ rows[t].node = "class"
  BY <1>1, <1>4, <1>5, Inside
<1> HIDE DEF t
<1>7. f \in JsMembers(rows)
  <2>1. ~JsWalked(rows, f)
    BY <1>6 DEF JsWalked, AroundOfKind
  <2> QED
    BY <1>2, <2>1 DEF JsSymbols, JsItems
<1>8. u # 0 /\ rows[u].node = "class" /\ JsWalked(rows, u)
  BY <1>7 DEF JsMembers
<1>9. Around(rows, f) = {u} \cup Around(rows, u) /\ u \in 0 .. f - 1
  BY <1>1, <1>4, AroundStep DEF IsForest
<1>10. t = u
  <2>1. t \notin Around(rows, u)
    BY <1>6, <1>8 DEF JsWalked, AroundOfKind
  <2> QED
    BY <1>6, <1>9, <2>1
<1>11. ASSUME NEW d \in Around(rows, f), d \in JsSymbols(rows)
       PROVE  rows[d].node \notin {"function", "method", "arrow", "variable", "new"}
  <2>1. CASE d = u
    BY <1>8, <2>1
  <2>2. CASE d \in Around(rows, u)
    <3>1. d \in DOMAIN rows /\ d # 0 /\ u \in 0 .. Len(rows)
      BY <1>1, <1>4, <1>9, <1>11 DEF JsSymbols, JsItems, JsMembers
    <3>2. \A c \in Around(rows, u) \ {0} : rows[c].node \notin {"function", "arrow", "class", "variable", "new"}
      BY <1>8 DEF JsWalked, AroundOfKind
    <3>3. d \notin JsMembers(rows)
      <4> SUFFICES ASSUME d \in JsMembers(rows) PROVE FALSE
        OBVIOUS
      <4>1. rows[d].up # 0 /\ rows[rows[d].up].node = "class"
        BY DEF JsMembers
      <4>2. rows[d].up \in Around(rows, d)
        BY <1>1, <3>1, AroundStep
      <4>3. Around(rows, d) \subseteq Around(rows, u)
        BY <1>1, <2>2, <3>1, AroundChain DEF Chain
      <4> QED
        BY <3>2, <4>1, <4>2, <4>3
    <3>4. rows[d].node \in DOMAIN JsKindOf
      BY <1>11, <3>3 DEF JsSymbols, JsItems
    <3> QED
      BY <2>2, <3>1, <3>2, <3>4 DEF JsKindOf
  <2> QED
    BY <1>9, <1>11, <2>1, <2>2
<1> QED
  BY <1>2, <1>7, <1>10, <1>11 DEF t

\* this.m() in the methods and arrow functions of JavaScript's classes.
LEMMA JavaScriptOwn ==
  ASSUME NEW file, NEW rows, IsFile(rows), Spelled("javascript", rows),
         NEW r \in CallsOf("javascript", rows),
         NEW k \in OwnLines("javascript", rows, JsIds(file, rows), r)
  PROVE  /\ JsIds(file, rows)[k].name = JsCallTarget(rows, r)
         /\ IsMemberName("javascript", JsCallTarget(rows, r))
         /\ AllCall(JsEdges(file, rows, r), JsCallTarget(rows, r))
<1> DEFINE ids == JsIds(file, rows)
           L == LinesOfMembers("javascript", ids)
           q == CallLine(rows, r)
           t == SelfType("javascript", rows, L, q)
           s == rows[r].name.path[2]
           searching == {"function", "method", "arrow", "variable", "new"}
<1>1. /\ r \in DOMAIN rows /\ r \in 0 .. Len(rows) /\ IsForest(rows)
      /\ rows[r].name.sep = "." /\ Len(rows[r].name.path) = 2 /\ q \in 0 .. Len(rows)
  BY CallRow
<1>1a. DOMAIN rows = 1 .. Len(rows) /\ Len(rows) \in Nat
  BY <1>1 DEF IsForest
<1>1b. /\ rows[r].node \in {"call", "whole"}
       /\ Around(rows, q) \subseteq Around(rows, r) /\ (rows[r].node = "whole" => rows[r].up = q)
  <2>1. rows[r].node \in {"call", "whole"}
    BY DEF CallsOf
  <2>2. Around(rows, r) = {rows[r].up} \cup Around(rows, rows[r].up)
    BY <1>1, <1>1a, AroundStep
  <2> QED
    BY <2>1, <2>2 DEF CallLine
<1>2. /\ t # 0 /\ Head(rows[r].name.path) = "this"
      /\ TypeAround("javascript", rows, k) = t /\ k \in L
      /\ rows[k].name = Simple(s)
  <2>1. SelfWords("javascript") = {"this"}
    BY DEF SelfWords
  <2> QED
    BY <2>1, OwnLineFacts
<1> HIDE DEF ids, L, q
<1>3. /\ t \in DOMAIN rows /\ rows[t].node = "class"
      /\ \E f \in L : /\ f \in Around(rows, q) /\ rows[f].node \in {"method", "arrow"}
                      /\ TypeAround("javascript", rows, f) = t
  <2>1. SelfTypes("javascript") = {"class"} /\ SelfFunctions("javascript") = {"method", "arrow"}
    BY DEF SelfTypes, SelfFunctions
  <2> QED
    BY <1>1, <1>2, <2>1, SelfFacts
<1>4. PICK f \in L : /\ f \in Around(rows, q) /\ rows[f].node \in {"method", "arrow"}
                     /\ TypeAround("javascript", rows, f) = t
  BY <1>3
<1> HIDE DEF t
<1>5. /\ f \in JsMembers(rows) /\ f \in DOMAIN rows /\ rows[f].up = t
      /\ \A d \in Around(rows, f) : d \in JsSymbols(rows) => rows[d].node \notin searching
  BY <1>2, <1>4, JsMember DEF L, ids
<1>6. k \in JsMembers(rows) /\ rows[k].up = t
  BY <1>2, JsMember DEF L, ids
<1>7. JsCaller(rows, r) = f /\ f # 0
  <2> DEFINE S == AroundOfKind(rows, r, searching) \cap JsSymbols(rows)
  <2>1. f \in Around(rows, r) /\ f # 0 /\ f \in 1 .. Len(rows)
    BY <1>1a, <1>1b, <1>4, <1>5
  <2>2. f \in S
    BY <1>4, <1>5, <2>1 DEF AroundOfKind, JsSymbols
  <2>3. \A d \in S : d \in 1 .. Len(rows) /\ d \in Around(rows, r) /\ rows[d].node \in searching
    BY <1>1, Inside
  <2>4. ASSUME NEW d \in S, d < f PROVE FALSE
    <3>1. d \in Within(rows, r) /\ f \in Within(rows, r)
      BY <2>1, <2>3 DEF Within
    <3>2. d \in Around(rows, f)
      BY <1>1, <2>4, <3>1, EarlierIsAround
    <3> QED
      BY <1>5, <2>3, <3>2
  <2>5. S \in SUBSET (1 .. Len(rows)) /\ 1 \in Int /\ Len(rows) \in Int
    <3>1. S \subseteq 1 .. Len(rows)
      BY <2>3
    <3> QED
      BY <1>1a, <3>1
  <2> HIDE DEF S
  <2>6. Min(S) \in S /\ \A y \in S : Min(S) <= y
    BY <2>2, <2>5, MaxMin
  <2> DEFINE m == Min(S)
  <2>6a. m \in S /\ m <= f /\ ~ m < f
    BY <2>2, <2>4, <2>6
  <2> HIDE DEF m
  <2>7. m = f
    BY <2>1, <2>3, <2>6a
  <2>8. JsCaller(rows, r) = IF S = {} THEN 0 ELSE Min(S)
    BY Zenon DEF JsCaller, S
  <2> QED
    BY <2>1, <2>2, <2>7, <2>8 DEF m
<1>8. JsCallTarget(rows, r) = Dotted(<<Last(rows[t].name.path), s>>)
  <2>1. JsCallTarget(rows, r) = qualify_member_call(rows[r].name, rows[t].name)
    BY <1>5, <1>7 DEF JsCallTarget
  <2> QED
    BY <1>1, <1>2, <2>1, QualifiedCall
<1>9. ids[k].name = Dotted(<<Last(rows[t].name.path), s>>)
  <2>1. ids[k].name = Dotted(rows[t].name.path \o rows[k].name.path)
    BY <1>6 DEF ids, JsIds, JsSymbols, JsId, Id, JsName
  <2>2. rows[k].name.path = <<s>>
    BY <1>2 DEF Simple, Dotted
  <2>3. rows[t].name.path \in Seq(Segments) /\ Len(rows[t].name.path) = 1
    <3>1. rows[t] \in Row
      BY <1>3 DEF IsFile
    <3>2. "class" \in JavaTypes \cup CsTypes
      BY DEF JavaTypes, CsTypes
    <3> QED
      BY <1>3, <3>1, <3>2 DEF Row, Name, Spelled
  <2> QED
    BY <2>1, <2>2, <2>3, OneThenOne
<1>10. IsMemberName("javascript", JsCallTarget(rows, r))
  BY <1>8, TwoSegments
<1>11. JsFound(rows, r)
  <2>1. f < q
    BY <1>1, <1>1a, <1>4, <1>5, Inside
  <2>2. f # q
    BY <1>1, <1>1a, <1>5, <2>1
  <2> QED
    BY <1>1b, <1>7, <2>2 DEF JsFound
<1>12. JsEdges(file, rows, r) =
          <<Edge(JsId(file, rows, f), "Calls", JsCallTarget(rows, r), r - 1)>>
  BY <1>1b, <1>7, <1>11 DEF JsEdges
<1>13. AllCall(JsEdges(file, rows, r), JsCallTarget(rows, r))
  BY <1>12, OneCalls
<1> QED
  BY <1>8, <1>9, <1>10, <1>13 DEF ids

\* The edges to one name.
LEMMA EdgesToOne ==
  ASSUME NEW source, NEW kind, NEW n, NEW r
  PROVE  /\ IsSeq(EdgesTo(source, kind, <<n>>, r))
         /\ ToSet(EdgesTo(source, kind, <<n>>, r)) = {Edge(source, kind, n, r - 1)}
<1> DEFINE e == Edge(source, kind, n, r - 1)
           p == <<n>>
<1>1. EdgesTo(source, kind, p, r) = [k \in DOMAIN p |-> Edge(source, kind, p[k], r - 1)]
  BY DEF EdgesTo
<1>2. DOMAIN p = {1} /\ p[1] = n
  OBVIOUS
<1> HIDE DEF p
<1>3. EdgesTo(source, kind, p, r) = [k \in {1} |-> e]
  BY <1>1, <1>2
<1> HIDE DEF e
<1>4. [k \in {1} |-> e] = <<e>>
  OBVIOUS
<1> QED
  BY <1>3, <1>4, OneEdge DEF p, e

\* The same of a list of one name.
LEMMA AllCallOne ==
  ASSUME NEW source, NEW n, NEW r
  PROVE  AllCall(EdgesTo(source, "Calls", <<n>>, r), n)
<1>1. Edge(source, "Calls", n, r - 1).kind = "Calls" /\ Edge(source, "Calls", n, r - 1).target = n
  BY DEF Edge
<1> QED
  BY <1>1, EdgesToOne DEF AllCall

\* this.m() in the methods and constructors of Java's types, also in those of
\* anonymous classes, whose members have the name of the type around.
LEMMA JavaOwn ==
  ASSUME NEW file, NEW rows, IsFile(rows), Spelled("java", rows), Placed("java", rows),
         NEW r \in CallsOf("java", rows),
         NEW k \in OwnLines("java", rows, JavaIds(file, rows), r)
  PROVE  /\ JavaIds(file, rows)[k].name = JavaCallTarget(rows, r)
         /\ IsMemberName("java", JavaCallTarget(rows, r))
         /\ AllCall(JavaEdges(file, rows, r), JavaCallTarget(rows, r))
<1> DEFINE ids == JavaIds(file, rows)
           L == LinesOfMembers("java", ids)
           t == SelfType("java", rows, L, r)
           s == rows[r].name.path[2]
<1>1. /\ r \in DOMAIN rows /\ r \in 0 .. Len(rows) /\ IsForest(rows)
      /\ rows[r].name.sep = "." /\ Len(rows[r].name.path) = 2
      /\ rows[r].node = "call" /\ CallLine(rows, r) = r
  BY CallRow
<1>1a. DOMAIN rows = 1 .. Len(rows) /\ Len(rows) \in Nat
  BY <1>1 DEF IsForest
<1>2. /\ t # 0 /\ Head(rows[r].name.path) = "this"
      /\ TypeAround("java", rows, k) = t /\ k \in L
      /\ rows[k].name = Simple(s) /\ rows[k].node # "constructor"
  <2>1. SelfWords("java") = {"this"}
    BY DEF SelfWords
  <2> QED
    BY <1>1, <2>1, OwnLineFacts
<1> HIDE DEF ids, L
<1>3. /\ t \in DOMAIN rows /\ rows[t].node \in JavaTypes \cup {"body"}
      /\ \E f \in L : /\ f \in DOMAIN rows /\ f \in Around(rows, r)
                      /\ rows[f].node \in {"method", "constructor"}
                      /\ TypeAround("java", rows, f) = t
  <2>1. SelfTypes("java") = JavaTypes \cup {"body"} /\ SelfFunctions("java") = {"method", "constructor"}
    BY DEF SelfTypes, SelfFunctions
  <2> QED
    BY <1>1, <1>2, <2>1, SelfFacts
<1>4. PICK f \in L : /\ f \in DOMAIN rows /\ f \in Around(rows, r)
                     /\ rows[f].node \in {"method", "constructor"}
                     /\ TypeAround("java", rows, f) = t
  BY <1>3
<1> HIDE DEF t
<1>5. ASSUME NEW j \in L
      PROVE  j \in JavaSymbols(rows) /\ j \in 0 .. Len(rows) /\ rows[j].node \in {"method", "constructor"}
             /\ ids[j].name = JavaName(rows, j)
  <2>1. j \in DOMAIN ids /\ ids[j].kind \in FunctionKinds
    BY DEF LinesOfMembers, L
  <2>2. j \in JavaSymbols(rows) /\ ids[j] = JavaId(file, rows, j)
    BY <2>1 DEF ids, JavaIds
  <2>3. ids[j].kind = JavaKindOf[rows[j].node] /\ ids[j].name = JavaName(rows, j)
    BY <2>2 DEF JavaId, Id
  <2>4. rows[j].node \in DOMAIN JavaKindOf /\ j \in DOMAIN rows
    BY <2>2 DEF JavaSymbols
  <2>5. rows[j].node \in {"method", "constructor"}
    BY <2>1, <2>3, <2>4 DEF JavaKindOf, FunctionKinds
  <2> QED
    BY <1>1a, <2>2, <2>3, <2>4, <2>5
<1> DEFINE u == JavaType(rows, k)
<1>6. ASSUME NEW j \in 0 .. Len(rows), TypeAround("java", rows, j) = t
      PROVE  JavaType(rows, j) = IF rows[t].node \in JavaTypes THEN t ELSE JavaType(rows, t)
  <2>1. t = Innermost(rows, j, JavaTypes \cup {"body"})
    BY <1>6 DEF TypeAround, SelfTypes
  <2>2. JavaTypes \subseteq JavaTypes \cup {"body"}
    OBVIOUS
  <2> QED
    BY <1>1, <1>2, <2>1, <2>2, InnermostOfFewer DEF JavaType
<1>7. u = JavaType(rows, f) /\ u # 0 /\ u \in 0 .. Len(rows) /\ rows[u].node \in JavaTypes
  <2>1. u = IF rows[t].node \in JavaTypes THEN t ELSE JavaType(rows, t)
    BY <1>2, <1>5, <1>6
  <2>2. JavaType(rows, f) = u
    BY <1>4, <1>5, <1>6, <2>1
  <2>3. u # 0
    BY <1>2, <1>3, <2>1 DEF Placed
  <2>4. u \in AroundOfKind(rows, k, JavaTypes) /\ k \in 0 .. Len(rows) /\ u \in 0 .. Len(rows)
    <3>1. k \in 0 .. Len(rows)
      BY <1>2, <1>5
    <3> QED
      BY <1>1, <2>3, <3>1, InnermostFacts DEF JavaType
  <2> QED
    BY <2>2, <2>3, <2>4 DEF AroundOfKind
<1>8. JavaCaller(rows, r) = f /\ f # 0
  <2>1. JavaWalked(rows, f) /\ f \in JavaSymbols(rows)
    BY <1>5 DEF JavaSymbols
  <2>1a. AroundOfKind(rows, f, {"method", "constructor"}) = {}
    BY <2>1 DEF JavaWalked, AroundOfKind
  <2>2. Outermost(rows, r, {"method", "constructor"}) = f /\ f # 0
    BY <1>1, <1>1a, <1>4, <2>1a, OutermostIs
  <2> QED
    BY <2>1, <2>2 DEF JavaCaller
<1> HIDE DEF u
<1>9. JavaCallTarget(rows, r) = Dotted(<<Last(rows[u].name.path), s>>)
  <2>0. u = JavaType(rows, f)
    BY <1>7
  <2>1. JavaCallTarget(rows, r) = qualify_member_call(rows[r].name, rows[u].name)
    BY <1>7, <1>8, <2>0, Zenon DEF JavaCallTarget
  <2> QED
    BY <1>1, <1>2, <2>1, QualifiedCall
<1>10. ids[k].name = Dotted(<<Last(rows[u].name.path), s>>)
  <2>1. rows[k].node = "method" /\ ids[k].name = JavaName(rows, k)
    BY <1>2, <1>5
  <2>2. ids[k].name = Dotted(rows[u].name.path \o rows[k].name.path)
    BY <1>7, <2>1 DEF JavaName, u
  <2>3. rows[k].name.path = <<s>>
    BY <1>2 DEF Simple, Dotted
  <2>4. rows[u].name.path \in Seq(Segments) /\ Len(rows[u].name.path) = 1
    <3>1. rows[u] \in Row /\ u \in DOMAIN rows
      BY <1>1a, <1>7 DEF IsFile
    <3> QED
      BY <1>7, <3>1 DEF Row, Name, Spelled
  <2> QED
    BY <2>2, <2>3, <2>4, OneThenOne
<1>11. IsMemberName("java", JavaCallTarget(rows, r))
  BY <1>9, TwoSegments
<1>12. JavaEdges(file, rows, r) = EdgesTo(JavaId(file, rows, f), "Calls", <<JavaCallTarget(rows, r)>>, r)
  BY <1>1, <1>8 DEF JavaEdges, JavaTypes
<1>13. AllCall(JavaEdges(file, rows, r), JavaCallTarget(rows, r))
  BY <1>12, AllCallOne
<1> QED
  BY <1>9, <1>10, <1>11, <1>13 DEF ids

\* this.m() in the methods and constructors of C#'s types.
LEMMA CSharpOwn ==
  ASSUME NEW file, NEW rows, IsFile(rows), Spelled("csharp", rows), Placed("csharp", rows),
         NEW r \in CallsOf("csharp", rows),
         NEW k \in OwnLines("csharp", rows, CsIds(file, rows), r)
  PROVE  /\ CsIds(file, rows)[k].name = CsCallTarget(rows, r)
         /\ IsMemberName("csharp", CsCallTarget(rows, r))
         /\ AllCall(CsEdges(file, rows, r), CsCallTarget(rows, r))
<1> DEFINE ids == CsIds(file, rows)
           L == LinesOfMembers("csharp", ids)
           t == SelfType("csharp", rows, L, r)
           s == rows[r].name.path[2]
<1>1. /\ r \in DOMAIN rows /\ r \in 0 .. Len(rows) /\ IsForest(rows)
      /\ rows[r].name.sep = "." /\ Len(rows[r].name.path) = 2
      /\ rows[r].node = "call" /\ CallLine(rows, r) = r
  BY CallRow
<1>1a. DOMAIN rows = 1 .. Len(rows) /\ Len(rows) \in Nat
  BY <1>1 DEF IsForest
<1>2. /\ t # 0 /\ Head(rows[r].name.path) = "this"
      /\ TypeAround("csharp", rows, k) = t /\ k \in L
      /\ rows[k].name = Simple(s) /\ rows[k].node # "constructor"
  <2>1. SelfWords("csharp") = {"this"}
    BY DEF SelfWords
  <2> QED
    BY <1>1, <2>1, OwnLineFacts
<1> HIDE DEF ids, L
<1>3. /\ t \in DOMAIN rows /\ rows[t].node \in CsTypes
      /\ \E f \in L : /\ f \in DOMAIN rows /\ f \in Around(rows, r)
                      /\ rows[f].node \in {"method", "constructor"}
                      /\ TypeAround("csharp", rows, f) = t
  <2>1. SelfTypes("csharp") = CsTypes /\ SelfFunctions("csharp") = {"method", "constructor"}
    BY DEF SelfTypes, SelfFunctions
  <2> QED
    BY <1>1, <1>2, <2>1, SelfFacts
<1>4. PICK f \in L : /\ f \in DOMAIN rows /\ f \in Around(rows, r)
                     /\ rows[f].node \in {"method", "constructor"}
                     /\ TypeAround("csharp", rows, f) = t
  BY <1>3
<1> HIDE DEF t
<1>5. ASSUME NEW j \in L
      PROVE  j \in CsSymbols(rows) /\ j \in 0 .. Len(rows) /\ rows[j].node \in {"method", "constructor"}
             /\ ids[j].name = CsName(rows, j)
  <2>1. j \in DOMAIN ids /\ ids[j].kind \in FunctionKinds
    BY DEF LinesOfMembers, L
  <2>2. j \in CsSymbols(rows) /\ ids[j] = CsId(file, rows, j)
    BY <2>1 DEF ids, CsIds
  <2>3. ids[j].kind = CsKindOf[rows[j].node] /\ ids[j].name = CsName(rows, j)
    BY <2>2 DEF CsId, Id
  <2>4. rows[j].node \in DOMAIN CsKindOf /\ j \in DOMAIN rows
    BY <2>2 DEF CsSymbols
  <2>5. rows[j].node \in {"method", "constructor"}
    BY <2>1, <2>3, <2>4 DEF CsKindOf, FunctionKinds
  <2> QED
    BY <1>1a, <2>2, <2>3, <2>4, <2>5
<1> DEFINE u == t
<1>6. ASSUME NEW j \in 0 .. Len(rows), TypeAround("csharp", rows, j) = t
      PROVE  CsClass(rows, j) = t
  <2> DEFINE all == CsTypes \cup CsNamespaces
             m == Innermost(rows, j, all)
  <2>1. t = Innermost(rows, j, CsTypes)
    BY <1>6 DEF TypeAround, SelfTypes
  <2>2. t \in AroundOfKind(rows, j, CsTypes)
    BY <1>1, <1>2, <2>1, InnermostFacts
  <2>3. CsTypes \subseteq all
    OBVIOUS
  <2> HIDE DEF all
  <2>4. m # 0 /\ m \in AroundOfKind(rows, j, all) /\ m \in 0 .. Len(rows)
    <3>1. t \in AroundOfKind(rows, j, all)
      BY <2>2, <2>3 DEF AroundOfKind
    <3> QED
      BY <1>1, <3>1, InnermostFacts
  <2>5. t = IF rows[m].node \in CsTypes THEN m ELSE Innermost(rows, m, CsTypes)
    BY <1>1, <2>1, <2>3, <2>4, InnermostOfFewer
  <2>6. rows[m].node \in CsTypes
    <3> SUFFICES ASSUME rows[m].node \notin CsTypes PROVE FALSE
      OBVIOUS
    <3>1. m \in DOMAIN rows /\ rows[m].node \in CsNamespaces
      BY <1>1a, <2>4 DEF AroundOfKind, all
    <3>2. AroundOfKind(rows, m, CsTypes) = {}
      BY <3>1 DEF Placed
    <3> HIDE DEF m
    <3>3. Innermost(rows, m, CsTypes) = 0
      BY <1>1, <2>4, <3>2, InnermostFacts
    <3> QED
      BY <1>2, <2>5, <3>3
  <2> HIDE DEF m
  <2>7. m = t
    BY <2>5, <2>6
  <2>8. CsScope(rows, j) = t
    BY <2>7 DEF CsScope, m, all
  <2> QED
    BY <1>2, <2>6, <2>7, <2>8 DEF CsClass
<1>7. u = CsClass(rows, f) /\ u = CsClass(rows, k) /\ u # 0 /\ u \in DOMAIN rows /\ rows[u].node \in CsTypes
  BY <1>2, <1>3, <1>4, <1>5, <1>6
<1>8. CsCaller(rows, r) = f /\ f # 0
  <2>1. CsWalked(rows, f) /\ f \in CsSymbols(rows)
    BY <1>5 DEF CsSymbols
  <2>1a. AroundOfKind(rows, f, {"method", "constructor"}) = {}
    BY <2>1 DEF CsWalked, AroundOfKind
  <2>2. Outermost(rows, r, {"method", "constructor"}) = f /\ f # 0
    BY <1>1, <1>1a, <1>4, <2>1a, OutermostIs
  <2> QED
    BY <2>1, <2>2 DEF CsCaller
<1> HIDE DEF u
<1>9. CsCallTarget(rows, r) = Dotted(<<Last(rows[u].name.path), s>>)
  <2>0. u = CsClass(rows, f)
    BY <1>7
  <2>1. CsCallTarget(rows, r) = qualify_member_call(rows[r].name, rows[u].name)
    BY <1>7, <1>8, <2>0, Zenon DEF CsCallTarget
  <2> QED
    BY <1>1, <1>2, <2>1, QualifiedCall
<1>10. ids[k].name = Dotted(<<Last(rows[u].name.path), s>>)
  <2>1. rows[k].node = "method" /\ ids[k].name = CsName(rows, k)
    BY <1>2, <1>5
  <2>2. ids[k].name = Dotted(rows[u].name.path \o rows[k].name.path)
    BY <1>7, <2>1 DEF CsName
  <2>3. rows[k].name.path = <<s>>
    BY <1>2 DEF Simple, Dotted
  <2>4. rows[u].name.path \in Seq(Segments) /\ Len(rows[u].name.path) = 1
    <3>1. rows[u] \in Row /\ u \in DOMAIN rows
      BY <1>1a, <1>7 DEF IsFile
    <3> QED
      BY <1>7, <3>1 DEF Row, Name, Spelled
  <2> QED
    BY <2>2, <2>3, <2>4, OneThenOne
<1>11. IsMemberName("csharp", CsCallTarget(rows, r))
  BY <1>9, TwoSegments
<1>12. CsOnce(file, rows, r) = EdgesTo(CsId(file, rows, f), "Calls", <<CsCallTarget(rows, r)>>, r)
  BY <1>1, <1>8 DEF CsOnce
<1>13. AllCall(CsOnce(file, rows, r), CsCallTarget(rows, r)) /\ IsSeq(CsOnce(file, rows, r))
  BY <1>12, AllCallOne, EdgesToOne
<1>14. AllCall(CsEdges(file, rows, r), CsCallTarget(rows, r))
  BY <1>1, <1>1a, <1>13, Doubled DEF AllCall
<1> QED
  BY <1>9, <1>10, <1>11, <1>14 DEF ids

\* The lengths and the segments of what is made of sequences.
LEMMA JoinedLength ==
  ASSUME NEW A, NEW p \in Seq(A), NEW x \in Seq(A)
  PROVE  Len(p \o x) = Len(p) + Len(x)
OBVIOUS

\* The first element and the rest.
LEMMA HeadAndTail ==
  ASSUME NEW A, NEW p \in Seq(A), p # <<>>
  PROVE  /\ Len(p) \in Nat /\ Len(p) # 0 /\ Head(p) = p[1] /\ p[1] \in A
         /\ \A i \in 1 .. Len(p) - 1 : Tail(p)[i] = p[i + 1]
<1>1. Len(p) \in Nat /\ Len(p) # 0
  OBVIOUS
<1>2. Head(p) = p[1] /\ p[1] \in A
  OBVIOUS
<1>3. ASSUME NEW i \in 1 .. Len(p) - 1 PROVE Tail(p)[i] = p[i + 1]
  OBVIOUS
<1> QED
  BY <1>1, <1>2, <1>3

\* What is left of two segments.
LEMMA TailOfTwo ==
  ASSUME NEW A, NEW p \in Seq(A), Len(p) = 2
  PROVE  Tail(p) = <<p[2]>> /\ Last(p) = p[2]
<1> DEFINE q == Tail(p)
<1>1. q \in Seq(A) /\ Len(q) = 1
  OBVIOUS
<1>2. q[1] = p[2]
  <2>1. 1 \in 1 .. Len(p) - 1
    OBVIOUS
  <2>1a. p # <<>>
    OBVIOUS
  <2>2. Tail(p)[1] = p[1 + 1]
    BY <2>1, <2>1a, HeadAndTail
  <2>3. 1 + 1 = 2
    OBVIOUS
  <2> QED
    BY <2>2, <2>3, Zenon
<1>3. Last(p) = p[2]
  BY DEF Last
<1> HIDE DEF q
<1>4. q = [i \in 1 .. 1 |-> q[i]]
  BY <1>1
<1>5. q = <<q[1]>>
  BY <1>4
<1> QED
  BY <1>2, <1>3, <1>5 DEF q

\* A name that is not empty and a segment are one of two or more.
LEMMA LongerName ==
  ASSUME NEW A, NEW p \in Seq(A), p # <<>>, NEW s, NEW language, language # "python"
  PROVE  IsMemberName(language, Dotted(p \o <<s>>))
<1> DEFINE B == A \cup {s}
           x == <<s>>
           y == p \o x
           m == Len(p)
           n == Len(x)
<1>1. A \subseteq B /\ s \in B
  OBVIOUS
<1> HIDE DEF B
<1>2. p \in Seq(B) /\ x \in Seq(B) /\ n = 1
  BY <1>1
<1> HIDE DEF x
<1>3. Len(y) = m + n /\ m \in Nat /\ n \in Nat /\ m # 0
  <2>1. Len(y) = m + n
    BY <1>2, JoinedLength
  <2>2. m \in Nat /\ n \in Nat /\ m # 0
    BY <1>2, HeadAndTail
  <2> QED
    BY <2>1, <2>2
<1> HIDE DEF y, m, n
<1>4. Len(y) \in Nat /\ Len(y) > 1
  BY <1>2, <1>3
<1>5. Dotted(y).sep = "." /\ Dotted(y).path = y
  BY DEF Dotted
<1>6. IsMemberName(language, Dotted(y))
  BY <1>4, <1>5 DEF IsMemberName
<1> QED
  BY <1>6 DEF y, x

\* The call of a method on the receiver in Go.
LEMMA GoOwn ==
  ASSUME NEW file, NEW rows, IsFile(rows), Spelled("go", rows),
         NEW r \in CallsOf("go", rows), NEW k \in OwnLines("go", rows, GoIds(file, rows), r)
  PROVE  /\ GoIds(file, rows)[k].name = GoCallTarget(rows, r)
         /\ IsMemberName("go", GoCallTarget(rows, r))
         /\ AllCall(GoEdges(file, rows, r), GoCallTarget(rows, r))
<1> DEFINE ids == GoIds(file, rows)
           L == LinesOfMembers("go", ids)
           c == GoCaller(rows, r)
           names == rows[c].bases
           path == rows[r].name.path
           s == path[2]
<1>1. /\ r \in DOMAIN rows /\ r \in 0 .. Len(rows) /\ IsForest(rows)
      /\ rows[r].name.sep = "." /\ Len(rows[r].name.path) = 2
      /\ rows[r].node = "call" /\ CallLine(rows, r) = r
  BY CallRow
<1>1a. DOMAIN rows = 1 .. Len(rows) /\ Len(rows) \in Nat
  BY <1>1 DEF IsForest
<1>2. /\ rows[k].node = "method" /\ OnReceiver(rows, r) /\ Head(rows[k].bases) = Head(names)
      /\ k \in DOMAIN ids /\ rows[k].name = Simple(s)
  <2> DEFINE M == {j \in DOMAIN rows : /\ rows[j].node = "method" /\ OnReceiver(rows, r)
                                       /\ Head(rows[j].bases) = Head(rows[GoCaller(rows, r)].bases)}
  <2>1. MemberLines("go", rows, L, r) = M
    BY DEF MemberLines
  <2>2. k \in MemberLines("go", rows, L, r) /\ k \in L /\ rows[k].name = Simple(s)
    BY Zenon DEF OwnLines
  <2>3. k \in M
    BY <2>1, <2>2, Zenon
  <2>4. k \in DOMAIN ids
    BY <2>2 DEF LinesOfMembers
  <2> QED
    BY <2>2, <2>3, <2>4
<1>3. c # 0 /\ Len(names) = 2 /\ Simple(Head(path)) = names[2]
  BY <1>2 DEF OnReceiver
<1>4. c \in DOMAIN rows
  <2>1. c \in 0 .. Len(rows)
    BY <1>1, OutermostFacts DEF GoCaller
  <2> QED
    BY <1>1a, <1>3, <2>1
<1>5. names \in Seq(Name) /\ path \in Seq(Segments)
  <2>1. rows[c] \in Row /\ rows[r] \in Row
    BY <1>1, <1>4 DEF IsFile
  <2> QED
    BY <2>1 DEF Row, Name
<1> HIDE DEF names, path, c
<1>6. Head(names) = names[1] /\ names[1] \in Name /\ names[1] \in ToSet(names)
  <2>1. 1 \in 1 .. Len(names)
    BY <1>3
  <2>2. names[1] \in ToSet(names)
    BY <1>5, <2>1, RangeFacts
  <2>2a. names # <<>>
    <3>1. Len(names) # 0
      BY <1>3
    <3> QED
      BY <3>1
  <2>3. Head(names) = names[1] /\ names[1] \in Name
    BY <1>5, <2>2a, HeadAndTail
  <2> QED
    BY <2>2, <2>3
<1>7. names[1].path \in Seq(Segments) /\ names[1].path # <<>>
  <2>1. names[1].path # <<>>
    BY <1>4, <1>6 DEF Spelled, names
  <2> QED
    BY <1>6, <2>1 DEF Name
<1>8. Tail(path) = <<s>>
  BY <1>1, <1>5, TailOfTwo DEF path
<1>9. Head(names[2].path) = Head(path)
  <2> DEFINE h == Head(path)
             x == <<h>>
  <2>1. Head(x) = h
    OBVIOUS
  <2>2. names[2].path = x
    BY <1>3 DEF Simple, Dotted
  <2> HIDE DEF x
  <2> QED
    BY <2>1, <2>2
<1>10. GoCallTarget(rows, r) = Dotted(names[1].path \o <<s>>)
  <2>1. Len(path) = 2
    BY <1>1 DEF path
  <2>2. GoCallTarget(rows, r) = Dotted(names[1].path \o Tail(path))
    BY <1>3, <1>9, <2>1 DEF GoCallTarget, names, path, c
  <2> QED
    BY <1>8, <2>2
<1>11. ids[k].name = Dotted(names[1].path \o <<s>>)
  <2>1. k \notin GoMembers(rows)
    BY <1>2 DEF GoMembers
  <2>2. ids[k].name = GoName(rows, k)
    BY <1>2 DEF ids, GoIds, GoId, Id
  <2>3. GoName(rows, k) = Dotted(Head(rows[k].bases).path \o rows[k].name.path)
    BY <1>2, <2>1 DEF GoName
  <2>4. rows[k].name.path = <<s>>
    BY <1>2 DEF Simple, Dotted
  <2> QED
    BY <1>2, <1>6, <2>2, <2>3, <2>4
<1>12. IsMemberName("go", GoCallTarget(rows, r))
  BY <1>7, <1>10, LongerName
<1>13. GoEdges(file, rows, r) = EdgesTo(GoId(file, rows, c), "Calls", <<GoCallTarget(rows, r)>>, r)
  BY <1>1, <1>3 DEF GoEdges, c
<1>14. AllCall(GoEdges(file, rows, r), GoCallTarget(rows, r))
  BY <1>13, AllCallOne
<1> QED
  BY <1>10, <1>11, <1>12, <1>14 DEF ids

\* self.m() in what Swift's types and extensions have.
LEMMA SwiftOwn ==
  ASSUME NEW file, NEW rows, IsFile(rows), Spelled("swift", rows),
         NEW r \in CallsOf("swift", rows), NEW k \in OwnLines("swift", rows, SwIds(file, rows), r)
  PROVE  /\ SwIds(file, rows)[k].name = SwCallTarget(rows, r)
         /\ IsMemberName("swift", SwCallTarget(rows, r))
         /\ AllCall(SwEdges(file, rows, r), SwCallTarget(rows, r))
<1> DEFINE ids == SwIds(file, rows)
           L == LinesOfMembers("swift", ids)
           t == SelfType("swift", rows, L, r)
           path == rows[r].name.path
           s == path[2]
           searched == {"function", "init", "property", "computed", "subscript"}
           v == TypeAround("swift", rows, k)
<1>1. /\ r \in DOMAIN rows /\ r \in 0 .. Len(rows) /\ IsForest(rows)
      /\ rows[r].name.sep = "." /\ Len(rows[r].name.path) = 2
      /\ rows[r].node = "call" /\ CallLine(rows, r) = r
  BY CallRow
<1>1a. DOMAIN rows = 1 .. Len(rows) /\ Len(rows) \in Nat
  BY <1>1 DEF IsForest
<1>2. /\ t # 0 /\ Head(path) = "self" /\ k \in L /\ rows[k].name = Simple(s)
      /\ v # 0 /\ rows[v].name = rows[t].name
  <2>1. SelfWords("swift") = {"self"}
    BY DEF SelfWords
  <2> QED
    BY <1>1, <2>1, OwnLineFacts
<1> HIDE DEF ids, L
<1>3. /\ t \in DOMAIN rows
      /\ \E f \in L : /\ f \in DOMAIN rows /\ f \in Around(rows, r)
                      /\ rows[f].node \in {"function", "init", "computed", "subscript"}
                      /\ TypeAround("swift", rows, f) = t
  <2>1. SelfFunctions("swift") = {"function", "init", "computed", "subscript"}
    BY DEF SelfFunctions
  <2> QED
    BY <1>1, <1>2, <2>1, SelfFacts
<1>4. PICK f \in L : /\ f \in DOMAIN rows /\ f \in Around(rows, r)
                     /\ rows[f].node \in {"function", "init", "computed", "subscript"}
                     /\ TypeAround("swift", rows, f) = t
  BY <1>3
<1> HIDE DEF t
<1>5. \A j : TypeAround("swift", rows, j) = SwType(rows, j)
  BY DEF TypeAround, SelfTypes, SwType
<1>6. ASSUME NEW j \in L
      PROVE  /\ j \in SwSymbols(rows) /\ SwWalked(rows, j)
             /\ rows[j].node \notin SwTypes \cup {"typealias", "extension"}
             /\ ids[j].name = SwName(rows, j)
  <2>1. j \in DOMAIN ids /\ ids[j].kind \in FunctionKinds \cup {"Property"}
    BY DEF LinesOfMembers, L
  <2>2. j \in SwSymbols(rows) /\ ids[j] = SwId(file, rows, j)
    BY <2>1 DEF ids, SwIds
  <2>3. rows[j].node # "extension"
    BY <2>1, <2>2 DEF SwId, Id, FunctionKinds
  <2>4. ids[j].kind = SwKind(rows, j) /\ ids[j].name = SwName(rows, j)
    BY <2>2, <2>3 DEF SwId, Id
  <2>5. rows[j].node \in DOMAIN SwKindOf /\ SwWalked(rows, j)
    BY <2>2 DEF SwSymbols
  <2>6. rows[j].node \notin SwTypes \cup {"typealias"}
    BY <2>1, <2>3, <2>4, <2>5 DEF SwKind, SwKindOf, SwTypes, FunctionKinds
  <2> QED
    BY <2>2, <2>3, <2>4, <2>5, <2>6
<1>7. SwCaller(rows, r) = f /\ f # 0
  <2>1. SwWalked(rows, f) /\ f \in SwSymbols(rows)
    BY <1>6
  <2>2. AroundOfKind(rows, f, searched) = {}
    BY <2>1 DEF SwWalked, AroundOfKind, SwTypes
  <2>3. Outermost(rows, r, searched) = f /\ f # 0
    BY <1>1, <1>1a, <1>4, <2>2, OutermostIs
  <2> QED
    BY <1>4, <2>1, <2>3 DEF SwCaller
<1>8. path \in Seq(Segments) /\ rows[t].name.path \in Seq(Segments) /\ rows[t].name.path # <<>>
  <2>1. rows[r] \in Row /\ rows[t] \in Row /\ rows[t].name.path # <<>>
    BY <1>1, <1>3 DEF IsFile, Spelled
  <2> QED
    BY <2>1 DEF Row, Name
<1>9. SwCallTarget(rows, r) = Dotted(rows[t].name.path \o <<s>>)
  <2>1. SwType(rows, f) = t /\ Last(path) = s
    BY <1>1, <1>4, <1>5, <1>8, TailOfTwo
  <2> DEFINE type == SwType(rows, SwCaller(rows, r))
             own == type # 0 /\ (Len(path) = 1 \/ (Len(path) = 2 /\ Head(path) = "self"))
             gen == /\ rows[SwCaller(rows, r)].node = "function" /\ Len(path) = 2
                    /\ Simple(Head(path)) \in ToSet(rows[SwCaller(rows, r)].bases)
             A == Dotted(rows[type].name.path \o <<Last(path)>>)
             B == Dotted(<<Head(path) \o "<>", Last(path)>>)
  <2>2. SwCallTarget(rows, r) = IF own THEN A ELSE IF gen THEN B ELSE rows[r].name
    BY Zenon DEF SwCallTarget
  <2>3. own /\ type = t
    BY <1>1, <1>2, <1>7, <2>1
  <2> HIDE DEF own, gen, B
  <2>4. SwCallTarget(rows, r) = A
    BY <2>2, <2>3
  <2> QED
    BY <2>1, <2>3, <2>4
<1>10. ids[k].name = Dotted(rows[t].name.path \o <<s>>)
  <2>1. rows[k].name.path = <<s>>
    BY <1>2 DEF Simple, Dotted
  <2>2. SwType(rows, k) = v /\ ids[k].name = SwName(rows, k) /\ rows[k].node \notin SwTypes \cup {"typealias"}
    BY <1>2, <1>5, <1>6
  <2> QED
    BY <1>2, <2>1, <2>2 DEF SwName
<1>11. IsMemberName("swift", SwCallTarget(rows, r))
  BY <1>8, <1>9, LongerName
<1>12. SwEdges(file, rows, r) = EdgesTo(SwId(file, rows, f), "Calls", <<SwCallTarget(rows, r)>>, r)
  BY <1>1, <1>7 DEF SwEdges, SwTypes
<1>13. AllCall(SwEdges(file, rows, r), SwCallTarget(rows, r))
  BY <1>12, AllCallOne
<1> QED
  BY <1>9, <1>10, <1>11, <1>13 DEF ids

\* The members of Ruby's classes: what is around them is known, and of
\* `class << object` only that of the class itself is left.
LEMMA RbMember ==
  ASSUME NEW file, NEW rows, IsFile(rows),
         NEW j \in LinesOfMembers("ruby", RbIds(file, rows)), ~OfOther(rows, j), RbClass(rows, j) # 0
  PROVE  /\ j \in DOMAIN rows /\ j \in RbSymbols(rows)
         /\ RbIds(file, rows)[j].name = RbName(rows, j)
         /\ rows[j].node \notin RbClasses \cup {"require", "routes", "const"}
         /\ RbContainer(rows, j) = <<rows[RbClass(rows, j)].name>>
         /\ rows[j].node = "singleton" => rows[j].bases = <<Simple("self")>>
<1> DEFINE self == Simple("self")
<1>1. IsForest(rows) /\ Len(rows) \in Nat /\ DOMAIN rows = 1 .. Len(rows)
  BY DEF IsFile, IsForest
<1>2. /\ j \in RbSymbols(rows) /\ RbIds(file, rows)[j] = RbId(file, rows, j)
      /\ RbIds(file, rows)[j].kind \in FunctionKinds \cup {"Property"}
  BY DEF LinesOfMembers, RbIds
<1>3. RbIds(file, rows)[j].name = RbName(rows, j) /\ RbIds(file, rows)[j].kind = RbKind(rows, j)
  BY <1>2 DEF RbId, Id
<1>4. /\ j \in DOMAIN rows /\ j # 0
      /\ rows[j].node \in RbClasses \cup RbDefs \cup {"const", "require", "routes", "ivar"} \cup RailsNodes
  BY <1>1, <1>2 DEF RbSymbols, RbDefined, RbVariables, RbAssigned, RailsDefined, RbInEigen, RbDefs
<1>5. rows[j].node \notin RbClasses \cup {"require", "routes", "const"}
  <2>1. rows[j].node \in RbClasses \cup {"require", "routes", "const"} => RbKind(rows, j) = RbKindOf[rows[j].node]
    BY DEF RbKind, RbClasses
  <2> QED
    BY <1>2, <1>3, <2>1 DEF RbKindOf, FunctionKinds, RbClasses
<1>7. RbInEigen(rows, j) => rows[rows[j].up].bases = <<self>>
  <2> SUFFICES ASSUME RbInEigen(rows, j) PROVE rows[rows[j].up].bases = <<self>>
    OBVIOUS
  <2>1. rows[j].up # 0 /\ rows[rows[j].up].node = "eigen"
    BY DEF RbInEigen
  <2>2. rows[j].up \in Around(rows, j)
    BY <1>1, <1>4, AroundStep
  <2> QED
    BY <2>1, <2>2 DEF OfOther
<1>8. RbContainer(rows, j) = <<rows[RbClass(rows, j)].name>>
  <2> DEFINE a == RbClass(rows, j) = 0
             b == RbInEigen(rows, j) /\ rows[rows[j].up].bases # <<self>>
  <2>1. RbContainer(rows, j) = CASE a -> <<>> [] b -> rows[rows[j].up].bases
                                 [] OTHER -> <<rows[RbClass(rows, j)].name>>
    BY Zenon DEF RbContainer
  <2>2. ~a /\ ~b
    BY <1>7
  <2> HIDE DEF a, b
  <2> QED
    BY <2>1, <2>2
<1>9. rows[j].node = "singleton" => rows[j].bases = <<self>>
  BY <1>4 DEF OfOther
<1> QED
  BY <1>2, <1>3, <1>4, <1>5, <1>8, <1>9

\* self.m() in the methods of Ruby's classes and modules.
LEMMA RubyOwn ==
  ASSUME NEW file, NEW rows, IsFile(rows), Spelled("ruby", rows),
         NEW r \in CallsOf("ruby", rows), NEW k \in OwnLines("ruby", rows, RbIds(file, rows), r)
  PROVE  /\ RbIds(file, rows)[k].name = RbCallTarget(rows, r)
         /\ IsMemberName("ruby", RbCallTarget(rows, r))
         /\ AllCall(RbEdges(file, rows, r), RbCallTarget(rows, r))
<1> DEFINE ids == RbIds(file, rows)
           L == LinesOfMembers("ruby", ids)
           t == SelfType("ruby", rows, L, r)
           path == rows[r].name.path
           s == path[2]
<1>1. /\ r \in DOMAIN rows /\ r \in 0 .. Len(rows) /\ IsForest(rows)
      /\ rows[r].name.sep = "." /\ Len(rows[r].name.path) = 2
      /\ rows[r].node = "call" /\ CallLine(rows, r) = r
  BY CallRow
<1>1a. DOMAIN rows = 1 .. Len(rows) /\ Len(rows) \in Nat
  BY <1>1 DEF IsForest
<1>2. /\ t # 0 /\ Head(path) = "self" /\ k \in L /\ rows[k].name = Simple(s)
      /\ TypeAround("ruby", rows, k) = t /\ ~OfOther(rows, k)
  <2>1. SelfWords("ruby") = {"self"}
    BY DEF SelfWords
  <2> QED
    BY <1>1, <2>1, OwnLineFacts
<1> HIDE DEF ids, L
<1>3. /\ t \in DOMAIN rows /\ ~OfOther(rows, r)
      /\ \E f \in L : /\ f \in DOMAIN rows /\ f \in Around(rows, r)
                      /\ rows[f].node \in RbDefs /\ TypeAround("ruby", rows, f) = t
  <2>1. SelfFunctions("ruby") = RbDefs
    BY DEF SelfFunctions
  <2> QED
    BY <1>1, <1>2, <2>1, SelfFacts
<1>4. PICK f \in L : /\ f \in DOMAIN rows /\ f \in Around(rows, r)
                     /\ rows[f].node \in RbDefs /\ TypeAround("ruby", rows, f) = t
  BY <1>3
<1> HIDE DEF t
<1>5. \A j : TypeAround("ruby", rows, j) = RbClass(rows, j)
  BY DEF TypeAround, SelfTypes, RbClass
<1>6. f # 0 /\ f \in 0 .. Len(rows) /\ ~OfOther(rows, f)
  <2>1. Around(rows, f) \subseteq Around(rows, r)
    BY <1>1, <1>4, AroundChain DEF Chain
  <2>2. f # 0 /\ f \in 0 .. Len(rows)
    BY <1>1a, <1>4
  <2> QED
    BY <1>3, <1>4, <2>1, <2>2 DEF OfOther
<1>7. /\ f \in RbSymbols(rows) /\ RbContainer(rows, f) = <<rows[t].name>>
  BY <1>2, <1>4, <1>5, <1>6, RbMember DEF L, ids
<1>8. RbCaller(rows, r) = f
  <2>1. f \in RbDefined(rows)
    BY <1>4, <1>7 DEF RbSymbols, RbVariables, RbAssigned, RbDefs
  <2>2. AroundOfKind(rows, f, RbDefs) = {}
    <3>1. CASE RbWalked(rows, f)
      BY <3>1 DEF RbWalked, AroundOfKind, RbDefs, RbClasses
    <3>2. CASE RbInEigen(rows, f)
      <4>1. rows[rows[f].up].node = "eigen" /\ RbWalked(rows, rows[f].up)
        BY <3>2 DEF RbInEigen
      <4>2. Around(rows, f) = {rows[f].up} \cup Around(rows, rows[f].up)
        BY <1>1, <1>1a, <1>4, AroundStep
      <4> QED
        BY <4>1, <4>2 DEF RbWalked, AroundOfKind, RbDefs, RbClasses
    <3> QED
      BY <1>4, <2>1, <3>1, <3>2 DEF RbDefined, RailsDefined, RbDefs
  <2>3. Outermost(rows, r, RbDefs) = f
    BY <1>1, <1>4, <2>2, OutermostIs
  <2> QED
    BY <2>1, <2>3 DEF RbCaller
<1>9. path \in Seq(Segments) /\ rows[t].name.path \in Seq(Segments) /\ rows[t].name.path # <<>>
  <2>1. rows[r] \in Row /\ rows[t] \in Row /\ rows[t].name.path # <<>>
    BY <1>1, <1>3 DEF IsFile, Spelled
  <2> QED
    BY <2>1 DEF Row, Name
<1>10. RbCallTarget(rows, r) = Dotted(rows[t].name.path \o <<s>>)
  <2>1. Tail(path) = <<s>>
    BY <1>1, <1>9, TailOfTwo
  <2> DEFINE n == rows[t].name
             container == <<n>>
  <2>2. container # <<>> /\ Head(container) = n
    OBVIOUS
  <2> HIDE DEF container, n
  <2>3. RbContainer(rows, RbCaller(rows, r)) = container
    BY <1>7, <1>8 DEF container, n
  <2>4. RbCallTarget(rows, r) = Dotted(Head(container).path \o Tail(path))
    BY <1>1, <1>2, <2>2, <2>3 DEF RbCallTarget
  <2> QED
    BY <2>1, <2>2, <2>4 DEF n
<1>11. ids[k].name = Dotted(rows[t].name.path \o <<s>>)
  <2>1. rows[k].name.path = <<s>>
    BY <1>2 DEF Simple, Dotted
  <2>2. /\ ids[k].name = RbName(rows, k) /\ RbContainer(rows, k) = <<rows[t].name>>
        /\ rows[k].node \notin RbClasses \cup {"require", "routes", "const"}
        /\ rows[k].node = "singleton" => rows[k].bases = <<Simple("self")>>
    <3>1. RbClass(rows, k) = t
      BY <1>2, <1>5
    <3> QED
      BY <1>2, <3>1, RbMember DEF L, ids
  <2> DEFINE n == rows[t].name
             container == <<n>>
             In(names, sep) == IF names = <<>> THEN rows[k].name
                               ELSE [sep |-> sep, path |-> Head(names).path \o rows[k].name.path]
  <2>3. container # <<>> /\ Head(container) = n
    OBVIOUS
  <2>4. RbName(rows, k) = In(container, ".")
    <3> DEFINE c1 == rows[k].node \in RbClasses \cup {"require"}
               c2 == rows[k].node = "routes"
               c3 == rows[k].node = "const"
               c4 == rows[k].node = "singleton"
               v1 == rows[k].name
               v2 == Simple("Routes")
               v3 == In(RbContainer(rows, k), "::")
               own == IF rows[k].bases = <<Simple("self")>> THEN RbContainer(rows, k) ELSE rows[k].bases
               v4 == In(own, ".")
               v5 == In(RbContainer(rows, k), ".")
    <3>1. RbName(rows, k) = CASE c1 -> v1 [] c2 -> v2 [] c3 -> v3 [] c4 -> v4 [] OTHER -> v5
      BY Zenon DEF RbName
    <3>2. ~c1 /\ ~c2 /\ ~c3
      BY <2>2
    <3>3. c4 => own = container
      BY <2>2
    <3>4. v5 = In(container, ".") /\ (c4 => v4 = In(container, "."))
      <4> HIDE DEF In, own, container
      <4>1. RbContainer(rows, k) = container
        BY <2>2 DEF container
      <4> QED
        BY <3>3, <4>1
    <3> HIDE DEF c1, c2, c3, c4, v1, v2, v3, v4, v5, In, container
    <3> QED
      BY <3>1, <3>2, <3>4
  <2> HIDE DEF container, n
  <2>5. In(container, ".") = Dotted(n.path \o rows[k].name.path)
    BY <2>3 DEF Dotted
  <2> QED
    BY <2>1, <2>2, <2>4, <2>5 DEF n
<1>12. IsMemberName("ruby", RbCallTarget(rows, r))
  BY <1>9, <1>10, LongerName
<1>13. RbEdges(file, rows, r) = EdgesTo(RbId(file, rows, f), "Calls", <<RbCallTarget(rows, r)>>, r)
  BY <1>1, <1>6, <1>8 DEF RbEdges, RoutesNodes
<1>14. AllCall(RbEdges(file, rows, r), RbCallTarget(rows, r))
  BY <1>13, AllCallOne
<1> QED
  BY <1>10, <1>11, <1>12, <1>14 DEF ids

\* The steps of the search that lead to members.
PhpOwnOf(rows, k) == [caller |-> k, class |-> rows[k].up]
PhpInArrow(k, u) == [n \in DOMAIN u |-> [caller |-> k, class |-> u[n].class]]
PhpInAnonymous(rows, k, u) == FlattenSeq([n \in DOMAIN u |-> <<PhpOwnOf(rows, k), u[n]>>])
PhpInMember(rows, k) == <<PhpOwnOf(rows, k)>>

\* The steps of the walk, by what it walks into.
LEMMA PhpStepBy ==
  ASSUME NEW rows, NEW k, NEW u
  PROVE  /\ rows[k].node = "arrow" => PhpStep(rows, k, u) = PhpInArrow(k, u)
         /\ rows[k].node = "method" /\ rows[rows[k].up].node = "anonymous" =>
               PhpStep(rows, k, u) = PhpInAnonymous(rows, k, u)
         /\ rows[k].node = "method" /\ rows[k].up \in PhpItems(rows) =>
               PhpStep(rows, k, u) = PhpInMember(rows, k)
         /\ /\ rows[k].node \notin {"arrow", "method"} \cup PhpClasses
            /\ rows[k].node = "function" => k \notin PhpItems(rows)
            => PhpStep(rows, k, u) = u
<1> DEFINE own == [caller |-> k, class |-> rows[k].up]
           o == <<[caller |-> k, class |-> 0]>>
           t == PhpInArrow(k, u)
           v == PhpInAnonymous(rows, k, u)
           w == PhpInMember(rows, k)
           e == <<>>
           F == k \in PhpItems(rows)
           G == rows[k].up \in PhpItems(rows)
           H == rows[rows[k].up].node = "anonymous"
<1>1. PhpStep(rows, k, u) =
        CASE rows[k].node = "arrow" -> t
          [] rows[k].node = "method" /\ H -> v
          [] rows[k].node = "method" /\ G -> w
          [] rows[k].node = "function" /\ F -> o
          [] rows[k].node \in PhpClasses /\ F -> e
          [] OTHER -> u
  BY Zenon DEF PhpStep, PhpOwnOf, PhpInArrow, PhpInAnonymous, PhpInMember
<1>2. ~(G /\ H)
  BY DEF PhpItems, PhpItemOf
<1> HIDE DEF t, v, w, o, e, F, G, H
<1>3. /\ rows[k].node = "arrow" => PhpStep(rows, k, u) = t
      /\ rows[k].node = "method" /\ H => PhpStep(rows, k, u) = v
      /\ rows[k].node = "method" /\ G => PhpStep(rows, k, u) = w
      /\ rows[k].node \notin {"arrow", "method"} \cup PhpClasses /\ (rows[k].node = "function" => ~F)
            => PhpStep(rows, k, u) = u
  BY <1>1, <1>2 DEF PhpClasses
<1> QED
  BY <1>3, Zenon DEF t, v, w, F, G, H

\* A method of an anonymous class is searched for that class.
LEMMA AnonymousHasOwn ==
  ASSUME NEW rows, NEW k, NEW C, NEW u \in Seq(C), u # <<>>, PhpOwnOf(rows, k) \in C
  PROVE  PhpOwnOf(rows, k) \in ToSet(PhpInAnonymous(rows, k, u))
<1> DEFINE own == PhpOwnOf(rows, k)
           v == FlattenSeq([n \in DOMAIN u |-> <<own, u[n]>>])
<1> HIDE DEF own
<1>1. own \in C
  BY DEF own
<1>3. own \in ToSet(v)
  BY <1>1, FlattenPairs
<1> QED
  BY <1>3, Zenon DEF own, v, PhpInAnonymous

\* A search of a line in the method f, for the arrow function c, or f itself,
\* and in the class of f; and whether all of them are in it.
PhpOwnSearch(rows, q, f) ==
    /\ \E c \in Within(rows, q) :
          /\ c \in Nat /\ f <= c /\ (c = f \/ rows[c].node = "arrow")
          /\ \A d \in Within(rows, q) : c < d => rows[d].node # "arrow"
          /\ [caller |-> c, class |-> rows[f].up] \in ToSet(PhpSearches(rows, q))
    /\ rows[f].up \in PhpItems(rows) =>
          \A x \in ToSet(PhpSearches(rows, q)) : x.class = rows[f].up

\* In a method and in no other class or function but arrow functions.
PhpRightIn(rows, q, f) ==
    /\ f \in Within(rows, q)
    /\ \A d \in Within(rows, q) : f < d =>
          /\ rows[d].node \notin {"method"} \cup PhpClasses
          /\ rows[d].node = "function" => d \notin PhpItems(rows)

\* What is in a method is searched for its class, and for it.
LEMMA PhpOwnSearches ==
  ASSUME NEW rows, IsForest(rows), NEW f \in DOMAIN rows, rows[f].node = "method", rows[f].up # 0,
         \/ rows[f].up \in PhpItems(rows)
         \/ rows[f].up \in PhpInline(rows) /\ rows[rows[f].up].node = "anonymous"
  PROVE  \A q \in 0 .. Len(rows) : PhpRightIn(rows, q, f) => PhpOwnSearch(rows, q, f)
<1> DEFINE N == Len(rows)
           U == Seq([caller : 0 .. N, class : 0 .. N])
           t == rows[f].up
           own == [caller |-> f, class |-> t]
           Searches(k) == PhpSearches(rows, k)
           S == {n \in Nat : \A q \in 0 .. n : PhpRightIn(rows, q, f) => PhpOwnSearch(rows, q, f)}
<1>1. N \in Nat /\ DOMAIN rows = 1 .. N /\ \A k \in 1 .. N : rows[k].up \in 0 .. k - 1
  BY DEF IsForest
<1>2. /\ \A k \in 0 .. N : Searches(k) \in U
      /\ \A k \in 1 .. N : Searches(k) = PhpStep(rows, k, Searches(rows[k].up))
  BY PhpSearchesFacts
<1>3. f \in 1 .. N /\ f \in Nat /\ t \in 1 .. N
  BY <1>1
<1> HIDE DEF U
<1>4. ASSUME NEW k \in 1 .. N
      PROVE  /\ rows[k].up \in 0 .. N /\ Searches(rows[k].up) \in U
             /\ Searches(k) = PhpStep(rows, k, Searches(rows[k].up))
             /\ Around(rows, k) = Within(rows, rows[k].up) /\ Within(rows, k) = {k} \cup Within(rows, rows[k].up)
             /\ \A d \in Within(rows, k) : d \in Int /\ d <= k
  <2>1. rows[k].up \in 0 .. N /\ k \in 0 .. N
    BY <1>1
  <2>2. Around(rows, k) = {rows[k].up} \cup Around(rows, rows[k].up)
    BY AroundStep
  <2>3. \A d \in Around(rows, k) : d \in Int /\ d <= k
    BY <1>1, <2>1, AroundChain DEF Chain
  <2> QED
    BY <1>2, <2>1, <2>2, <2>3 DEF Within
<1>5. own \in ToSet(Searches(f)) /\ (t \in PhpItems(rows) => ToSet(Searches(f)) = {own})
  <2> DEFINE u == Searches(t)
  <2>1. Searches(f) = PhpStep(rows, f, u) /\ u \in U
    BY <1>3, <1>4
  <2>2. CASE t \in PhpItems(rows)
    <3>1. PhpStep(rows, f, u) = <<own>>
      BY <2>2, PhpStepBy DEF PhpInMember, PhpOwnOf
    <3> QED
      BY <2>1, <3>1, OneEdge
  <2>3. CASE t \notin PhpItems(rows)
    <3>1. rows[t].node = "anonymous" /\ Searches(rows[t].up) # <<>>
      BY <2>3 DEF PhpInline
    <3>2. u = Searches(rows[t].up)
      <4>1. u = PhpStep(rows, t, Searches(rows[t].up))
        BY <1>3, <1>4
      <4>2. PhpStep(rows, t, Searches(rows[t].up)) = Searches(rows[t].up)
        BY <3>1, PhpStepSame
      <4> QED
        BY <4>1, <4>2
    <3>3. PhpStep(rows, f, u) = PhpInAnonymous(rows, f, u)
      BY <3>1, PhpStepBy
    <3> DEFINE C == [caller : 0 .. N, class : 0 .. N]
    <3>4. PhpOwnOf(rows, f) \in C /\ PhpOwnOf(rows, f) = own
      BY <1>1, <1>3 DEF PhpOwnOf
    <3> HIDE DEF u
    <3>5. u # <<>> /\ u \in Seq(C)
      BY <2>1, <3>1, <3>2 DEF U
    <3> HIDE DEF C, own
    <3>6. PhpOwnOf(rows, f) \in ToSet(PhpInAnonymous(rows, f, u))
      BY <3>4, <3>5, AnonymousHasOwn
    <3> QED
      BY <2>1, <2>3, <3>3, <3>4, <3>6
  <2> QED
    BY <2>2, <2>3
<1>6. ASSUME PhpRightIn(rows, f, f)
      PROVE  PhpOwnSearch(rows, f, f)
  <2>1. \A d \in Within(rows, f) : d \in Int /\ d <= f
    BY <1>3, <1>4
  <2>2. f \in Within(rows, f) /\ f <= f /\ \A d \in Within(rows, f) : ~ f < d
    BY <1>3, <2>1 DEF Within
  <2>3. \A x \in {own} : x.class = t
    OBVIOUS
  <2> QED
    BY <1>3, <1>5, <2>2, <2>3 DEF PhpOwnSearch
<1>7. ASSUME NEW k \in 1 .. N, k # f, PhpRightIn(rows, k, f),
             PhpRightIn(rows, rows[k].up, f) => PhpOwnSearch(rows, rows[k].up, f)
      PROVE  PhpOwnSearch(rows, k, f)
  <2> DEFINE u == rows[k].up
             s == Searches(u)
  <2>1. /\ u \in 0 .. N /\ s \in U /\ Searches(k) = PhpStep(rows, k, s)
        /\ Within(rows, k) = {k} \cup Within(rows, u)
        /\ \A d \in Within(rows, k) : d \in Int /\ d <= k
    BY <1>4
  <2>2. PhpRightIn(rows, u, f) /\ f < k
    BY <1>3, <1>7, <2>1 DEF PhpRightIn
  <2>3. PhpOwnSearch(rows, u, f)
    BY <1>7, <2>2
  <2>4. PICK c \in Within(rows, u) :
           /\ c \in Nat /\ f <= c /\ (c = f \/ rows[c].node = "arrow")
           /\ \A d \in Within(rows, u) : c < d => rows[d].node # "arrow"
           /\ [caller |-> c, class |-> t] \in ToSet(s)
    BY <2>3 DEF PhpOwnSearch
  <2>5. t \in PhpItems(rows) => \A x \in ToSet(s) : x.class = t
    BY <2>3 DEF PhpOwnSearch
  <2>6. k \in Within(rows, k) /\ k \in Nat
    BY DEF Within
  <2>7. CASE rows[k].node = "arrow"
    <3> DEFINE v == [n \in DOMAIN s |-> [caller |-> k, class |-> s[n].class]]
    <3>1. Searches(k) = v
      BY <2>1, <2>7, PhpStepBy DEF PhpInArrow
    <3>2. \A x : x \in ToSet(v) <=> \E n \in DOMAIN s : x = [caller |-> k, class |-> s[n].class]
      BY DEF ToSet
    <3>3. \A x : x \in ToSet(s) <=> \E n \in DOMAIN s : x = s[n]
      BY DEF ToSet
    <3> HIDE DEF v
    <3>4. [caller |-> k, class |-> t] \in ToSet(v)
      <4>1. PICK n \in DOMAIN s : [caller |-> c, class |-> t] = s[n]
        BY <2>4, <3>3
      <4>2. s[n].class = t
        BY <4>1
      <4> QED
        BY <3>2, <4>2
    <3>5. t \in PhpItems(rows) => \A x \in ToSet(v) : x.class = t
      BY <2>5, <3>2, <3>3
    <3>6. \A d \in Within(rows, k) : ~ k < d
      BY <2>1
    <3> QED
      BY <2>2, <2>6, <2>7, <3>1, <3>4, <3>5, <3>6 DEF PhpOwnSearch
  <2>8. CASE rows[k].node # "arrow"
    <3>1. /\ rows[k].node \notin {"arrow", "method"} \cup PhpClasses
          /\ rows[k].node = "function" => k \notin PhpItems(rows)
      BY <1>7, <2>2, <2>6, <2>8 DEF PhpRightIn
    <3>2. Searches(k) = s
      BY <2>1, <3>1, PhpStepBy
    <3>3. c \in Within(rows, k) /\ \A d \in Within(rows, k) : c < d => rows[d].node # "arrow"
      BY <2>1, <2>4, <2>8
    <3> QED
      BY <2>4, <2>5, <3>2, <3>3 DEF PhpOwnSearch
  <2> QED
    BY <2>7, <2>8
<1>8. 0 \in S
  <2>1. ~PhpRightIn(rows, 0, f)
    BY <1>3, AroundStep DEF PhpRightIn, Within
  <2> QED
    BY <2>1
<1>9. ASSUME NEW n \in 0 .. N - 1, n \in S PROVE n + 1 \in S
  <2> DEFINE k == n + 1
  <2>1. k \in 1 .. N /\ rows[k].up \in 0 .. n /\ n \in Nat
    BY <1>1
  <2>2. PhpRightIn(rows, rows[k].up, f) => PhpOwnSearch(rows, rows[k].up, f)
    BY <1>9, <2>1
  <2>3. PhpRightIn(rows, k, f) => PhpOwnSearch(rows, k, f)
    BY <1>6, <1>7, <2>1, <2>2
  <2>4. \A j \in 0 .. n + 1 : j \in 0 .. n \/ j = k
    OBVIOUS
  <2> HIDE DEF k
  <2> QED
    BY <1>9, <2>1, <2>3, <2>4 DEF k
<1> HIDE DEF S
<1>10. \A n \in 0 .. N : n \in S
  BY <1>1, <1>8, <1>9, InductUpTo
<1>11. N \in S
  BY <1>1, <1>10
<1> QED
  BY <1>11 DEF S
\* The members of PHP's classes that are called.
LEMMA PhpMember ==
  ASSUME NEW file, NEW rows, IsFile(rows),
         NEW k \in LinesOfMembers("php", PhpIds(file, rows)), rows[k].node # "arrow",
         TypeAround("php", rows, k) # 0
  PROVE  LET t == rows[k].up
         IN /\ k \in DOMAIN rows /\ k \in PhpSymbols(rows) /\ rows[k].node = "method"
            /\ t = TypeAround("php", rows, k) /\ t # 0
            /\ \/ t \in PhpItems(rows) /\ rows[t].node \in PhpClasses
               \/ t \in PhpInline(rows) /\ rows[t].node = "anonymous"
            /\ PhpIds(file, rows)[k].name = Dotted(PhpOwnName(file, rows, t).path \o rows[k].name.path)
<1> DEFINE t == rows[k].up
           v == TypeAround("php", rows, k)
           T == PhpClasses \cup {"anonymous"}
           id == PhpIds(file, rows)[k]
<1>1. IsForest(rows) /\ Len(rows) \in Nat /\ DOMAIN rows = 1 .. Len(rows)
  BY DEF IsFile, IsForest
<1>2. k \in PhpSymbols(rows) /\ id = PhpId(file, rows, k) /\ id.kind \in FunctionKinds
  BY DEF LinesOfMembers, PhpIds
<1>3. k \in DOMAIN rows /\ k \in 1 .. Len(rows) /\ k # 0 /\ k \in 0 .. Len(rows)
  BY <1>1, <1>2 DEF PhpSymbols, PhpItems, PhpInline, PhpMembers
<1>4. id.name = PhpName(file, rows, k) /\ id.kind = PhpKind(rows, k)
  BY <1>2, <1>3 DEF PhpId, Id
<1>5. v = Innermost(rows, k, T)
  BY DEF TypeAround, SelfTypes
<1> HIDE DEF T
<1>6. v \in AroundOfKind(rows, k, T) /\ \A d \in AroundOfKind(rows, k, T) : d <= v
  BY <1>1, <1>3, <1>5, InnermostFacts, Zenon
<1> HIDE DEF v
<1>7. v \in Around(rows, k) \ {0} /\ rows[v].node \in T /\ v \in 1 .. Len(rows)
  BY <1>1, <1>3, <1>6, Inside
<1>8. k \notin PhpItems(rows)
  BY <1>7 DEF PhpItems, PhpWalked, T, PhpClasses
<1>9. k \notin PhpInline(rows)
  <2> SUFFICES ASSUME k \in PhpInline(rows) PROVE FALSE
    OBVIOUS
  <2>1. rows[k].node = "anonymous" /\ PhpKind(rows, k) = PhpInlineOf[rows[k].node]
    BY DEF PhpInline, PhpInlineOf, PhpKind, PhpItems, PhpItemOf
  <2> QED
    BY <1>2, <1>4, <2>1 DEF PhpInlineOf, FunctionKinds
<1>10. /\ k \in PhpMembers(rows) /\ rows[k].node \in DOMAIN PhpMemberOf /\ t # 0
       /\ \/ t \in PhpItems(rows) /\ rows[t].node \in PhpClasses
          \/ t \in PhpInline(rows) /\ rows[t].node = "anonymous"
  BY <1>2, <1>8, <1>9 DEF PhpSymbols, PhpMembers, PhpIsMember
<1>11. rows[k].node = "method"
  <2>1. rows[k].node # "method" => PhpKind(rows, k) = PhpMemberOf[rows[k].node]
    BY <1>8, <1>9, <1>10 DEF PhpKind, PhpMemberOf
  <2> QED
    BY <1>2, <1>4, <1>10, <2>1 DEF PhpMemberOf, FunctionKinds
<1>12. t = v
  <2>1. Around(rows, k) = {t} \cup Around(rows, t) /\ t \in 0 .. Len(rows) /\ t \in Int
    <3>1. Around(rows, k) = {t} \cup Around(rows, t)
      BY <1>1, <1>3, AroundStep
    <3>2. t \in 0 .. k - 1 /\ k \in 1 .. Len(rows) /\ Len(rows) \in Nat
      BY <1>1, <1>3 DEF IsForest
    <3> HIDE DEF t
    <3>3. t \in 0 .. Len(rows) /\ t \in Int
      BY <3>2
    <3> QED
      BY <3>1, <3>3
  <2>2. t \in AroundOfKind(rows, k, T)
    BY <1>10, <2>1 DEF AroundOfKind, T, PhpClasses
  <2>3. t <= v
    BY <1>6, <2>2
  <2>4. v \in Around(rows, t) => v < t
    BY <1>1, <1>7, <2>1, Inside
  <2> HIDE DEF t
  <2> QED
    BY <1>7, <2>1, <2>3, <2>4
<1>13. id.name = Dotted(PhpOwnName(file, rows, t).path \o rows[k].name.path)
  BY <1>4, <1>10, <1>11 DEF PhpName, Dotted
<1> QED
  BY <1>2, <1>3, <1>10, <1>11, <1>12, <1>13 DEF v

\* Names of PHP's classes, and those that are made up, are not empty.
LEMMA PhpOwnNameFits ==
  ASSUME NEW file, NEW rows, IsFile(rows), Spelled("php", rows), NEW t \in DOMAIN rows,
         rows[t].node \in PhpClasses \cup {"anonymous"}
  PROVE  \E A : PhpOwnName(file, rows, t).path \in Seq(A) /\ PhpOwnName(file, rows, t).path # <<>>
<1> DEFINE ns == PhpNamespace(rows, t)
           InNs(sep) ==
             IF ns = <<>> THEN rows[t].name
             ELSE IF sep = "\\" THEN Simple(Head(ns[1].path) \o "\\" \o Head(rows[t].name.path))
             ELSE [sep |-> sep, path |-> ns[1].path \o rows[t].name.path]
           a1 == Simple("__arrow_" \o file \o "_L" \o ToString(t - 1))
           a2 == Simple("__AnonClass_" \o file \o "_L" \o ToString(t - 1))
           s3 == Head(ns[1].path) \o "\\" \o Head(rows[t].name.path)
           a3 == InNs("\\")
           a4 == InNs("::")
           n == PhpOwnName(file, rows, t)
<1>1. n = CASE rows[t].node = "arrow" -> a1
            [] rows[t].node = "anonymous" -> a2
            [] rows[t].node \in PhpClasses \cup {"function"} -> a3
            [] rows[t].node = "const" -> a4
            [] OTHER -> rows[t].name
  BY Zenon DEF PhpOwnName
<1>2. a3 = rows[t].name \/ a3 = Simple(s3)
  <2> HIDE DEF s3
  <2>1. a3 = IF ns = <<>> THEN rows[t].name ELSE IF "\\" = "\\" THEN Simple(s3)
             ELSE [sep |-> "\\", path |-> ns[1].path \o rows[t].name.path]
    BY Zenon DEF s3
  <2> HIDE DEF ns, InNs
  <2> QED
    BY <2>1
<1>3. \A s : Simple(s).path = <<s>>
  BY DEF Simple, Dotted
<1>4. \A s : <<s>> \in Seq({s}) /\ <<s>> # <<>>
  OBVIOUS
<1>5. rows[t].name.path \in Seq(Segments) /\ rows[t].name.path # <<>>
  <2>1. rows[t] \in Row /\ rows[t].name.path # <<>>
    BY DEF IsFile, Spelled
  <2> QED
    BY <2>1 DEF Row, Name
<1>6. \E s : a2 = Simple(s)
  OBVIOUS
<1> HIDE DEF a1, a2, a3, a4, s3, n
<1>7. n = a2 \/ n = a3
  BY <1>1 DEF PhpClasses
<1>8. n = rows[t].name \/ \E s : n = Simple(s)
  BY <1>2, <1>6, <1>7
<1>9. CASE n = rows[t].name
  BY <1>5, <1>9 DEF n
<1>10. ASSUME NEW s, n = Simple(s) PROVE \E A : n.path \in Seq(A) /\ n.path # <<>>
  <2> DEFINE p == <<s>>
  <2>1. p \in Seq({s}) /\ p # <<>>
    BY <1>4
  <2>2. n.path = p
    BY <1>3, <1>10
  <2> HIDE DEF p
  <2> QED
    BY <2>1, <2>2
<1> QED
  BY <1>8, <1>9, <1>10 DEF n

\* A call in a method of a class is searched for that class as one in it.
LEMMA PhpRight ==
  ASSUME NEW rows, IsForest(rows), PhpPlaced(rows), NEW r \in 1 .. Len(rows),
         NEW f \in Around(rows, r), f # 0, rows[f].node = "method",
         NEW t, t < f, t = TypeAround("php", rows, r), t # 0
  PROVE  PhpRightIn(rows, rows[r].up, f)
<1> DEFINE q == rows[r].up
           T == PhpClasses \cup {"anonymous"}
<1>1. Around(rows, r) = Within(rows, q) /\ r \in 0 .. Len(rows)
  BY AroundStep DEF Within
<1>2. t = Innermost(rows, r, T)
  BY DEF TypeAround, SelfTypes
<1> HIDE DEF T
<1>3. t \in 0 .. Len(rows) /\ \A d \in AroundOfKind(rows, r, T) : d <= t
  BY <1>1, <1>2, InnermostFacts, Zenon
<1>4. f \in 1 .. Len(rows) /\ Len(rows) \in Nat /\ DOMAIN rows = 1 .. Len(rows)
  <2>1. f \in 1 .. Len(rows)
    BY <1>1, Inside
  <2> QED
    BY <2>1 DEF IsForest
<1>5. ASSUME NEW d \in Around(rows, r), f < d
      PROVE  /\ rows[d].node \notin {"method"} \cup PhpClasses
             /\ rows[d].node = "function" => d \notin PhpItems(rows)
  <2>1. d \in Around(rows, r) \ {0} /\ f \in Around(rows, r) \ {0}
    BY <1>4, <1>5
  <2>2. d \in 1 .. Len(rows)
    BY <1>1, <2>1, Inside
  <2>3. f \in AroundOfKind(rows, d, {"method"})
    BY <1>1, <1>5, <2>1, Inside
  <2>4. f \in Around(rows, d) \ {0}
    BY <2>3 DEF AroundOfKind
  <2>5. ASSUME rows[d].node \in PhpClasses PROVE FALSE
    <3>1. d \in AroundOfKind(rows, r, T)
      <4>1. rows[d].node \in T
        BY <2>5 DEF T
      <4> QED
        BY <1>1, <2>1, <4>1, Inside
    <3> QED
      BY <1>3, <1>4, <1>5, <2>2, <3>1
  <2>6. ASSUME rows[d].node = "method" PROVE FALSE
    <3> DEFINE w == rows[d].up
    <3>1. w # 0 /\ rows[w].node \in T
      BY <1>4, <2>2, <2>6 DEF PhpPlaced, T
    <3>2. Around(rows, d) = {w} \cup Around(rows, w)
      BY <2>2, AroundStep
    <3>3. w \in 0 .. d - 1
      BY <2>2 DEF IsForest
    <3> HIDE DEF w
    <3>4. w \in AroundOfKind(rows, r, T)
      <4>1. AroundOfKind(rows, d, T) \subseteq AroundOfKind(rows, r, T)
        BY <1>1, Inside
      <4>2. w \in AroundOfKind(rows, d, T)
        BY <3>1, <3>2 DEF AroundOfKind
      <4> QED
        BY <4>1, <4>2
    <3>5. w <= t
      BY <1>3, <3>4
    <3>6. f \in Around(rows, w) \ {0}
      <4>1. f # w
        BY <3>1 DEF T, PhpClasses
      <4> QED
        BY <2>4, <3>2, <4>1
    <3>7. w \in 0 .. Len(rows)
      BY <1>4, <2>2, <3>3
    <3>8. f < w
      BY <3>6, <3>7, Inside
    <3> QED
      BY <1>3, <1>4, <3>5, <3>7, <3>8
  <2>7. d \notin PhpItems(rows)
    BY <2>4 DEF PhpItems, PhpWalked
  <2> QED
    BY <2>5, <2>6, <2>7
<1> QED
  BY <1>1, <1>5 DEF PhpRightIn

\* $this->m() and the like in PHP's methods.
LEMMA PhpOwn ==
  ASSUME NEW file, NEW rows, IsFile(rows), \A k \in DOMAIN rows : rows[k].node \in PhpNodes,
         PhpPlaced(rows), Spelled("php", rows), NEW r \in CallsOf("php", rows)
  PROVE  OwnFits("php", file, FileSymbols(FileId(file, "php"), PhpIds(file, rows)), rows, r)
<1> DEFINE ids == PhpIds(file, rows)
           X == FileSymbols(FileId(file, "php"), ids)
           L == LinesOfMembers("php", ids)
           t == SelfType("php", rows, L, r)
           path == rows[r].name.path
           s == path[2]
           q == rows[r].up
           own == OwnMembers("php", rows, X, r)
           calls == {e \in ToSet(PhpEdges(file, rows, r)) : e.kind = "Calls"}
           n == Dotted(PhpOwnName(file, rows, t).path \o <<s>>)
<1>1. /\ r \in DOMAIN rows /\ r \in 0 .. Len(rows) /\ IsForest(rows)
      /\ rows[r].name.sep = "." /\ Len(path) = 2
      /\ rows[r].node = "call" /\ CallLine(rows, r) = r
  BY CallRow
<1>2. r \in 1 .. Len(rows) /\ Len(rows) \in Nat /\ DOMAIN rows = 1 .. Len(rows) /\ q \in 0 .. Len(rows)
      /\ Around(rows, r) = Within(rows, q)
  <2>1. r \in 1 .. Len(rows) /\ Len(rows) \in Nat /\ DOMAIN rows = 1 .. Len(rows) /\ q \in 0 .. Len(rows)
    BY <1>1 DEF IsForest
  <2> QED
    BY <1>1, <2>1, AroundStep DEF Within
<1>3. LineEdges("php", file, rows, r) = PhpEdges(file, rows, r)
  BY DEF LineEdges
<1>4. IdsFit(file, rows, ids) /\ FileId(file, "php").kind = "File"
  BY PhpFits DEF FileId, Id
<1> SUFFICES ASSUME own # {}
             PROVE  /\ IsMemberName("php", n) /\ \A i \in own : i.name = n
                    /\ \E e \in calls : e.target = n /\ Deepest(e.source, X, rows, r, CallerKinds("php"))
                    /\ AroundOfKind(rows, r, {"anonymous"}) = {} => \A e \in calls : e.target = n
  BY <1>3, Zenon DEF OwnFits
<1>5. \A i \in own : \E k \in OwnLines("php", rows, ids, r) : i = ids[k]
  BY <1>1, <1>4, OwnByLine
<1>6. PICK k0 \in OwnLines("php", rows, ids, r) : TRUE
  BY <1>5
<1>7. ASSUME NEW k \in OwnLines("php", rows, ids, r)
      PROVE  /\ t # 0 /\ Head(path) \in {"$this", "self", "static"}
             /\ TypeAround("php", rows, k) = t /\ k \in L
             /\ rows[k].node # "arrow" /\ rows[k].name = Simple(s)
  <2>1. SelfWords("php") = {"$this", "self", "static"}
    BY DEF SelfWords
  <2>2. "php" # "go" /\ "php" # "swift"
    OBVIOUS
  <2> QED
    BY <1>1, <2>1, <2>2, OwnLineFacts
<1>8. t # 0 /\ Head(path) \in {"$this", "self", "static"}
  BY <1>6, <1>7
<1> HIDE DEF ids, own, L
<1>9. /\ t = TypeAround("php", rows, r) /\ t \in DOMAIN rows /\ t \in Around(rows, r)
      /\ \E f \in L :
            /\ f \in DOMAIN rows /\ f \in Around(rows, r) /\ t < f
            /\ rows[f].node = "method" /\ TypeAround("php", rows, f) = t
  <2>1. SelfFunctions("php") = {"method"}
    BY DEF SelfFunctions
  <2> QED
    BY <1>1, <1>8, <2>1, SelfFacts
<1>10. PICK f \in L : /\ f \in DOMAIN rows /\ f \in Around(rows, r) /\ t < f
                      /\ rows[f].node = "method" /\ TypeAround("php", rows, f) = t
  BY <1>9
<1> HIDE DEF t
<1>11. /\ rows[f].up = t
       /\ \/ t \in PhpItems(rows) /\ rows[t].node \in PhpClasses
          \/ t \in PhpInline(rows) /\ rows[t].node = "anonymous"
  <2>1. f \in LinesOfMembers("php", PhpIds(file, rows)) /\ rows[f].node # "arrow"
        /\ TypeAround("php", rows, f) # 0
    BY <1>8, <1>10 DEF L, ids
  <2> QED
    BY <1>10, <2>1, PhpMember
<1>12. path \in Seq(Segments) /\ Tail(path) = <<s>>
  <2>1. rows[r] \in Row
    BY <1>1 DEF IsFile
  <2>2. path \in Seq(Segments)
    BY <2>1 DEF Row, Name
  <2> QED
    BY <1>1, <2>2, TailOfTwo
<1>13. ASSUME NEW k \in OwnLines("php", rows, ids, r) PROVE ids[k].name = n
  <2>1. k \in LinesOfMembers("php", PhpIds(file, rows)) /\ rows[k].node # "arrow"
        /\ TypeAround("php", rows, k) # 0 /\ TypeAround("php", rows, k) = t
    BY <1>7, <1>8 DEF L, ids
  <2>2. rows[k].up = t /\ ids[k].name = Dotted(PhpOwnName(file, rows, rows[k].up).path \o rows[k].name.path)
    BY <2>1, PhpMember DEF ids
  <2>3. rows[k].name.path = <<s>>
    BY <1>7 DEF Simple, Dotted
  <2> QED
    BY <2>2, <2>3
<1>14. IsMemberName("php", n)
  <2> DEFINE p == PhpOwnName(file, rows, t).path
  <2>1. rows[t].node \in PhpClasses \cup {"anonymous"} /\ t \in DOMAIN rows
    BY <1>9, <1>11
  <2>2. PICK A : p \in Seq(A) /\ p # <<>>
    BY <2>1, PhpOwnNameFits
  <2> HIDE DEF p
  <2>3. "php" # "python"
    OBVIOUS
  <2>4. IsMemberName("php", Dotted(p \o <<s>>))
    BY <2>2, <2>3, LongerName
  <2> QED
    BY <2>4 DEF p
<1>15. PhpRightIn(rows, q, f)
  <2>1. f # 0
    BY <1>2, <1>10
  <2> QED
    BY <1>1, <1>2, <1>8, <1>9, <1>10, <2>1, PhpRight
<1>16. PhpOwnSearch(rows, q, f)
  BY <1>1, <1>2, <1>8, <1>10, <1>11, <1>15, PhpOwnSearches
<1>17. PICK c \in Within(rows, q) :
          /\ c \in Nat /\ f <= c /\ (c = f \/ rows[c].node = "arrow")
          /\ \A d \in Within(rows, q) : c < d => rows[d].node # "arrow"
          /\ [caller |-> c, class |-> t] \in ToSet(PhpSearches(rows, q))
  BY <1>11, <1>16 DEF PhpOwnSearch
<1> DEFINE searches == PhpSearches(rows, q)
           edges == PhpEdges(file, rows, r)
           edge(x) == Edge(PhpId(file, rows, x.caller), "Calls", PhpCallTarget(file, rows, r, x.class), r - 1)
<1>18. edges = [m \in DOMAIN searches |-> edge(searches[m])]
  <2>1. r \notin PhpItems(rows) /\ ~PhpIsMember(rows, r, {"mixin"}) /\ rows[r].node \notin PhpClasses
    BY <1>1 DEF PhpItems, PhpItemOf, PhpIsMember, PhpClasses
  <2> QED
    BY <1>1, <2>1 DEF PhpEdges
<1>19. \A e : e \in ToSet(edges) <=> \E x \in ToSet(searches) : e = edge(x)
  <2> DEFINE g(m) == edge(searches[m])
  <2>1. \A e : e \in ToSet(edges) <=> \E m \in DOMAIN searches : e = edge(searches[m])
    <3> HIDE DEF edges, searches, edge
    <3> QED
      BY <1>18 DEF ToSet
  <2>2. \A x : x \in ToSet(searches) <=> \E m \in DOMAIN searches : x = searches[m]
    BY DEF ToSet
  <2> HIDE DEF edges, searches, edge
  <2> QED
    BY <2>1, <2>2
<1>20. \A x : PhpCallTarget(file, rows, r, x) = n \/ x # t
  <2>1. PhpCallTarget(file, rows, r, t) = Dotted(PhpOwnName(file, rows, t).path \o Tail(path))
    BY <1>1, <1>8 DEF PhpCallTarget
  <2> QED
    BY <1>12, <2>1
<1> DEFINE own_edge == Edge(PhpId(file, rows, c), "Calls", n, r - 1)
<1>21. own_edge \in calls /\ own_edge.target = n /\ own_edge.source = PhpId(file, rows, c)
  <2> DEFINE x == [caller |-> c, class |-> t]
  <2>1. x.caller = c /\ x.class = t /\ x \in ToSet(searches)
    BY <1>17
  <2>2. edge(x) = own_edge
    BY <1>20, <2>1
  <2>3. own_edge \in ToSet(edges)
    BY <1>19, <2>1, <2>2
  <2>4. own_edge.kind = "Calls" /\ own_edge.target = n /\ own_edge.source = PhpId(file, rows, c)
    BY DEF Edge
  <2> HIDE DEF own_edge, edges
  <2> QED
    BY <2>3, <2>4 DEF edges
<1>22. Deepest(PhpId(file, rows, c), X, rows, r, CallerKinds("php"))
  <2>1. c # 0 /\ c \in Within(rows, r)
    BY <1>2, <1>10, <1>17 DEF Within
  <2>2. c \in PhpSymbols(rows) /\ rows[c].node \in PhpFunctions
    <3> DEFINE x == [caller |-> c, class |-> t]
    <3>1. PhpCallers(rows, q)
      BY <1>1, <1>2, PhpCallersFacts
    <3>2. x.caller = c /\ x \in ToSet(PhpSearches(rows, q))
      BY <1>17
    <3> QED
      BY <2>1, <3>1, <3>2 DEF PhpCallers
  <2>3. DOMAIN ids = PhpSymbols(rows) /\ \A k \in DOMAIN ids : ids[k] = PhpId(file, rows, k)
    BY DEF PhpIds, ids
  <2>4. \A k \in DOMAIN ids : k # 0
    BY <1>2, <1>4 DEF IdsFit
  <2>5. \A k \in DOMAIN ids : ids[k].kind = PhpKind(rows, k)
    BY <2>3, <2>4 DEF PhpId, Id
  <2>6. CallerKinds("php") = PhpCallerKinds
    BY DEF CallerKinds, PhpCallerKinds
  <2>7. \A k \in DOMAIN ids : ids[k].kind \in PhpCallerKinds <=> rows[k].node \in PhpFunctions
    BY <2>3, <2>5, PhpKinds
  <2>8. ASSUME NEW d \in DOMAIN ids \cap Within(rows, r), ids[d].kind \in PhpCallerKinds PROVE d <= c
    <3>1. rows[d].node \in PhpFunctions /\ d \in PhpSymbols(rows)
      BY <2>3, <2>7, <2>8
    <3>2. d # r
      BY <1>1, <3>1 DEF PhpFunctions
    <3>3. d \in Within(rows, q)
      BY <1>2, <2>8, <3>2 DEF Within
    <3>4. d \in Int
      BY <1>2, <1>4, <2>8 DEF IdsFit
    <3>5. SUFFICES ASSUME c < d PROVE FALSE
      BY <1>17, <3>4
    <3>6. f < d /\ f \in Int
      BY <1>2, <1>10, <1>17, <3>4, <3>5
    <3>7. rows[d].node = "function" /\ d \notin PhpItems(rows)
      BY <1>15, <1>17, <3>1, <3>3, <3>5, <3>6 DEF PhpRightIn, PhpFunctions
    <3> QED
      BY <3>1, <3>7 DEF PhpSymbols, PhpInline, PhpMembers, PhpIsMember, PhpInlineOf, PhpMemberOf
  <2>9. c \in DOMAIN ids \cap Within(rows, r) /\ ids[c].kind \in PhpCallerKinds
    BY <2>1, <2>2, <2>3, <2>7
  <2>10. Deepest(ids[c], X, rows, r, PhpCallerKinds)
    BY <1>1, <1>4, <2>8, <2>9, CallerIsDeepest
  <2> QED
    BY <2>3, <2>6, <2>9, <2>10
<1>23. ASSUME AroundOfKind(rows, r, {"anonymous"}) = {}, NEW e \in calls PROVE e.target = n
  <2>1. rows[t].node # "anonymous"
    <3>1. rows[t].node = "anonymous" => t \in AroundOfKind(rows, r, {"anonymous"})
      BY <1>8, <1>9 DEF AroundOfKind
    <3> QED
      BY <1>23, <3>1
  <2>2. t \in PhpItems(rows)
    BY <1>11, <2>1
  <2>3. \A x \in ToSet(searches) : x.class = t
    BY <1>11, <1>16, <2>2 DEF PhpOwnSearch
  <2>4. PICK x \in ToSet(searches) : e = edge(x)
    <3> HIDE DEF edge, edges, searches
    <3> QED
      BY <1>19, <1>23 DEF edges
  <2>5. e.target = PhpCallTarget(file, rows, r, x.class)
    BY <2>4 DEF Edge
  <2> QED
    BY <1>20, <2>3, <2>4, <2>5
<1>24. \A i \in own : i.name = n
  BY <1>5, <1>13 DEF ids, own
<1> HIDE DEF calls, own_edge, n
<1> QED
  BY <1>14, <1>21, <1>22, <1>23, <1>24

-----------------------------------------------------------------------------
(* Files of any language *)

\* The calls of a file are those of its lines.
CallsFit(raws, language, file, rows) ==
    \A r \in DOMAIN rows : \A e : e.kind = "Calls" =>
       (e \in ToSet(raws) /\ e.line = r - 1 <=> e \in ToSet(LineEdges(language, file, rows, r)))

\* What a file gives: symbols X of it with their names, edges that start where
\* they are written, and calls of the types' own members.
Gets(got, X, language, file, rows) ==
    /\ DOMAIN got.nodes = X
    /\ \A i \in X : i.file = file /\ i.kind # "Route" /\ got.nodes[i].name = i.name
    /\ IsSeq(got.raws)
    /\ \A e \in ToSet(got.raws) : \E r \in DOMAIN rows :
          EdgeFits(e, language, file, X, rows, r, CallerKinds(language))
    /\ CallsFit(got.raws, language, file, rows)
    /\ \A r \in CallsOf(language, rows) : OwnFits(language, file, X, rows, r)

\* The same with its routes.
GotFits(got, X, language, file, rows) ==
    /\ DOMAIN got.nodes = X \cup RouteIds(file, rows)
    /\ \A i \in DOMAIN got.nodes : got.nodes[i].name = i.name
    /\ \A i \in X : i.file = file /\ i.kind # "Route"
    /\ IsSeq(got.raws)
    /\ \A e \in ToSet(got.raws) : \E r \in DOMAIN rows :
          \/ EdgeFits(e, language, file, X, rows, r, CallerKinds(language))
          \/ IsHandling(e, file, X, rows, r)
    /\ \A r \in DOMAIN rows : rows[r].node = "route" =>
          \A i \in FunctionsAt(X, rows, r) : \E e \in ToSet(got.raws) :
             e.source = i /\ IsHandling(e, file, X, rows, r)
    /\ CallsFit(got.raws, language, file, rows)
    /\ \A r \in CallsOf(language, rows) : OwnFits(language, file, X, rows, r)

\* A file's edges fit if those of each line do.
LEMMA ExtractedFits ==
  ASSUME NEW file, NEW rows, IsFile(rows), NEW ids, NEW ext, NEW language, NEW parents, NEW edges,
         IdsFit(file, rows, ids), edges = [r \in DOMAIN rows |-> edges[r]],
         \A r \in DOMAIN rows :
            /\ edges[r] = LineEdges(language, file, rows, r)
            /\ EdgesFit(edges[r], language, file, FileSymbols(FileId(file, ext), ids), rows, r,
                        CallerKinds(language)),
         \A r \in CallsOf(language, rows) :
            OwnFits(language, file, FileSymbols(FileId(file, ext), ids), rows, r)
  PROVE  Gets(Extracted(file, ext, language, ids, parents, edges),
              FileSymbols(FileId(file, ext), ids), language, file, rows)
<1> DEFINE got == Extracted(file, ext, language, ids, parents, edges)
           X == FileSymbols(FileId(file, ext), ids)
           N == Len(rows)
           kinds == CallerKinds(language)
<1>1. N \in Nat /\ DOMAIN rows = 1 .. N
  BY DEF IsFile, IsForest
<1>2. /\ DOMAIN got.nodes = X /\ got.raws = FlattenSeq(edges)
      /\ \A i \in X : got.nodes[i].name = IF i.kind = "File" THEN FileId(file, ext).name ELSE i.name
  BY DEF Extracted, FileSymbols, FileNode, FileId, Id
<1>3. FileId(file, ext).kind = "File" /\ FileId(file, ext).file = file
  BY DEF FileId, Id
<1>4. \A i \in X : /\ i.file = file /\ i.kind # "Route"
                   /\ i.kind = "File" => i = FileId(file, ext)
  BY <1>3 DEF FileSymbols, IdsFit
<1> HIDE DEF X, got, kinds
<1>5. edges = [k \in 1 .. N |-> edges[k]] /\ \A k \in 1 .. N : IsSeq(edges[k])
  BY <1>1 DEF EdgesFit
<1>6. /\ IsSeq(FlattenSeq(edges))
      /\ \A x : x \in ToSet(FlattenSeq(edges)) <=> \E k \in 1 .. N : x \in ToSet(edges[k])
  BY <1>1, <1>5, FlattenLines
<1>7. \A k \in 1 .. N : \A e \in ToSet(edges[k]) :
         e.line = k - 1 /\ EdgeFits(e, language, file, X, rows, k, kinds)
  BY <1>1 DEF EdgesFit, EdgeFits, X, kinds
<1>8. \A e \in ToSet(got.raws) : \E r \in DOMAIN rows : EdgeFits(e, language, file, X, rows, r, kinds)
  BY <1>1, <1>2, <1>6, <1>7
<1>9. CallsFit(got.raws, language, file, rows)
  <2> SUFFICES ASSUME NEW r \in 1 .. N, NEW e
               PROVE  e \in ToSet(got.raws) /\ e.line = r - 1 <=> e \in ToSet(edges[r])
    BY <1>1 DEF CallsFit
  <2>1. \A k \in 1 .. N : k - 1 = r - 1 => k = r
    OBVIOUS
  <2> QED
    BY <1>2, <1>6, <1>7, <2>1
<1>10. \A i \in X : i.file = file /\ i.kind # "Route" /\ got.nodes[i].name = i.name
  BY <1>2, <1>4
<1>11. \A r \in CallsOf(language, rows) : OwnFits(language, file, X, rows, r)
  BY DEF X
<1>12. Gets(got, X, language, file, rows)
  BY <1>2, <1>6, <1>8, <1>9, <1>10, <1>11 DEF Gets, kinds
<1> QED
  BY <1>12 DEF X, got

\* With the routes of the languages that have patterns for them.
LEMMA RoutedFits ==
  ASSUME NEW file, NEW rows, IsFile(rows), NEW ids, NEW ext, NEW language, NEW got,
         IdsFit(file, rows, ids), FunctionsApart(rows, ids),
         Gets(got, FileSymbols(FileId(file, ext), ids), language, file, rows)
  PROVE  GotFits(AddRoutes(file, language, rows, got), FileSymbols(FileId(file, ext), ids),
                 language, file, rows)
<1> DEFINE fileId == FileId(file, ext)
           X == FileSymbols(fileId, ids)
           all == AddRoutes(file, language, rows, got)
<1>0. /\ DOMAIN got.nodes = X /\ IsSeq(got.raws)
      /\ \A i \in X : i.file = file /\ i.kind # "Route" /\ got.nodes[i].name = i.name
      /\ \A e \in ToSet(got.raws) : \E r \in DOMAIN rows :
            EdgeFits(e, language, file, X, rows, r, CallerKinds(language))
      /\ CallsFit(got.raws, language, file, rows)
      /\ \A r \in CallsOf(language, rows) : OwnFits(language, file, X, rows, r)
  BY Zenon DEF Gets
<1>1. RoutesAdded(all, got, X, file, rows)
  <2>1. fileId.kind = "File" /\ DOMAIN got.nodes = FileSymbols(fileId, ids) /\ IsSeq(got.raws)
    BY <1>0 DEF FileId, Id
  <2> HIDE DEF fileId
  <2> QED
    BY <2>1, RoutesFit
<1>2. \A i \in DOMAIN all.nodes : all.nodes[i].name = i.name
  <2>1. \A i \in DOMAIN all.nodes :
           all.nodes[i].name = IF i.kind = "Route" THEN i.name ELSE got.nodes[i].name
    BY DEF AddRoutes
  <2>2. \A i \in RouteIds(file, rows) : i.kind = "Route"
    BY DEF RouteIds, RouteId, Id
  <2> HIDE DEF all, X
  <2> QED
    BY <1>0, <1>1, <2>1, <2>2 DEF RoutesAdded
<1> HIDE DEF all, X
<1>3. \A e \in ToSet(all.raws) : \E r \in DOMAIN rows :
          \/ EdgeFits(e, language, file, X, rows, r, CallerKinds(language))
          \/ IsHandling(e, file, X, rows, r)
  BY <1>0, <1>1 DEF RoutesAdded
<1>4. CallsFit(all.raws, language, file, rows)
  <2>1. \A e : e.kind = "Calls" => (e \in ToSet(all.raws) <=> e \in ToSet(got.raws))
    BY <1>1 DEF RoutesAdded, IsHandling
  <2> QED
    BY <1>0, <2>1 DEF CallsFit
<1> QED
  BY <1>0, <1>1, <1>2, <1>3, <1>4, Zenon DEF RoutesAdded, GotFits, X, all, fileId

\* The other languages have no routes.
LEMMA UnroutedFits ==
  ASSUME NEW file, NEW rows, NEW X, NEW language, NEW got,
         \A r \in DOMAIN rows : rows[r].node # "route", Gets(got, X, language, file, rows)
  PROVE  GotFits(got, X, language, file, rows)
<1>1. RouteIds(file, rows) = {}
  BY DEF RouteIds
<1>2. DOMAIN got.nodes = X /\ \A i \in X : got.nodes[i].name = i.name
  BY Zenon DEF Gets
<1> QED
  BY <1>1, <1>2 DEF Gets, GotFits

\* No node of a kind that the language does not have is around another.
LEMMA NoneAround ==
  ASSUME NEW rows, IsForest(rows), NEW kinds, \A k \in DOMAIN rows : rows[k].node \in kinds,
         NEW r \in DOMAIN rows, NEW kind, kind \notin kinds
  PROVE  AroundOfKind(rows, r, {kind}) = {}
<1>1. r \in 0 .. Len(rows) /\ DOMAIN rows = 1 .. Len(rows)
  BY DEF IsForest
<1>2. \A k \in AroundOfKind(rows, r, {kind}) : k \in 1 .. Len(rows) /\ rows[k].node \in {kind}
  BY <1>1, Inside
<1> QED
  BY <1>1, <1>2

\* In Rust no name is a self of the type around.
LEMMA RustHasNoSelf ==
  ASSUME NEW rows, NEW ids, NEW r
  PROVE  OwnLines("rust", rows, ids, r) = {}
<1> DEFINE L == LinesOfMembers("rust", ids)
           A == {j \in DOMAIN rows : /\ rows[j].node = "method" /\ OnReceiver(rows, r)
                                     /\ Head(rows[j].bases) = Head(rows[GoCaller(rows, r)].bases)}
           type == SelfType("rust", rows, L, CallLine(rows, r))
           around(k) == TypeAround("rust", rows, k)
           B == {k \in DOMAIN rows :
                    \/ around(k) = type /\ ~OfOther(rows, k)
                    \/ "rust" = "swift" /\ around(k) # 0 /\ rows[around(k)].name = rows[type].name}
           word == Head(rows[r].name.path) \in SelfWords("rust")
           typed == type # 0
<1>1. MemberLines("rust", rows, L, r) = CASE "rust" = "go" -> A
                                          [] "rust" # "go" /\ word /\ typed -> B
                                          [] OTHER -> {}
  BY Zenon DEF MemberLines
<1>2. ~ word
  BY DEF SelfWords
<1> HIDE DEF A, B, word, typed
<1>3. MemberLines("rust", rows, L, r) = {}
  BY <1>1, <1>2
<1> HIDE DEF L
<1> QED
  BY <1>3, Zenon DEF OwnLines, L

\* What the project assumes of rows.
LEMMA RowsAreFile ==
  ASSUME NEW rows, NEW kinds, IsRows(rows, kinds)
  PROVE  IsFile(rows) /\ \A r \in DOMAIN rows : rows[r].node \in kinds
<1>1. rows \in Seq(Row) /\ Len(rows) \in Nat /\ DOMAIN rows = 1 .. Len(rows)
  BY DEF IsRows
<1>2. \A r \in DOMAIN rows : rows[r] \in Row
  BY <1>1
<1> QED
  BY <1>1, <1>2 DEF IsRows, IsFile, IsForest, InOrder

\* All that ExtractBy and AddRoutes give of a file in Python fits.
LEMMA PythonFileFits ==
  ASSUME NEW file, NEW rows, IsFile(rows), \A r \in DOMAIN rows : rows[r].node \in PyNodes,
         Placed("python", rows), Spelled("python", rows)
  PROVE  GotFits(AddRoutes(file, "python", rows, ExtractPython(file, rows)),
                 FileSymbols(FileId(file, "py"), PyIds(file, rows)), "python", file, rows)
<1> DEFINE ids == PyIds(file, rows)
           X == FileSymbols(FileId(file, "py"), ids)
           parents == [r \in PySymbols(rows) |-> PyParent(file, rows, r)]
           edges == [r \in DOMAIN rows |-> PyEdges(file, rows, r)]
           got == Extracted(file, "py", "python", ids, parents, edges)
<1>1. CallerKinds("python") = FunctionKinds
  BY DEF CallerKinds
<1>3. /\ IdsFit(file, rows, ids) /\ FunctionsApart(rows, ids)
      /\ \A r \in DOMAIN rows :
            EdgesFit(PyEdges(file, rows, r), "python", file, X, rows, r, FunctionKinds)
  BY PythonFits, Zenon
<1>4. /\ edges = [r \in DOMAIN rows |-> edges[r]]
      /\ \A r \in DOMAIN rows : edges[r] = PyEdges(file, rows, r)
  OBVIOUS
<1>5. got = ExtractPython(file, rows)
  BY Zenon DEF ExtractPython, PyIds
<1>6. \A r : LineEdges("python", file, rows, r) = PyEdges(file, rows, r)
  BY DEF LineEdges
<1>7. ASSUME NEW r \in CallsOf("python", rows)
      PROVE  OwnFits("python", file, X, rows, r)
  <2>1. r \in DOMAIN rows /\ IsForest(rows)
    BY CallRow
  <2>2. AroundOfKind(rows, r, {"anonymous"}) = {}
    <3>1. "anonymous" \notin PyNodes
      BY DEF PyNodes
    <3> QED
      BY <2>1, <3>1, NoneAround
  <2>3. FileId(file, "py").kind = "File"
    BY DEF FileId, Id
  <2>4. EdgesFit(PyEdges(file, rows, r), "python", file, X, rows, r, CallerKinds("python"))
    BY <1>1, <1>3, <2>1
  <2> DEFINE n == PyCallTarget(rows, r)
  <2>5. \A k \in OwnLines("python", rows, ids, r) :
           ids[k].name = n /\ IsMemberName("python", n) /\ AllCall(PyEdges(file, rows, r), n)
    BY PythonOwn
  <2> HIDE DEF ids, n
  <2> QED
    BY <1>3, <1>6, <2>1, <2>2, <2>3, <2>4, <2>5, OwnFitsBy, Zenon
<1> HIDE DEF ids, parents, edges
<1>8. \A r \in DOMAIN rows :
         /\ edges[r] = LineEdges("python", file, rows, r)
         /\ EdgesFit(edges[r], "python", file, X, rows, r, CallerKinds("python"))
  BY <1>1, <1>3, <1>4, <1>6
<1>9. Gets(got, X, "python", file, rows)
  BY <1>3, <1>4, <1>7, <1>8, ExtractedFits, Zenon
<1> HIDE DEF got
<1>10. GotFits(AddRoutes(file, "python", rows, got), X, "python", file, rows)
  BY <1>3, <1>9, RoutedFits, Zenon
<1> QED
  BY <1>5, <1>10, Zenon DEF X, ids

\* All that ExtractBy and AddRoutes give of a file in Rust fits.
LEMMA RustFileFits ==
  ASSUME NEW file, NEW rows, IsFile(rows), \A r \in DOMAIN rows : rows[r].node \in RsNodes,
         Placed("rust", rows), Spelled("rust", rows)
  PROVE  GotFits(AddRoutes(file, "rust", rows, ExtractRust(file, rows)),
                 FileSymbols(FileId(file, "rs"), RsIds(file, rows)), "rust", file, rows)
<1> DEFINE ids == RsIds(file, rows)
           X == FileSymbols(FileId(file, "rs"), ids)
           parents == [r \in RsSymbols(rows) |-> RsParent(file, rows, r)]
           edges == [r \in DOMAIN rows |-> RsEdges(file, rows, r)]
           got == Extracted(file, "rs", "rust", ids, parents, edges)
<1>1. CallerKinds("rust") = FunctionKinds
  BY DEF CallerKinds
<1>3. /\ IdsFit(file, rows, ids) /\ FunctionsApart(rows, ids)
      /\ \A r \in DOMAIN rows :
            EdgesFit(RsEdges(file, rows, r), "rust", file, X, rows, r, FunctionKinds)
  BY RustFits, Zenon
<1>4. /\ edges = [r \in DOMAIN rows |-> edges[r]]
      /\ \A r \in DOMAIN rows : edges[r] = RsEdges(file, rows, r)
  OBVIOUS
<1>5. got = ExtractRust(file, rows)
  BY Zenon DEF ExtractRust, RsIds
<1>6. \A r : LineEdges("rust", file, rows, r) = RsEdges(file, rows, r)
  BY DEF LineEdges
<1>7. ASSUME NEW r \in CallsOf("rust", rows)
      PROVE  OwnFits("rust", file, X, rows, r)
  <2>1. r \in DOMAIN rows /\ IsForest(rows)
    BY CallRow
  <2>2. AroundOfKind(rows, r, {"anonymous"}) = {}
    <3>1. "anonymous" \notin RsNodes
      BY DEF RsNodes, RsKindOf
    <3> QED
      BY <2>1, <3>1, NoneAround
  <2>3. FileId(file, "rs").kind = "File"
    BY DEF FileId, Id
  <2>4. EdgesFit(RsEdges(file, rows, r), "rust", file, X, rows, r, CallerKinds("rust"))
    BY <1>1, <1>3, <2>1
  <2>5. OwnLines("rust", rows, ids, r) = {}
    BY RustHasNoSelf
  <2> HIDE DEF ids
  <2> QED
    BY <1>3, <1>6, <2>1, <2>2, <2>3, <2>4, <2>5, OwnFitsBy, Zenon
<1> HIDE DEF ids, parents, edges
<1>8. \A r \in DOMAIN rows :
         /\ edges[r] = LineEdges("rust", file, rows, r)
         /\ EdgesFit(edges[r], "rust", file, X, rows, r, CallerKinds("rust"))
  BY <1>1, <1>3, <1>4, <1>6
<1>9. Gets(got, X, "rust", file, rows)
  BY <1>3, <1>4, <1>7, <1>8, ExtractedFits, Zenon
<1> HIDE DEF got
<1>10. GotFits(AddRoutes(file, "rust", rows, got), X, "rust", file, rows)
  BY <1>3, <1>9, RoutedFits, Zenon
<1> QED
  BY <1>5, <1>10, Zenon DEF X, ids

\* All that ExtractBy and AddRoutes give of a file in JavaScript fits.
LEMMA JavaScriptFileFits ==
  ASSUME NEW file, NEW rows, IsFile(rows), \A r \in DOMAIN rows : rows[r].node \in JsNodes,
         Placed("javascript", rows), Spelled("javascript", rows)
  PROVE  GotFits(AddRoutes(file, "javascript", rows, ExtractJavaScript(file, rows)),
                 FileSymbols(FileId(file, "js"), JsIds(file, rows)), "javascript", file, rows)
<1> DEFINE ids == JsIds(file, rows)
           X == FileSymbols(FileId(file, "js"), ids)
           parents == [r \in JsSymbols(rows) |-> JsParent(file, rows, r)]
           edges == [r \in DOMAIN rows |-> JsEdges(file, rows, r)]
           got == Extracted(file, "js", "javascript", ids, parents, edges)
<1>1. CallerKinds("javascript") = JsCallerKinds
  BY DEF CallerKinds, JsCallerKinds
<1>3. /\ IdsFit(file, rows, ids) /\ FunctionsApart(rows, ids)
      /\ \A r \in DOMAIN rows :
            EdgesFit(JsEdges(file, rows, r), "javascript", file, X, rows, r, JsCallerKinds)
  BY JavaScriptFits, Zenon
<1>4. /\ edges = [r \in DOMAIN rows |-> edges[r]]
      /\ \A r \in DOMAIN rows : edges[r] = JsEdges(file, rows, r)
  OBVIOUS
<1>5. got = ExtractJavaScript(file, rows)
  BY Zenon DEF ExtractJavaScript, JsIds
<1>6. \A r : LineEdges("javascript", file, rows, r) = JsEdges(file, rows, r)
  BY DEF LineEdges
<1>7. ASSUME NEW r \in CallsOf("javascript", rows)
      PROVE  OwnFits("javascript", file, X, rows, r)
  <2>1. r \in DOMAIN rows /\ IsForest(rows)
    BY CallRow
  <2>2. AroundOfKind(rows, r, {"anonymous"}) = {}
    <3>1. "anonymous" \notin JsNodes
      BY DEF JsNodes, JsKindOf
    <3> QED
      BY <2>1, <3>1, NoneAround
  <2>3. FileId(file, "js").kind = "File"
    BY DEF FileId, Id
  <2>4. EdgesFit(JsEdges(file, rows, r), "javascript", file, X, rows, r, CallerKinds("javascript"))
    BY <1>1, <1>3, <2>1
  <2> DEFINE n == JsCallTarget(rows, r)
  <2>5. \A k \in OwnLines("javascript", rows, ids, r) :
           ids[k].name = n /\ IsMemberName("javascript", n) /\ AllCall(JsEdges(file, rows, r), n)
    BY JavaScriptOwn
  <2> HIDE DEF ids, n
  <2> QED
    BY <1>3, <1>6, <2>1, <2>2, <2>3, <2>4, <2>5, OwnFitsBy, Zenon
<1> HIDE DEF ids, parents, edges
<1>8. \A r \in DOMAIN rows :
         /\ edges[r] = LineEdges("javascript", file, rows, r)
         /\ EdgesFit(edges[r], "javascript", file, X, rows, r, CallerKinds("javascript"))
  BY <1>1, <1>3, <1>4, <1>6
<1>9. Gets(got, X, "javascript", file, rows)
  BY <1>3, <1>4, <1>7, <1>8, ExtractedFits, Zenon
<1> HIDE DEF got
<1>10. GotFits(AddRoutes(file, "javascript", rows, got), X, "javascript", file, rows)
  BY <1>3, <1>9, RoutedFits, Zenon
<1> QED
  BY <1>5, <1>10, Zenon DEF X, ids

\* All that ExtractBy and AddRoutes give of a file in Go fits.
LEMMA GoFileFits ==
  ASSUME NEW file, NEW rows, IsFile(rows), \A r \in DOMAIN rows : rows[r].node \in GoNodes,
         Placed("go", rows), Spelled("go", rows)
  PROVE  GotFits(AddRoutes(file, "go", rows, ExtractGo(file, rows)),
                 FileSymbols(FileId(file, "go"), GoIds(file, rows)), "go", file, rows)
<1> DEFINE ids == GoIds(file, rows)
           X == FileSymbols(FileId(file, "go"), ids)
           parents == [r \in GoSymbols(rows) |-> GoParent(file, rows, r)]
           edges == [r \in DOMAIN rows |-> GoEdges(file, rows, r)]
           got == Extracted(file, "go", "go", ids, parents, edges)
<1>1. CallerKinds("go") = FunctionKinds
  BY DEF CallerKinds
<1>2. \A k \in DOMAIN rows : rows[k].node \in {"function", "method"} => rows[k].up = 0
  BY DEF Placed
<1>3. /\ IdsFit(file, rows, ids) /\ FunctionsApart(rows, ids)
      /\ \A r \in DOMAIN rows :
            EdgesFit(GoEdges(file, rows, r), "go", file, X, rows, r, FunctionKinds)
  BY <1>2, GoFits, Zenon
<1>4. /\ edges = [r \in DOMAIN rows |-> edges[r]]
      /\ \A r \in DOMAIN rows : edges[r] = GoEdges(file, rows, r)
  OBVIOUS
<1>5. got = ExtractGo(file, rows)
  BY Zenon DEF ExtractGo, GoIds
<1>6. \A r : LineEdges("go", file, rows, r) = GoEdges(file, rows, r)
  BY DEF LineEdges
<1>7. ASSUME NEW r \in CallsOf("go", rows)
      PROVE  OwnFits("go", file, X, rows, r)
  <2>1. r \in DOMAIN rows /\ IsForest(rows)
    BY CallRow
  <2>2. AroundOfKind(rows, r, {"anonymous"}) = {}
    <3>1. "anonymous" \notin GoNodes
      BY DEF GoNodes, GoKindOf
    <3> QED
      BY <2>1, <3>1, NoneAround
  <2>3. FileId(file, "go").kind = "File"
    BY DEF FileId, Id
  <2>4. EdgesFit(GoEdges(file, rows, r), "go", file, X, rows, r, CallerKinds("go"))
    BY <1>1, <1>3, <2>1
  <2> DEFINE n == GoCallTarget(rows, r)
  <2>5. \A k \in OwnLines("go", rows, ids, r) :
           ids[k].name = n /\ IsMemberName("go", n) /\ AllCall(GoEdges(file, rows, r), n)
    BY GoOwn
  <2> HIDE DEF ids, n
  <2> QED
    BY <1>3, <1>6, <2>1, <2>2, <2>3, <2>4, <2>5, OwnFitsBy, Zenon
<1> HIDE DEF ids, parents, edges
<1>8. \A r \in DOMAIN rows :
         /\ edges[r] = LineEdges("go", file, rows, r)
         /\ EdgesFit(edges[r], "go", file, X, rows, r, CallerKinds("go"))
  BY <1>1, <1>3, <1>4, <1>6
<1>9. Gets(got, X, "go", file, rows)
  BY <1>3, <1>4, <1>7, <1>8, ExtractedFits, Zenon
<1> HIDE DEF got
<1>10. GotFits(AddRoutes(file, "go", rows, got), X, "go", file, rows)
  BY <1>3, <1>9, RoutedFits, Zenon
<1> QED
  BY <1>5, <1>10, Zenon DEF X, ids

\* All that ExtractBy and AddRoutes give of a file in Java fits.
LEMMA JavaFileFits ==
  ASSUME NEW file, NEW rows, IsFile(rows), \A r \in DOMAIN rows : rows[r].node \in JavaNodes,
         Placed("java", rows), Spelled("java", rows)
  PROVE  GotFits(AddRoutes(file, "java", rows, ExtractJava(file, rows)),
                 FileSymbols(FileId(file, "java"), JavaIds(file, rows)), "java", file, rows)
<1> DEFINE ids == JavaIds(file, rows)
           X == FileSymbols(FileId(file, "java"), ids)
           parents == [r \in JavaSymbols(rows) |-> JavaParent(file, rows, r)]
           edges == [r \in DOMAIN rows |-> JavaEdges(file, rows, r)]
           got == Extracted(file, "java", "java", ids, parents, edges)
<1>1. CallerKinds("java") = FunctionKinds
  BY DEF CallerKinds
<1>3. /\ IdsFit(file, rows, ids) /\ FunctionsApart(rows, ids)
      /\ \A r \in DOMAIN rows :
            EdgesFit(JavaEdges(file, rows, r), "java", file, X, rows, r, FunctionKinds)
  BY JavaFits, Zenon
<1>4. /\ edges = [r \in DOMAIN rows |-> edges[r]]
      /\ \A r \in DOMAIN rows : edges[r] = JavaEdges(file, rows, r)
  OBVIOUS
<1>5. got = ExtractJava(file, rows)
  BY Zenon DEF ExtractJava, JavaIds
<1>6. \A r : LineEdges("java", file, rows, r) = JavaEdges(file, rows, r)
  BY DEF LineEdges
<1>7. ASSUME NEW r \in CallsOf("java", rows)
      PROVE  OwnFits("java", file, X, rows, r)
  <2>1. r \in DOMAIN rows /\ IsForest(rows)
    BY CallRow
  <2>2. AroundOfKind(rows, r, {"anonymous"}) = {}
    <3>1. "anonymous" \notin JavaNodes
      BY DEF JavaNodes, JavaKindOf
    <3> QED
      BY <2>1, <3>1, NoneAround
  <2>3. FileId(file, "java").kind = "File"
    BY DEF FileId, Id
  <2>4. EdgesFit(JavaEdges(file, rows, r), "java", file, X, rows, r, CallerKinds("java"))
    BY <1>1, <1>3, <2>1
  <2> DEFINE n == JavaCallTarget(rows, r)
  <2>5. \A k \in OwnLines("java", rows, ids, r) :
           ids[k].name = n /\ IsMemberName("java", n) /\ AllCall(JavaEdges(file, rows, r), n)
    BY JavaOwn
  <2> HIDE DEF ids, n
  <2> QED
    BY <1>3, <1>6, <2>1, <2>2, <2>3, <2>4, <2>5, OwnFitsBy, Zenon
<1> HIDE DEF ids, parents, edges
<1>8. \A r \in DOMAIN rows :
         /\ edges[r] = LineEdges("java", file, rows, r)
         /\ EdgesFit(edges[r], "java", file, X, rows, r, CallerKinds("java"))
  BY <1>1, <1>3, <1>4, <1>6
<1>9. Gets(got, X, "java", file, rows)
  BY <1>3, <1>4, <1>7, <1>8, ExtractedFits, Zenon
<1> HIDE DEF got
<1>10. GotFits(AddRoutes(file, "java", rows, got), X, "java", file, rows)
  BY <1>3, <1>9, RoutedFits, Zenon
<1> QED
  BY <1>5, <1>10, Zenon DEF X, ids

\* All that ExtractBy and AddRoutes give of a file in C# fits.
LEMMA CSharpFileFits ==
  ASSUME NEW file, NEW rows, IsFile(rows), \A r \in DOMAIN rows : rows[r].node \in CsNodes,
         Placed("csharp", rows), Spelled("csharp", rows)
  PROVE  GotFits(AddRoutes(file, "csharp", rows, ExtractCSharp(file, rows)),
                 FileSymbols(FileId(file, "cs"), CsIds(file, rows)), "csharp", file, rows)
<1> DEFINE ids == CsIds(file, rows)
           X == FileSymbols(FileId(file, "cs"), ids)
           parents == [r \in CsSymbols(rows) |-> CsParent(file, rows, r)]
           edges == [r \in DOMAIN rows |-> CsEdges(file, rows, r)]
           got == Extracted(file, "cs", "csharp", ids, parents, edges)
<1>1. CallerKinds("csharp") = FunctionKinds
  BY DEF CallerKinds
<1>3. /\ IdsFit(file, rows, ids) /\ FunctionsApart(rows, ids)
      /\ \A r \in DOMAIN rows :
            EdgesFit(CsEdges(file, rows, r), "csharp", file, X, rows, r, FunctionKinds)
  BY CSharpFits, Zenon
<1>4. /\ edges = [r \in DOMAIN rows |-> edges[r]]
      /\ \A r \in DOMAIN rows : edges[r] = CsEdges(file, rows, r)
  OBVIOUS
<1>5. got = ExtractCSharp(file, rows)
  BY Zenon DEF ExtractCSharp, CsIds
<1>6. \A r : LineEdges("csharp", file, rows, r) = CsEdges(file, rows, r)
  BY DEF LineEdges
<1>7. ASSUME NEW r \in CallsOf("csharp", rows)
      PROVE  OwnFits("csharp", file, X, rows, r)
  <2>1. r \in DOMAIN rows /\ IsForest(rows)
    BY CallRow
  <2>2. AroundOfKind(rows, r, {"anonymous"}) = {}
    <3>1. "anonymous" \notin CsNodes
      BY DEF CsNodes, CsKindOf
    <3> QED
      BY <2>1, <3>1, NoneAround
  <2>3. FileId(file, "cs").kind = "File"
    BY DEF FileId, Id
  <2>4. EdgesFit(CsEdges(file, rows, r), "csharp", file, X, rows, r, CallerKinds("csharp"))
    BY <1>1, <1>3, <2>1
  <2> DEFINE n == CsCallTarget(rows, r)
  <2>5. \A k \in OwnLines("csharp", rows, ids, r) :
           ids[k].name = n /\ IsMemberName("csharp", n) /\ AllCall(CsEdges(file, rows, r), n)
    BY CSharpOwn
  <2> HIDE DEF ids, n
  <2> QED
    BY <1>3, <1>6, <2>1, <2>2, <2>3, <2>4, <2>5, OwnFitsBy, Zenon
<1> HIDE DEF ids, parents, edges
<1>8. \A r \in DOMAIN rows :
         /\ edges[r] = LineEdges("csharp", file, rows, r)
         /\ EdgesFit(edges[r], "csharp", file, X, rows, r, CallerKinds("csharp"))
  BY <1>1, <1>3, <1>4, <1>6
<1>9. Gets(got, X, "csharp", file, rows)
  BY <1>3, <1>4, <1>7, <1>8, ExtractedFits, Zenon
<1> HIDE DEF got
<1>10. GotFits(AddRoutes(file, "csharp", rows, got), X, "csharp", file, rows)
  BY <1>3, <1>9, RoutedFits, Zenon
<1> QED
  BY <1>5, <1>10, Zenon DEF X, ids

\* All that ExtractBy gives of a file in PHP fits.
LEMMA PhpFileFits ==
  ASSUME NEW file, NEW rows, IsFile(rows), \A r \in DOMAIN rows : rows[r].node \in PhpNodes,
         Placed("php", rows), Spelled("php", rows)
  PROVE  GotFits(ExtractPhp(file, rows),
                 FileSymbols(FileId(file, "php"), PhpIds(file, rows)), "php", file, rows)
<1> DEFINE ids == PhpIds(file, rows)
           X == FileSymbols(FileId(file, "php"), ids)
           parents == [r \in PhpSymbols(rows) |-> PhpParent(file, rows, r)]
           edges == [r \in DOMAIN rows |-> PhpEdges(file, rows, r)]
           got == Extracted(file, "php", "php", ids, parents, edges)
<1>1. CallerKinds("php") = PhpCallerKinds
  BY DEF CallerKinds, PhpCallerKinds
<1>2. PhpPlaced(rows)
  BY DEF Placed, PhpPlaced
<1>3. /\ IdsFit(file, rows, ids)
      /\ \A r \in DOMAIN rows :
            EdgesFit(PhpEdges(file, rows, r), "php", file, X, rows, r, PhpCallerKinds)
  BY <1>2, PhpFits, Zenon
<1>4. /\ edges = [r \in DOMAIN rows |-> edges[r]]
      /\ \A r \in DOMAIN rows : edges[r] = PhpEdges(file, rows, r)
  OBVIOUS
<1>5. got = ExtractPhp(file, rows)
  BY Zenon DEF ExtractPhp, PhpIds
<1>6. \A r : LineEdges("php", file, rows, r) = PhpEdges(file, rows, r)
  BY DEF LineEdges
<1>7. \A r \in CallsOf("php", rows) : OwnFits("php", file, X, rows, r)
  BY <1>2, PhpOwn
<1> HIDE DEF ids, parents, edges
<1>8. \A r \in DOMAIN rows :
         /\ edges[r] = LineEdges("php", file, rows, r)
         /\ EdgesFit(edges[r], "php", file, X, rows, r, CallerKinds("php"))
  BY <1>1, <1>3, <1>4, <1>6
<1>9. Gets(got, X, "php", file, rows)
  BY <1>3, <1>4, <1>7, <1>8, ExtractedFits, Zenon
<1> HIDE DEF got
<1>10. \A r \in DOMAIN rows : rows[r].node # "route"
  BY DEF PhpNodes, PhpItemOf, PhpMemberOf, PhpInlineOf
<1> HIDE DEF X
<1>11. GotFits(got, X, "php", file, rows)
  BY <1>9, <1>10, UnroutedFits, Zenon
<1> QED
  BY <1>5, <1>11, Zenon DEF X, ids

\* All that ExtractBy gives of a file in Ruby fits.
LEMMA RubyFileFits ==
  ASSUME NEW file, NEW rows, IsFile(rows), \A r \in DOMAIN rows : rows[r].node \in RbNodes,
         Placed("ruby", rows), Spelled("ruby", rows)
  PROVE  GotFits(ExtractRuby(file, rows),
                 FileSymbols(FileId(file, "rb"), RbIds(file, rows)), "ruby", file, rows)
<1> DEFINE ids == RbIds(file, rows)
           X == FileSymbols(FileId(file, "rb"), ids)
           parents == [r \in RbSymbols(rows) |-> RbParent(file, rows, r)]
           edges == [r \in DOMAIN rows |-> RbEdges(file, rows, r)]
           got == Extracted(file, "rb", "ruby", ids, parents, edges)
<1>1. CallerKinds("ruby") = RbCallerKinds
  BY DEF CallerKinds, RbCallerKinds
<1>3. /\ IdsFit(file, rows, ids)
      /\ \A r \in DOMAIN rows :
            EdgesFit(RbEdges(file, rows, r), "ruby", file, X, rows, r, RbCallerKinds)
  BY RubyFits, Zenon
<1>4. /\ edges = [r \in DOMAIN rows |-> edges[r]]
      /\ \A r \in DOMAIN rows : edges[r] = RbEdges(file, rows, r)
  OBVIOUS
<1>5. got = ExtractRuby(file, rows)
  BY Zenon DEF ExtractRuby, RbIds
<1>6. \A r : LineEdges("ruby", file, rows, r) = RbEdges(file, rows, r)
  BY DEF LineEdges
<1>7. ASSUME NEW r \in CallsOf("ruby", rows)
      PROVE  OwnFits("ruby", file, X, rows, r)
  <2>1. r \in DOMAIN rows /\ IsForest(rows)
    BY CallRow
  <2>2. AroundOfKind(rows, r, {"anonymous"}) = {}
    <3>1. "anonymous" \notin RbNodes
      BY DEF RbNodes, RbKindOf, RoutesNodes
    <3> QED
      BY <2>1, <3>1, NoneAround
  <2>3. FileId(file, "rb").kind = "File"
    BY DEF FileId, Id
  <2>4. EdgesFit(RbEdges(file, rows, r), "ruby", file, X, rows, r, CallerKinds("ruby"))
    BY <1>1, <1>3, <2>1
  <2> DEFINE n == RbCallTarget(rows, r)
  <2>5. \A k \in OwnLines("ruby", rows, ids, r) :
           ids[k].name = n /\ IsMemberName("ruby", n) /\ AllCall(RbEdges(file, rows, r), n)
    BY RubyOwn
  <2> HIDE DEF ids, n
  <2> QED
    BY <1>3, <1>6, <2>1, <2>2, <2>3, <2>4, <2>5, OwnFitsBy, Zenon
<1> HIDE DEF ids, parents, edges
<1>8. \A r \in DOMAIN rows :
         /\ edges[r] = LineEdges("ruby", file, rows, r)
         /\ EdgesFit(edges[r], "ruby", file, X, rows, r, CallerKinds("ruby"))
  BY <1>1, <1>3, <1>4, <1>6
<1>9. Gets(got, X, "ruby", file, rows)
  BY <1>3, <1>4, <1>7, <1>8, ExtractedFits, Zenon
<1> HIDE DEF got
<1>10. \A r \in DOMAIN rows : rows[r].node # "route"
  BY DEF RbNodes, RbKindOf, RoutesNodes
<1> HIDE DEF X
<1>11. GotFits(got, X, "ruby", file, rows)
  BY <1>9, <1>10, UnroutedFits, Zenon
<1> QED
  BY <1>5, <1>11, Zenon DEF X, ids

\* All that ExtractBy gives of a file in Swift fits.
LEMMA SwiftFileFits ==
  ASSUME NEW file, NEW rows, IsFile(rows), \A r \in DOMAIN rows : rows[r].node \in SwNodes,
         Placed("swift", rows), Spelled("swift", rows)
  PROVE  GotFits(ExtractSwift(file, rows),
                 FileSymbols(FileId(file, "swift"), SwIds(file, rows)), "swift", file, rows)
<1> DEFINE ids == SwIds(file, rows)
           X == FileSymbols(FileId(file, "swift"), ids)
           parents == [r \in SwSymbols(rows) |-> SwParent(file, rows, r)]
           edges == [r \in DOMAIN rows |-> SwEdges(file, rows, r)]
           got == Extracted(file, "swift", "swift", ids, parents, edges)
<1>1. CallerKinds("swift") = SwCallerKinds
  BY DEF CallerKinds, SwCallerKinds
<1>3. /\ IdsFit(file, rows, ids)
      /\ \A r \in DOMAIN rows :
            EdgesFit(SwEdges(file, rows, r), "swift", file, X, rows, r, SwCallerKinds)
  BY SwiftFits, Zenon
<1>4. /\ edges = [r \in DOMAIN rows |-> edges[r]]
      /\ \A r \in DOMAIN rows : edges[r] = SwEdges(file, rows, r)
  OBVIOUS
<1>5. got = ExtractSwift(file, rows)
  BY Zenon DEF ExtractSwift, SwIds
<1>6. \A r : LineEdges("swift", file, rows, r) = SwEdges(file, rows, r)
  BY DEF LineEdges
<1>7. ASSUME NEW r \in CallsOf("swift", rows)
      PROVE  OwnFits("swift", file, X, rows, r)
  <2>1. r \in DOMAIN rows /\ IsForest(rows)
    BY CallRow
  <2>2. AroundOfKind(rows, r, {"anonymous"}) = {}
    <3>1. "anonymous" \notin SwNodes
      BY DEF SwNodes, SwKindOf
    <3> QED
      BY <2>1, <3>1, NoneAround
  <2>3. FileId(file, "swift").kind = "File"
    BY DEF FileId, Id
  <2>4. EdgesFit(SwEdges(file, rows, r), "swift", file, X, rows, r, CallerKinds("swift"))
    BY <1>1, <1>3, <2>1
  <2> DEFINE n == SwCallTarget(rows, r)
  <2>5. \A k \in OwnLines("swift", rows, ids, r) :
           ids[k].name = n /\ IsMemberName("swift", n) /\ AllCall(SwEdges(file, rows, r), n)
    BY SwiftOwn
  <2> HIDE DEF ids, n
  <2> QED
    BY <1>3, <1>6, <2>1, <2>2, <2>3, <2>4, <2>5, OwnFitsBy, Zenon
<1> HIDE DEF ids, parents, edges
<1>8. \A r \in DOMAIN rows :
         /\ edges[r] = LineEdges("swift", file, rows, r)
         /\ EdgesFit(edges[r], "swift", file, X, rows, r, CallerKinds("swift"))
  BY <1>1, <1>3, <1>4, <1>6
<1>9. Gets(got, X, "swift", file, rows)
  BY <1>3, <1>4, <1>7, <1>8, ExtractedFits, Zenon
<1> HIDE DEF got
<1>10. \A r \in DOMAIN rows : rows[r].node # "route"
  BY DEF SwNodes, SwKindOf
<1> HIDE DEF X
<1>11. GotFits(got, X, "swift", file, rows)
  BY <1>9, <1>10, UnroutedFits, Zenon
<1> QED
  BY <1>5, <1>11, Zenon DEF X, ids

\* Whatever the language is.
LEMMA ExtractFits ==
  ASSUME NEW file, NEW content, content.language \in DOMAIN NodesOf,
         IsRows(content.rows, NodesOf[content.language]), Placed(content.language, content.rows),
         Spelled(content.language, content.rows)
  PROVE  \E X : GotFits(Extract(file, content), X, content.language, file, content.rows)
<1> DEFINE language == content.language
           rows == content.rows
           got == ExtractBy(file, language, rows)
<1>1. IsFile(rows) /\ \A r \in DOMAIN rows : rows[r].node \in NodesOf[language]
  BY RowsAreFile, Zenon
<1>2. CASE language = "python"
  <2>1. NodesOf[language] = PyNodes
    BY <1>2 DEF NodesOf
  <2>2. GotFits(AddRoutes(file, "python", rows, ExtractPython(file, rows)),
                FileSymbols(FileId(file, "py"), PyIds(file, rows)), language, file, rows)
    BY <1>1, <1>2, <2>1, PythonFileFits, Zenon
  <2>3. Extract(file, content) = AddRoutes(file, "python", rows, ExtractPython(file, rows))
    BY <1>2 DEF Extract, ExtractBy
  <2> QED
    BY <2>2, <2>3, Zenon
<1>3. CASE language = "rust"
  <2>1. NodesOf[language] = RsNodes
    BY <1>3 DEF NodesOf
  <2>2. GotFits(AddRoutes(file, "rust", rows, ExtractRust(file, rows)),
                FileSymbols(FileId(file, "rs"), RsIds(file, rows)), language, file, rows)
    BY <1>1, <1>3, <2>1, RustFileFits, Zenon
  <2>3. Extract(file, content) = AddRoutes(file, "rust", rows, ExtractRust(file, rows))
    BY <1>3 DEF Extract, ExtractBy
  <2> QED
    BY <2>2, <2>3, Zenon
<1>4. CASE language = "javascript"
  <2>1. NodesOf[language] = JsNodes
    BY <1>4 DEF NodesOf
  <2>2. GotFits(AddRoutes(file, "javascript", rows, ExtractJavaScript(file, rows)),
                FileSymbols(FileId(file, "js"), JsIds(file, rows)), language, file, rows)
    BY <1>1, <1>4, <2>1, JavaScriptFileFits, Zenon
  <2>3. Extract(file, content) = AddRoutes(file, "javascript", rows, ExtractJavaScript(file, rows))
    BY <1>4 DEF Extract, ExtractBy
  <2> QED
    BY <2>2, <2>3, Zenon
<1>5. CASE language = "go"
  <2>1. NodesOf[language] = GoNodes
    BY <1>5 DEF NodesOf
  <2>2. GotFits(AddRoutes(file, "go", rows, ExtractGo(file, rows)),
                FileSymbols(FileId(file, "go"), GoIds(file, rows)), language, file, rows)
    BY <1>1, <1>5, <2>1, GoFileFits, Zenon
  <2>3. Extract(file, content) = AddRoutes(file, "go", rows, ExtractGo(file, rows))
    BY <1>5 DEF Extract, ExtractBy
  <2> QED
    BY <2>2, <2>3, Zenon
<1>6. CASE language = "java"
  <2>1. NodesOf[language] = JavaNodes
    BY <1>6 DEF NodesOf
  <2>2. GotFits(AddRoutes(file, "java", rows, ExtractJava(file, rows)),
                FileSymbols(FileId(file, "java"), JavaIds(file, rows)), language, file, rows)
    BY <1>1, <1>6, <2>1, JavaFileFits, Zenon
  <2>3. Extract(file, content) = AddRoutes(file, "java", rows, ExtractJava(file, rows))
    BY <1>6 DEF Extract, ExtractBy
  <2> QED
    BY <2>2, <2>3, Zenon
<1>7. CASE language = "csharp"
  <2>1. NodesOf[language] = CsNodes
    BY <1>7 DEF NodesOf
  <2>2. GotFits(AddRoutes(file, "csharp", rows, ExtractCSharp(file, rows)),
                FileSymbols(FileId(file, "cs"), CsIds(file, rows)), language, file, rows)
    BY <1>1, <1>7, <2>1, CSharpFileFits, Zenon
  <2>3. Extract(file, content) = AddRoutes(file, "csharp", rows, ExtractCSharp(file, rows))
    BY <1>7 DEF Extract, ExtractBy
  <2> QED
    BY <2>2, <2>3, Zenon
<1>8. CASE language = "php"
  <2>1. NodesOf[language] = PhpNodes
    BY <1>8 DEF NodesOf
  <2>2. GotFits(ExtractPhp(file, rows),
                FileSymbols(FileId(file, "php"), PhpIds(file, rows)), language, file, rows)
    BY <1>1, <1>8, <2>1, PhpFileFits, Zenon
  <2>3. Extract(file, content) = ExtractPhp(file, rows)
    BY <1>8 DEF Extract, ExtractBy
  <2> QED
    BY <2>2, <2>3, Zenon
<1>9. CASE language = "ruby"
  <2>1. NodesOf[language] = RbNodes
    BY <1>9 DEF NodesOf
  <2>2. GotFits(ExtractRuby(file, rows),
                FileSymbols(FileId(file, "rb"), RbIds(file, rows)), language, file, rows)
    BY <1>1, <1>9, <2>1, RubyFileFits, Zenon
  <2>3. Extract(file, content) = ExtractRuby(file, rows)
    BY <1>9 DEF Extract, ExtractBy
  <2> QED
    BY <2>2, <2>3, Zenon
<1>10. CASE language = "swift"
  <2>1. NodesOf[language] = SwNodes
    BY <1>10 DEF NodesOf
  <2>2. GotFits(ExtractSwift(file, rows),
                FileSymbols(FileId(file, "swift"), SwIds(file, rows)), language, file, rows)
    BY <1>1, <1>10, <2>1, SwiftFileFits, Zenon
  <2>3. Extract(file, content) = ExtractSwift(file, rows)
    BY <1>10 DEF Extract, ExtractBy
  <2> QED
    BY <2>2, <2>3, Zenon
<1> QED
  BY <1>2, <1>3, <1>4, <1>5, <1>6, <1>7, <1>8, <1>9, <1>10 DEF NodesOf

-----------------------------------------------------------------------------
(* The invariant *)

Confidences == {"exact", "same_file", "import_scoped", "global"}
ResolvedEdge == [source : NodeId, target : NodeId, kind : EdgeKinds, confidence : Confidences,
                 of : Nat]

TypeOK ==
    /\ raw_edges \in Seq(RawEdge) /\ pc \in {"first", "second", "done"} /\ at \in Nat \ {0}
    /\ IsFiniteSet(DOMAIN nodes) /\ DOMAIN nodes \subseteq NodeId
    /\ adjacency \in [DOMAIN nodes \cup {raw_edges[k].source : k \in DOMAIN raw_edges} ->
                         Seq(ResolvedEdge)]

\* The class around a Python method is a Python class.
ClassesKeepLanguage ==
    \A i \in DOMAIN nodes :
        nodes[i].language = "python" /\ nodes[i].parent \in DOMAIN nodes =>
            nodes[nodes[i].parent].language = "python"

\* What a pass has been over.
Resolved(k) ==
    IF raw_edges[k].kind = "Calls" THEN pc = "done" \/ (pc = "second" /\ k < at)
    ELSE pc # "first" \/ k < at

\* An edge is of a raw edge of its kind from the same node, resolved already.
EdgesAreOfRaws ==
    \A s \in DOMAIN adjacency : \A e \in ToSet(adjacency[s]) :
        /\ e.of \in DOMAIN raw_edges /\ raw_edges[e.of].source = s /\ Resolved(e.of)
        /\ e.kind = raw_edges[e.of].kind /\ e.target \in DOMAIN nodes

\* In the second pass the bases of the classes are known.
SupersFollowPython ==
    pc # "first" => \A k \in SuperCalls : Resolved(k) => FollowsPython(k, MethodsNamed)

IInv == TypeOK /\ ClassesKeepLanguage /\ EdgesAreOfRaws /\ TiersAreHonest /\ SupersFollowPython

-----------------------------------------------------------------------------
(* The initial states *)

\* What parsing gives.
Parsed ==
    /\ raw_edges \in Seq(RawEdge)
    /\ IsFiniteSet(DOMAIN nodes) /\ DOMAIN nodes \subseteq NodeId
    /\ ClassesKeepLanguage

\* The assumption on the extractors says so of every project.
LEMMA FilesParsed ==
  ASSUME Init
  PROVE  Parsed
<1> DEFINE got == [f \in DOMAIN project |-> Extract(f, project[f])]
           D == DOMAIN project
<1>1. project \in Projects
  BY Zenon DEF Init
<1>2. /\ nodes = [i \in UNION {DOMAIN got[f].nodes : f \in D} |-> got[i.file].nodes[i]]
      /\ \E order \in SetToSeqs(D) :
            raw_edges = FlattenSeq([k \in DOMAIN order |-> got[order[k]].raws])
  <2>1. PICK o \in {got} :
          /\ nodes = [i \in UNION {DOMAIN o[f].nodes : f \in D} |-> o[i.file].nodes[i]]
          /\ \E order \in SetToSeqs(D) :
                raw_edges = FlattenSeq([k \in DOMAIN order |-> o[order[k]].raws])
    BY Zenon DEF Init
  <2>2. o = got
    OBVIOUS
  <2> HIDE DEF got
  <2> QED
    BY <2>1, <2>2, Zenon
<1>3. PICK order \in SetToSeqs(D) : raw_edges = FlattenSeq([k \in DOMAIN order |-> got[order[k]].raws])
  BY <1>2, Zenon
<1>4. IsFiniteSet(D)
  BY <1>1, ProjectsAssumption
<1>5. \A f \in D : got[f] = Extract(f, project[f])
  OBVIOUS
<1> HIDE DEF got
<1>6. \A f \in D :
        /\ IsFiniteSet(DOMAIN got[f].nodes) /\ got[f].raws \in Seq(RawEdge)
        /\ \A i \in DOMAIN got[f].nodes :
              /\ i \in NodeId /\ i.file = f /\ got[f].nodes[i].language = project[f].language
              /\ got[f].nodes[i].parent # NoNode => got[f].nodes[i].parent.file = f
  <2> TAKE f \in D
  <2> DEFINE x == Extract(f, project[f])
  <2>1. /\ IsFiniteSet(DOMAIN x.nodes) /\ x.raws \in Seq(RawEdge)
        /\ \A i \in DOMAIN x.nodes :
              /\ i \in NodeId /\ i.file = f /\ x.nodes[i].language = project[f].language
              /\ x.nodes[i].parent # NoNode => x.nodes[i].parent.file = f
    BY <1>1, ProjectsAssumption
  <2>2. got[f] = x
    BY <1>5
  <2> HIDE DEF x
  <2> QED
    BY <2>1, <2>2
<1> DEFINE N == UNION {DOMAIN got[f].nodes : f \in D}
<1>7. \A i : i \in N <=> \E f \in D : i \in DOMAIN got[f].nodes
  OBVIOUS
<1>8. \A i \in N : i.file \in D /\ i \in DOMAIN got[i.file].nodes
  BY <1>6, <1>7
<1>9. DOMAIN nodes = N /\ \A i \in N : nodes[i] = got[i.file].nodes[i]
  <2> HIDE DEF N
  <2>1. nodes = [i \in N |-> got[i.file].nodes[i]]
    BY <1>2, Zenon DEF N
  <2> QED
    BY <2>1
<1>10. IsFiniteSet(N)
  <2> DEFINE S == {DOMAIN got[f].nodes : f \in D}
  <2>1. IsFiniteSet(S)
    <3> DEFINE g == [f \in D |-> DOMAIN got[f].nodes]
    <3>1. g \in Surjection(D, S)
      <4>1. g \in [D -> S] /\ \A x \in S : \E f \in D : g[f] = x
        OBVIOUS
      <4> HIDE DEF S, g
      <4> QED
        BY <4>1, Zenon DEF Surjection
    <3> HIDE DEF S, g
    <3> QED
      BY <1>4, <3>1, FS_Surjection
  <2>2. \A x \in S : IsFiniteSet(x)
    BY <1>6
  <2> HIDE DEF S
  <2>3. IsFiniteSet(UNION S)
    BY <2>1, <2>2, FS_UNION
  <2> QED
    BY <2>3, Zenon DEF N, S
<1> HIDE DEF N
<1>11. N \subseteq NodeId
  BY <1>6, <1>8
<1>12. ClassesKeepLanguage
  <2> SUFFICES ASSUME NEW i \in N, nodes[i].language = "python", nodes[i].parent \in N
               PROVE  nodes[nodes[i].parent].language = "python"
    BY <1>9, Zenon DEF ClassesKeepLanguage
  <2> DEFINE j == nodes[i].parent
             f == i.file
  <2>1. j # NoNode
    BY <1>11, NodesAssumption
  <2>2. f \in D /\ i \in DOMAIN got[f].nodes /\ nodes[i] = got[f].nodes[i]
    BY <1>8, <1>9
  <2> HIDE DEF j, f
  <2>3. j.file = f /\ nodes[i].language = project[f].language
    BY <1>6, <2>1, <2>2 DEF j
  <2>4. nodes[j] = got[f].nodes[j] /\ j \in DOMAIN got[f].nodes
    BY <1>8, <1>9, <2>3 DEF j
  <2>5. nodes[j].language = project[f].language
    BY <1>6, <2>2, <2>4
  <2> QED
    BY <2>3, <2>5 DEF j
<1>13. raw_edges \in Seq(RawEdge)
  <2>1. Enumerates(order, D)
    BY <1>3, <1>4, SetToSeqsFacts
  <2>2. order \in Seq(D) /\ Len(order) \in Nat /\ DOMAIN order = 1 .. Len(order)
        /\ \A k \in 1 .. Len(order) : order[k] \in D
    <3>1. order \in Seq(D)
      BY <2>1, Zenon DEF Enumerates
    <3> HIDE DEF D
    <3> QED
      BY <3>1
  <2> DEFINE n == Len(order)
             ss == [k \in DOMAIN order |-> got[order[k]].raws]
  <2>3. ss \in [1 .. n -> Seq(RawEdge)] /\ n \in Nat
    <3> DEFINE V == Seq(RawEdge)
    <3>1. \A k \in 1 .. n : got[order[k]].raws \in V
      BY <1>6, <2>2
    <3> HIDE DEF V, n
    <3>2. ss \in [1 .. n -> V]
      <4>1. DOMAIN order = 1 .. n
        BY <2>2 DEF n
      <4> QED
        BY <3>1, <4>1
    <3> QED
      BY <2>2, <3>2 DEF V, n
  <2> HIDE DEF n, ss
  <2>4. CASE n = 0
    <3> DEFINE V == Seq(RawEdge)
    <3>1. ss \in [1 .. 0 -> V]
      BY <2>3, <2>4
    <3> HIDE DEF V
    <3>2. ss = <<>> /\ Len(ss) = 0
      BY <3>1
    <3>3. FlattenSeq(ss) = <<>>
      BY <3>2, Zenon DEF FlattenSeq
    <3>4. <<>> \in Seq(RawEdge)
      OBVIOUS
    <3> QED
      BY <1>3, <3>3, <3>4, Zenon DEF ss
  <2>5. CASE n # 0
    <3>1. n \in Nat \ {0}
      BY <2>3, <2>5
    <3>2. FlattenSeq(ss) \in Seq(RawEdge)
      BY <2>3, <3>1, FlattenFacts
    <3> QED
      BY <1>3, <3>2, Zenon DEF ss
  <2> QED
    BY <2>4, <2>5
<1> QED
  BY <1>9, <1>10, <1>11, <1>12, <1>13, Zenon DEF Parsed

\* The invariant holds at first.
LEMMA InitIInv ==
  ASSUME Init
  PROVE  IInv
<1> DEFINE S == DOMAIN nodes \cup {raw_edges[k].source : k \in DOMAIN raw_edges}
<1>1. /\ raw_edges \in Seq(RawEdge) /\ IsFiniteSet(DOMAIN nodes) /\ DOMAIN nodes \subseteq NodeId
      /\ ClassesKeepLanguage
  BY FilesParsed, Zenon DEF Parsed
<1>2. adjacency = [i \in S |-> <<>>] /\ pc = "first" /\ at = 1
  BY Zenon DEF Init
<1> HIDE DEF S
<1>3. adjacency \in [S -> Seq(ResolvedEdge)] /\ DOMAIN adjacency = S /\ \A i \in S : adjacency[i] = <<>>
  <2> DEFINE V == Seq(ResolvedEdge)
  <2>1. <<>> \in V
    OBVIOUS
  <2> HIDE DEF V
  <2> QED
    BY <1>2, <2>1 DEF V
<1>4. TypeOK
  BY <1>1, <1>2, <1>3 DEF TypeOK, S
<1>5. ToSet(<<>>) = {}
  BY DEF ToSet
<1>6. \A s \in S : ToSet(adjacency[s]) = {}
  BY <1>3, <1>5
<1>7. EdgesAreOfRaws
  BY <1>3, <1>6 DEF EdgesAreOfRaws
<1>8. TiersAreHonest
  <2>1. \A k \in DOMAIN raw_edges : raw_edges[k].source \in S
    BY DEF S
  <2>2. \A k \in DOMAIN raw_edges : EdgesOf(k) = {}
    BY <1>6, <2>1 DEF EdgesOf
  <2> QED
    BY <2>2 DEF TiersAreHonest
<1>9. SupersFollowPython
  BY <1>2 DEF SupersFollowPython
<1> QED
  BY <1>1, <1>4, <1>7, <1>8, <1>9, Zenon DEF IInv

-----------------------------------------------------------------------------
(* What a raw edge adds *)

\* No other node has the name of t.
OnlyOfItsName(t) == \A i \in DOMAIN nodes : nodes[i].name = nodes[t].name => i = t

\* A confidence says how many of a name there are.
TierIsRight(confidence, t, T) ==
    /\ confidence \in {"exact", "import_scoped"} => T = {t}
    /\ confidence = "import_scoped" => OnlyOfItsName(t)
    /\ confidence = "global" => T # {t}

\* What a pass may add edges to, and with which tiers.
Tiers == {tier \in UNION {[T -> Confidences] : T \in SUBSET DOMAIN nodes} :
             \A t \in DOMAIN tier : TierIsRight(tier[t], t, DOMAIN tier)}

\* The edges that raw edge k adds.
NewEdges(k, tier) == {EdgeTo(k, t, tier[t]) : t \in DOMAIN tier}

Added(k, tier) ==
    /\ \E more \in Seq(ResolvedEdge) :
          /\ ToSet(more) = NewEdges(k, tier)
          /\ adjacency' = [adjacency EXCEPT ![raw_edges[k].source] = @ \o more]
    /\ adjacency' \in [DOMAIN adjacency -> Seq(ResolvedEdge)]
    /\ \A s \in DOMAIN adjacency : \A e :
          e \in ToSet(adjacency'[s]) <=>
             e \in ToSet(adjacency[s]) \/ (s = raw_edges[k].source /\ e \in NewEdges(k, tier))

\* A raw edge's edges go behind those of its source, whatever their order.
LEMMA AddEdgesFacts ==
  ASSUME TypeOK, NEW k \in DOMAIN raw_edges, NEW tier \in Tiers, AddEdges(k, tier)
  PROVE  Added(k, tier)
<1> DEFINE T == DOMAIN tier
           src == raw_edges[k].source
<1>1. T \subseteq DOMAIN nodes /\ \A t \in T : tier[t] \in Confidences
  BY DEF Tiers
<1>2. IsFiniteSet(T) /\ T \subseteq NodeId
  <2>1. IsFiniteSet(DOMAIN nodes) /\ DOMAIN nodes \subseteq NodeId
    BY Zenon DEF TypeOK
  <2> HIDE DEF T
  <2> QED
    BY <1>1, <2>1, FS_Subset
<1> DEFINE New(order) == [n \in DOMAIN order |-> EdgeTo(k, order[n], tier[order[n]])]
<1>3. PICK order : /\ order \in SetToSeqs(T) \/ order = SetToSeq(T)
                   /\ adjacency' = [adjacency EXCEPT ![src] = @ \o New(order)]
  BY Zenon DEF AddEdges
<1>4. Enumerates(order, T)
  <2> HIDE DEF T
  <2> QED
    BY <1>2, <1>3, SetToSeqsFacts
<1>5. order \in Seq(T) /\ \A x : x \in T <=> \E i \in 1 .. Len(order) : order[i] = x
  BY <1>4, Zenon DEF Enumerates
<1> DEFINE m == Len(order)
<1>6. m \in Nat /\ DOMAIN order = 1 .. m /\ \A i \in 1 .. m : order[i] \in T
  <2> HIDE DEF T
  <2> QED
    BY <1>5
<1>7. raw_edges \in Seq(RawEdge) /\ k \in Nat /\ src \in NodeId /\ raw_edges[k].kind \in EdgeKinds
  <2>1. raw_edges \in Seq(RawEdge)
    BY Zenon DEF TypeOK
  <2>2. k \in Nat /\ raw_edges[k] \in RawEdge
    <3> DEFINE R == RawEdge
    <3>1. raw_edges \in Seq(R)
      BY <2>1
    <3> HIDE DEF R
    <3>2. k \in Nat /\ raw_edges[k] \in R
      BY <3>1
    <3> QED
      BY <3>2 DEF R
  <2> QED
    BY <2>1, <2>2 DEF RawEdge
<1>8. \A t \in T : EdgeTo(k, t, tier[t]) \in ResolvedEdge
  <2> TAKE t \in T
  <2>1. t \in NodeId /\ tier[t] \in Confidences
    BY <1>1, <1>2
  <2> QED
    BY <1>7, <2>1 DEF EdgeTo, ResolvedEdge
<1> DEFINE more == New(order)
<1>9. \A i \in 1 .. m : more[i] = EdgeTo(k, order[i], tier[order[i]])
  BY <1>6
<1>10. more \in Seq(ResolvedEdge) /\ Len(more) = m
  <2> DEFINE E == ResolvedEdge
             X(i) == EdgeTo(k, order[i], tier[order[i]])
  <2>1. \A i \in 1 .. m : X(i) \in E
    BY <1>6, <1>8
  <2> HIDE DEF E, X, m
  <2>2. more = [i \in 1 .. m |-> X(i)]
    BY <1>6, Zenon DEF X
  <2> HIDE DEF more
  <2>3. more \in Seq(E) /\ Len(more) = m
    BY <1>6, <2>1, <2>2
  <2> QED
    BY <2>3 DEF E
<1> HIDE DEF more
<1>11. ToSet(more) = NewEdges(k, tier)
  <2>1. \A e : e \in ToSet(more) <=> \E i \in 1 .. m : more[i] = e
    BY <1>10, RangeFacts, Zenon
  <2>2. \A e : e \in NewEdges(k, tier) <=> \E t \in T : EdgeTo(k, t, tier[t]) = e
    BY Zenon DEF NewEdges
  <2> HIDE DEF m, T
  <2>3. \A e : e \in ToSet(more) <=> e \in NewEdges(k, tier)
    BY <1>5, <1>6, <1>9, <2>1, <2>2 DEF m
  <2> QED
    BY <2>3
<1> DEFINE S == DOMAIN nodes \cup {raw_edges[i].source : i \in DOMAIN raw_edges}
<1>12. adjacency \in [S -> Seq(ResolvedEdge)] /\ DOMAIN adjacency = S /\ src \in S
  <2>1. adjacency \in [S -> Seq(ResolvedEdge)]
    BY Zenon DEF TypeOK
  <2>2. src \in S
    OBVIOUS
  <2> DEFINE V == Seq(ResolvedEdge)
  <2> HIDE DEF S, V
  <2>3. adjacency \in [S -> V]
    BY <2>1 DEF V
  <2>4. DOMAIN adjacency = S
    BY <2>3
  <2> QED
    BY <2>1, <2>2, <2>4
<1> HIDE DEF S, src
<1>13. adjacency' = [adjacency EXCEPT ![src] = @ \o more]
  BY <1>3, Zenon DEF more
<1>14. /\ adjacency[src] \o more \in Seq(ResolvedEdge)
       /\ \A e : e \in ToSet(adjacency[src] \o more) <=> e \in ToSet(adjacency[src]) \/ e \in ToSet(more)
  <2>1. adjacency[src] \in Seq(ResolvedEdge)
    <3> DEFINE V == Seq(ResolvedEdge)
    <3> HIDE DEF V
    <3>1. adjacency[src] \in V
      BY <1>12 DEF V
    <3> QED
      BY <3>1 DEF V
  <2> QED
    BY <1>10, <2>1, ConcatRange
<1>15. /\ adjacency' \in [S -> Seq(ResolvedEdge)]
       /\ \A s \in S : adjacency'[s] = IF s = src THEN adjacency[src] \o more ELSE adjacency[s]
  <2> DEFINE V == Seq(ResolvedEdge)
             u == adjacency[src] \o more
  <2>1. u \in V /\ adjacency \in [S -> V]
    BY <1>12, <1>14
  <2> HIDE DEF V, u
  <2>2. adjacency' = [adjacency EXCEPT ![src] = u]
    BY <1>13, Zenon DEF u
  <2>3. adjacency' \in [S -> V] /\ \A s \in S : adjacency'[s] = IF s = src THEN u ELSE adjacency[s]
    BY <1>12, <2>1, <2>2
  <2> QED
    BY <2>3 DEF V, u
<1>16. \A s \in S : \A e :
          e \in ToSet(adjacency'[s]) <=>
             e \in ToSet(adjacency[s]) \/ (s = src /\ e \in NewEdges(k, tier))
  <2> TAKE s \in S
  <2>1. CASE s = src
    BY <1>11, <1>14, <1>15, <2>1
  <2>2. CASE s # src
    BY <1>15, <2>2
  <2> QED
    BY <2>1, <2>2
<1> QED
  BY <1>10, <1>11, <1>12, <1>13, <1>15, <1>16, Zenon DEF Added, src

-----------------------------------------------------------------------------
(* Which edges the passes add *)

Adds(k) == UNCHANGED adjacency \/ \E tier \in Tiers : AddEdges(k, tier)

\* Names are only looked up in the graph.
LEMMA HitsAreNodes ==
  ASSUME NEW names
  PROVE  FirstHits(names) \subseteq DOMAIN nodes
BY DEF FirstHits, Hits

\* All of a name are in T, or none.
NamesClosed(T) ==
    \A t \in T : \A i \in DOMAIN nodes : nodes[i].name = nodes[t].name => i \in T

\* A name is looked up with all that it fits.
LEMMA HitsClosed ==
  ASSUME NEW names
  PROVE  NamesClosed(FirstHits(names))
BY DEF NamesClosed, FirstHits, Hits

\* A single target is exact.
LEMMA ExactTier ==
  ASSUME NEW T \in SUBSET DOMAIN nodes, \A s, t \in T : s = t
  PROVE  [t \in T |-> "exact"] \in Tiers
<1> DEFINE tier == [t \in T |-> "exact"]
<1>1. tier \in [T -> Confidences] /\ DOMAIN tier = T
  BY DEF Confidences
<1>2. \A t \in T : TierIsRight(tier[t], t, T)
  BY DEF TierIsRight
<1> HIDE DEF tier
<1> QED
  BY <1>1, <1>2, Zenon DEF Tiers, tier

\* The tiers of the hits of a name follow from their number.
ByCount(tier, T) ==
    \A t \in T : /\ tier[t] \in {"exact", "import_scoped"} => Cardinality(T) = 1
                 /\ tier[t] = "global" => Cardinality(T) # 1

\* A target by name has a high tier only if it is the only hit.
LEMMA HitsTier ==
  ASSUME NEW T \in SUBSET DOMAIN nodes, NEW tier \in [T -> Confidences],
         NamesClosed(T), IsFiniteSet(T), ByCount(tier, T)
  PROVE  tier \in Tiers
<1>1. ASSUME NEW t \in T, tier[t] \in {"exact", "import_scoped"} PROVE T = {t}
  <2>1. Cardinality(T) = 1
    BY <1>1 DEF ByCount
  <2>2. PICK x : T = {x}
    BY <2>1, FS_Singleton
  <2> QED
    BY <2>2
<1>2. ASSUME NEW t \in T, tier[t] = "import_scoped" PROVE OnlyOfItsName(t)
  <2>1. T = {t}
    BY <1>1, <1>2
  <2> QED
    BY <2>1 DEF NamesClosed, OnlyOfItsName
<1>3. ASSUME NEW t \in T, tier[t] = "global" PROVE T # {t}
  <2>1. Cardinality(T) # 1
    BY <1>3 DEF ByCount
  <2> QED
    BY <2>1, FS_Singleton
<1>4. DOMAIN tier = T
  OBVIOUS
<1>5. \A t \in T : TierIsRight(tier[t], t, T)
  BY <1>1, <1>2, <1>3, Zenon DEF TierIsRight
<1> QED
  BY <1>4, <1>5, Zenon DEF Tiers

\* What is found by name is added with such a tier.
LEMMA ByNameTier ==
  ASSUME TypeOK, NEW k, NEW T \in SUBSET DOMAIN nodes, NamesClosed(T), AddByName(k, T)
  PROVE  \E tier \in Tiers : DOMAIN tier = T /\ AddEdges(k, tier)
<1> DEFINE tier == [t \in T |-> Confidence(raw_edges[k].source, t, T)]
<1>1. IsFiniteSet(T)
  <2>1. IsFiniteSet(DOMAIN nodes)
    BY Zenon DEF TypeOK
  <2> QED
    BY <2>1, FS_Subset
<1>2. \A t \in T : Confidence(raw_edges[k].source, t, T) \in Confidences
  BY DEF Confidence, Confidences
<1>3. tier \in [T -> Confidences] /\ \A t \in T : tier[t] = Confidence(raw_edges[k].source, t, T)
  BY <1>2
<1>4. ByCount(tier, T)
  BY <1>3 DEF ByCount, Confidence
<1>5. AddEdges(k, tier)
  BY Zenon DEF AddByName
<1>6. DOMAIN tier = T
  OBVIOUS
<1> HIDE DEF tier
<1>7. tier \in Tiers
  BY <1>1, <1>3, <1>4, HitsTier
<1> QED
  BY <1>5, <1>6, <1>7, Zenon

\* So a pass may add what is found by name.
LEMMA HitsByName ==
  ASSUME TypeOK, NEW k, NEW T \in SUBSET DOMAIN nodes, NamesClosed(T), AddByName(k, T)
  PROVE  Adds(k)
BY ByNameTier, Zenon DEF Adds

\* The same of what an import finds by name.
LEMMA HitsOfImports ==
  ASSUME TypeOK, NEW k, NEW T \in SUBSET DOMAIN nodes, NamesClosed(T), AddImports(k, T)
  PROVE  Adds(k)
<1> DEFINE tier == [t \in T |-> IF Cardinality(T) = 1 THEN "import_scoped" ELSE "global"]
<1>1. IsFiniteSet(T)
  <2>1. IsFiniteSet(DOMAIN nodes)
    BY Zenon DEF TypeOK
  <2> QED
    BY <2>1, FS_Subset
<1>2. tier \in [T -> Confidences]
  BY DEF Confidences
<1>3. ByCount(tier, T)
  BY DEF ByCount
<1>4. AddEdges(k, tier)
  BY Zenon DEF AddImports
<1> HIDE DEF tier
<1>5. tier \in Tiers
  BY <1>1, <1>2, <1>3, HitsTier
<1> QED
  BY <1>4, <1>5, Zenon DEF Adds

\* The same of an exact target.
LEMMA ExactTarget ==
  ASSUME NEW k, NEW T \in SUBSET DOMAIN nodes, \A s, t \in T : s = t, AddExact(k, T)
  PROVE  Adds(k)
<1>1. AddEdges(k, [t \in T |-> "exact"])
  BY Zenon DEF AddExact
<1>2. [t \in T |-> "exact"] \in Tiers
  BY ExactTier
<1> QED
  BY <1>1, <1>2, Zenon DEF Adds

\* The cases of a call.
LEMMA CallAdds ==
  ASSUME TypeOK, NEW k, ResolveCall(k)
  PROVE  Adds(k)
<1> DEFINE raw == raw_edges[k]
           cls == SuperClass(raw)
           supers == IF cls = NoNode THEN {} ELSE SuperMethods(cls, Last(raw.target.path))
<1>1. (\E m \in supers : AddExact(k, {m})) \/ (supers = {} /\ AddByName(k, CallTargets(raw.target)))
  BY Zenon DEF ResolveCall
<1>2. supers \subseteq DOMAIN nodes
  BY DEF SuperMethods, MethodsNamed, MembersNamed
<1>3. CallTargets(raw.target) \subseteq DOMAIN nodes /\ NamesClosed(CallTargets(raw.target))
  BY HitsAreNodes, HitsClosed DEF CallTargets
<1>4. CASE \E m \in supers : AddExact(k, {m})
  <2>1. PICK m \in supers : AddExact(k, {m})
    BY <1>4
  <2>2. {m} \in SUBSET DOMAIN nodes /\ \A s, t \in {m} : s = t
    BY <1>2
  <2> HIDE DEF supers
  <2> QED
    BY <2>1, <2>2, ExactTarget
<1>5. CASE AddByName(k, CallTargets(raw.target))
  BY <1>3, <1>5, HitsByName
<1> QED
  BY <1>1, <1>4, <1>5

\* The cases of an import.
LEMMA ImportAdds ==
  ASSUME TypeOK, NEW k, ResolveImport(k)
  PROVE  Adds(k)
<1> DEFINE raw == raw_edges[k]
           byId == IF raw.path = NoPath THEN Known(raw.id) ELSE {}
           path == ImportPath(raw)
           byPath == IF path = NoPath THEN {} ELSE PathTargets(path)
<1>1. \/ byId # {} /\ AddExact(k, byId)
      \/ byId = {} /\ \E f \in byPath : AddExact(k, {f})
      \/ byId = {} /\ byPath = {} /\ AddImports(k, NameTargets(raw.target))
  BY Zenon DEF ResolveImport
<1>2. byId \in SUBSET DOMAIN nodes /\ \A s, t \in byId : s = t
  BY DEF Known
<1>3. byPath \subseteq DOMAIN nodes
  BY DEF PathTargets
<1>4. NameTargets(raw.target) \subseteq DOMAIN nodes /\ NamesClosed(NameTargets(raw.target))
  BY HitsAreNodes, HitsClosed DEF NameTargets
<1> HIDE DEF byId, byPath
<1>5. CASE AddExact(k, byId)
  BY <1>2, <1>5, ExactTarget
<1>6. CASE \E f \in byPath : AddExact(k, {f})
  <2>1. PICK f \in byPath : AddExact(k, {f})
    BY <1>6
  <2>2. {f} \in SUBSET DOMAIN nodes /\ \A s, t \in {f} : s = t
    BY <1>3
  <2> QED
    BY <2>1, <2>2, ExactTarget
<1>7. CASE AddImports(k, NameTargets(raw.target))
  BY <1>4, <1>7, HitsOfImports
<1> QED
  BY <1>1, <1>5, <1>6, <1>7

\* Any raw edge of the first pass.
LEMMA RawAdds ==
  ASSUME TypeOK, NEW k, ResolveRaw(k)
  PROVE  Adds(k)
<1> DEFINE raw == raw_edges[k]
<1>1. \/ UNCHANGED adjacency
      \/ AddExact(k, Known(raw.id))
      \/ AddByName(k, NameTargets(raw.target))
      \/ ResolveImport(k)
  BY Zenon DEF ResolveRaw
<1>2. CASE UNCHANGED adjacency
  BY <1>2 DEF Adds
<1>3. CASE AddExact(k, Known(raw.id))
  <2>1. Known(raw.id) \in SUBSET DOMAIN nodes /\ \A s, t \in Known(raw.id) : s = t
    BY DEF Known
  <2> QED
    BY <1>3, <2>1, ExactTarget
<1>4. CASE AddByName(k, NameTargets(raw.target))
  <2>1. NameTargets(raw.target) \in SUBSET DOMAIN nodes /\ NamesClosed(NameTargets(raw.target))
    BY HitsAreNodes, HitsClosed DEF NameTargets
  <2> QED
    BY <1>4, <2>1, HitsByName
<1>5. CASE ResolveImport(k)
  BY <1>5, ImportAdds
<1> QED
  BY <1>1, <1>2, <1>3, <1>4, <1>5

-----------------------------------------------------------------------------
(* What an order of the ancestors says of them *)

\* The order that linearize finds if there is one.
FoundMro(M, c, P) ==
    /\ Linearize(c, P) = M /\ M # None /\ IsPythonsMro(M, c, P) /\ c \notin Ancestors(c, P)
    /\ Len(M) \in Nat /\ DOMAIN M = 1 .. Len(M) /\ 1 \in DOMAIN M /\ M[1] = c
    /\ \A a, b \in DOMAIN M : M[a] = M[b] => a = b
    /\ \A x : x \in Ancestors(c, P) \cup {c} <=> \E a \in DOMAIN M : M[a] = x

\* If there is an order, linearize finds one with all ancestors, once.
LEMMA HasMroFound ==
  ASSUME NEW D, IsFiniteSet(D), NEW P \in [D -> Seq(D)], NEW c \in D, HasMro(c, P)
  PROVE  FoundMro(Linearize(c, P), c, P)
<1> DEFINE M == Linearize(c, P)
           A == Ancestors(c, P) \cup {c}
<1>1. IsPythonsMro(M, c, P)
  BY LinearizeIsPythons, Zenon DEF MroHolds
<1>2. M \in SetToSeqs(A) /\ Head(M) = c
  BY <1>1, Zenon DEF IsPythonsMro, IsMro
<1>3. IsFiniteSet(A)
  <2>1. A \subseteq D
    BY AncestorsFacts
  <2> HIDE DEF A
  <2> QED
    BY <2>1, FS_Subset
<1> HIDE DEF M
<1>4. Enumerates(M, A)
  <2> HIDE DEF A
  <2> QED
    BY <1>2, <1>3, SetToSeqsFacts
<1>5. M \in Seq(A) /\ Len(M) = Cardinality(A) /\ \A x : x \in A <=> \E i \in 1 .. Len(M) : M[i] = x
  BY <1>4, Zenon DEF Enumerates
<1>6. Len(M) \in Nat /\ DOMAIN M = 1 .. Len(M)
  <2> HIDE DEF A
  <2> QED
    BY <1>5
<1>7. 1 \in 1 .. Len(M)
  <2>1. c \in A
    OBVIOUS
  <2>2. PICK i \in 1 .. Len(M) : M[i] = c
    BY <1>5, <2>1, Zenon
  <2> QED
    BY <1>6, <2>2
<1>8. M[1] = c /\ M # None
  <2>1. M # <<>>
    BY <1>6, <1>7
  <2> HIDE DEF A
  <2> QED
    BY <1>2, <1>5, <1>7, <2>1 DEF None
<1>9. \A a, b \in DOMAIN M : M[a] = M[b] => a = b
  <2>1. \A a, b \in 1 .. Cardinality(A) : a # b => M[a] # M[b]
    BY <1>2, Zenon DEF SetToSeqs
  <2> QED
    BY <1>5, <1>6, <2>1, Zenon
<1>10. c \notin Ancestors(c, P)
  BY Zenon DEF HasMro
<1> QED
  BY <1>1, <1>5, <1>6, <1>7, <1>8, <1>9, <1>10, Zenon DEF FoundMro, M

-----------------------------------------------------------------------------
(* The bases of the Python classes *)

PyClasses == {i \in DOMAIN nodes : IsPythonClass(i)}

\* What the edges of a class say of its bases, blanks for other edges.
BasesOf(edges, classes) ==
    [k \in DOMAIN edges |->
        IF edges[k].kind = "Extends" /\ edges[k].target \in classes THEN <<edges[k].target>> ELSE <<>>]

\* What an edge gives to the bases of its class.
LEMMA BasesTyped ==
  ASSUME NEW s \in Seq(ResolvedEdge), NEW C
  PROVE  /\ BasesOf(s, C) \in Seq(Seq(C)) /\ Len(BasesOf(s, C)) = Len(s) /\ Len(s) \in Nat
         /\ \A k \in 1 .. Len(s) :
               BasesOf(s, C)[k] = IF s[k].kind = "Extends" /\ s[k].target \in C
                                  THEN <<s[k].target>> ELSE <<>>
<1> DEFINE V == Seq(C)
           n == Len(s)
           X(k) == IF s[k].kind = "Extends" /\ s[k].target \in C THEN <<s[k].target>> ELSE <<>>
<1>1. n \in Nat /\ DOMAIN s = 1 .. n
  OBVIOUS
<1>2. \A k \in 1 .. n : X(k) \in V
  <2>1. \A x \in C : <<x>> \in Seq(C)
    OBVIOUS
  <2>2. <<>> \in Seq(C)
    OBVIOUS
  <2> QED
    BY <2>1, <2>2, Zenon
<1>3. BasesOf(s, C) = [k \in 1 .. n |-> X(k)]
  BY <1>1 DEF BasesOf
<1> HIDE DEF V, X, n
<1>4. BasesOf(s, C) \in Seq(V) /\ Len(BasesOf(s, C)) = n /\ \A k \in 1 .. n : BasesOf(s, C)[k] = X(k)
  BY <1>1, <1>2, <1>3
<1> QED
  BY <1>1, <1>4 DEF V, X, n

\* Parents is the bases class by class.
LEMMA ParentsAreBases ==
  Parents = [c \in PyClasses |-> FlattenSeq(BasesOf(adjacency[c], PyClasses))]
<1>1. \A x : IsPythonClass(x) <=> x \in PyClasses
  BY DEF PyClasses, IsPythonClass
<1>2. \A c : BasesOf(adjacency[c], PyClasses)
             = [k \in DOMAIN adjacency[c] |->
                   IF adjacency[c][k].kind = "Extends" /\ IsPythonClass(adjacency[c][k].target)
                   THEN <<adjacency[c][k].target>> ELSE <<>>]
  BY <1>1 DEF BasesOf
<1>3. PyClasses = {i \in DOMAIN nodes : IsPythonClass(i)}
  BY Zenon DEF PyClasses
<1> QED
  BY <1>2, <1>3, Zenon DEF Parents

\* The map of parents is finite and closed.
LEMMA ParentsTyped ==
  ASSUME TypeOK
  PROVE  Parents \in [PyClasses -> Seq(PyClasses)] /\ IsFiniteSet(PyClasses)
<1>1. IsFiniteSet(PyClasses)
  <2>1. IsFiniteSet(DOMAIN nodes) /\ PyClasses \subseteq DOMAIN nodes
    <3>1. IsFiniteSet(DOMAIN nodes)
      BY Zenon DEF TypeOK
    <3> QED
      BY <3>1 DEF PyClasses
  <2> QED
    BY <2>1, FS_Subset
<1>2. ASSUME NEW c \in PyClasses PROVE FlattenSeq(BasesOf(adjacency[c], PyClasses)) \in Seq(PyClasses)
  <2> DEFINE s == adjacency[c]
             n == Len(s)
             ss == BasesOf(s, PyClasses)
             V == Seq(PyClasses)
  <2>1. s \in Seq(ResolvedEdge)
    <3> DEFINE W == Seq(ResolvedEdge)
               S == DOMAIN nodes \cup {raw_edges[k].source : k \in DOMAIN raw_edges}
    <3>1. adjacency \in [S -> W]
      BY Zenon DEF TypeOK
    <3>2. c \in S
      BY DEF PyClasses
    <3> HIDE DEF W, S
    <3>3. adjacency[c] \in W
      BY <3>1, <3>2
    <3> QED
      BY <3>3 DEF W
  <2> HIDE DEF s
  <2>2. ss \in Seq(V) /\ Len(ss) = n /\ n \in Nat
    BY <2>1, BasesTyped
  <2> HIDE DEF ss, n, V
  <2>3. ss \in [1 .. n -> V]
    BY <2>2
  <2>4. CASE n = 0
    <3>1. ss = <<>>
      BY <2>2, <2>4
    <3>2. FlattenSeq(ss) = <<>>
      BY <2>2, <2>4, <3>1, Zenon DEF FlattenSeq
    <3>3. <<>> \in Seq(PyClasses)
      OBVIOUS
    <3> QED
      BY <3>2, <3>3 DEF ss, s
  <2>5. CASE n # 0
    <3>1. n \in Nat \ {0} /\ ss \in [1 .. n -> Seq(PyClasses)]
      BY <2>2, <2>3, <2>5 DEF V
    <3>2. FlattenSeq(ss) \in Seq(PyClasses)
      BY <3>1, FlattenFacts
    <3> QED
      BY <3>2 DEF ss, s
  <2> QED
    BY <2>4, <2>5
<1> DEFINE V == Seq(PyClasses)
           F(c) == FlattenSeq(BasesOf(adjacency[c], PyClasses))
<1>3. Parents = [c \in PyClasses |-> F(c)]
  BY ParentsAreBases, Zenon
<1>4. \A c \in PyClasses : F(c) \in V
  BY <1>2
<1> HIDE DEF V, F
<1>5. Parents \in [PyClasses -> V]
  BY <1>3, <1>4
<1> QED
  BY <1>1, <1>5 DEF V

\* Calls leave the bases as they are.
LEMMA ParentsStay ==
  ASSUME TypeOK, NEW k \in DOMAIN raw_edges, raw_edges[k].kind = "Calls",
         NEW tier \in Tiers, Added(k, tier), UNCHANGED nodes
  PROVE  Parents' = Parents
<1> DEFINE src == raw_edges[k].source
           S == DOMAIN nodes \cup {raw_edges[i].source : i \in DOMAIN raw_edges}
<1>1. PICK more \in Seq(ResolvedEdge) :
          /\ ToSet(more) = NewEdges(k, tier)
          /\ adjacency' = [adjacency EXCEPT ![src] = @ \o more]
  BY Zenon DEF Added
<1>2. adjacency \in [S -> Seq(ResolvedEdge)]
  BY Zenon DEF TypeOK
<1>3. \A e \in ToSet(more) : e.kind = "Calls"
  BY <1>1 DEF NewEdges, EdgeTo
<1>4. PyClasses' = PyClasses
  BY DEF PyClasses, IsPythonClass
<1>5. PyClasses \subseteq S
  BY DEF PyClasses
<1> HIDE DEF S, src
<1>6. ASSUME NEW c \in PyClasses
      PROVE  FlattenSeq(BasesOf(adjacency'[c], PyClasses)) = FlattenSeq(BasesOf(adjacency[c], PyClasses))
  <2>1. adjacency'[c] = IF c = src THEN adjacency[c] \o more ELSE adjacency[c]
    <3> DEFINE V == Seq(ResolvedEdge)
               u == adjacency[src] \o more
    <3> HIDE DEF V, u
    <3>1. adjacency \in [S -> V] /\ adjacency' = [adjacency EXCEPT ![src] = u] /\ c \in S
      BY <1>1, <1>2, <1>5 DEF V, u
    <3>2. adjacency'[c] = IF c = src THEN u ELSE adjacency[c]
      BY <3>1
    <3> QED
      BY <3>2 DEF u
  <2>2. CASE c # src
    BY <2>1, <2>2
  <2>3. CASE c = src
    <3> DEFINE s == adjacency[c]
               t == adjacency[c] \o more
               C == PyClasses
    <3>1. s \in Seq(ResolvedEdge)
      <4> DEFINE W == Seq(ResolvedEdge)
      <4>1. adjacency \in [S -> W]
        BY <1>2
      <4> HIDE DEF W
      <4>2. adjacency[c] \in W
        BY <1>5, <4>1
      <4> QED
        BY <4>2 DEF W
    <3> HIDE DEF s
    <3>2. t = s \o more
      BY DEF s
    <3> HIDE DEF t
    <3>3. /\ t \in Seq(ResolvedEdge) /\ Len(t) = Len(s) + Len(more) /\ Len(s) \in Nat /\ Len(more) \in Nat
          /\ \A i \in 1 .. Len(s) : t[i] = s[i]
          /\ \A i \in 1 .. Len(t) : ~(i <= Len(s)) => i - Len(s) \in 1 .. Len(more) /\ t[i] = more[i - Len(s)]
      <4> DEFINE E == ResolvedEdge
      <4>1. s \in Seq(E) /\ more \in Seq(E)
        BY <3>1
      <4> HIDE DEF E
      <4>2. /\ t \in Seq(E) /\ Len(t) = Len(s) + Len(more) /\ Len(s) \in Nat /\ Len(more) \in Nat
            /\ \A i \in 1 .. Len(s) : t[i] = s[i]
            /\ \A i \in 1 .. Len(t) : ~(i <= Len(s)) => i - Len(s) \in 1 .. Len(more) /\ t[i] = more[i - Len(s)]
        BY <3>2, <4>1
      <4> QED
        BY <4>2 DEF E
    <3>4. \A i \in 1 .. Len(more) : more[i].kind = "Calls"
      <4>1. \A i \in 1 .. Len(more) : more[i] \in ToSet(more)
        BY RangeFacts
      <4> QED
        BY <1>3, <4>1
    <3>5. /\ BasesOf(s, C) \in Seq(Seq(C)) /\ Len(BasesOf(s, C)) = Len(s)
          /\ \A i \in 1 .. Len(s) :
                BasesOf(s, C)[i] = IF s[i].kind = "Extends" /\ s[i].target \in C
                                   THEN <<s[i].target>> ELSE <<>>
      BY <3>1, BasesTyped
    <3>6. /\ BasesOf(t, C) \in Seq(Seq(C)) /\ Len(BasesOf(t, C)) = Len(t)
          /\ \A i \in 1 .. Len(t) :
                BasesOf(t, C)[i] = IF t[i].kind = "Extends" /\ t[i].target \in C
                                   THEN <<t[i].target>> ELSE <<>>
      BY <3>3, BasesTyped
    <3> HIDE DEF C
    <3>7. \A i \in 1 .. Len(t) : BasesOf(t, C)[i] = IF i <= Len(s) THEN BasesOf(s, C)[i] ELSE <<>>
      <4> TAKE i \in 1 .. Len(t)
      <4>1. CASE i <= Len(s)
        <5>1. i \in 1 .. Len(s)
          BY <3>3, <4>1
        <5>2. t[i] = s[i]
          BY <3>3, <5>1
        <5> QED
          BY <3>5, <3>6, <4>1, <5>1, <5>2, Zenon
      <4>2. CASE ~(i <= Len(s))
        <5>1. t[i].kind = "Calls"
          BY <3>3, <3>4, <4>2
        <5>2. t[i].kind # "Extends"
          BY <5>1
        <5> QED
          BY <3>6, <4>2, <5>2, Zenon
      <4> QED
        BY <4>1, <4>2
    <3>8. Len(s) <= Len(t)
      BY <3>3
    <3>9. Padded(BasesOf(t, C), BasesOf(s, C), C)
      BY <3>5, <3>6, <3>7, <3>8, Zenon DEF Padded
    <3>10. FlattenSeq(BasesOf(t, C)) = FlattenSeq(BasesOf(s, C))
      BY <3>9, FlattenPadded
    <3>11. adjacency'[c] = t
      BY <2>1, <2>3 DEF t
    <3> QED
      BY <3>10, <3>11 DEF C, s
  <2> QED
    BY <2>2, <2>3
<1>7. Parents = [c \in PyClasses |-> FlattenSeq(BasesOf(adjacency[c], PyClasses))]
  BY ParentsAreBases
<1>8. Parents' = [c \in PyClasses |-> FlattenSeq(BasesOf(adjacency'[c], PyClasses))]
  <2>1. Parents' = [c \in PyClasses' |-> FlattenSeq(BasesOf(adjacency'[c], PyClasses'))]
    BY DEF Parents, PyClasses, IsPythonClass, BasesOf
  <2> QED
    BY <1>4, <2>1
<1> QED
  BY <1>6, <1>7, <1>8

-----------------------------------------------------------------------------
(* A step of a pass *)

\* A pass looks at raw edge k.
Looks(k) ==
    /\ k \in DOMAIN raw_edges /\ k = at /\ pc \in {"first", "second"}
    /\ pc' = pc /\ at' = k + 1 /\ UNCHANGED <<nodes, raw_edges>>

\* What the raw edge k has become; the edges of the others are the same.
EdgesBecome(k, E) ==
    /\ EdgesOf(k)' = E
    /\ \A j \in DOMAIN raw_edges : j # k => EdgesOf(j)' = EdgesOf(j)

\* A raw edge is resolved when a pass looks at it, and no other with it.
LEMMA LooksResolves ==
  ASSUME TypeOK, NEW k, Looks(k)
  PROVE  /\ \A j \in DOMAIN raw_edges : Resolved(j) => Resolved(j)'
         /\ (raw_edges[k].kind = "Calls" <=> pc = "second") => ~Resolved(k) /\ Resolved(k)'
         /\ \A j \in DOMAIN raw_edges : pc = "second" /\ Resolved(j)' /\ j # k => Resolved(j)
<1>1. /\ k \in Nat /\ k = at /\ pc \in {"first", "second"} /\ pc' = pc /\ at' = k + 1
      /\ raw_edges' = raw_edges /\ DOMAIN raw_edges \subseteq Nat
  <2>1. DOMAIN raw_edges \subseteq Nat
    <3> DEFINE R == RawEdge
    <3>1. raw_edges \in Seq(R)
      BY Zenon DEF TypeOK
    <3> HIDE DEF R
    <3> QED
      BY <3>1
  <2> QED
    BY <2>1 DEF Looks
<1> QED
  BY <1>1 DEF Resolved

\* A raw edge that was not resolved has no edges and gets the new ones.
LEMMA EdgesAdded ==
  ASSUME TypeOK, EdgesAreOfRaws, NEW k, Looks(k), ~Resolved(k), NEW tier \in Tiers, Added(k, tier)
  PROVE  EdgesOf(k) = {} /\ EdgesBecome(k, NewEdges(k, tier))
<1> DEFINE S == DOMAIN adjacency
<1>1. /\ k \in DOMAIN raw_edges /\ raw_edges' = raw_edges
      /\ \A s \in S : \A e :
            e \in ToSet(adjacency'[s]) <=>
               e \in ToSet(adjacency[s]) \/ (s = raw_edges[k].source /\ e \in NewEdges(k, tier))
  BY Zenon DEF Looks, Added
<1>2. \A j \in DOMAIN raw_edges : raw_edges[j].source \in S
  <2> DEFINE V == Seq(ResolvedEdge)
             N == DOMAIN nodes \cup {raw_edges[j].source : j \in DOMAIN raw_edges}
  <2>1. adjacency \in [N -> V]
    BY Zenon DEF TypeOK
  <2>2. \A j \in DOMAIN raw_edges : raw_edges[j].source \in N
    OBVIOUS
  <2> HIDE DEF V, N
  <2> QED
    BY <2>1, <2>2
<1>3. \A e \in NewEdges(k, tier) : e.of = k
  BY DEF NewEdges, EdgeTo
<1>4. EdgesOf(k) = {}
  <2>1. \A e \in ToSet(adjacency[raw_edges[k].source]) : e.of # k
    BY <1>1, <1>2, Zenon DEF EdgesAreOfRaws
  <2> QED
    BY <2>1 DEF EdgesOf
<1>5. \A j \in DOMAIN raw_edges :
         EdgesOf(j)' = {e \in ToSet(adjacency'[raw_edges[j].source]) : e.of = j}
  BY <1>1 DEF EdgesOf
<1> HIDE DEF S
<1>6. EdgesOf(k)' = NewEdges(k, tier)
  <2>1. \A e : e \in EdgesOf(k) <=> e \in ToSet(adjacency[raw_edges[k].source]) /\ e.of = k
    BY DEF EdgesOf
  <2>2. \A e : e \in EdgesOf(k)' <=> e \in ToSet(adjacency'[raw_edges[k].source]) /\ e.of = k
    BY <1>1, <1>5
  <2>3. \A e : e \in EdgesOf(k)' <=> e \in NewEdges(k, tier)
    BY <1>1, <1>2, <1>3, <1>4, <2>1, <2>2, Zenon
  <2> QED
    BY <2>3
<1>7. ASSUME NEW j \in DOMAIN raw_edges, j # k PROVE EdgesOf(j)' = EdgesOf(j)
  <2>1. \A e : e \in EdgesOf(j) <=> e \in ToSet(adjacency[raw_edges[j].source]) /\ e.of = j
    BY DEF EdgesOf
  <2>2. \A e : e \in EdgesOf(j)' <=> e \in ToSet(adjacency'[raw_edges[j].source]) /\ e.of = j
    BY <1>5
  <2>3. \A e : e \in EdgesOf(j)' <=> e \in EdgesOf(j)
    BY <1>1, <1>2, <1>3, <1>7, <2>1, <2>2, Zenon
  <2> QED
    BY <2>3
<1> QED
  BY <1>4, <1>6, <1>7, Zenon DEF EdgesBecome

\* Where nothing is added the edges stay.
LEMMA NothingAdded ==
  ASSUME NEW k, Looks(k), UNCHANGED adjacency
  PROVE  EdgesBecome(k, EdgesOf(k))
BY DEF Looks, EdgesBecome, EdgesOf

\* A step adds nothing, or what the pass is for.
PassAdds(k) ==
    \/ UNCHANGED adjacency
    \/ (raw_edges[k].kind = "Calls" <=> pc = "second") /\ \E tier \in Tiers : AddEdges(k, tier)

\* The confidence of an edge, one of E, that a raw edge became.
EdgeIsRight(e, E) ==
    /\ e.confidence \in {"exact", "import_scoped"} => E = {e}
    /\ e.confidence = "import_scoped" => OnlyOfItsName(e.target)
    /\ e.confidence = "global" => E # {e}

\* Those of a raw edge.
EdgesHonest(E) == \A e \in E : EdgeIsRight(e, E)

\* They are right as long as the nodes stay.
LEMMA HonestNext ==
  ASSUME UNCHANGED <<nodes, raw_edges>>
  PROVE  /\ TiersAreHonest <=> \A k \in DOMAIN raw_edges : EdgesHonest(EdgesOf(k))
         /\ TiersAreHonest' <=> \A k \in DOMAIN raw_edges : EdgesHonest(EdgesOf(k)')
<1>1. TiersAreHonest <=> \A k \in DOMAIN raw_edges : EdgesHonest(EdgesOf(k))
  BY Zenon DEF TiersAreHonest, EdgesHonest, EdgeIsRight, OnlyOfItsName
<1>2. nodes' = nodes /\ raw_edges' = raw_edges
  OBVIOUS
<1>3. TiersAreHonest' <=>
         \A k \in DOMAIN raw_edges : \A e \in EdgesOf(k)' :
            /\ e.confidence \in {"exact", "import_scoped"} => EdgesOf(k)' = {e}
            /\ e.confidence = "import_scoped" => OnlyOfItsName(e.target)
            /\ e.confidence = "global" => EdgesOf(k)' # {e}
  BY <1>2 DEF TiersAreHonest, OnlyOfItsName
<1>4. TiersAreHonest' <=> \A k \in DOMAIN raw_edges : EdgesHonest(EdgesOf(k)')
  BY <1>3, Zenon DEF EdgesHonest, EdgeIsRight
<1> QED
  BY <1>1, <1>4

\* The parts of the invariant that both passes preserve alike.
EdgesInv == TypeOK /\ ClassesKeepLanguage /\ EdgesAreOfRaws /\ TiersAreHonest

\* Types, tiers and origins of edges are right after a step of a pass.
LEMMA PassKeepsEdges ==
  ASSUME EdgesInv, NEW k, Looks(k), PassAdds(k)
  PROVE  EdgesInv' /\ \A j \in DOMAIN raw_edges : j # k => EdgesOf(j)' = EdgesOf(j)
<1>1. TypeOK /\ ClassesKeepLanguage /\ EdgesAreOfRaws /\ TiersAreHonest
  BY Zenon DEF EdgesInv
<1>2. /\ k \in DOMAIN raw_edges /\ k = at /\ pc \in {"first", "second"} /\ pc' = pc /\ at' = k + 1
      /\ nodes' = nodes /\ raw_edges' = raw_edges
  BY DEF Looks
<1>3. /\ \A j \in DOMAIN raw_edges : Resolved(j) => Resolved(j)'
      /\ (raw_edges[k].kind = "Calls" <=> pc = "second") => ~Resolved(k) /\ Resolved(k)'
  BY <1>1, LooksResolves
<1>4. ClassesKeepLanguage'
  BY <1>1, <1>2 DEF ClassesKeepLanguage
<1>5. adjacency' \in [DOMAIN adjacency -> Seq(ResolvedEdge)] => TypeOK'
  <2>1. /\ raw_edges \in Seq(RawEdge) /\ at \in Nat \ {0}
        /\ IsFiniteSet(DOMAIN nodes) /\ DOMAIN nodes \subseteq NodeId
    BY <1>1, Zenon DEF TypeOK
  <2>2. DOMAIN adjacency = DOMAIN nodes \cup {raw_edges[j].source : j \in DOMAIN raw_edges}
    <3> DEFINE V == Seq(ResolvedEdge)
               N == DOMAIN nodes \cup {raw_edges[j].source : j \in DOMAIN raw_edges}
    <3>1. adjacency \in [N -> V]
      BY <1>1, Zenon DEF TypeOK
    <3> HIDE DEF V, N
    <3>2. DOMAIN adjacency = N
      BY <3>1
    <3> QED
      BY <3>2 DEF N
  <2>3. at' \in Nat \ {0}
    BY <1>2, <2>1
  <2>4. /\ raw_edges' \in Seq(RawEdge) /\ pc' \in {"first", "second", "done"}
        /\ IsFiniteSet(DOMAIN nodes') /\ DOMAIN nodes' \subseteq NodeId
    BY <1>2, <2>1
  <2>5. DOMAIN nodes' \cup {raw_edges'[j].source : j \in DOMAIN raw_edges'} = DOMAIN adjacency
    BY <1>2, <2>2
  <2> QED
    BY <2>3, <2>4, <2>5, Zenon DEF TypeOK
<1>6. CASE UNCHANGED adjacency
  <2>1. TypeOK'
    <3>1. adjacency \in [DOMAIN adjacency -> Seq(ResolvedEdge)]
      <4> DEFINE V == Seq(ResolvedEdge)
                 N == DOMAIN nodes \cup {raw_edges[j].source : j \in DOMAIN raw_edges}
      <4>1. adjacency \in [N -> V]
        BY <1>1, Zenon DEF TypeOK
      <4> HIDE DEF V, N
      <4>2. adjacency \in [DOMAIN adjacency -> V]
        BY <4>1
      <4> QED
        BY <4>2 DEF V
    <3> QED
      BY <1>5, <1>6, <3>1
  <2>2. EdgesBecome(k, EdgesOf(k))
    BY <1>6, NothingAdded
  <2>3. EdgesOf(k)' = EdgesOf(k) /\ \A j \in DOMAIN raw_edges : j # k => EdgesOf(j)' = EdgesOf(j)
    BY <2>2, Zenon DEF EdgesBecome
  <2>4. \A j \in DOMAIN raw_edges : EdgesOf(j)' = EdgesOf(j)
    BY <2>3
  <2>5. TiersAreHonest'
    BY <1>1, <1>2, <2>4, HonestNext, Zenon
  <2>6. EdgesAreOfRaws'
    <3>1. \A s \in DOMAIN adjacency : \A e \in ToSet(adjacency[s]) :
             /\ e.of \in DOMAIN raw_edges /\ raw_edges[e.of].source = s /\ Resolved(e.of)
             /\ e.kind = raw_edges[e.of].kind /\ e.target \in DOMAIN nodes
      BY <1>1, Zenon DEF EdgesAreOfRaws
    <3>2. \A s \in DOMAIN adjacency' : \A e \in ToSet(adjacency'[s]) :
             /\ e.of \in DOMAIN raw_edges' /\ raw_edges'[e.of].source = s /\ Resolved(e.of)'
             /\ e.kind = raw_edges'[e.of].kind /\ e.target \in DOMAIN nodes'
      BY <1>2, <1>3, <1>6, <3>1
    <3> QED
      BY <3>2, Zenon DEF EdgesAreOfRaws
  <2> QED
    BY <1>4, <2>1, <2>3, <2>5, <2>6, Zenon DEF EdgesInv
<1>7. CASE /\ raw_edges[k].kind = "Calls" <=> pc = "second"
           /\ \E tier \in Tiers : AddEdges(k, tier)
  <2>1. PICK tier \in Tiers : AddEdges(k, tier)
    BY <1>7
  <2>2. Added(k, tier)
    BY <1>1, <1>2, <2>1, AddEdgesFacts
  <2>3. ~Resolved(k) /\ Resolved(k)'
    BY <1>3, <1>7
  <2>4. EdgesOf(k) = {} /\ EdgesBecome(k, NewEdges(k, tier))
    BY <1>1, <2>2, <2>3, EdgesAdded
  <2>5. EdgesOf(k)' = NewEdges(k, tier) /\ \A j \in DOMAIN raw_edges : j # k => EdgesOf(j)' = EdgesOf(j)
    BY <2>4, Zenon DEF EdgesBecome
  <2>6. /\ adjacency' \in [DOMAIN adjacency -> Seq(ResolvedEdge)]
        /\ \A s \in DOMAIN adjacency : \A e :
              e \in ToSet(adjacency'[s]) <=>
                 e \in ToSet(adjacency[s]) \/ (s = raw_edges[k].source /\ e \in NewEdges(k, tier))
    BY <2>2, Zenon DEF Added
  <2>7. DOMAIN adjacency' = DOMAIN adjacency
    <3> DEFINE V == Seq(ResolvedEdge)
    <3>1. adjacency' \in [DOMAIN adjacency -> V]
      BY <2>6
    <3> HIDE DEF V
    <3> QED
      BY <3>1
  <2>8. /\ DOMAIN tier \subseteq DOMAIN nodes
        /\ \A t \in DOMAIN tier : TierIsRight(tier[t], t, DOMAIN tier)
    BY DEF Tiers
  <2>9. \A e \in NewEdges(k, tier) :
           /\ e.of = k /\ e.kind = raw_edges[k].kind /\ e.target \in DOMAIN nodes
           /\ EdgeIsRight(e, NewEdges(k, tier))
    <3> SUFFICES ASSUME NEW t \in DOMAIN tier
                 PROVE  LET e == EdgeTo(k, t, tier[t])
                        IN /\ e.of = k /\ e.kind = raw_edges[k].kind /\ e.target \in DOMAIN nodes
                           /\ EdgeIsRight(e, NewEdges(k, tier))
      BY Zenon DEF NewEdges
    <3> DEFINE e == EdgeTo(k, t, tier[t])
    <3>1. e.of = k /\ e.kind = raw_edges[k].kind /\ e.target = t /\ e.confidence = tier[t]
      BY DEF EdgeTo
    <3>2. DOMAIN tier = {t} => NewEdges(k, tier) = {e}
      BY DEF NewEdges
    <3>5. ASSUME DOMAIN tier # {t} PROVE NewEdges(k, tier) # {e}
      <4>1. PICK u \in DOMAIN tier : u # t
        BY <3>5
      <4>2. EdgeTo(k, u, tier[u]) \in NewEdges(k, tier) /\ EdgeTo(k, u, tier[u]).target = u
        BY DEF NewEdges, EdgeTo
      <4> HIDE DEF e
      <4> QED
        BY <3>1, <4>1, <4>2
    <3> HIDE DEF e
    <3>3. e.target \in DOMAIN nodes
      BY <2>8, <3>1
    <3>4. EdgeIsRight(e, NewEdges(k, tier))
      BY <2>8, <3>1, <3>2, <3>5, Zenon DEF EdgeIsRight, TierIsRight
    <3> QED
      BY <3>1, <3>3, <3>4, Zenon DEF e
  <2>10. TiersAreHonest'
    <3>1. \A j \in DOMAIN raw_edges : EdgesHonest(EdgesOf(j))
      BY <1>1, <1>2, HonestNext, Zenon
    <3>2. ASSUME NEW j \in DOMAIN raw_edges PROVE EdgesHonest(EdgesOf(j)')
      <4>1. CASE j = k
        BY <2>5, <2>9, <4>1, Zenon DEF EdgesHonest
      <4>2. CASE j # k
        BY <2>5, <3>1, <4>2
      <4> QED
        BY <4>1, <4>2
    <3> QED
      BY <1>2, <3>2, HonestNext, Zenon
  <2>11. EdgesAreOfRaws'
    <3>1. \A s \in DOMAIN adjacency : \A e \in ToSet(adjacency[s]) :
             /\ e.of \in DOMAIN raw_edges /\ raw_edges[e.of].source = s /\ Resolved(e.of)
             /\ e.kind = raw_edges[e.of].kind /\ e.target \in DOMAIN nodes
      BY <1>1, Zenon DEF EdgesAreOfRaws
    <3>2. ASSUME NEW s \in DOMAIN adjacency, NEW e \in ToSet(adjacency'[s])
          PROVE  /\ e.of \in DOMAIN raw_edges /\ raw_edges[e.of].source = s /\ Resolved(e.of)'
                 /\ e.kind = raw_edges[e.of].kind /\ e.target \in DOMAIN nodes
      <4>1. CASE e \in ToSet(adjacency[s])
        BY <1>3, <3>1, <4>1, Zenon
      <4>2. CASE s = raw_edges[k].source /\ e \in NewEdges(k, tier)
        BY <1>2, <2>3, <2>9, <4>2
      <4> QED
        BY <2>6, <4>1, <4>2, Zenon
    <3>3. \A s \in DOMAIN adjacency' : \A e \in ToSet(adjacency'[s]) :
             /\ e.of \in DOMAIN raw_edges' /\ raw_edges'[e.of].source = s /\ Resolved(e.of)'
             /\ e.kind = raw_edges'[e.of].kind /\ e.target \in DOMAIN nodes'
      BY <1>2, <2>7, <3>2
    <3> QED
      BY <3>3, Zenon DEF EdgesAreOfRaws
  <2>12. TypeOK'
    BY <1>5, <2>6
  <2> QED
    BY <1>4, <2>5, <2>10, <2>11, <2>12, Zenon DEF EdgesInv
<1> QED
  BY <1>6, <1>7, Zenon DEF PassAdds

-----------------------------------------------------------------------------
(* super() *)

\* The class that super() starts from is a Python class.
LEMMA SuperClassIsPython ==
  ASSUME ClassesKeepLanguage, NEW raw, SuperClass(raw) # NoNode
  PROVE  SuperClass(raw) \in PyClasses
<1>1. SuperClass(raw) = EnclosingClass(raw.source) /\ raw.source \in DOMAIN nodes
      /\ nodes[raw.source].language = "python"
  BY DEF SuperClass
<1>2. EnclosingClass(raw.source) = nodes[raw.source].parent
      /\ nodes[raw.source].parent \in DOMAIN nodes /\ nodes[nodes[raw.source].parent].kind = "Class"
  BY <1>1 DEF EnclosingClass
<1>3. nodes[nodes[raw.source].parent].language = "python"
  BY <1>1, <1>2, Zenon DEF ClassesKeepLanguage
<1> QED
  BY <1>1, <1>2, <1>3 DEF PyClasses, IsPythonClass

DefinersOf(c, s) == {d \in Ancestors(c, Parents) : MethodsNamed(d, s) # {}}

\* t is a method of the first class after c, in Python's order, that has one.
InFirst(t, c, s) ==
    \E mro \in SetToSeqs(Ancestors(c, Parents) \cup {c}) :
        /\ IsPythonsMro(mro, c, Parents)
        /\ \E j \in 2 .. Len(mro) : /\ t \in MethodsNamed(mro[j], s)
                                   /\ \A i \in 2 .. j - 1 : MethodsNamed(mro[i], s) = {}

\* The methods that super() leads to are of the class that Python finds.
SupersAreFirst(c, s) ==
    /\ SuperMethods(c, s) # {}
    /\ \A m \in SuperMethods(c, s) : InFirst(m, c, s) /\ m \in DOMAIN nodes

\* super_methods are those of the first class in Python's order.
LEMMA SuperMethodsFound ==
  ASSUME TypeOK, NEW c \in PyClasses, NEW s, HasMro(c, Parents), DefinersOf(c, s) # {}
  PROVE  SupersAreFirst(c, s)
<1> DEFINE P == Parents
           M == Linearize(c, P)
           A == Ancestors(c, P)
           having == {k \in 2 .. Len(M) : MethodsNamed(M[k], s) # {}}
           j == Min(having)
<1>1. P \in [PyClasses -> Seq(PyClasses)] /\ IsFiniteSet(PyClasses)
  BY ParentsTyped
<1>2. FoundMro(M, c, P)
  <2> HIDE DEF P
  <2>1. HasMro(c, P)
    BY DEF P
  <2> QED
    BY <1>1, <2>1, HasMroFound
<1>3. SuperMethods(c, s) = IF having = {} THEN {} ELSE MethodsNamed(M[j], s)
  BY Zenon DEF SuperMethods
<1>4. \A d : d \in DefinersOf(c, s) <=> d \in A /\ MethodsNamed(d, s) # {}
  BY DEF DefinersOf
<1>5. \A k : k \in having <=> k \in 2 .. Len(M) /\ MethodsNamed(M[k], s) # {}
  OBVIOUS
<1>6. j = CHOOSE x \in having : \A y \in having : x <= y
  BY DEF Min
<1>7. \A m \in MethodsNamed(M[j], s) : m \in DOMAIN nodes
  BY DEF MethodsNamed, MembersNamed
<1> HIDE DEF P, M, A, having, j
<1>8. /\ IsPythonsMro(M, c, P) /\ c \notin A /\ Len(M) \in Nat /\ DOMAIN M = 1 .. Len(M) /\ M[1] = c
      /\ \A x : x \in A \cup {c} <=> \E a \in DOMAIN M : M[a] = x
  BY <1>2, Zenon DEF FoundMro, A
<1>9. having # {} /\ having \in SUBSET (2 .. Len(M))
  <2>1. PICK d \in DefinersOf(c, s) : TRUE
    OBVIOUS
  <2>2. PICK a \in DOMAIN M : M[a] = d
    BY <1>4, <1>8, <2>1
  <2>3. a # 1
    BY <1>4, <1>8, <2>1, <2>2
  <2>4. a \in 2 .. Len(M)
    BY <1>8, <2>2, <2>3
  <2>5. a \in having
    BY <1>4, <1>5, <2>1, <2>2, <2>4
  <2> QED
    BY <1>5, <2>5
<1>10. j \in having /\ \A k \in having : j <= k
  <2>1. 2 \in Int /\ Len(M) \in Int
    BY <1>8
  <2>2. \E x \in having : \A y \in having : x <= y
    BY <1>9, <2>1, BoundsExist
  <2> QED
    BY <1>6, <2>2, Zenon
<1>11. j \in 2 .. Len(M) /\ MethodsNamed(M[j], s) # {}
  BY <1>5, <1>10
<1>12. \A i \in 2 .. j - 1 : MethodsNamed(M[i], s) = {}
  <2> SUFFICES ASSUME NEW i \in 2 .. j - 1, MethodsNamed(M[i], s) # {} PROVE FALSE
    OBVIOUS
  <2>1. i \in 2 .. Len(M) /\ ~(j <= i)
    BY <1>8, <1>11
  <2> QED
    BY <1>5, <1>10, <2>1
<1>13. M \in SetToSeqs(A \cup {c})
  BY <1>8, Zenon DEF IsPythonsMro, IsMro, A
<1>14. \A m \in MethodsNamed(M[j], s) : InFirst(m, c, s)
  BY <1>8, <1>11, <1>12, <1>13, Zenon DEF InFirst, A, P
<1>15. SuperMethods(c, s) = MethodsNamed(M[j], s)
  BY <1>3, <1>9
<1> QED
  BY <1>7, <1>11, <1>14, <1>15 DEF SupersAreFirst

\* What FollowsPython says of methods.
Follows(k) ==
    LET cls == SuperClass(raw_edges[k])
        s == Last(raw_edges[k].target.path)
    IN cls # NoNode /\ HasMro(cls, Parents) /\ DefinersOf(cls, s) # {} =>
          \E e \in EdgesOf(k) :
              /\ EdgesOf(k) = {e} /\ e.confidence = "exact"
              /\ InFirst(e.target, cls, s)

\* Follows stands for the property.
LEMMA FollowsIff ==
  ASSUME NEW k
  PROVE  FollowsPython(k, MethodsNamed) <=> Follows(k)
BY Zenon DEF FollowsPython, Found, Definers, DefinersOf, InFirst, Follows

\* The same after a step.
LEMMA FollowsIffNext ==
  ASSUME NEW k
  PROVE  FollowsPython(k, MethodsNamed)' <=> Follows(k)'
BY Zenon DEF FollowsPython, Found, Definers, DefinersOf, InFirst, Follows

\* It depends on the bases and the raw edge's own edges only.
LEMMA FollowsKept ==
  ASSUME NEW k, Follows(k), UNCHANGED <<nodes, raw_edges>>,
         Parents' = Parents, EdgesOf(k)' = EdgesOf(k)
  PROVE  Follows(k)'
<1>1. nodes' = nodes /\ raw_edges' = raw_edges
  OBVIOUS
<1>2. SuperClass(raw_edges[k])' = SuperClass(raw_edges[k])
  BY <1>1 DEF SuperClass, EnclosingClass
<1>3. \A c, s : MethodsNamed(c, s)' = MethodsNamed(c, s)
  BY <1>1 DEF MethodsNamed, MembersNamed
<1>4. \A t, c, s : InFirst(t, c, s)' <=> InFirst(t, c, s)
  BY <1>3, Zenon DEF InFirst
<1>5. \A c, s : DefinersOf(c, s)' = DefinersOf(c, s)
  BY <1>3 DEF DefinersOf
<1> QED
  BY <1>1, <1>2, <1>4, <1>5 DEF Follows

\* A call of super() in the second pass is resolved to what Python calls.
LEMMA CallFollows ==
  ASSUME EdgesInv, NEW k, Looks(k), pc = "second", raw_edges[k].kind = "Calls", ResolveCall(k)
  PROVE  Parents' = Parents /\ Follows(k)'
<1> DEFINE raw == raw_edges[k]
           cls == SuperClass(raw)
           s == Last(raw.target.path)
           supers == IF cls = NoNode THEN {} ELSE SuperMethods(cls, s)
<1>1. TypeOK /\ ClassesKeepLanguage /\ EdgesAreOfRaws
  BY Zenon DEF EdgesInv
<1>2. k \in DOMAIN raw_edges /\ nodes' = nodes /\ raw_edges' = raw_edges
  BY DEF Looks
<1>3. ~Resolved(k)
  <2>1. (raw_edges[k].kind = "Calls" <=> pc = "second") => ~Resolved(k)
    BY <1>1, LooksResolves
  <2> QED
    BY <2>1
<1>4. \A tier \in Tiers : AddEdges(k, tier) =>
         Parents' = Parents /\ EdgesOf(k)' = NewEdges(k, tier)
  <2> SUFFICES ASSUME NEW tier \in Tiers, AddEdges(k, tier)
               PROVE  Parents' = Parents /\ EdgesOf(k)' = NewEdges(k, tier)
    BY Zenon
  <2>1. Added(k, tier)
    BY <1>1, <1>2, AddEdgesFacts
  <2>2. Parents' = Parents
    BY <1>1, <1>2, <2>1, ParentsStay
  <2>3. EdgesBecome(k, NewEdges(k, tier))
    BY <1>1, <1>3, <2>1, EdgesAdded
  <2> QED
    BY <2>2, <2>3, Zenon DEF EdgesBecome
<1>5. (\E m \in supers : AddExact(k, {m})) \/ (supers = {} /\ AddByName(k, CallTargets(raw.target)))
  BY Zenon DEF ResolveCall
<1>6. Parents' = Parents
  <2>1. Adds(k)
    BY <1>1, CallAdds
  <2>2. CASE UNCHANGED adjacency
    BY <1>2, <2>2 DEF Parents, IsPythonClass
  <2>3. CASE \E tier \in Tiers : AddEdges(k, tier)
    BY <1>4, <2>3, Zenon
  <2> QED
    BY <2>1, <2>2, <2>3, Zenon DEF Adds
<1>7. ASSUME cls # NoNode, HasMro(cls, Parents), DefinersOf(cls, s) # {}
      PROVE  \E e \in EdgesOf(k)' :
                 /\ EdgesOf(k)' = {e} /\ e.confidence = "exact"
                 /\ InFirst(e.target, cls, s)
  <2>1. cls \in PyClasses
    BY <1>1, <1>7, SuperClassIsPython
  <2> HIDE DEF cls, s
  <2>2. SupersAreFirst(cls, s)
    BY <1>1, <1>7, <2>1, SuperMethodsFound
  <2>3. SuperMethods(cls, s) # {} /\ supers = SuperMethods(cls, s)
    BY <1>7, <2>2, Zenon DEF SupersAreFirst
  <2> HIDE DEF supers
  <2>4. PICK m \in SuperMethods(cls, s) : AddExact(k, {m})
    BY <1>5, <2>3
  <2>5. InFirst(m, cls, s) /\ m \in DOMAIN nodes
    BY <2>2, Zenon DEF SupersAreFirst
  <2> DEFINE tier == [t \in {m} |-> "exact"]
             e == EdgeTo(k, m, "exact")
  <2>6. AddEdges(k, tier)
    BY <2>4, Zenon DEF AddExact
  <2>7. tier \in Tiers
    <3>1. {m} \in SUBSET DOMAIN nodes /\ \A x, y \in {m} : x = y
      BY <2>5
    <3> QED
      BY <3>1, ExactTier
  <2>8. NewEdges(k, tier) = {e}
    <3>1. DOMAIN tier = {m} /\ tier[m] = "exact"
      OBVIOUS
    <3> HIDE DEF tier
    <3> QED
      BY <3>1 DEF NewEdges
  <2>9. e.target = m /\ e.confidence = "exact"
    BY DEF EdgeTo
  <2> HIDE DEF tier, e
  <2>10. EdgesOf(k)' = {e}
    BY <1>4, <2>6, <2>7, <2>8, Zenon
  <2> QED
    BY <2>5, <2>9, <2>10
<1>8. SuperClass(raw_edges[k])' = SuperClass(raw_edges[k])
  BY <1>2 DEF SuperClass, EnclosingClass
<1>9. \A c, n : MethodsNamed(c, n)' = MethodsNamed(c, n)
  BY <1>2 DEF MethodsNamed, MembersNamed
<1>10. \A t, c, n : InFirst(t, c, n)' <=> InFirst(t, c, n)
  BY <1>6, <1>9, Zenon DEF InFirst
<1>11. \A c, n : DefinersOf(c, n)' = DefinersOf(c, n)
  BY <1>6, <1>9 DEF DefinersOf
<1>12. Follows(k)'
  BY <1>2, <1>6, <1>7, <1>8, <1>10, <1>11 DEF Follows
<1> QED
  BY <1>6, <1>12

-----------------------------------------------------------------------------
(* The steps *)

AllFollow == pc # "first" => \A k \in SuperCalls : Resolved(k) => Follows(k)

\* The same of all calls of super().
LEMMA SupersIff ==
  /\ SupersFollowPython <=> AllFollow
  /\ SupersFollowPython' <=> AllFollow'
  /\ SuperFollowsPython <=> (pc = "done" => \A k \in SuperCalls : Follows(k))
<1>1. \A k : FollowsPython(k, MethodsNamed) <=> Follows(k)
  BY FollowsIff, Zenon
<1>2. \A k : FollowsPython(k, MethodsNamed)' <=> Follows(k)'
  BY FollowsIffNext, Zenon
<1>3. SupersFollowPython <=> AllFollow
  BY <1>1, Zenon DEF SupersFollowPython, AllFollow
<1>4. SupersFollowPython' <=> AllFollow'
  BY <1>2, Zenon DEF SupersFollowPython, AllFollow
<1> QED
  BY <1>1, <1>3, <1>4, Zenon DEF SuperFollowsPython

\* What the actions of the passes may add.
LEMMA StructureAdds ==
  ASSUME TypeOK, NEW k, k = at, ResolveStructure
  PROVE  PassAdds(k)
<1>1. pc = "first" /\ ResolveRaw(k)
  BY DEF ResolveStructure
<1>2. Adds(k)
  BY <1>1, RawAdds
<1>3. CASE raw_edges[k].kind = "Calls"
  <2>1. UNCHANGED adjacency
    BY <1>1, <1>3 DEF ResolveRaw
  <2> QED
    BY <2>1, Zenon DEF PassAdds
<1>4. CASE raw_edges[k].kind # "Calls"
  BY <1>1, <1>2, <1>4 DEF PassAdds, Adds
<1> QED
  BY <1>3, <1>4

\* The second pass adds edges of calls.
LEMMA CallsAdd ==
  ASSUME TypeOK, NEW k, k = at, ResolveCalls
  PROVE  PassAdds(k)
<1>1. pc = "second" /\ IF raw_edges[k].kind = "Calls" THEN ResolveCall(k) ELSE UNCHANGED adjacency
  BY DEF ResolveCalls
<1>2. CASE raw_edges[k].kind = "Calls"
  <2>1. Adds(k)
    BY <1>1, <1>2, CallAdds
  <2> QED
    BY <1>1, <1>2, <2>1 DEF PassAdds, Adds
<1>3. CASE raw_edges[k].kind # "Calls"
  <2>1. UNCHANGED adjacency
    BY <1>1, <1>3
  <2> QED
    BY <2>1, Zenon DEF PassAdds
<1> QED
  BY <1>2, <1>3

\* A step of the first pass keeps the invariant.
LEMMA StructureStep ==
  ASSUME EdgesInv, ResolveStructure
  PROVE  EdgesInv' /\ AllFollow'
<1>1. PICK k : k = at
  OBVIOUS
<1>2. pc = "first" /\ k \in DOMAIN raw_edges /\ ResolveRaw(k) /\ at' = k + 1
      /\ nodes' = nodes /\ raw_edges' = raw_edges /\ pc' = pc
  BY <1>1 DEF ResolveStructure
<1>3. Looks(k)
  BY <1>1, <1>2 DEF Looks
<1>4. TypeOK
  BY Zenon DEF EdgesInv
<1>5. EdgesInv'
  BY <1>1, <1>3, <1>4, StructureAdds, PassKeepsEdges
<1> QED
  BY <1>2, <1>5 DEF AllFollow

\* So does one of the second.
LEMMA CallsStep ==
  ASSUME EdgesInv, AllFollow, ResolveCalls
  PROVE  EdgesInv' /\ AllFollow'
<1>1. PICK k : k = at
  OBVIOUS
<1>2. /\ pc = "second" /\ k \in DOMAIN raw_edges /\ at' = k + 1
      /\ IF raw_edges[k].kind = "Calls" THEN ResolveCall(k) ELSE UNCHANGED adjacency
      /\ nodes' = nodes /\ raw_edges' = raw_edges /\ pc' = pc
  BY <1>1 DEF ResolveCalls
<1>3. Looks(k)
  BY <1>1, <1>2 DEF Looks
<1>4. TypeOK
  BY Zenon DEF EdgesInv
<1>5. PassAdds(k)
  BY <1>1, <1>4, CallsAdd
<1>6. EdgesInv' /\ \A j \in DOMAIN raw_edges : j # k => EdgesOf(j)' = EdgesOf(j)
  BY <1>3, <1>5, PassKeepsEdges
<1>7. Parents' = Parents /\ (raw_edges[k].kind = "Calls" => Follows(k)')
  <2>1. CASE raw_edges[k].kind = "Calls"
    BY <1>2, <1>3, <2>1, CallFollows
  <2>2. CASE raw_edges[k].kind # "Calls"
    <3>1. adjacency' = adjacency
      BY <1>2, <2>2
    <3>2. Parents' = Parents
      BY <1>2, <3>1 DEF Parents, IsPythonClass
    <3> QED
      BY <2>2, <3>2
  <2> QED
    BY <2>1, <2>2
<1>8. \A j \in DOMAIN raw_edges : pc = "second" /\ Resolved(j)' /\ j # k => Resolved(j)
  BY <1>3, <1>4, LooksResolves
<1>9. SuperCalls' = SuperCalls
  BY <1>2 DEF SuperCalls
<1>10. ASSUME NEW j \in SuperCalls, Resolved(j)' PROVE Follows(j)'
  <2>1. j \in DOMAIN raw_edges /\ raw_edges[j].kind = "Calls"
    BY DEF SuperCalls
  <2>2. CASE j = k
    BY <1>7, <2>1, <2>2
  <2>3. CASE j # k
    <3>1. Follows(j)
      BY <1>2, <1>8, <1>10, <2>1, <2>3 DEF AllFollow
    <3>2. EdgesOf(j)' = EdgesOf(j)
      BY <1>6, <2>1, <2>3
    <3>3. UNCHANGED <<nodes, raw_edges>>
      BY <1>2
    <3> QED
      BY <1>7, <3>1, <3>2, <3>3, FollowsKept
  <2> QED
    BY <2>2, <2>3
<1>11. AllFollow'
  BY <1>9, <1>10, Zenon DEF AllFollow
<1> QED
  BY <1>6, <1>11

\* Steps that leave the edges alone and go no way back.
LEMMA EdgesStay ==
  ASSUME EdgesInv, UNCHANGED <<nodes, raw_edges, adjacency>>,
         pc' \in {"first", "second", "done"}, at' \in Nat \ {0},
         \A j \in DOMAIN raw_edges : Resolved(j) => Resolved(j)'
  PROVE  EdgesInv'
<1>1. TypeOK /\ ClassesKeepLanguage /\ EdgesAreOfRaws /\ TiersAreHonest
  BY Zenon DEF EdgesInv
<1>2. nodes' = nodes /\ raw_edges' = raw_edges /\ adjacency' = adjacency
  OBVIOUS
<1>3. TypeOK'
  <2>1. /\ raw_edges \in Seq(RawEdge) /\ IsFiniteSet(DOMAIN nodes) /\ DOMAIN nodes \subseteq NodeId
        /\ adjacency \in [DOMAIN nodes \cup {raw_edges[k].source : k \in DOMAIN raw_edges} ->
                             Seq(ResolvedEdge)]
    BY <1>1, Zenon DEF TypeOK
  <2> QED
    BY <1>2, <2>1 DEF TypeOK
<1>4. ClassesKeepLanguage'
  BY <1>1, <1>2 DEF ClassesKeepLanguage
<1>5. EdgesAreOfRaws'
  <2>1. \A s \in DOMAIN adjacency : \A e \in ToSet(adjacency[s]) :
           /\ e.of \in DOMAIN raw_edges /\ raw_edges[e.of].source = s /\ Resolved(e.of)
           /\ e.kind = raw_edges[e.of].kind /\ e.target \in DOMAIN nodes
    BY <1>1, Zenon DEF EdgesAreOfRaws
  <2>2. \A s \in DOMAIN adjacency' : \A e \in ToSet(adjacency'[s]) :
           /\ e.of \in DOMAIN raw_edges' /\ raw_edges'[e.of].source = s /\ Resolved(e.of)'
           /\ e.kind = raw_edges'[e.of].kind /\ e.target \in DOMAIN nodes'
    BY <1>2, <2>1
  <2> QED
    BY <2>2, Zenon DEF EdgesAreOfRaws
<1>6. TiersAreHonest'
  BY <1>1, <1>2 DEF TiersAreHonest, EdgesOf
<1> QED
  BY <1>3, <1>4, <1>5, <1>6, Zenon DEF EdgesInv

\* FollowsKept for a step that leaves all of it as it was.
LEMMA FollowsUnchanged ==
  ASSUME NEW k, Follows(k), UNCHANGED <<nodes, raw_edges, adjacency>>
  PROVE  Follows(k)'
<1>1. nodes' = nodes /\ raw_edges' = raw_edges /\ adjacency' = adjacency
  OBVIOUS
<1>2. Parents' = Parents
  BY <1>1 DEF Parents, IsPythonClass
<1>3. EdgesOf(k)' = EdgesOf(k)
  BY <1>1 DEF EdgesOf
<1> QED
  BY <1>2, <1>3, FollowsKept

\* All steps keep it.
LEMMA NextIInv ==
  ASSUME IInv, [Next]_vars
  PROVE  IInv'
<1>1. EdgesInv /\ AllFollow
  <2>1. TypeOK /\ ClassesKeepLanguage /\ EdgesAreOfRaws /\ TiersAreHonest /\ SupersFollowPython
    BY Zenon DEF IInv
  <2>2. AllFollow
    BY <2>1, SupersIff, Zenon
  <2> QED
    BY <2>1, <2>2, Zenon DEF EdgesInv
<1>2. at \in Nat \ {0} /\ pc \in {"first", "second", "done"}
      /\ DOMAIN raw_edges = 1 .. Len(raw_edges) /\ Len(raw_edges) \in Nat
  <2>1. raw_edges \in Seq(RawEdge) /\ at \in Nat \ {0} /\ pc \in {"first", "second", "done"}
    BY <1>1, Zenon DEF EdgesInv, TypeOK
  <2> DEFINE R == RawEdge
  <2>2. raw_edges \in Seq(R)
    BY <2>1
  <2> HIDE DEF R
  <2> QED
    BY <2>1, <2>2
<1>3. EdgesInv' /\ AllFollow'
  <2>1. CASE ResolveStructure
    BY <1>1, <2>1, StructureStep
  <2>2. CASE ResolveCalls
    BY <1>1, <2>2, CallsStep
  <2>3. CASE StartCalls
    <3>1. pc = "first" /\ at \notin DOMAIN raw_edges /\ pc' = "second" /\ at' = 1
          /\ nodes' = nodes /\ raw_edges' = raw_edges /\ adjacency' = adjacency
      BY <2>3 DEF StartCalls
    <3>2. \A j \in DOMAIN raw_edges : Resolved(j) => Resolved(j)'
      BY <3>1 DEF Resolved
    <3>3. EdgesInv'
      BY <1>1, <3>1, <3>2, EdgesStay
    <3>4. \A j \in SuperCalls' : ~Resolved(j)'
      BY <1>2, <3>1 DEF Resolved, SuperCalls
    <3> QED
      BY <3>3, <3>4, Zenon DEF AllFollow
  <2>4. CASE Finish
    <3>1. pc = "second" /\ at \notin DOMAIN raw_edges /\ pc' = "done" /\ at' = at
          /\ nodes' = nodes /\ raw_edges' = raw_edges /\ adjacency' = adjacency
      BY <2>4 DEF Finish
    <3>2. \A j \in DOMAIN raw_edges : Resolved(j) => Resolved(j)'
      BY <3>1 DEF Resolved
    <3>3. EdgesInv'
      BY <1>1, <1>2, <3>1, <3>2, EdgesStay
    <3>4. \A j \in DOMAIN raw_edges : j < at
      BY <1>2, <3>1
    <3>5. ASSUME NEW j \in SuperCalls PROVE Follows(j)
      <4>1. j \in DOMAIN raw_edges /\ raw_edges[j].kind = "Calls"
        BY DEF SuperCalls
      <4>2. Resolved(j)
        BY <3>1, <3>4, <4>1 DEF Resolved
      <4> QED
        BY <1>1, <3>1, <4>2 DEF AllFollow
    <3>6. UNCHANGED <<nodes, raw_edges, adjacency>>
      BY <3>1
    <3>7. \A j \in SuperCalls : Follows(j)'
      BY <3>5, <3>6, FollowsUnchanged
    <3>8. SuperCalls' = SuperCalls
      BY <3>1 DEF SuperCalls
    <3> QED
      BY <3>3, <3>7, <3>8, Zenon DEF AllFollow
  <2>5. CASE UNCHANGED vars
    <3>1. nodes' = nodes /\ raw_edges' = raw_edges /\ adjacency' = adjacency /\ pc' = pc /\ at' = at
      BY <2>5 DEF vars
    <3>2. \A j : Resolved(j) <=> Resolved(j)'
      BY <3>1 DEF Resolved
    <3>3. EdgesInv'
      BY <1>1, <1>2, <3>1, <3>2, EdgesStay
    <3>4. UNCHANGED <<nodes, raw_edges, adjacency>>
      BY <3>1
    <3>5. \A j : Follows(j) => Follows(j)'
      BY <3>4, FollowsUnchanged
    <3>6. SuperCalls' = SuperCalls
      BY <3>1 DEF SuperCalls
    <3> QED
      BY <1>1, <3>1, <3>2, <3>3, <3>5, <3>6, Zenon DEF AllFollow
  <2> QED
    BY <2>1, <2>2, <2>3, <2>4, <2>5, Zenon DEF Next
<1>4. SupersFollowPython'
  BY <1>3, SupersIff, Zenon
<1> QED
  BY <1>3, <1>4, Zenon DEF EdgesInv, IInv

-----------------------------------------------------------------------------
(* Where edges start *)

\* Each raw edge is of a line of a file and starts where StartsAt allows, given
\* the symbols X[f] of each file f; the nodes are these and the routes.
FilesFit(X) ==
    /\ \A f \in DOMAIN project :
          /\ IsFile(project[f].rows)
          /\ \A i \in X[f] : i.file = f /\ i.kind # "Route"
    /\ \A i : i \in DOMAIN nodes <=>
          \E f \in DOMAIN project : i \in X[f] \cup RouteIds(f, project[f].rows)
    /\ \A k \in DOMAIN raw_edges : \E f \in DOMAIN project : \E r \in DOMAIN project[f].rows :
          \/ EdgeFits(raw_edges[k], project[f].language, f, X[f], project[f].rows, r,
                      CallerKinds(project[f].language))
          \/ IsHandling(raw_edges[k], f, X[f], project[f].rows, r)
    /\ \A f \in DOMAIN project : \A r \in DOMAIN project[f].rows :
          project[f].rows[r].node = "route" =>
             \A i \in FunctionsAt(X[f], project[f].rows, r) : \E k \in DOMAIN raw_edges :
                raw_edges[k].source = i /\ IsHandling(raw_edges[k], f, X[f], project[f].rows, r)

\* The raw calls are those of the lines, with the names that lead to the types'
\* own members; nodes have the names of their ids.
CallsAre(X) ==
    /\ \A i \in DOMAIN nodes : /\ i.file \in DOMAIN project /\ nodes[i].name = i.name
                               /\ nodes[i].language = project[i.file].language
    /\ \A f \in DOMAIN project : \A r \in DOMAIN project[f].rows :
          \A e \in ToSet(LineEdges(project[f].language, f, project[f].rows, r)) :
             e.kind = "Calls" => e.line = r - 1 /\ \E k \in DOMAIN raw_edges : raw_edges[k] = e
    /\ \A f \in DOMAIN project : \A r \in DOMAIN project[f].rows : \A k \in DOMAIN raw_edges :
          raw_edges[k].kind = "Calls" /\ raw_edges[k].source.file = f /\ raw_edges[k].line = r - 1 =>
             raw_edges[k] \in ToSet(LineEdges(project[f].language, f, project[f].rows, r))
    /\ \A f \in DOMAIN project : \A r \in CallsOf(project[f].language, project[f].rows) :
          OwnFits(project[f].language, f, X[f], project[f].rows, r)

\* A route's edge leads to the route, if it is in the graph.
RouteLeads(k) ==
    raw_edges[k].kind = "HandlesRoute" /\ Resolved(k) =>
        {e.target : e \in EdgesOf(k)} = Known(raw_edges[k].id)

\* A call that is not of super() leads to all that have the name.
CallLeads(k) ==
    raw_edges[k].kind = "Calls" /\ Resolved(k) /\ SuperClass(raw_edges[k]) = NoNode =>
        {e.target : e \in EdgesOf(k)} = CallTargets(raw_edges[k].target)

StartInv ==
    /\ \E X : FilesFit(X) /\ CallsAre(X)
    /\ \A k \in DOMAIN raw_edges : RouteLeads(k) /\ CallLeads(k)

\* All that the files give fits, in whatever order they are parsed.
LEMMA FilesFitInit ==
  ASSUME Init
  PROVE  \E X : FilesFit(X) /\ CallsAre(X)
<1> DEFINE got == [f \in DOMAIN project |-> Extract(f, project[f])]
           D == DOMAIN project
<1>1. project \in Projects
  BY Zenon DEF Init
<1>2. /\ DOMAIN nodes = UNION {DOMAIN got[f].nodes : f \in D}
      /\ \A i \in DOMAIN nodes : nodes[i] = got[i.file].nodes[i]
      /\ \E order \in SetToSeqs(D) :
            raw_edges = FlattenSeq([k \in DOMAIN order |-> got[order[k]].raws])
  <2>1. PICK o \in {got} :
          /\ nodes = [i \in UNION {DOMAIN o[f].nodes : f \in D} |-> o[i.file].nodes[i]]
          /\ \E order \in SetToSeqs(D) :
                raw_edges = FlattenSeq([k \in DOMAIN order |-> o[order[k]].raws])
    BY Zenon DEF Init
  <2>2. o = got
    OBVIOUS
  <2> DEFINE N == UNION {DOMAIN o[f].nodes : f \in D}
  <2>3. DOMAIN nodes = N /\ \A i \in DOMAIN nodes : nodes[i] = o[i.file].nodes[i]
    <3> HIDE DEF N
    <3>1. nodes = [i \in N |-> o[i.file].nodes[i]]
      BY <2>1, Zenon DEF N
    <3> QED
      BY <3>1
  <2> HIDE DEF got
  <2> QED
    BY <2>1, <2>2, <2>3, Zenon
<1>3. PICK order \in SetToSeqs(D) : raw_edges = FlattenSeq([k \in DOMAIN order |-> got[order[k]].raws])
  BY <1>2, Zenon
<1>4. IsFiniteSet(D)
  BY <1>1, ProjectsAssumption
<1>5. \A f \in D : got[f] = Extract(f, project[f])
  OBVIOUS
<1> HIDE DEF got
<1> DEFINE fit(f, x) == GotFits(got[f], x, project[f].language, f, project[f].rows)
<1>6. \A f \in D : IsFile(project[f].rows) /\ \E x : fit(f, x)
  <2> TAKE f \in D
  <2> DEFINE content == project[f]
  <2>1. /\ content.language \in DOMAIN NodesOf
        /\ IsRows(content.rows, NodesOf[content.language]) /\ Placed(content.language, content.rows)
        /\ Spelled(content.language, content.rows)
    BY <1>1, ProjectsAssumption
  <2> HIDE DEF content
  <2>2. IsFile(content.rows)
    BY <2>1, RowsAreFile
  <2>3. PICK x : GotFits(Extract(f, content), x, content.language, f, content.rows)
    BY <2>1, ExtractFits
  <2>4. fit(f, x)
    BY <1>5, <2>3, Zenon DEF content
  <2> HIDE DEF fit
  <2> QED
    BY <2>2, <2>4 DEF content
<1> DEFINE X == [f \in D |-> CHOOSE x : fit(f, x)]
<1>7. \A f \in D : X[f] = CHOOSE x : fit(f, x)
  OBVIOUS
<1> HIDE DEF X
<1>8. ASSUME NEW f \in D
      PROVE  GotFits(got[f], X[f], project[f].language, f, project[f].rows)
  <2>1. \E x : fit(f, x)
    BY <1>6
  <2>2. fit(f, CHOOSE x : fit(f, x))
    <3> HIDE DEF fit
    <3> QED
      BY <2>1, Zenon
  <2>3. X[f] = CHOOSE x : fit(f, x)
    BY <1>7
  <2> DEFINE c == CHOOSE x : fit(f, x)
  <2>4. fit(f, c) /\ X[f] = c
    BY <2>2, <2>3
  <2> HIDE DEF c
  <2> QED
    BY <2>4
<1> HIDE DEF fit
<1>9. \A f \in D : /\ DOMAIN got[f].nodes = X[f] \cup RouteIds(f, project[f].rows)
                   /\ \A i \in X[f] : i.file = f /\ i.kind # "Route"
                   /\ IsSeq(got[f].raws)
  BY <1>8, Zenon DEF GotFits
<1>10. \A i : i \in DOMAIN nodes <=> \E f \in D : i \in X[f] \cup RouteIds(f, project[f].rows)
  BY <1>2, <1>9
<1>11. /\ raw_edges \in Seq(ToSet(raw_edges)) 
       /\ \A x : x \in ToSet(raw_edges) <=> \E f \in D : x \in ToSet(got[f].raws)
  <2>1. Enumerates(order, D)
    BY <1>3, <1>4, SetToSeqsFacts
  <2>2. order \in Seq(D) /\ \A x : x \in D <=> \E i \in 1 .. Len(order) : order[i] = x
    BY <2>1, Zenon DEF Enumerates
  <2> HIDE DEF D
  <2>3. /\ Len(order) \in Nat /\ DOMAIN order = 1 .. Len(order)
        /\ \A k \in 1 .. Len(order) : order[k] \in D
    BY <2>2
  <2> DEFINE n == Len(order)
             ss == [k \in DOMAIN order |-> got[order[k]].raws]
  <2>4. ss = [k \in 1 .. n |-> ss[k]] /\ \A k \in 1 .. n : ss[k] = got[order[k]].raws
    BY <2>3
  <2>5. raw_edges = FlattenSeq(ss)
    BY <1>3
  <2> HIDE DEF ss
  <2>6. \A k \in 1 .. n : IsSeq(ss[k])
    BY <1>9, <2>3, <2>4
  <2>7. n \in Nat
    BY <2>3
  <2> HIDE DEF n
  <2>8. /\ IsSeq(FlattenSeq(ss))
        /\ \A x : x \in ToSet(FlattenSeq(ss)) <=> \E k \in 1 .. n : x \in ToSet(ss[k])
    BY <2>4, <2>6, <2>7, FlattenLines, Zenon
  <2>9. \A x : x \in ToSet(raw_edges) <=> \E k \in 1 .. n : x \in ToSet(got[order[k]].raws)
    BY <2>4, <2>5, <2>8
  <2>10. \A x : x \in ToSet(raw_edges) <=> \E f \in D : x \in ToSet(got[f].raws)
    BY <2>2, <2>3, <2>9, Zenon DEF n
  <2> QED
    BY <2>5, <2>8, <2>10 DEF IsSeq
<1>12. /\ \A k \in DOMAIN raw_edges : raw_edges[k] \in ToSet(raw_edges)
       /\ \A x \in ToSet(raw_edges) : \E k \in DOMAIN raw_edges : raw_edges[k] = x
  BY DEF ToSet
<1>13. ASSUME NEW k \in DOMAIN raw_edges
       PROVE  \E f \in D : \E r \in DOMAIN project[f].rows :
                 \/ EdgeFits(raw_edges[k], project[f].language, f, X[f], project[f].rows, r,
                             CallerKinds(project[f].language))
                 \/ IsHandling(raw_edges[k], f, X[f], project[f].rows, r)
  <2>1. PICK f \in D : raw_edges[k] \in ToSet(got[f].raws)
    BY <1>11, <1>12
  <2>2. \E r \in DOMAIN project[f].rows :
           \/ EdgeFits(raw_edges[k], project[f].language, f, X[f], project[f].rows, r,
                       CallerKinds(project[f].language))
           \/ IsHandling(raw_edges[k], f, X[f], project[f].rows, r)
    BY <1>8, <2>1, Zenon DEF GotFits
  <2> QED
    BY <2>2
<1>14. ASSUME NEW f \in D, NEW r \in DOMAIN project[f].rows, project[f].rows[r].node = "route",
              NEW i \in FunctionsAt(X[f], project[f].rows, r)
       PROVE  \E k \in DOMAIN raw_edges :
                raw_edges[k].source = i /\ IsHandling(raw_edges[k], f, X[f], project[f].rows, r)
  <2>1. PICK e \in ToSet(got[f].raws) : e.source = i /\ IsHandling(e, f, X[f], project[f].rows, r)
    BY <1>8, <1>14, Zenon DEF GotFits
  <2>2. PICK k \in DOMAIN raw_edges : raw_edges[k] = e
    BY <1>11, <1>12
  <2> QED
    BY <2>1, <2>2, Zenon
<1>15. \A f \in D : IsFile(project[f].rows)
  BY <1>6
<1>16. FilesFit(X)
  BY <1>9, <1>10, <1>13, <1>14, <1>15, Zenon DEF FilesFit
<1>17. \A f \in D : \A i \in DOMAIN got[f].nodes :
          i.file = f /\ got[f].nodes[i].language = project[f].language
  <2> TAKE f \in D
  <2> DEFINE x == Extract(f, project[f])
  <2>1. \A i \in DOMAIN x.nodes : i.file = f /\ x.nodes[i].language = project[f].language
    BY <1>1, ProjectsAssumption
  <2>2. got[f] = x
    BY <1>5
  <2> HIDE DEF x
  <2> QED
    BY <2>1, <2>2
<1>18. \A f \in D : /\ \A i \in DOMAIN got[f].nodes : got[f].nodes[i].name = i.name
                    /\ CallsFit(got[f].raws, project[f].language, f, project[f].rows)
                    /\ \A r \in CallsOf(project[f].language, project[f].rows) :
                          OwnFits(project[f].language, f, X[f], project[f].rows, r)
  BY <1>8, Zenon DEF GotFits
<1>19. \A i \in DOMAIN nodes : /\ i.file \in D /\ nodes[i].name = i.name
                              /\ nodes[i].language = project[i.file].language
  <2> TAKE i \in DOMAIN nodes
  <2>1. PICK f \in D : i \in DOMAIN got[f].nodes
    BY <1>2
  <2>2. i.file = f /\ nodes[i] = got[f].nodes[i]
    BY <1>2, <1>17, <2>1
  <2> QED
    BY <1>17, <1>18, <2>1, <2>2
<1>20. ASSUME NEW f \in D, NEW r \in DOMAIN project[f].rows,
              NEW e \in ToSet(LineEdges(project[f].language, f, project[f].rows, r)), e.kind = "Calls"
       PROVE  e.line = r - 1 /\ \E k \in DOMAIN raw_edges : raw_edges[k] = e
  <2>1. e \in ToSet(got[f].raws) /\ e.line = r - 1
    BY <1>18, <1>20, Zenon DEF CallsFit
  <2> QED
    BY <1>11, <1>12, <2>1
<1>21. ASSUME NEW f \in D, NEW r \in DOMAIN project[f].rows, NEW k \in DOMAIN raw_edges,
              raw_edges[k].kind = "Calls", raw_edges[k].source.file = f, raw_edges[k].line = r - 1
       PROVE  raw_edges[k] \in ToSet(LineEdges(project[f].language, f, project[f].rows, r))
  <2>1. PICK g \in D : raw_edges[k] \in ToSet(got[g].raws)
    BY <1>11, <1>12
  <2>2. \E q \in DOMAIN project[g].rows :
           \/ EdgeFits(raw_edges[k], project[g].language, g, X[g], project[g].rows, q,
                       CallerKinds(project[g].language))
           \/ IsHandling(raw_edges[k], g, X[g], project[g].rows, q)
    BY <1>8, <2>1, Zenon DEF GotFits
  <2>3. g = f
    BY <1>21, <2>2 DEF EdgeFits, Starts, IsHandling
  <2> QED
    BY <1>18, <1>21, <2>1, <2>3, Zenon DEF CallsFit
<1>22. CallsAre(X)
  BY <1>18, <1>19, <1>20, <1>21, Zenon DEF CallsAre
<1> QED
  BY <1>16, <1>22, Zenon

\* No raw edge is resolved at first.
LEMMA InitStartInv ==
  ASSUME Init
  PROVE  StartInv
<1>1. \E X : FilesFit(X) /\ CallsAre(X)
  BY FilesFitInit
<1>2. \A k \in DOMAIN raw_edges : ~Resolved(k)
  <2>1. pc = "first" /\ at = 1 /\ raw_edges \in Seq(RawEdge)
    BY InitIInv, Zenon DEF Init, IInv, TypeOK
  <2> DEFINE R == RawEdge
  <2>2. raw_edges \in Seq(R)
    BY <2>1
  <2> HIDE DEF R
  <2>3. \A k \in DOMAIN raw_edges : k \in Nat /\ ~(k < 1)
    BY <2>2
  <2> QED
    BY <2>1, <2>3 DEF Resolved
<1> QED
  BY <1>1, <1>2, Zenon DEF StartInv, RouteLeads, CallLeads

\* A step of a pass that looks at another raw edge, or at one that it does not
\* resolve, changes nothing for a route.
LEMMA RouteKept ==
  ASSUME NEW k, RouteLeads(k), Resolved(k)' => Resolved(k), EdgesOf(k)' = EdgesOf(k),
         UNCHANGED <<nodes, raw_edges>>
  PROVE  RouteLeads(k)'
BY DEF RouteLeads, Known

\* Nor for a call.
LEMMA CallKept ==
  ASSUME NEW k, CallLeads(k), Resolved(k)' => Resolved(k), EdgesOf(k)' = EdgesOf(k),
         UNCHANGED <<nodes, raw_edges>>
  PROVE  CallLeads(k)'
<1>1. nodes' = nodes /\ raw_edges' = raw_edges
  OBVIOUS
<1>2. SuperClass(raw_edges[k])' = SuperClass(raw_edges[k])
  BY <1>1 DEF SuperClass, EnclosingClass
<1>3. CallTargets(raw_edges[k].target)' = CallTargets(raw_edges[k].target)
  BY <1>1 DEF CallTargets, FirstHits, Hits
<1> QED
  BY <1>1, <1>2, <1>3 DEF CallLeads

\* The edges that a route's raw edge becomes.
LEMMA RouteAdded ==
  ASSUME EdgesInv, NEW k, Looks(k), pc = "first", raw_edges[k].kind = "HandlesRoute", ResolveRaw(k)
  PROVE  RouteLeads(k)'
<1> DEFINE T == Known(raw_edges[k].id)
           tier == [t \in T |-> "exact"]
<1>1. TypeOK /\ EdgesAreOfRaws
  BY Zenon DEF EdgesInv
<1>2. AddEdges(k, tier)
  <2>1. AddExact(k, T)
    BY DEF ResolveRaw
  <2> HIDE DEF T
  <2> QED
    BY <2>1, Zenon DEF AddExact
<1>3. tier \in Tiers /\ DOMAIN tier = T
  <2>1. T \in SUBSET DOMAIN nodes /\ \A s, t \in T : s = t
    BY DEF Known
  <2> HIDE DEF T
  <2> QED
    BY <2>1, ExactTier
<1> HIDE DEF tier
<1>4. k \in DOMAIN raw_edges /\ nodes' = nodes /\ raw_edges' = raw_edges
  BY DEF Looks
<1>5. Added(k, tier)
  BY <1>1, <1>2, <1>3, <1>4, AddEdgesFacts
<1>6. ~Resolved(k)
  BY <1>1, LooksResolves
<1>7. EdgesOf(k)' = NewEdges(k, tier)
  BY <1>1, <1>3, <1>5, <1>6, EdgesAdded, Zenon DEF EdgesBecome
<1>8. \A t : EdgeTo(k, t, tier[t]).target = t
  BY DEF EdgeTo
<1> HIDE DEF T
<1>9. {e.target : e \in NewEdges(k, tier)} = T
  BY <1>3, <1>8 DEF NewEdges
<1>10. Known(raw_edges[k].id)' = T
  BY <1>4 DEF T, Known
<1> QED
  BY <1>7, <1>9, <1>10 DEF RouteLeads

\* Those that a call becomes.
LEMMA CallAdded ==
  ASSUME EdgesInv, NEW k, Looks(k), pc = "second", raw_edges[k].kind = "Calls", ResolveCall(k)
  PROVE  CallLeads(k)'
<1> DEFINE raw == raw_edges[k]
           T == CallTargets(raw.target)
<1>1. TypeOK /\ EdgesAreOfRaws
  BY Zenon DEF EdgesInv
<1>2. k \in DOMAIN raw_edges /\ nodes' = nodes /\ raw_edges' = raw_edges
  BY DEF Looks
<1>3. SuperClass(raw)' = SuperClass(raw)
  BY <1>2 DEF SuperClass, EnclosingClass
<1>4. T' = T
  BY <1>2 DEF CallTargets, FirstHits, Hits
<1> SUFFICES ASSUME SuperClass(raw) = NoNode
             PROVE  {e.target : e \in EdgesOf(k)'} = T
  BY <1>2, <1>3, <1>4 DEF CallLeads
<1>5. AddByName(k, T)
  BY DEF ResolveCall
<1>6. T \in SUBSET DOMAIN nodes /\ NamesClosed(T)
  BY HitsAreNodes, HitsClosed DEF CallTargets
<1> HIDE DEF T
<1>7. PICK tier \in Tiers : DOMAIN tier = T /\ AddEdges(k, tier)
  BY <1>1, <1>5, <1>6, ByNameTier
<1>8. Added(k, tier)
  BY <1>1, <1>2, <1>7, AddEdgesFacts
<1>9. ~Resolved(k)
  BY <1>1, LooksResolves
<1>10. EdgesOf(k)' = NewEdges(k, tier)
  BY <1>1, <1>7, <1>8, <1>9, EdgesAdded, Zenon DEF EdgesBecome
<1>11. \A t : EdgeTo(k, t, tier[t]).target = t
  BY DEF EdgeTo
<1>12. {e.target : e \in NewEdges(k, tier)} = T
  BY <1>7, <1>11 DEF NewEdges
<1> QED
  BY <1>10, <1>12

\* Every step keeps what routes and calls lead to.
LEMMA NextStartInv ==
  ASSUME IInv, StartInv, [Next]_vars
  PROVE  StartInv'
<1>1. EdgesInv /\ TypeOK
  BY Zenon DEF IInv, EdgesInv
<1>2. /\ at \in Nat \ {0} /\ DOMAIN raw_edges = 1 .. Len(raw_edges) /\ Len(raw_edges) \in Nat
      /\ pc \in {"first", "second", "done"}
  <2>1. raw_edges \in Seq(RawEdge) /\ at \in Nat \ {0} /\ pc \in {"first", "second", "done"}
    BY <1>1, Zenon DEF TypeOK
  <2> DEFINE R == RawEdge
  <2>2. raw_edges \in Seq(R)
    BY <2>1
  <2> HIDE DEF R
  <2> QED
    BY <2>1, <2>2
<1>3. project' = project /\ nodes' = nodes /\ raw_edges' = raw_edges
  BY DEF Next, vars, ResolveStructure, StartCalls, ResolveCalls, Finish
<1>4. \E X : (FilesFit(X) /\ CallsAre(X))'
  <2>1. PICK X : FilesFit(X) /\ CallsAre(X)
    BY Zenon DEF StartInv
  <2>2. FilesFit(X)'
    BY <1>3, <2>1 DEF FilesFit
  <2>3. CallsAre(X)'
    BY <1>3, <2>1 DEF CallsAre
  <2> QED
    BY <2>2, <2>3
<1>5. \A k \in DOMAIN raw_edges : RouteLeads(k) /\ CallLeads(k)
  BY Zenon DEF StartInv
<1>6. ASSUME NEW k \in DOMAIN raw_edges PROVE RouteLeads(k)'
  <2>1. CASE raw_edges[k].kind # "HandlesRoute"
    BY <1>3, <2>1 DEF RouteLeads
  <2>2. CASE ResolveStructure /\ k = at /\ raw_edges[k].kind = "HandlesRoute"
    <3>1. pc = "first" /\ ResolveRaw(k) /\ Looks(k)
      BY <2>2 DEF ResolveStructure, Looks
    <3> QED
      BY <1>1, <2>2, <3>1, RouteAdded
  <2>3. CASE ResolveStructure /\ k # at
    <3>1. PICK j : j = at
      OBVIOUS
    <3>2. pc = "first" /\ ResolveRaw(j) /\ Looks(j) /\ pc' = "first" /\ at' = at + 1
      BY <2>3, <3>1 DEF ResolveStructure, Looks
    <3>3. PassAdds(j)
      BY <1>1, <2>3, <3>1, StructureAdds
    <3>4. EdgesOf(k)' = EdgesOf(k)
      BY <1>1, <2>3, <3>1, <3>2, <3>3, PassKeepsEdges
    <3>5. Resolved(k)' => Resolved(k)
      BY <1>2, <1>3, <2>3, <3>2 DEF Resolved
    <3> QED
      BY <1>3, <1>5, <3>4, <3>5, RouteKept
  <2>4. CASE ResolveCalls /\ raw_edges[k].kind = "HandlesRoute"
    <3>1. PICK j : j = at
      OBVIOUS
    <3>2. pc = "second" /\ Looks(j) /\ pc' = "second"
      BY <2>4, <3>1 DEF ResolveCalls, Looks
    <3>3. EdgesOf(k)' = EdgesOf(k)
      <4>1. CASE k = at
        <5>1. adjacency' = adjacency
          BY <2>4, <4>1 DEF ResolveCalls
        <5> QED
          BY <1>3, <5>1 DEF EdgesOf
      <4>2. CASE k # at
        <5>1. PassAdds(j)
          BY <1>1, <2>4, <3>1, CallsAdd
        <5> QED
          BY <1>1, <3>1, <3>2, <4>2, <5>1, PassKeepsEdges
      <4> QED
        BY <4>1, <4>2
    <3>4. Resolved(k)' => Resolved(k)
      BY <1>3, <2>4, <3>2 DEF Resolved
    <3> QED
      BY <1>3, <1>5, <3>3, <3>4, RouteKept
  <2>5. CASE (StartCalls \/ Finish \/ UNCHANGED vars) /\ raw_edges[k].kind = "HandlesRoute"
    <3>1. adjacency' = adjacency
      BY <2>5 DEF StartCalls, Finish, vars
    <3>2. EdgesOf(k)' = EdgesOf(k)
      BY <1>3, <3>1 DEF EdgesOf
    <3>3. Resolved(k)' => Resolved(k)
      BY <1>2, <1>3, <2>5 DEF Resolved, StartCalls, Finish, vars
    <3> QED
      BY <1>3, <1>5, <3>2, <3>3, RouteKept
  <2> QED
    BY <2>1, <2>2, <2>3, <2>4, <2>5 DEF Next
<1>7. ASSUME NEW k \in DOMAIN raw_edges PROVE CallLeads(k)'
  <2>1. CASE raw_edges[k].kind # "Calls"
    BY <1>3, <2>1 DEF CallLeads
  <2>2. CASE ResolveStructure /\ raw_edges[k].kind = "Calls"
    <3>1. ~Resolved(k)'
      BY <1>3, <2>2 DEF Resolved, ResolveStructure
    <3> QED
      BY <3>1 DEF CallLeads
  <2>3. CASE ResolveCalls /\ k = at /\ raw_edges[k].kind = "Calls"
    <3>1. pc = "second" /\ ResolveCall(k) /\ Looks(k)
      BY <2>3 DEF ResolveCalls, Looks
    <3> QED
      BY <1>1, <2>3, <3>1, CallAdded
  <2>4. CASE ResolveCalls /\ k # at
    <3>1. PICK j : j = at
      OBVIOUS
    <3>2. pc = "second" /\ Looks(j) /\ pc' = "second" /\ at' = at + 1
      BY <2>4, <3>1 DEF ResolveCalls, Looks
    <3>3. EdgesOf(k)' = EdgesOf(k)
      <4>1. PassAdds(j)
        BY <1>1, <2>4, <3>1, CallsAdd
      <4> QED
        BY <1>1, <2>4, <3>1, <3>2, <4>1, PassKeepsEdges
    <3>4. Resolved(k)' => Resolved(k)
      BY <1>2, <1>3, <2>4, <3>2 DEF Resolved
    <3> QED
      BY <1>3, <1>5, <3>3, <3>4, CallKept
  <2>5. CASE StartCalls \/ Finish \/ UNCHANGED vars
    <3>1. adjacency' = adjacency
      BY <2>5 DEF StartCalls, Finish, vars
    <3>2. EdgesOf(k)' = EdgesOf(k)
      BY <1>3, <3>1 DEF EdgesOf
    <3>3. CASE raw_edges[k].kind = "Calls"
      <4>1. Resolved(k)' => Resolved(k)
        BY <1>2, <1>3, <2>5, <3>3 DEF Resolved, StartCalls, Finish, vars
      <4> QED
        BY <1>3, <1>5, <3>2, <4>1, CallKept
    <3> QED
      BY <2>1, <3>3
  <2> QED
    BY <2>1, <2>2, <2>3, <2>4, <2>5 DEF Next
<1> QED
  BY <1>3, <1>4, <1>6, <1>7, Zenon DEF StartInv

\* Rows are numbered.
LEMMA LinesAreNumbers ==
  ASSUME NEW X, FilesFit(X), NEW f \in DOMAIN project, NEW r \in DOMAIN project[f].rows
  PROVE  r \in Int
<1>1. IsFile(project[f].rows)
  BY Zenon DEF FilesFit
<1> QED
  BY <1>1 DEF IsFile, IsForest

\* The symbols around a line, in the graph and in its file.
LEMMA SymbolsAroundFacts ==
  ASSUME NEW X, FilesFit(X), NEW f \in DOMAIN project, NEW r \in DOMAIN project[f].rows
  PROVE  \A i : i.kind # "Route" =>
            (i \in SymbolsAround(f, r - 1) <=> Sits(i, X[f], project[f].rows, r))
<1> DEFINE rows == project[f].rows
<1>1. (r - 1) + 1 = r
  <2>1. r \in Int
    BY LinesAreNumbers
  <2> QED
    BY <2>1
<1>2. ASSUME NEW i, i.kind # "Route"
      PROVE  i \in DOMAIN nodes /\ i.file = f <=> i \in X[f]
  <2>1. \A g \in DOMAIN project : i \notin RouteIds(g, project[g].rows)
    BY <1>2 DEF RouteIds, RouteId, Id
  <2>2. i \in DOMAIN nodes <=> \E g \in DOMAIN project : i \in X[g]
    BY <2>1, Zenon DEF FilesFit
  <2>3. \A g \in DOMAIN project : i \in X[g] => i.file = g
    BY Zenon DEF FilesFit
  <2> QED
    BY <2>2, <2>3
<1> HIDE DEF rows
<1>3. \A i : i \in SymbolsAround(f, r - 1) <=>
         i \in DOMAIN nodes /\ i.file = f /\ (i.kind # "File" => i.line + 1 \in Within(rows, r))
  BY <1>1 DEF SymbolsAround, Within, rows
<1> QED
  BY <1>2, <1>3 DEF Sits, rows

\* A call starts at the innermost symbol that calls.
LEMMA CallerAround ==
  ASSUME NEW X, FilesFit(X), NEW f \in DOMAIN project, NEW r \in DOMAIN project[f].rows, NEW i
  PROVE  LET rows == project[f].rows
             kinds == CallerKinds(project[f].language)
         IN /\ Sits(i, X[f], rows, r) /\ i.kind \in kinds => i \in CallersAround(f, r - 1)
            /\ Deepest(i, X[f], rows, r, kinds) => i \in InnermostCaller(f, r - 1)
            /\ i \in FunctionsAround(f, r - 1) <=> i \in FunctionsAt(X[f], rows, r)
<1> DEFINE rows == project[f].rows
           kinds == CallerKinds(project[f].language)
<1>1. \A j : j.kind # "Route" => (j \in SymbolsAround(f, r - 1) <=> Sits(j, X[f], rows, r))
  BY SymbolsAroundFacts
<1>2. "Route" \notin kinds
  BY DEF CallerKinds, FunctionKinds
<1>3. "Route" \notin FunctionKinds
  BY DEF FunctionKinds
<1> HIDE DEF rows, kinds
<1>4. \A j : j \in CallersAround(f, r - 1) <=> Sits(j, X[f], rows, r) /\ j.kind \in kinds
  BY <1>1, <1>2 DEF CallersAround, kinds
<1>5. \A j : Sits(j, X[f], rows, r) => j \in X[f]
  BY DEF Sits
<1>6. Deepest(i, X[f], rows, r, kinds) => i \in InnermostCaller(f, r - 1)
  BY <1>4, <1>5 DEF Deepest, InnermostCaller
<1>7. i \in FunctionsAround(f, r - 1) <=> i \in FunctionsAt(X[f], rows, r)
  BY <1>1, <1>3, <1>5 DEF FunctionsAround, FunctionsAt
<1> QED
  BY <1>4, <1>6, <1>7 DEF rows, kinds

\* An edge of a raw edge starts where StartsAt allows.
LEMMA RawStarts ==
  ASSUME NEW X, FilesFit(X), NEW k \in DOMAIN raw_edges
  PROVE  StartsAt(raw_edges[k].source, raw_edges[k].kind, raw_edges[k].line)
<1> DEFINE e == raw_edges[k]
           i == e.source
<1>0. PICK f \in DOMAIN project : \E r \in DOMAIN project[f].rows :
          \/ EdgeFits(e, project[f].language, f, X[f], project[f].rows, r,
                      CallerKinds(project[f].language))
          \/ IsHandling(e, f, X[f], project[f].rows, r)
  BY Zenon DEF FilesFit
<1>1. PICK r \in DOMAIN project[f].rows :
          \/ EdgeFits(e, project[f].language, f, X[f], project[f].rows, r,
                      CallerKinds(project[f].language))
          \/ IsHandling(e, f, X[f], project[f].rows, r)
  BY <1>0, Zenon
<1> DEFINE rows == project[f].rows
           language == project[f].language
           kinds == CallerKinds(language)
<1> HIDE DEF e
<1>2. (r - 1) + 1 = r
  <2>1. r \in Int
    BY LinesAreNumbers
  <2> QED
    BY <2>1
<1>3. CASE EdgeFits(e, language, f, X[f], rows, r, kinds)
  <2>1. /\ e.line = r - 1 /\ e.kind # "HandlesRoute" /\ i.file = f
        /\ IsLoose(language, rows, r, e.kind) => i.kind \in {"Struct", "Class"} /\ i.line = 0
        /\ e.kind = "Calls" =>
              \/ Deepest(i, X[f], rows, r, kinds)
              \/ /\ AroundOfKind(rows, r, {"anonymous"}) # {}
                 /\ Sits(i, X[f], rows, r) /\ i.kind \in kinds
        /\ e.kind # "Calls" /\ ~IsLoose(language, rows, r, e.kind) => Sits(i, X[f], rows, r)
    BY <1>3, Zenon DEF EdgeFits, Starts
  <2>2. /\ Sits(i, X[f], rows, r) /\ i.kind \in kinds => i \in CallersAround(f, r - 1)
        /\ Deepest(i, X[f], rows, r, kinds) => i \in InnermostCaller(f, r - 1)
    BY CallerAround
  <2>3. Sits(i, X[f], rows, r) => i \in SymbolsAround(f, r - 1)
    <3>1. Sits(i, X[f], rows, r) => i.kind # "Route"
      BY DEF Sits, FilesFit
    <3> QED
      BY <3>1, SymbolsAroundFacts
  <2> DEFINE kind == e.kind
             loose == kind = "Implements" /\ (language = "rust" \/ rows[r].node = "extension")
  <2>4. IsLoose(language, rows, r, kind) <=> loose
    BY DEF IsLoose
  <2> HIDE DEF i, kinds, kind
  <2>5. StartsAt(i, kind, r - 1)
    <3>1. CASE loose
      BY <1>2, <2>1, <2>4, <3>1 DEF StartsAt, kind
    <3>2. CASE kind = "Calls"
      BY <1>2, <2>1, <2>2, <3>2 DEF StartsAt, kind
    <3>3. CASE kind # "Calls" /\ ~loose
      <4>1. i \in SymbolsAround(f, r - 1) /\ kind # "HandlesRoute"
        BY <2>1, <2>3, <2>4, <3>3 DEF kind
      <4> QED
        BY <1>2, <2>1, <3>3, <4>1 DEF StartsAt
    <3> QED
      BY <3>1, <3>2, <3>3
  <2> QED
    BY <2>1, <2>5 DEF i, e, kind
<1>4. CASE IsHandling(e, f, X[f], rows, r)
  <2>1. e.kind = "HandlesRoute" /\ e.line = r - 1 /\ FunctionsAt(X[f], rows, r) = {i}
    BY <1>4 DEF IsHandling
  <2>2. i.file = f
    BY <2>1 DEF FunctionsAt, FilesFit
  <2>3. \A j : j \in FunctionsAround(f, r - 1) <=> j \in FunctionsAt(X[f], rows, r)
    BY CallerAround
  <2>4. FunctionsAround(f, r - 1) = {i}
    BY <2>1, <2>3
  <2> HIDE DEF i
  <2>5. StartsAt(i, "HandlesRoute", r - 1)
    BY <2>2, <2>4 DEF StartsAt
  <2> QED
    BY <2>1, <2>5 DEF i, e
<1> QED
  BY <1>1, <1>3, <1>4

\* What leads to a route is the function around it.
LEMMA RouteHandled ==
  ASSUME IInv, NEW X, FilesFit(X), \A k \in DOMAIN raw_edges : RouteLeads(k), pc = "done",
         NEW n \in DOMAIN nodes, n.kind = "Route"
  PROVE  {i \in DOMAIN adjacency : \E k \in DOMAIN adjacency[i] :
             adjacency[i][k].kind = "HandlesRoute" /\ adjacency[i][k].target = n}
         = FunctionsAround(n.file, n.line)
<1>0. PICK f \in DOMAIN project : n \in X[f] \cup RouteIds(f, project[f].rows)
  BY Zenon DEF FilesFit
<1>1. PICK r \in DOMAIN project[f].rows :
          project[f].rows[r].node = "route" /\ n = RouteId(f, project[f].rows, r)
  <2>1. n \notin X[f]
    BY Zenon DEF FilesFit
  <2> QED
    BY <1>0, <2>1 DEF RouteIds
<1> DEFINE rows == project[f].rows
<1>2. n.file = f /\ n.line = r - 1
  BY <1>1 DEF RouteId, Id
<1>3. /\ EdgesAreOfRaws
      /\ \A k \in DOMAIN raw_edges : raw_edges[k].source \in DOMAIN adjacency
  <2>1. TypeOK /\ EdgesAreOfRaws
    BY Zenon DEF IInv
  <2> DEFINE S == DOMAIN nodes \cup {raw_edges[k].source : k \in DOMAIN raw_edges}
             V == Seq(ResolvedEdge)
  <2>2. adjacency \in [S -> V]
    BY <2>1, Zenon DEF TypeOK
  <2>3. \A k \in DOMAIN raw_edges : raw_edges[k].source \in S
    OBVIOUS
  <2> HIDE DEF S, V
  <2> QED
    BY <2>1, <2>2, <2>3
<1>4. \A k \in DOMAIN raw_edges : raw_edges[k].kind = "HandlesRoute" =>
         {e.target : e \in EdgesOf(k)} = Known(raw_edges[k].id)
  BY DEF RouteLeads, Resolved
<1>5. \A i : i \in FunctionsAround(f, r - 1) <=> i \in FunctionsAt(X[f], rows, r)
  BY CallerAround
<1>6. ASSUME NEW i \in DOMAIN adjacency, NEW m \in DOMAIN adjacency[i],
             adjacency[i][m].kind = "HandlesRoute", adjacency[i][m].target = n
      PROVE  i \in FunctionsAt(X[f], rows, r)
  <2> DEFINE e == adjacency[i][m]
             k == e.of
  <2>1. e \in ToSet(adjacency[i])
    BY DEF ToSet
  <2>2. k \in DOMAIN raw_edges /\ raw_edges[k].source = i /\ raw_edges[k].kind = "HandlesRoute"
    BY <1>3, <1>6, <2>1 DEF EdgesAreOfRaws
  <2>3. e \in EdgesOf(k) /\ e.target = n
    BY <1>6, <2>1, <2>2 DEF EdgesOf
  <2> HIDE DEF e, k
  <2>4. raw_edges[k].id = n
    BY <1>4, <2>2, <2>3 DEF Known
  <2>10. PICK g \in DOMAIN project : \E q \in DOMAIN project[g].rows :
            IsHandling(raw_edges[k], g, X[g], project[g].rows, q)
    BY <2>2, Zenon DEF FilesFit, EdgeFits
  <2>5. PICK q \in DOMAIN project[g].rows : IsHandling(raw_edges[k], g, X[g], project[g].rows, q)
    BY <2>10, Zenon
  <2>6. n = RouteId(g, project[g].rows, q) /\ FunctionsAt(X[g], project[g].rows, q) = {i}
    BY <2>2, <2>4, <2>5 DEF IsHandling
  <2>7. g = f /\ q - 1 = r - 1
    BY <1>2, <2>6 DEF RouteId, Id
  <2>8. q \in Int /\ r \in Int
    BY LinesAreNumbers
  <2>9. q = r
    BY <2>7, <2>8
  <2> QED
    BY <2>6, <2>7, <2>9
<1>7. ASSUME NEW i \in FunctionsAt(X[f], rows, r)
      PROVE  /\ i \in DOMAIN adjacency
             /\ \E m \in DOMAIN adjacency[i] :
                   adjacency[i][m].kind = "HandlesRoute" /\ adjacency[i][m].target = n
  <2>1. PICK k \in DOMAIN raw_edges : raw_edges[k].source = i /\ IsHandling(raw_edges[k], f, X[f], rows, r)
    BY <1>1, Zenon DEF FilesFit
  <2>2. raw_edges[k].kind = "HandlesRoute" /\ raw_edges[k].id = n
    BY <1>1, <2>1 DEF IsHandling
  <2>3. n \in {e.target : e \in EdgesOf(k)}
    BY <1>4, <2>2 DEF Known
  <2>4. PICK e \in EdgesOf(k) : e.target = n
    BY <2>3
  <2>5. i \in DOMAIN adjacency
    BY <1>3, <2>1
  <2>6. e \in ToSet(adjacency[i]) /\ e.of = k
    BY <2>1, <2>4 DEF EdgesOf
  <2>7. e.kind = "HandlesRoute"
    BY <1>3, <2>2, <2>5, <2>6 DEF EdgesAreOfRaws
  <2>8. PICK m \in DOMAIN adjacency[i] : adjacency[i][m] = e
    BY <2>6 DEF ToSet
  <2> QED
    BY <2>4, <2>5, <2>7, <2>8
<1> HIDE DEF rows
<1>8. \A i : (i \in DOMAIN adjacency /\ \E m \in DOMAIN adjacency[i] :
                 adjacency[i][m].kind = "HandlesRoute" /\ adjacency[i][m].target = n)
             <=> i \in FunctionsAround(n.file, n.line)
  BY <1>2, <1>5, <1>6, <1>7
<1> QED
  BY <1>8

\* The invariant implies the property.
LEMMA EdgesStart ==
  ASSUME IInv, StartInv
  PROVE  EdgesStartAround
<1> SUFFICES ASSUME pc = "done" PROVE EdgesStartAround
  BY DEF EdgesStartAround
<1>1. PICK X : FilesFit(X)
  BY Zenon DEF StartInv
<1>2. ASSUME NEW i \in DOMAIN adjacency, NEW m \in DOMAIN adjacency[i]
      PROVE  StartsAt(i, adjacency[i][m].kind, raw_edges[adjacency[i][m].of].line)
  <2> DEFINE e == adjacency[i][m]
             k == e.of
  <2>1. e \in ToSet(adjacency[i]) /\ EdgesAreOfRaws
    BY Zenon DEF ToSet, IInv
  <2> HIDE DEF e
  <2>2. k \in DOMAIN raw_edges /\ raw_edges[k].source = i /\ raw_edges[k].kind = e.kind
    BY <2>1 DEF EdgesAreOfRaws
  <2>3. StartsAt(raw_edges[k].source, raw_edges[k].kind, raw_edges[k].line)
    BY <1>1, <2>2, RawStarts
  <2> QED
    BY <2>2, <2>3, Zenon DEF e
<1>3. \A n \in {j \in DOMAIN nodes : j.kind = "Route"} :
         {i \in DOMAIN adjacency : \E k \in DOMAIN adjacency[i] :
             adjacency[i][k].kind = "HandlesRoute" /\ adjacency[i][k].target = n}
         = FunctionsAround(n.file, n.line)
  BY <1>1, RouteHandled DEF StartInv
<1> QED
  BY <1>2, <1>3, Zenon DEF EdgesStartAround

-----------------------------------------------------------------------------
(* Where the calls of a type's own members lead *)

\* A name C.m is looked up as it is: nothing else is indexed by it.
LEMMA MemberHits ==
  ASSUME NEW n, n.sep = ".", Len(n.path) \in Nat, Len(n.path) > 1
  PROVE  Hits(n) = {i \in DOMAIN nodes : nodes[i].name = n}
<1>1. ASSUME NEW x, Simple(x) = n PROVE FALSE
  <2>1. Simple(x).path = <<x>>
    BY Zenon DEF Simple, Dotted
  <2>2. n.path = <<x>>
    BY <1>1, <2>1
  <2>3. Len(<<x>>) = 1
    OBVIOUS
  <2>4. Len(n.path) = 1
    BY <2>2, <2>3, Zenon
  <2> QED
    BY <2>4
<1>2. \A m : n \in IndexNames(m) <=> m = n
  <2> TAKE m
  <2>1. LastSegment(m, "::") = m \/ \E x : LastSegment(m, "::") = Simple(x)
    BY DEF LastSegment
  <2>2. LastSegment(m, ".") = m \/ \E x : LastSegment(m, ".") = Simple(x)
    BY DEF LastSegment
  <2> QED
    BY <1>1, <2>1, <2>2 DEF IndexNames
<1> QED
  BY <1>2 DEF Hits

\* The first element stays the first.
LEMMA JoinedFirst ==
  ASSUME NEW A, NEW p \in Seq(A), NEW q \in Seq(A), Len(p) >= 1
  PROVE  /\ p \o q \in Seq(A) /\ Len(p \o q) >= 1 /\ (p \o q)[1] = p[1]
         /\ Len(p \o q) \in Nat /\ DOMAIN (p \o q) = 1 .. Len(p \o q)
<1>1. Len(p \o q) = Len(p) + Len(q) /\ Len(p) \in Nat /\ Len(q) \in Nat
  BY JoinedLength
<1>2. p \o q \in Seq(A) /\ (p \o q)[1] = p[1]
  OBVIOUS
<1>3. DOMAIN (p \o q) = 1 .. Len(p \o q)
  BY <1>2
<1> QED
  BY <1>1, <1>2, <1>3

\* The first name that a call is looked up by is its own.
LEMMA FirstIsOwn ==
  ASSUME NEW t, Hits(t) # {}
  PROVE  CallTargets(t) = Hits(t)
<1> DEFINE x == Capitalised(t)
           y == <<LastSegment(t, "."), LastSegment(t, "::")>>
           z == [t EXCEPT !.path[1] = Upper[@]]
           v == LastSegment(t, ".")
           w == LastSegment(t, "::")
           A == {t, z, v, w}
           u == <<t>> \o x
           names == u \o y
           found == {k \in DOMAIN names : Hits(names[k]) # {}}
<1>1. CallTargets(t) = IF found = {} THEN {} ELSE Hits(names[Min(found)])
  BY Zenon DEF CallTargets, FirstHits
<1>2. x = <<z>> \/ x = <<>>
  BY Zenon DEF Capitalised
<1>3. y = <<v, w>>
  OBVIOUS
<1> HIDE DEF x, y, z, v, w
<1>4. t \in A /\ z \in A /\ v \in A /\ w \in A
  OBVIOUS
<1> HIDE DEF A
<1>5. <<t>> \in Seq(A) /\ Len(<<t>>) >= 1 /\ <<t>>[1] = t /\ x \in Seq(A) /\ y \in Seq(A)
  <2>1. <<t>> \in Seq(A) /\ Len(<<t>>) >= 1 /\ <<t>>[1] = t
    BY <1>4
  <2>2. <<z>> \in Seq(A) /\ <<>> \in Seq(A)
    BY <1>4
  <2>3. <<v, w>> \in Seq(A)
    BY <1>4
  <2> QED
    BY <1>2, <1>3, <2>1, <2>2, <2>3, Zenon
<1>6. u \in Seq(A) /\ Len(u) >= 1 /\ u[1] = t
  BY <1>5, JoinedFirst
<1> HIDE DEF u
<1>7. /\ Len(names) \in Nat /\ Len(names) >= 1
      /\ DOMAIN names = 1 .. Len(names) /\ names[1] = t
  BY <1>5, <1>6, JoinedFirst
<1> HIDE DEF names
<1>8. 1 \in found /\ found \subseteq 1 .. Len(names)
  <2>1. 1 \in DOMAIN names
    BY <1>7
  <2> QED
    BY <1>7, <2>1, Zenon
<1> HIDE DEF found
<1>9. Min(found) \in found /\ \A k \in found : Min(found) <= k
  <2>1. 1 \in Int /\ Len(names) \in Int /\ found \in SUBSET (1 .. Len(names)) /\ found # {}
    BY <1>7, <1>8
  <2> QED
    BY <2>1, MaxMin, Zenon
<1>10. Min(found) = 1
  <2> DEFINE m == Min(found)
  <2>1. m \in 1 .. Len(names) /\ m <= 1
    BY <1>8, <1>9, Zenon
  <2> HIDE DEF m
  <2>2. m = 1
    BY <1>7, <2>1
  <2> QED
    BY <2>2 DEF m
<1> QED
  BY <1>1, <1>7, <1>8, <1>10

\* The members in the graph are those of the file.
LEMMA GraphMembers ==
  ASSUME NEW X, FilesFit(X), NEW f \in DOMAIN project, NEW language, NEW rows, NEW r
  PROVE  OwnMembers(language, rows, {i \in DOMAIN nodes : i.file = f}, r)
         = OwnMembers(language, rows, X[f], r)
<1> DEFINE S == {i \in DOMAIN nodes : i.file = f}
<1>1. ASSUME NEW i, i.kind # "Route"
      PROVE  i \in S <=> i \in X[f]
  <2>1. \A g \in DOMAIN project : i \notin RouteIds(g, project[g].rows)
    BY <1>1 DEF RouteIds, RouteId, Id
  <2>2. i \in DOMAIN nodes <=> \E g \in DOMAIN project : i \in X[g]
    BY <2>1, Zenon DEF FilesFit
  <2>3. \A g \in DOMAIN project : i \in X[g] => i.file = g
    BY Zenon DEF FilesFit
  <2> QED
    BY <2>2, <2>3
<1> HIDE DEF S
<1>2. MembersIn(language, S) = MembersIn(language, X[f])
  BY <1>1 DEF MembersIn, FunctionKinds
<1>3. OwnMembers(language, rows, S, r) = OwnMembers(language, rows, X[f], r)
  BY <1>2, Zenon DEF OwnMembers
<1> QED
  BY <1>3 DEF S

\* A raw call of a member's name leads to all that have it.
LEMMA MemberCall ==
  ASSUME NEW X, CallsAre(X), NEW f \in DOMAIN project, NEW k \in DOMAIN raw_edges,
         raw_edges[k].kind = "Calls", raw_edges[k].source.file = f, CallLeads(k), pc = "done",
         IsMemberName(project[f].language, raw_edges[k].target), Hits(raw_edges[k].target) # {}
  PROVE  {e.target : e \in EdgesOf(k)} = {i \in DOMAIN nodes : nodes[i].name = raw_edges[k].target}
<1> DEFINE raw == raw_edges[k]
           n == raw.target
           language == project[f].language
<1>1. /\ n.sep = "." /\ Len(n.path) \in Nat /\ Len(n.path) > 1
      /\ language = "python" => Head(n.path) # super
  BY DEF IsMemberName
<1>2. SuperClass(raw) = NoNode
  <2>1. raw.source \in DOMAIN nodes => nodes[raw.source].language = language
    BY DEF CallsAre
  <2> QED
    BY <1>1, <2>1 DEF SuperClass, IsSuperCall
<1>3. {e.target : e \in EdgesOf(k)} = CallTargets(n)
  BY <1>2 DEF CallLeads, Resolved
<1>4. CallTargets(n) = Hits(n)
  BY FirstIsOwn
<1>5. Hits(n) = {i \in DOMAIN nodes : nodes[i].name = n}
  BY <1>1, MemberHits
<1> QED
  BY <1>3, <1>4, <1>5

\* The names of the lines and what names lead to imply the property.
LEMMA MembersAreCalled ==
  ASSUME IInv, StartInv
  PROVE  OwnMembersAreCalled
<1> SUFFICES ASSUME pc = "done", NEW f \in DOMAIN project,
                    NEW r \in CallsOf(project[f].language, project[f].rows),
                    OwnMembers(project[f].language, project[f].rows, {i \in DOMAIN nodes : i.file = f}, r)
                       # {}
             PROVE  LET own == OwnMembers(project[f].language, project[f].rows,
                                          {i \in DOMAIN nodes : i.file = f}, r)
                    IN /\ own \subseteq Called(f, r - 1)
                       /\ AroundOfKind(project[f].rows, r, {"anonymous"}) = {} =>
                             \A t \in Called(f, r - 1) : \E i \in own : nodes[t].name = nodes[i].name
  BY Zenon DEF OwnMembersAreCalled
<1> DEFINE rows == project[f].rows
           language == project[f].language
           S == {i \in DOMAIN nodes : i.file = f}
           own == OwnMembers(language, rows, S, r)
           lines == LineEdges(language, f, rows, r)
           calls == {e \in ToSet(lines) : e.kind = "Calls"}
           alone == AroundOfKind(rows, r, {"anonymous"}) = {}
<1>1. PICK X : FilesFit(X) /\ CallsAre(X)
  BY Zenon DEF StartInv
<1>2. \A k \in DOMAIN raw_edges : CallLeads(k)
  BY Zenon DEF StartInv
<1>3. r \in DOMAIN rows
  BY DEF CallsOf
<1>4. own = OwnMembers(language, rows, X[f], r) /\ own # {} /\ own \subseteq DOMAIN nodes
  <2>1. own = OwnMembers(language, rows, X[f], r)
    BY <1>1, GraphMembers
  <2>2. own \subseteq DOMAIN nodes
    BY DEF OwnMembers, MembersIn
  <2> QED
    BY <2>1, <2>2
<1>5. OwnFits(language, f, X[f], rows, r)
  BY <1>1, Zenon DEF CallsAre
<1>6. PICK n :
         /\ IsMemberName(language, n) /\ \A i \in own : i.name = n
         /\ \E e \in calls : e.target = n /\ Deepest(e.source, X[f], rows, r, CallerKinds(language))
         /\ alone => \A e \in calls : e.target = n
  BY <1>4, <1>5, Zenon DEF OwnFits
<1>7. /\ \A e \in calls : e.line = r - 1 /\ \E k \in DOMAIN raw_edges : raw_edges[k] = e
      /\ \A k \in DOMAIN raw_edges :
            raw_edges[k].kind = "Calls" /\ raw_edges[k].source.file = f /\ raw_edges[k].line = r - 1 =>
               raw_edges[k] \in calls
      /\ \A i \in DOMAIN nodes : nodes[i].name = i.name
  <2>1. \A e \in ToSet(lines) :
           e.kind = "Calls" => e.line = r - 1 /\ \E k \in DOMAIN raw_edges : raw_edges[k] = e
    BY <1>1, <1>3, Zenon DEF CallsAre
  <2>2. \A k \in DOMAIN raw_edges :
            raw_edges[k].kind = "Calls" /\ raw_edges[k].source.file = f /\ raw_edges[k].line = r - 1 =>
               raw_edges[k] \in ToSet(lines)
    BY <1>1, <1>3, Zenon DEF CallsAre
  <2>3. \A i \in DOMAIN nodes : nodes[i].name = i.name
    BY <1>1, Zenon DEF CallsAre
  <2> HIDE DEF lines
  <2> QED
    BY <2>1, <2>2, <2>3
<1>8. PICK e \in calls : e.target = n /\ Deepest(e.source, X[f], rows, r, CallerKinds(language))
  BY <1>6
<1>9. e.source \in InnermostCaller(f, r - 1) /\ e.source.file = f
  <2>1. e.source \in InnermostCaller(f, r - 1)
    BY <1>1, <1>3, <1>8, CallerAround
  <2> QED
    BY <2>1 DEF InnermostCaller, CallersAround, SymbolsAround
<1>10. \A i \in InnermostCaller(f, r - 1) : i \in DOMAIN adjacency /\ i.file = f
  <2>1. \A i \in InnermostCaller(f, r - 1) : i \in DOMAIN nodes /\ i.file = f
    BY DEF InnermostCaller, CallersAround, SymbolsAround
  <2>2. DOMAIN nodes \subseteq DOMAIN adjacency
    <3>1. TypeOK
      BY Zenon DEF IInv
    <3> DEFINE A == DOMAIN nodes \cup {raw_edges[k].source : k \in DOMAIN raw_edges}
               V == Seq(ResolvedEdge)
    <3>2. adjacency \in [A -> V] /\ DOMAIN nodes \subseteq A
      BY <3>1, Zenon DEF TypeOK
    <3> HIDE DEF A, V
    <3> QED
      BY <3>2
  <2> QED
    BY <2>1, <2>2
<1>11. EdgesAreOfRaws
  BY Zenon DEF IInv
<1>12. Hits(n) = {i \in DOMAIN nodes : nodes[i].name = n} /\ own \subseteq Hits(n) /\ Hits(n) # {}
  <2>1. Hits(n) = {i \in DOMAIN nodes : nodes[i].name = n}
    BY <1>6, MemberHits DEF IsMemberName
  <2> HIDE DEF own
  <2> QED
    BY <1>4, <1>6, <1>7, <2>1
<1>13. \A t : t \in Called(f, r - 1) <=> \E i \in InnermostCaller(f, r - 1) : \E d \in ToSet(adjacency[i]) :
                 d.kind = "Calls" /\ raw_edges[d.of].line = r - 1 /\ d.target = t
  BY DEF Called
<1> HIDE DEF rows, language, S, own, lines, calls, alone
<1>14. ASSUME NEW i \in own PROVE i \in Called(f, r - 1)
  <2>1. PICK k \in DOMAIN raw_edges : raw_edges[k] = e
    BY <1>7, <1>8
  <2>2. e.kind = "Calls" /\ e.line = r - 1
    BY <1>7, <1>8 DEF calls
  <2>3. {d.target : d \in EdgesOf(k)} = {j \in DOMAIN nodes : nodes[j].name = n}
    BY <1>1, <1>2, <1>6, <1>8, <1>9, <1>12, <2>1, <2>2, MemberCall DEF language
  <2>4. PICK d \in EdgesOf(k) : d.target = i
    BY <1>12, <2>3
  <2>5. d \in ToSet(adjacency[e.source]) /\ d.of = k
    BY <2>1, <2>4 DEF EdgesOf
  <2>6. d.kind = "Calls"
    BY <1>9, <1>10, <1>11, <2>1, <2>2, <2>5 DEF EdgesAreOfRaws
  <2> QED
    BY <1>9, <1>13, <2>1, <2>2, <2>4, <2>5, <2>6
<1>15. ASSUME alone, NEW t \in Called(f, r - 1)
       PROVE  \E i \in own : nodes[t].name = nodes[i].name
  <2>1. PICK i \in InnermostCaller(f, r - 1) : \E d \in ToSet(adjacency[i]) :
            d.kind = "Calls" /\ raw_edges[d.of].line = r - 1 /\ d.target = t
    BY <1>13
  <2>2. PICK d \in ToSet(adjacency[i]) :
            d.kind = "Calls" /\ raw_edges[d.of].line = r - 1 /\ d.target = t
    BY <2>1
  <2>3. PICK k : k = d.of
    OBVIOUS
  <2>4. k \in DOMAIN raw_edges /\ raw_edges[k].source = i /\ raw_edges[k].kind = "Calls"
    BY <1>10, <1>11, <2>2, <2>3 DEF EdgesAreOfRaws
  <2>5. raw_edges[k].source.file = f /\ raw_edges[k].line = r - 1
    BY <1>10, <2>2, <2>3, <2>4
  <2>6. raw_edges[k].target = n
    BY <1>6, <1>7, <1>15, <2>4, <2>5
  <2>7. {c.target : c \in EdgesOf(k)} = {j \in DOMAIN nodes : nodes[j].name = n}
    BY <1>1, <1>2, <1>6, <1>12, <2>4, <2>5, <2>6, MemberCall DEF language
  <2>8. d \in EdgesOf(k)
    BY <2>2, <2>3, <2>4 DEF EdgesOf
  <2>9. t \in DOMAIN nodes /\ nodes[t].name = n
    BY <2>2, <2>7, <2>8
  <2>10. PICK j \in own : nodes[j].name = n
    BY <1>4, <1>12
  <2> QED
    BY <2>9, <2>10
<1> QED
  BY <1>14, <1>15 DEF rows, language, S, own, alone

-----------------------------------------------------------------------------
(* The theorems *)

\* IInv is an invariant.
LEMMA Invariance == Spec => []IInv
<1>1. Init => IInv
  BY InitIInv
<1>2. IInv /\ [Next]_vars => IInv'
  BY NextIInv
<1> QED
  BY <1>1, <1>2, PTL DEF Spec

\* The graph has the nodes that were parsed and edges between them, from nodes
\* that raw edges start at.
THEOREM TypeCorrect == Spec => []TypeOK
<1>1. IInv => TypeOK
  BY Zenon DEF IInv
<1> QED
  BY <1>1, Invariance, PTL

\* An edge of tier 0.9 or 1.0 is the only one that its raw edge became, one of 0.9
\* leads to a symbol whose name no other has, one of 0.5 is one of several: whatever
\* the files hold, in whichever order they are read and edges are added.
THEOREM Honest == Spec => []TiersAreHonest
<1>1. IInv => TiersAreHonest
  BY Zenon DEF IInv
<1> QED
  BY <1>1, Invariance, PTL

\* c3_linearize finds the order that Python computes whenever there is one, and
\* None if there is none, for any number of classes with any bases.
THEOREM Linearizing == Spec => []MroIsPythons
<1>1. IInv => MroIsPythons
  <2> SUFFICES ASSUME IInv, NEW c \in DOMAIN Parents
               PROVE  MroHolds(c, Parents)
    BY Zenon DEF MroIsPythons, MroHolds
  <2>1. TypeOK
    BY Zenon DEF IInv
  <2> DEFINE D == PyClasses
             P == Parents
  <2>2. P \in [D -> Seq(D)] /\ IsFiniteSet(D)
    BY <2>1, ParentsTyped
  <2> HIDE DEF D
  <2>3. c \in D
    <3> DEFINE V == Seq(D)
    <3> HIDE DEF V, P
    <3>1. P \in [D -> V]
      BY <2>2 DEF V
    <3>2. DOMAIN P = D
      BY <3>1
    <3> QED
      BY <3>2 DEF P
  <2> QED
    BY <2>2, <2>3, LinearizeIsPythons
<1> QED
  BY <1>1, Invariance, PTL

\* super() in a Python method leads to one method and nothing else, in the class
\* in which Python finds it, whatever the files hold and wherever the bases are
\* declared.
THEOREM Supers == Spec => []SuperFollowsPython
<1>1. IInv => SuperFollowsPython
  <2> SUFFICES ASSUME IInv, pc = "done" PROVE \A k \in SuperCalls : Follows(k)
    BY SupersIff, Zenon
  <2>1. SupersFollowPython
    BY Zenon DEF IInv
  <2>2. AllFollow
    BY <2>1, SupersIff, Zenon
  <2>3. \A k \in SuperCalls : Resolved(k)
    BY DEF SuperCalls, Resolved
  <2> QED
    BY <2>2, <2>3 DEF AllFollow
<1> QED
  BY <1>1, Invariance, PTL

\* Edges start at the innermost callers, functions and symbols around the lines
\* that they are written on, and every route in a function leads from it: for
\* all programs in the nine languages, with nodes nested in any way.
THEOREM Starting == Spec => []EdgesStartAround
<1>1. Init => StartInv
  BY InitStartInv
<1>2. IInv /\ StartInv /\ [Next]_vars => StartInv'
  BY NextStartInv
<1>3. IInv /\ StartInv => EdgesStartAround
  BY EdgesStart
<1> QED
  BY <1>1, <1>2, <1>3, Invariance, PTL DEF Spec

\* A call of the own type's m leads to that m and to no m of a type of another
\* name, in eight languages and for all programs in them; in Rust no call is
\* seen to be of the own type.
THEOREM Qualifying == Spec => []OwnMembersAreCalled
<1>1. Init => StartInv
  BY InitStartInv
<1>2. IInv /\ StartInv /\ [Next]_vars => StartInv'
  BY NextStartInv
<1>3. IInv /\ StartInv => OwnMembersAreCalled
  BY MembersAreCalled
<1> QED
  BY <1>1, <1>2, <1>3, Invariance, PTL DEF Spec
=============================================================================
