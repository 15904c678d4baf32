------------------------- MODULE FalkorStoreProofs -------------------------
(***************************************************************************)
(* For every number of clients, graphs, batch sizes and retries: what the  *)
(* clients and the server of FalkorStore have is well formed; while        *)
(* nothing is removed a stored hash vouches for its file, whatever fails   *)
(* or interleaves; and an operation that no other client disturbed does    *)
(* what it says, however often its queries are sent.                       *)
(***************************************************************************)
EXTENDS FalkorStore, PureLemmas, FiniteSetTheorems, TLAPS

\* The order of a save: nodes, edges, hashes, and what only reads; a deletion
\* comes first.
Rank(q) ==
    CASE Type(q) = "delete" -> 0 [] Type(q) = "nodes" -> 1 [] Type(q) = "edges" -> 2
      [] Type(q) = "hashes" -> 3 [] OTHER -> 4

\* What is left of an operation: queries in that order, no count twice.
Todo(s) ==
    /\ s \in Seq(ToSet(s))
    /\ \A i, j \in DOMAIN s : i < j => Rank(s[i]) <= Rank(s[j])
    /\ \A i, j \in DOMAIN s : s[i] = s[j] /\ Type(s[i]) = "count_edges" => i = j

Kinds == ToSet(EdgeKinds)
Reads == {"count_nodes", "count_edges", "count_files", "parents", "symbols", "relationships",
          "file_hashes"}

\* What an operation asks.
SaveAsks(g, q) ==
    \/ /\ Type(q) = "nodes" /\ DOMAIN Arg(q) \subseteq g.nodes
       /\ \A i \in DOMAIN Arg(q) : Arg(q)[i] = g.text[i]
    \/ Type(q) = "edges" /\ Arg(q) \subseteq EdgeRows(g)
    \/ Type(q) = "hashes" /\ Arg(q) = g.hashes
    \/ q = Q("count_nodes", NoId)
    \/ \E k \in Kinds : q = Q("count_edges", k)
Asks(op, arg, q) ==
    CASE op = "save" -> SaveAsks(arg, q)
      [] op = "remove" -> q \in {Q("remove_nodes", arg), Q("remove_hash", arg)}
      [] op = "clear" -> q = Q("delete", NoId) \/ \E x \in ToSet(Indexes) : q = Q("index", x)
      [] op = "connect" -> Type(q) = "index"
      [] op = "stats" -> \/ q \in {Q("count_nodes", NoId), Q("count_files", NoId)}
                         \/ \E k \in Kinds : q = Q("count_edges", k)
      [] OTHER -> Type(q) \in Reads

Operations == {"connect", "save", "remove", "clear", "load", "load_hashes", "stats"}

ClientOK(me) ==
    /\ me = [op |-> me.op, arg |-> me.arg, todo |-> me.todo, attempt |-> me.attempt,
             status |-> me.status, read |-> me.read, whole |-> me.whole,
             since |-> me.since, alone |-> me.alone]
    /\ me.read = [nodes |-> me.read.nodes, edges |-> me.read.edges, files |-> me.read.files,
                  parents |-> me.read.parents, ids |-> me.read.ids,
                  adjacency |-> me.read.adjacency, hashes |-> me.read.hashes]
    /\ me.status \in {"idle", "running", "ok", "error"}
    /\ me.whole \in BOOLEAN /\ me.alone \in BOOLEAN
    /\ me.read.edges \in Nat
    /\ me.status = "idle" <=> me.op = "none"
    /\ me.status # "idle" => me.op \in Operations
    /\ me.op = "save" => me.arg \in Graphs
    /\ me.status = "running" <=> me.todo # <<>>
    /\ Todo(me.todo)
    /\ \A q \in ToSet(me.todo) : Asks(me.op, me.arg, q)

StoreOK(s) ==
    /\ s = [nodes |-> s.nodes, edges |-> s.edges, hashes |-> s.hashes, indexes |-> s.indexes]
    /\ s.nodes = [i \in DOMAIN s.nodes |-> s.nodes[i]]
    /\ s.hashes = [f \in DOMAIN s.hashes |-> s.hashes[f]]
    /\ IsFiniteSet(DOMAIN s.nodes) /\ IsFiniteSet(s.edges)
    /\ \A e \in s.edges : e.kind \in Kinds

TypeInv ==
    /\ StoreOK(db)
    /\ DOMAIN client = Clients /\ \A c \in Clients : ClientOK(client[c])
    /\ removed \in BOOLEAN /\ ops \in Nat

\* What is still to be sent of a kind of row.
Left(todo, type) == UNION {Arg(q) : q \in {r \in ToSet(todo) : Type(r) = type}}
LeftRows(todo, type) == UNION {DOMAIN Arg(q) : q \in {r \in ToSet(todo) : Type(r) = type}}
HasLeft(todo, type) == \E q \in ToSet(todo) : Type(q) = type

\* While nothing is removed, what a save has sent is there.
Sent(me, s) ==
    me.op = "save" /\ me.status \in {"running", "ok"} =>
        /\ me.arg.nodes \subseteq DOMAIN s.nodes \cup LeftRows(me.todo, "nodes")
        /\ EdgeRows(me.arg) \subseteq s.edges \cup Left(me.todo, "edges")
Vouched(s) ==
    \A f \in DOMAIN s.hashes : \E g \in Graphs :
        /\ f \in DOMAIN g.hashes /\ g.hashes[f] = s.hashes[f]
        /\ {i \in g.nodes : FileOf[i] = f} \subseteq DOMAIN s.nodes
        /\ {e \in EdgeRows(g) : FileOf[e.src] = f} \subseteq s.edges
VouchInv == ~removed => Vouched(db) /\ \A c \in Clients : Sent(client[c], db)

\* m is what before becomes when rows are merged into it, but for those left.
Merging(m, before, rows, left) ==
    /\ DOMAIN before \subseteq DOMAIN m /\ DOMAIN m \subseteq DOMAIN before \cup DOMAIN rows
    /\ \A x \in DOMAIN before : x \notin DOMAIN rows => m[x] = before[x]
    /\ \A x \in DOMAIN rows \ left : x \in DOMAIN m /\ m[x] = rows[x]

\* Counts come after all changes; a count that has been answered is right.
Counting(me, s) ==
    LET todo == ToSet(me.todo)
        left == {k \in Kinds : Q("count_edges", k) \in todo}
        others == {e \in s.edges : e.kind \notin left}
    IN  /\ (\E q \in todo : Rank(q) < 4) => Q("count_nodes", NoId) \in todo /\ left = Kinds
        /\ Q("count_nodes", NoId) \notin todo => me.read.nodes = Cardinality(DOMAIN s.nodes)
        /\ me.read.edges <= Cardinality(others)
        /\ me.whole => me.read.edges = Cardinality(others)

LoneSave(me, s) ==
    LET g == me.arg IN
    /\ Merging(s.nodes, me.since.nodes, SymbolRows(g), LeftRows(me.todo, "nodes"))
    /\ me.since.edges \subseteq s.edges /\ s.edges \subseteq me.since.edges \cup EdgeRows(g)
    /\ EdgeRows(g) \subseteq s.edges \cup Left(me.todo, "edges")
    /\ Merging(s.hashes, me.since.hashes, g.hashes, LeftRows(me.todo, "hashes"))
    /\ Counting(me, s)
LoneStats(me, s) ==
    /\ Counting(me, s)
    /\ ~ HasLeft(me.todo, "count_files") =>
         me.read.files = Cardinality({FileOf[i] : i \in DOMAIN s.nodes})
LoneRemove(me, s) ==
    /\ ~ HasLeft(me.todo, "remove_hash") => me.arg \notin DOMAIN s.hashes
    /\ ~ HasLeft(me.todo, "remove_nodes") => \A i \in DOMAIN s.nodes : FileOf[i] # me.arg
LoneClear(me, s) ==
    LET todo == ToSet(me.todo)
        left == {x \in ToSet(Indexes) : Q("index", x) \in todo}
    IN  /\ Q("delete", NoId) \in todo => left = ToSet(Indexes)
        /\ me.whole /\ Q("delete", NoId) \notin todo =>
             /\ DOMAIN s.nodes = {} /\ s.edges = {} /\ DOMAIN s.hashes = {}
             /\ s.indexes \subseteq ToSet(Indexes) /\ ToSet(Indexes) \subseteq s.indexes \cup left
LoneLoad(me, s) ==
    /\ ~ HasLeft(me.todo, "symbols") => me.read.ids = DOMAIN s.nodes
    /\ ~ HasLeft(me.todo, "relationships") => me.read.adjacency = s.edges
    /\ ~ HasLeft(me.todo, "file_hashes") => me.read.hashes = s.hashes
    /\ \A i \in DOMAIN me.read.parents : \E e \in s.edges :
          e.kind = "CONTAINS" /\ e.src = me.read.parents[i] /\ e.dst = i

\* What a client that was alone has done so far.
Lone(me, s) ==
    /\ me.op = "save" => LoneSave(me, s)
    /\ me.op = "stats" => LoneStats(me, s)
    /\ me.op = "remove" => LoneRemove(me, s)
    /\ me.op = "clear" => LoneClear(me, s)
    /\ me.op = "load" => LoneLoad(me, s)
LoneInv ==
    \A c \in Clients :
        client[c].alone /\ client[c].status \in {"running", "ok"} => Lone(client[c], db)

IInv == TypeInv /\ VouchInv /\ LoneInv

-----------------------------------------------------------------------------
(* Sequences of queries *)

\* The sequence without elements.
LEMMA EmptySeq ==
  ASSUME NEW A, NEW s \in Seq(A)
  PROVE  s = <<>> <=> Len(s) = 0
  OBVIOUS

\* The head of what is left comes no later than the rest; a count that is the
\* head is not in the rest.
LEMMA TodoFacts ==
  ASSUME NEW s, Todo(s), s # <<>>
  PROVE  /\ Todo(Tail(s)) /\ Head(s) \in ToSet(s)
         /\ \A q : q \in ToSet(s) <=> q = Head(s) \/ q \in ToSet(Tail(s))
         /\ \A q \in ToSet(Tail(s)) : Rank(Head(s)) <= Rank(q)
         /\ Type(Head(s)) = "count_edges" => Head(s) \notin ToSet(Tail(s))
         /\ Len(s) = 1 <=> Tail(s) = <<>>
<1> DEFINE A == ToSet(s)
           t == Tail(s)
<1>1. s \in Seq(A)
  BY DEF Todo
<1>2. /\ Len(s) \in Nat \ {0} /\ DOMAIN s = 1 .. Len(s) /\ t \in Seq(A)
      /\ Len(t) = Len(s) - 1 /\ DOMAIN t = 1 .. Len(t) /\ Head(s) = s[1]
      /\ \A i \in 1 .. Len(t) : i + 1 \in 1 .. Len(s) /\ t[i] = s[i + 1]
  BY <1>1
<1>3. /\ \A x : x \in ToSet(t) <=> \E i \in 1 .. Len(t) : t[i] = x
      /\ t \in Seq(ToSet(t))
  BY <1>2, RangeFacts
<1>4. \A x : x \in ToSet(s) <=> \E i \in 1 .. Len(s) : s[i] = x
  BY <1>1, RangeFacts
<1>5. /\ \A i, j \in 1 .. Len(s) : i < j => Rank(s[i]) <= Rank(s[j])
      /\ \A i, j \in 1 .. Len(s) : s[i] = s[j] /\ Type(s[i]) = "count_edges" => i = j
  BY <1>2 DEF Todo
<1>6. Len(s) = 1 <=> t = <<>>
  <2>1. t = <<>> <=> Len(t) = 0
    BY <1>2, EmptySeq
  <2> HIDE DEF t
  <2> QED
    BY <1>2, <2>1
<1> HIDE DEF A, t
<1>7. Todo(t)
  <2>1. ASSUME NEW i \in 1 .. Len(t), NEW j \in 1 .. Len(t)
        PROVE  /\ i < j => Rank(t[i]) <= Rank(t[j])
               /\ t[i] = t[j] /\ Type(t[i]) = "count_edges" => i = j
    <3>1. /\ i + 1 \in 1 .. Len(s) /\ t[i] = s[i + 1]
          /\ j + 1 \in 1 .. Len(s) /\ t[j] = s[j + 1]
          /\ i < j => i + 1 < j + 1
          /\ i + 1 = j + 1 => i = j
      BY <1>2
    <3> QED
      BY <1>5, <3>1
  <2> QED
    BY <1>2, <1>3, <2>1 DEF Todo
<1>8. \A q : q \in ToSet(s) <=> q = s[1] \/ q \in ToSet(t)
  <2> TAKE q
  <2>1. ASSUME NEW i \in 1 .. Len(s), s[i] = q PROVE q = s[1] \/ q \in ToSet(t)
    <3>1. CASE i = 1
      BY <2>1, <3>1
    <3>2. CASE i # 1
      <4>1. i - 1 \in 1 .. Len(t) /\ t[i - 1] = s[i]
        BY <1>2, <3>2
      <4> QED
        BY <1>3, <2>1, <4>1
    <3> QED
      BY <3>1, <3>2
  <2>2. 1 \in 1 .. Len(s)
    BY <1>2
  <2> QED
    BY <1>2, <1>3, <1>4, <2>1, <2>2
<1>9. ASSUME NEW i \in 1 .. Len(t)
      PROVE  /\ Rank(s[1]) <= Rank(t[i])
             /\ Type(s[1]) = "count_edges" => s[1] # t[i]
  <2>1. 1 \in 1 .. Len(s) /\ i + 1 \in 1 .. Len(s) /\ t[i] = s[i + 1] /\ 1 < i + 1 /\ 1 # i + 1
    BY <1>2
  <2> QED
    BY <1>5, <2>1
<1> QED
  BY <1>2, <1>3, <1>6, <1>7, <1>8, <1>9 DEF t

\* Nothing is left, in order.
LEMMA TodoOfNone == Todo(<<>>) /\ \A q : q \notin ToSet(<<>>)
<1>1. <<>> \in Seq({}) /\ DOMAIN <<>> = {}
  OBVIOUS
<1>2. <<>> \in Seq(ToSet(<<>>)) /\ \A q : q \notin ToSet(<<>>)
  BY <1>1, RangeFacts DEF ToSet
<1> QED
  BY <1>1, <1>2 DEF Todo

\* What is asked first and what is asked later, one after the other.
LEMMA TodoConcat ==
  ASSUME NEW s, NEW t, Todo(s), Todo(t),
         \A p \in ToSet(s), q \in ToSet(t) : Rank(p) <= Rank(q),
         \A q \in ToSet(s) : Type(q) = "count_edges" => q \notin ToSet(t)
  PROVE  /\ Todo(s \o t)
         /\ \A q : q \in ToSet(s \o t) <=> q \in ToSet(s) \/ q \in ToSet(t)
<1> DEFINE A == ToSet(s) \cup ToSet(t)
           u == s \o t
           m == Len(s)
           n == Len(t)
<1>1. s \in Seq(ToSet(s)) /\ t \in Seq(ToSet(t))
  BY DEF Todo
<1>2. s \in Seq(A) /\ t \in Seq(A)
  <2>1. s \in [1 .. Len(s) -> ToSet(s)] /\ Len(s) \in Nat
    BY <1>1
  <2>2. t \in [1 .. Len(t) -> ToSet(t)] /\ Len(t) \in Nat
    BY <1>1
  <2>3. s \in [1 .. Len(s) -> A]
    BY <2>1
  <2>4. t \in [1 .. Len(t) -> A]
    BY <2>2
  <2> QED
    BY <2>1, <2>2, <2>3, <2>4
<1> HIDE DEF A
<1>3. /\ u \in Seq(A) /\ Len(u) = m + n /\ m \in Nat /\ n \in Nat
      /\ DOMAIN s = 1 .. m /\ DOMAIN t = 1 .. n /\ DOMAIN u = 1 .. m + n
      /\ \A i \in 1 .. m : u[i] = s[i]
      /\ \A i \in m + 1 .. m + n : u[i] = t[i - m]
  BY <1>2
<1>4. /\ \A x : x \in ToSet(s) <=> \E i \in 1 .. m : s[i] = x
      /\ \A x : x \in ToSet(t) <=> \E i \in 1 .. n : t[i] = x
      /\ \A x : x \in ToSet(u) <=> \E i \in 1 .. m + n : u[i] = x
      /\ u \in Seq(ToSet(u))
  <2>1. \A x : x \in ToSet(s) <=> \E i \in 1 .. m : s[i] = x
    BY <1>2, RangeFacts
  <2>2. \A x : x \in ToSet(t) <=> \E i \in 1 .. n : t[i] = x
    BY <1>2, RangeFacts
  <2> HIDE DEF u
  <2>3. \A x : x \in ToSet(u) <=> \E i \in 1 .. Len(u) : u[i] = x
    BY <1>3, RangeFacts
  <2>4. u \in Seq(ToSet(u))
    BY <1>3, RangeFacts
  <2> HIDE DEF m, n
  <2> QED
    BY <1>3, <2>1, <2>2, <2>3, <2>4
<1>5. /\ \A i, j \in 1 .. m : i < j => Rank(s[i]) <= Rank(s[j])
      /\ \A i, j \in 1 .. m : s[i] = s[j] /\ Type(s[i]) = "count_edges" => i = j
      /\ \A i, j \in 1 .. n : i < j => Rank(t[i]) <= Rank(t[j])
      /\ \A i, j \in 1 .. n : t[i] = t[j] /\ Type(t[i]) = "count_edges" => i = j
  BY <1>3 DEF Todo
<1> HIDE DEF u, m, n
<1>6. ASSUME NEW i \in 1 .. m + n
      PROVE  /\ i \in 1 .. m => u[i] = s[i] /\ u[i] \in ToSet(s)
             /\ i \notin 1 .. m => i - m \in 1 .. n /\ u[i] = t[i - m] /\ u[i] \in ToSet(t)
  <2>1. CASE i \in 1 .. m
    BY <1>3, <1>4, <2>1
  <2>2. CASE i \notin 1 .. m
    <3>1. i \in m + 1 .. m + n /\ i - m \in 1 .. n
      BY <1>3, <2>2
    <3> QED
      BY <1>3, <1>4, <3>1
  <2> QED
    BY <2>1, <2>2
<1>7. \A q : q \in ToSet(u) <=> q \in ToSet(s) \/ q \in ToSet(t)
  <2> TAKE q
  <2>1. q \in ToSet(u) => q \in ToSet(s) \/ q \in ToSet(t)
    BY <1>4, <1>6
  <2>2. q \in ToSet(s) => q \in ToSet(u)
    <3> SUFFICES ASSUME NEW i \in 1 .. m, s[i] = q PROVE q \in ToSet(u)
      BY <1>4
    <3>1. i \in 1 .. m + n /\ u[i] = q
      BY <1>3
    <3> QED
      BY <1>4, <3>1
  <2>3. q \in ToSet(t) => q \in ToSet(u)
    <3> SUFFICES ASSUME NEW i \in 1 .. n, t[i] = q PROVE q \in ToSet(u)
      BY <1>4
    <3>1. i + m \in m + 1 .. m + n /\ (i + m) - m = i /\ i + m \in 1 .. m + n
      BY <1>3
    <3>2. u[i + m] = q
      BY <1>3, <3>1
    <3> QED
      BY <1>4, <3>1, <3>2
  <2> QED
    BY <2>1, <2>2, <2>3
<1>8. ASSUME NEW i \in 1 .. m + n, NEW j \in 1 .. m + n, i < j PROVE Rank(u[i]) <= Rank(u[j])
  <2>1. CASE i \in 1 .. m /\ j \in 1 .. m
    BY <1>3, <1>5, <1>8, <2>1
  <2>2. CASE i \in 1 .. m /\ j \notin 1 .. m
    <3>1. u[i] \in ToSet(s) /\ u[j] \in ToSet(t)
      BY <1>6, <2>2
    <3> QED
      BY <3>1, Zenon
  <2>3. CASE i \notin 1 .. m
    <3>1. j \notin 1 .. m /\ i - m < j - m
      BY <1>3, <1>8, <2>3
    <3>2. i - m \in 1 .. n /\ j - m \in 1 .. n /\ u[i] = t[i - m] /\ u[j] = t[j - m]
      BY <1>6, <2>3, <3>1
    <3> QED
      BY <1>5, <3>1, <3>2
  <2> QED
    BY <2>1, <2>2, <2>3
<1>9. ASSUME NEW i \in 1 .. m + n, NEW j \in 1 .. m + n, u[i] = u[j], Type(u[i]) = "count_edges"
      PROVE  i = j
  <2>1. CASE i \in 1 .. m /\ j \in 1 .. m
    BY <1>3, <1>5, <1>9, <2>1
  <2>2. CASE (i \in 1 .. m /\ j \notin 1 .. m) \/ (i \notin 1 .. m /\ j \in 1 .. m)
    <3>1. u[i] \in ToSet(s) /\ u[i] \in ToSet(t)
      BY <1>6, <1>9, <2>2
    <3> QED
      BY <1>9, <3>1, Zenon
  <2>3. CASE i \notin 1 .. m /\ j \notin 1 .. m
    <3>1. i - m \in 1 .. n /\ j - m \in 1 .. n /\ u[i] = t[i - m] /\ u[j] = t[j - m]
      BY <1>6, <2>3
    <3>2. i - m = j - m
      BY <1>5, <1>9, <3>1
    <3> QED
      BY <1>3, <3>2
  <2> QED
    BY <2>1, <2>2, <2>3
<1> QED
  BY <1>3, <1>4, <1>7, <1>8, <1>9 DEF Todo, u

\* Queries of one type other than a count of edges, in any order.
LEMMA TodoOfType ==
  ASSUME NEW s, NEW n \in Nat, s = [k \in 1 .. n |-> s[k]], NEW r,
         \A k \in 1 .. n : Rank(s[k]) = r /\ Type(s[k]) # "count_edges", r \in Nat
  PROVE  Todo(s) /\ \A q : q \in ToSet(s) <=> \E k \in 1 .. n : s[k] = q
<1> DEFINE A == {s[k] : k \in 1 .. n}
<1>1. s \in [1 .. n -> A]
  <2>1. \A k \in 1 .. n : s[k] \in A
    OBVIOUS
  <2> HIDE DEF A
  <2> QED
    BY <2>1, Zenon
<1> HIDE DEF A
<1>2. s \in Seq(A) /\ Len(s) = n /\ DOMAIN s = 1 .. n
  BY <1>1
<1>3. s \in Seq(ToSet(s)) /\ \A q : q \in ToSet(s) <=> \E k \in 1 .. n : s[k] = q
  BY <1>2, RangeFacts
<1> QED
  BY <1>2, <1>3 DEF Todo

-----------------------------------------------------------------------------
(* The queries of a save *)

\* The batches of a sequence hold all of it.
LEMMA ChunksFacts ==
  ASSUME NEW A, NEW s \in Seq(A), NEW n \in Nat \ {0}
  PROVE  /\ Chunks(s, n) \in Seq(SUBSET A)
         /\ \A k \in DOMAIN Chunks(s, n) : Chunks(s, n)[k] \subseteq ToSet(s)
         /\ \A x \in ToSet(s) : \E k \in DOMAIN Chunks(s, n) : x \in Chunks(s, n)[k]
<1> DEFINE m == (Len(s) + n - 1) \div n
           C(k) == {s[i] : i \in {j \in DOMAIN s : (j - 1) \div n = k - 1}}
           c == [k \in 1 .. m |-> C(k)]
<1>1. Len(s) \in Nat /\ DOMAIN s = 1 .. Len(s) /\ \A i \in 1 .. Len(s) : s[i] \in A
  OBVIOUS
<1>2. m \in Nat /\ n * m <= Len(s) + n - 1 /\ Len(s) + n - 1 < n * m + n
  BY <1>1
<1>3. \A x : x \in ToSet(s) <=> \E i \in 1 .. Len(s) : s[i] = x
  BY RangeFacts
<1>4. Chunks(s, n) = c
  BY DEF Chunks
<1>5. \A k \in 1 .. m : C(k) \subseteq A /\ C(k) \subseteq ToSet(s)
  BY <1>1, <1>3
<1>6. ASSUME NEW i \in 1 .. Len(s) PROVE \E k \in 1 .. m : s[i] \in C(k)
  <2> DEFINE q == (i - 1) \div n
  <2>1. q \in Nat /\ n * q <= i - 1
    BY <1>1
  <2>2. q < m
    <3>1. n * q < n * m
      BY <1>1, <1>2, <2>1
    <3> HIDE DEF q, m
    <3> QED
      BY <1>2, <2>1, <3>1
  <2> HIDE DEF m
  <2>3. q + 1 \in 1 .. m /\ s[i] \in C(q + 1)
    BY <1>1, <1>2, <2>1, <2>2
  <2> QED
    BY <2>3
<1> HIDE DEF C, m
<1>7. c \in [1 .. m -> SUBSET A] /\ \A k \in 1 .. m : c[k] = C(k)
  BY <1>5
<1>8. c \in Seq(SUBSET A) /\ DOMAIN c = 1 .. m
  BY <1>2, <1>7
<1> HIDE DEF c
<1>9. \A x \in ToSet(s) : \E k \in 1 .. m : x \in c[k]
  <2> TAKE x \in ToSet(s)
  <2>1. PICK i \in 1 .. Len(s) : s[i] = x
    BY <1>3
  <2>2. PICK k \in 1 .. m : s[i] \in C(k)
    BY <1>6
  <2> QED
    BY <1>7, <2>1, <2>2
<1>10. \A k \in 1 .. m : c[k] \subseteq ToSet(s)
  BY <1>5, <1>7
<1> QED
  BY <1>4, <1>8, <1>9, <1>10

\* An order of a set is a sequence of its elements.
LEMMA OrderFacts ==
  ASSUME NEW S, IsFiniteSet(S), NEW s \in SetToSeqs(S)
  PROVE  s \in Seq(S) /\ ToSet(s) = S
<1> DEFINE n == Cardinality(S)
<1>1. n \in Nat
  BY FS_CardinalityType
<1>2. s \in [1 .. n -> S] /\ \A i, j \in 1 .. n : i # j => s[i] # s[j]
  BY DEF SetToSeqs
<1>3. s \in Injection(1 .. n, S)
  BY <1>2 DEF Injection, IsInjective
<1>4. IsFiniteSet(1 .. n) /\ Cardinality(1 .. n) = n
  BY <1>1, FS_Interval
<1>5. s \in Surjection(1 .. n, S)
  BY <1>3, <1>4, FS_Injection
<1> HIDE DEF n
<1>6. \A x \in S : \E i \in 1 .. n : s[i] = x
  BY <1>5, Zenon DEF Surjection
<1>7. s \in Seq(S) /\ Len(s) = n /\ DOMAIN s = 1 .. n
  BY <1>1, <1>2
<1> QED
  BY <1>2, <1>6, <1>7 DEF ToSet

\* The order, by the type of the query.
LEMMA RankFacts ==
  /\ \A t, a : Type(Q(t, a)) = t /\ Arg(Q(t, a)) = a
  /\ \A q : Rank(q) \in 0 .. 4
  /\ \A q : Rank(q) = 0 <=> Type(q) = "delete"
  /\ \A q : Rank(q) = 1 <=> Type(q) = "nodes"
  /\ \A q : Rank(q) = 2 <=> Type(q) = "edges"
  /\ \A q : Rank(q) = 3 <=> Type(q) = "hashes"
  BY DEF Rank, Q, Type, Arg

\* The counts: one of each kind.
LEMMA CountFacts ==
  /\ Todo(CountEdges)
  /\ \A q : q \in ToSet(CountEdges) <=> \E k \in Kinds : q = Q("count_edges", k)
<1> DEFINE n == Len(EdgeKinds)
           s == CountEdges
<1>1. n \in Nat /\ DOMAIN EdgeKinds = 1 .. n /\ EdgeKinds \in [1 .. n -> STRING]
  BY KindsAssumption
<1>2. \A x : x \in Kinds <=> \E i \in 1 .. n : EdgeKinds[i] = x
  BY KindsAssumption, RangeFacts DEF Kinds
<1>3. \A i, j \in 1 .. n : EdgeKinds[i] = EdgeKinds[j] => i = j
  BY <1>1, KindsAssumption
<1> HIDE DEF n
<1>4. s = [k \in 1 .. n |-> Q("count_edges", EdgeKinds[k])]
  BY <1>1 DEF CountEdges
<1>5. \A k \in 1 .. n : s[k] = Q("count_edges", EdgeKinds[k])
  BY <1>4
<1>6. DOMAIN s = 1 .. n
  BY <1>4
<1> DEFINE A == {s[k] : k \in 1 .. n}
<1>7. s \in [1 .. n -> A]
  <2>1. \A k \in 1 .. n : s[k] \in A
    OBVIOUS
  <2>2. s = [k \in 1 .. n |-> s[k]]
    BY <1>4, <1>6
  <2> HIDE DEF A, s
  <2> QED
    BY <2>1, <2>2
<1> HIDE DEF A, s
<1>8. s \in Seq(A) /\ Len(s) = n
  BY <1>1, <1>7
<1>9. s \in Seq(ToSet(s)) /\ \A q : q \in ToSet(s) <=> \E k \in 1 .. n : s[k] = q
  BY <1>8, RangeFacts
<1>10. \A i, j \in 1 .. n : Rank(s[i]) = Rank(s[j])
  BY <1>5 DEF Rank, Q, Type
<1>11. \A i, j \in 1 .. n : s[i] = s[j] => i = j
  BY <1>3, <1>5 DEF Q
<1>12. \A i \in 1 .. n : Rank(s[i]) \in 0 .. 4
  BY RankFacts
<1>13. Todo(s)
  BY <1>6, <1>9, <1>10, <1>11, <1>12 DEF Todo
<1>14. \A q : q \in ToSet(s) <=> \E k \in Kinds : q = Q("count_edges", k)
  BY <1>2, <1>5, <1>9
<1> QED
  BY <1>13, <1>14 DEF s

\* One query.
LEMMA OneFacts ==
  ASSUME NEW q
  PROVE  Todo(<<q>>) /\ \A p : p \in ToSet(<<q>>) <=> p = q
<1> DEFINE s == <<q>>
<1>1. s \in Seq({q}) /\ Len(s) = 1 /\ DOMAIN s = 1 .. 1 /\ s[1] = q
  OBVIOUS
<1> HIDE DEF s
<1>2. s \in Seq(ToSet(s)) /\ \A p : p \in ToSet(s) <=> \E k \in 1 .. 1 : s[k] = p
  <2>1. s \in Seq(ToSet(s)) /\ \A p : p \in ToSet(s) <=> \E k \in 1 .. Len(s) : s[k] = p
    BY <1>1, RangeFacts
  <2> QED
    BY <1>1, <2>1
<1>3. \A k \in 1 .. 1 : k = 1
  OBVIOUS
<1>4. Todo(s)
  BY <1>1, <1>2, <1>3, RankFacts DEF Todo
<1>5. \A p : p \in ToSet(s) <=> p = q
  BY <1>1, <1>2, <1>3
<1> QED
  BY <1>4, <1>5 DEF s

\* What a finite set is mapped onto is finite.
LEMMA ImageFinite ==
  ASSUME NEW S, IsFiniteSet(S), NEW T, NEW f \in [S -> T], \A x \in T : \E y \in S : f[y] = x
  PROVE  IsFiniteSet(T)
<1>1. f \in Surjection(S, T)
  BY Zenon DEF Surjection
<1> QED
  BY <1>1, FS_Surjection

\* The edges that are sent, kind by kind, are those that the graph stands for.
LEMMA SentEdges ==
  ASSUME NEW g \in Graphs
  PROVE  /\ \A k : IsFiniteSet(EdgesToSend(g, k))
         /\ \A k \in Kinds : EdgesToSend(g, k) \subseteq EdgeRows(g)
         /\ \A e \in EdgeRows(g) : \E k \in Kinds : e \in EdgesToSend(g, k)
         /\ \A e \in EdgeRows(g) : e.kind \in Kinds
<1>1. IsFiniteSet(g.nodes) /\ IsFiniteSet(g.edges) /\ \A e \in g.edges : e.kind \in Kinds
  BY GraphsAssumption DEF Kinds
<1>2. "CONTAINS" \in Kinds
  BY KindsAssumption DEF Kinds
<1> DEFINE J == {j \in g.nodes : g.parent[j] \in g.nodes}
           E(i, k) == [src |-> g.parent[i], dst |-> i, kind |-> k, line |-> LineOf[i]]
<1>3. ASSUME NEW k PROVE IsFiniteSet(EdgesToSend(g, k))
  <2>1. IsFiniteSet(J)
    BY <1>1, FS_Subset
  <2>2. IsFiniteSet({E(i, k) : i \in J})
    <3> DEFINE T == {E(i, k) : i \in J}
               f == [i \in J |-> E(i, k)]
    <3> HIDE DEF E, J
    <3>1. f \in [J -> T]
      <4>1. \A i \in J : E(i, k) \in T
        BY Zenon
      <4> HIDE DEF T
      <4> QED
        BY <4>1, Zenon
    <3>2. \A x \in T : \E y \in J : f[y] = x
      BY Zenon
    <3> HIDE DEF f, T
    <3>3. IsFiniteSet(T)
      BY <2>1, <3>1, <3>2, ImageFinite
    <3> QED
      BY <3>3 DEF T
  <2>3. IsFiniteSet(Synthesized(g, k))
    <3>1. CASE k = "CONTAINS"
      BY <2>2, <3>1 DEF Synthesized
    <3>2. CASE k # "CONTAINS"
      BY <3>2, FS_EmptySet DEF Synthesized
    <3> QED
      BY <3>1, <3>2
  <2>4. IsFiniteSet({e \in g.edges : e.kind = k /\ {e.src, e.dst} \subseteq g.nodes})
    BY <1>1, FS_Subset
  <2> QED
    BY <2>3, <2>4, FS_Union DEF EdgesToSend
<1>4. ASSUME NEW k \in Kinds, NEW e \in EdgesToSend(g, k) PROVE e \in EdgeRows(g)
  <2>1. CASE e \in Synthesized(g, k)
    BY <2>1 DEF Synthesized, EdgeRows
  <2>2. CASE e \in g.edges /\ {e.src, e.dst} \subseteq g.nodes
    BY <2>2 DEF EdgeRows
  <2> QED
    BY <2>1, <2>2, <1>4 DEF EdgesToSend
<1>5. ASSUME NEW e \in EdgeRows(g)
      PROVE  e.kind \in Kinds /\ \E k \in Kinds : e \in EdgesToSend(g, k)
  <2>1. CASE e \in g.edges /\ e.src \in g.nodes /\ e.dst \in g.nodes
    <3>1. e.kind \in Kinds
      BY <1>1, <2>1
    <3>2. e \in EdgesToSend(g, e.kind)
      BY <2>1 DEF EdgesToSend
    <3> QED
      BY <3>1, <3>2
  <2>2. CASE \E i \in J : e = E(i, "CONTAINS")
    <3>1. e \in Synthesized(g, "CONTAINS")
      BY <2>2 DEF Synthesized
    <3>2. e.kind = "CONTAINS"
      BY <2>2
    <3>3. e \in EdgesToSend(g, "CONTAINS")
      BY <3>1 DEF EdgesToSend
    <3> QED
      BY <1>2, <3>2, <3>3
  <2> QED
    BY <1>5, <2>1, <2>2 DEF EdgeRows
<1> QED
  BY <1>3, <1>4, <1>5

\* The queries of a save: all of the graph's rows, in order, then the counts.
LEMMA SaveFacts ==
  ASSUME NEW g \in Graphs, NEW n \in SetToSeqs(g.nodes), NEW e \in EdgeOrders(g),
         NEW t, t = SaveQueries(g, n, e)
  PROVE  /\ Todo(t) /\ t # <<>>
         /\ \A q \in ToSet(t) : SaveAsks(g, q)
         /\ \A i \in g.nodes : \E q \in ToSet(t) : Type(q) = "nodes" /\ i \in DOMAIN Arg(q)
         /\ \A x \in EdgeRows(g) : \E q \in ToSet(t) : Type(q) = "edges" /\ x \in Arg(q)
         /\ \A f \in DOMAIN g.hashes : Q("hashes", g.hashes) \in ToSet(t)
         /\ Q("count_nodes", NoId) \in ToSet(t)
         /\ \A k \in Kinds : Q("count_edges", k) \in ToSet(t)
<1> DEFINE cn == Chunks(n, NODE_BATCH)
           ss == [k \in DOMAIN EdgeKinds |-> Chunks(e[k], EDGE_BATCH)]
           ce == FlattenSeq(ss)
           rows(k) == [i \in cn[k] |-> g.text[i]]
           qa == [k \in DOMAIN cn |-> Q("nodes", rows(k))]
           qb == [k \in DOMAIN ce |-> Q("edges", ce[k])]
           qc == IF g.hashes = <<>> THEN <<>> ELSE <<Q("hashes", g.hashes)>>
           qd == <<Q("count_nodes", NoId)>>
           N == Len(EdgeKinds)
<1>1. t = (((qa \o qb) \o qc) \o qd) \o CountEdges
  BY DEF SaveQueries
<1>2. N \in Nat \ {0} /\ DOMAIN EdgeKinds = 1 .. N
      /\ \A x : x \in Kinds <=> \E i \in 1 .. N : EdgeKinds[i] = x
  <2>1. N \in Nat /\ DOMAIN EdgeKinds = 1 .. N
        /\ \A x : x \in Kinds <=> \E i \in 1 .. N : EdgeKinds[i] = x
    BY KindsAssumption, RangeFacts DEF Kinds
  <2>2. "CONTAINS" \in Kinds
    BY KindsAssumption DEF Kinds
  <2> HIDE DEF N
  <2> QED
    BY <2>1, <2>2
<1>3. IsFiniteSet(g.nodes) /\ NODE_BATCH \in Nat \ {0} /\ EDGE_BATCH \in Nat \ {0}
  BY GraphsAssumption, BatchAssumption
<1>4. n \in Seq(g.nodes) /\ ToSet(n) = g.nodes
  BY <1>3, OrderFacts
<1>5. /\ cn \in Seq(SUBSET g.nodes)
      /\ \A k \in DOMAIN cn : cn[k] \subseteq g.nodes
      /\ \A x \in g.nodes : \E k \in DOMAIN cn : x \in cn[k]
  <2>1. /\ cn \in Seq(SUBSET g.nodes)
        /\ \A k \in DOMAIN cn : cn[k] \subseteq ToSet(n)
        /\ \A x \in ToSet(n) : \E k \in DOMAIN cn : x \in cn[k]
    BY <1>3, <1>4, ChunksFacts
  <2> HIDE DEF cn
  <2> QED
    BY <1>4, <2>1
<1>6. ASSUME NEW k \in 1 .. N
      PROVE  /\ ss[k] \in Seq(SUBSET EdgeRows(g))
             /\ \A x \in EdgesToSend(g, EdgeKinds[k]) : \E b \in ToSet(ss[k]) : x \in b
  <2> DEFINE E == EdgesToSend(g, EdgeKinds[k])
             c == Chunks(e[k], EDGE_BATCH)
  <2>1. ss[k] = c
    BY <1>2
  <2>2. e[k] \in SetToSeqs(E)
    BY <1>2 DEF EdgeOrders
  <2>3. IsFiniteSet(E) /\ E \subseteq EdgeRows(g)
    BY <1>2, SentEdges
  <2> HIDE DEF E
  <2>4. e[k] \in Seq(E) /\ ToSet(e[k]) = E
    BY <2>2, <2>3, OrderFacts
  <2>5. /\ c \in Seq(SUBSET E)
        /\ \A x \in ToSet(e[k]) : \E b \in DOMAIN c : x \in c[b]
    BY <1>3, <2>4, ChunksFacts
  <2> HIDE DEF c
  <2>6. /\ \A x : x \in ToSet(c) <=> \E i \in 1 .. Len(c) : c[i] = x
        /\ DOMAIN c = 1 .. Len(c) /\ Len(c) \in Nat
    BY <2>5, RangeFacts
  <2>7. \A x \in E : \E b \in ToSet(c) : x \in b
    BY <2>4, <2>5, <2>6
  <2>8. c \in Seq(SUBSET EdgeRows(g))
    <3>1. c \in [1 .. Len(c) -> SUBSET EdgeRows(g)]
      BY <2>3, <2>5, <2>6
    <3> QED
      BY <2>6, <3>1
  <2> QED
    BY <2>1, <2>7, <2>8 DEF E
<1>7. /\ ce \in Seq(SUBSET EdgeRows(g))
      /\ \A x \in EdgeRows(g) : \E b \in ToSet(ce) : x \in b
  <2>1. ss \in [1 .. N -> Seq(SUBSET EdgeRows(g))]
    <3>1. ss = [k \in 1 .. N |-> ss[k]]
      BY <1>2
    <3> HIDE DEF ss
    <3> QED
      BY <1>6, <3>1
  <2> HIDE DEF ss, N
  <2>2. /\ ce \in Seq(SUBSET EdgeRows(g))
        /\ \A x : x \in ToSet(ce) <=> \E k \in 1 .. N : x \in ToSet(ss[k])
    BY <1>2, <2>1, FlattenFacts
  <2> HIDE DEF ce
  <2>3. ASSUME NEW x \in EdgeRows(g) PROVE \E b \in ToSet(ce) : x \in b
    <3>1. PICK k \in Kinds : x \in EdgesToSend(g, k)
      BY SentEdges
    <3>2. PICK i \in 1 .. N : EdgeKinds[i] = k
      BY <1>2
    <3> QED
      BY <1>6, <2>2, <3>1, <3>2
  <2> QED
    BY <2>2, <2>3
<1> HIDE DEF cn, ce, N, rows
<1>8. /\ Todo(qa)
      /\ \A q : q \in ToSet(qa) <=> \E k \in DOMAIN cn : qa[k] = q
      /\ \A k \in DOMAIN cn : qa[k] = Q("nodes", rows(k))
  <2>1. Len(cn) \in Nat /\ DOMAIN cn = 1 .. Len(cn)
    BY <1>5
  <2>0. qa = [k \in DOMAIN cn |-> Q("nodes", rows(k))]
    OBVIOUS
  <2> HIDE DEF qa
  <2>2. \A k \in DOMAIN cn : qa[k] = Q("nodes", rows(k))
    BY <2>0
  <2>3. qa = [k \in 1 .. Len(cn) |-> qa[k]]
    <3>1. qa = [k \in DOMAIN cn |-> qa[k]]
      BY <2>0
    <3> QED
      BY <2>1, <3>1, Zenon
  <2>4. \A k \in 1 .. Len(cn) : Rank(qa[k]) = 1 /\ Type(qa[k]) # "count_edges"
    BY <2>1, <2>2, RankFacts
  <2>5. /\ Todo(qa) /\ \A q : q \in ToSet(qa) <=> \E k \in 1 .. Len(cn) : qa[k] = q
    <3> DEFINE M == Len(cn)
    <3>1. M \in Nat
      BY <2>1
    <3>2. qa = [k \in 1 .. M |-> qa[k]]
      BY <2>3
    <3>3. \A k \in 1 .. M : Rank(qa[k]) = 1 /\ Type(qa[k]) # "count_edges"
      BY <2>4
    <3> HIDE DEF M
    <3>4. /\ Todo(qa) /\ \A q : q \in ToSet(qa) <=> \E k \in 1 .. M : qa[k] = q
      BY <3>1, <3>2, <3>3, TodoOfType
    <3> QED
      BY <3>4 DEF M
  <2> QED
    BY <2>1, <2>2, <2>5
<1>9. /\ Todo(qb)
      /\ \A q : q \in ToSet(qb) <=> \E k \in DOMAIN ce : qb[k] = q
      /\ \A k \in DOMAIN ce : qb[k] = Q("edges", ce[k])
  <2>1. Len(ce) \in Nat /\ DOMAIN ce = 1 .. Len(ce)
    BY <1>7
  <2>0. qb = [k \in DOMAIN ce |-> Q("edges", ce[k])]
    OBVIOUS
  <2> HIDE DEF qb
  <2>2. \A k \in DOMAIN ce : qb[k] = Q("edges", ce[k])
    BY <2>0
  <2>3. qb = [k \in 1 .. Len(ce) |-> qb[k]]
    <3>1. qb = [k \in DOMAIN ce |-> qb[k]]
      BY <2>0
    <3> QED
      BY <2>1, <3>1, Zenon
  <2>4. \A k \in 1 .. Len(ce) : Rank(qb[k]) = 2 /\ Type(qb[k]) # "count_edges"
    BY <2>1, <2>2, RankFacts
  <2>5. /\ Todo(qb) /\ \A q : q \in ToSet(qb) <=> \E k \in 1 .. Len(ce) : qb[k] = q
    <3> DEFINE M == Len(ce)
    <3>1. M \in Nat
      BY <2>1
    <3>2. qb = [k \in 1 .. M |-> qb[k]]
      BY <2>3
    <3>3. \A k \in 1 .. M : Rank(qb[k]) = 2 /\ Type(qb[k]) # "count_edges"
      BY <2>4
    <3> HIDE DEF M
    <3>4. /\ Todo(qb) /\ \A q : q \in ToSet(qb) <=> \E k \in 1 .. M : qb[k] = q
      BY ONLY <3>1, <3>2, <3>3, TodoOfType, SMTT(30)
    <3> QED
      BY <3>4 DEF M
  <2> QED
    BY <2>1, <2>2, <2>5
<1>10. /\ Todo(qc) /\ \A q \in ToSet(qc) : q = Q("hashes", g.hashes)
       /\ \A f \in DOMAIN g.hashes : Q("hashes", g.hashes) \in ToSet(qc)
  <2>1. CASE g.hashes = <<>>
    BY <2>1, TodoOfNone
  <2>2. CASE g.hashes # <<>>
    BY <2>2, OneFacts
  <2> QED
    BY <2>1, <2>2
<1>11. Todo(qd) /\ \A q : q \in ToSet(qd) <=> q = Q("count_nodes", NoId)
  BY OneFacts
<1> HIDE DEF qa, qb, qc, qd
<1>12. /\ \A q \in ToSet(qa) : Type(q) = "nodes" /\ Rank(q) = 1
       /\ \A q \in ToSet(qb) : Type(q) = "edges" /\ Rank(q) = 2
       /\ \A q \in ToSet(qc) : Type(q) = "hashes" /\ Rank(q) = 3
       /\ \A q \in ToSet(qd) : Type(q) = "count_nodes" /\ Rank(q) = 4
       /\ \A q \in ToSet(CountEdges) : Type(q) = "count_edges" /\ Rank(q) = 4
  <2>1. \A q \in ToSet(qa) : Type(q) = "nodes"
    BY <1>8, RankFacts
  <2>2. \A q \in ToSet(qb) : Type(q) = "edges"
    BY <1>9, RankFacts
  <2>3. \A q \in ToSet(qc) : Type(q) = "hashes"
    BY <1>10, RankFacts
  <2>4. \A q \in ToSet(qd) : Type(q) = "count_nodes"
    BY <1>11, RankFacts
  <2>5. \A q \in ToSet(CountEdges) : Type(q) = "count_edges"
    BY CountFacts, RankFacts
  <2> QED
    BY <2>1, <2>2, <2>3, <2>4, <2>5 DEF Rank
<1>13. /\ Todo(qa \o qb)
       /\ \A q : q \in ToSet(qa \o qb) <=> q \in ToSet(qa) \/ q \in ToSet(qb)
  <2>1. \A p \in ToSet(qa), q \in ToSet(qb) : Rank(p) <= Rank(q)
    BY <1>12
  <2>2. \A q \in ToSet(qa) : Type(q) # "count_edges"
    BY <1>12
  <2> QED
    BY <1>8, <1>9, <2>1, <2>2, TodoConcat
<1> DEFINE u == qa \o qb
<1> HIDE DEF u
<1>14. /\ Todo(u \o qc)
       /\ \A q : q \in ToSet(u \o qc) <=> q \in ToSet(qa) \/ q \in ToSet(qb) \/ q \in ToSet(qc)
  <2>0. Todo(u) /\ \A q : q \in ToSet(u) <=> q \in ToSet(qa) \/ q \in ToSet(qb)
    BY <1>13 DEF u
  <2>1. \A p \in ToSet(u), q \in ToSet(qc) : Rank(p) <= Rank(q)
    BY <1>12, <2>0
  <2>2. \A q \in ToSet(u) : Type(q) # "count_edges"
    BY <1>12, <2>0
  <2>3. /\ Todo(u \o qc)
        /\ \A q : q \in ToSet(u \o qc) <=> q \in ToSet(u) \/ q \in ToSet(qc)
    BY <1>10, <2>0, <2>1, <2>2, TodoConcat
  <2> QED
    BY <2>0, <2>3
<1> DEFINE v == u \o qc
<1> HIDE DEF v
<1>15. /\ Todo(v \o qd)
       /\ \A q : q \in ToSet(v \o qd) <=> \/ q \in ToSet(qa) \/ q \in ToSet(qb)
                                          \/ q \in ToSet(qc) \/ q \in ToSet(qd)
  <2>0. /\ Todo(v)
        /\ \A q : q \in ToSet(v) <=> q \in ToSet(qa) \/ q \in ToSet(qb) \/ q \in ToSet(qc)
    BY <1>14 DEF v
  <2>1. \A p \in ToSet(v), q \in ToSet(qd) : Rank(p) <= Rank(q)
    BY <1>12, <2>0
  <2>2. \A q \in ToSet(v) : Type(q) # "count_edges"
    BY <1>12, <2>0
  <2>3. /\ Todo(v \o qd)
        /\ \A q : q \in ToSet(v \o qd) <=> q \in ToSet(v) \/ q \in ToSet(qd)
    BY <1>11, <2>0, <2>1, <2>2, TodoConcat
  <2> QED
    BY <2>0, <2>3
<1> DEFINE w == v \o qd
<1> HIDE DEF w
<1>16. /\ Todo(w \o CountEdges)
       /\ \A q : q \in ToSet(w \o CountEdges) <=>
                   \/ q \in ToSet(qa) \/ q \in ToSet(qb) \/ q \in ToSet(qc)
                   \/ q \in ToSet(qd) \/ q \in ToSet(CountEdges)
  <2>0. /\ Todo(w)
        /\ \A q : q \in ToSet(w) <=> \/ q \in ToSet(qa) \/ q \in ToSet(qb)
                                     \/ q \in ToSet(qc) \/ q \in ToSet(qd)
    BY <1>15 DEF w
  <2>1. \A p \in ToSet(w), q \in ToSet(CountEdges) : Rank(p) <= Rank(q)
    BY <1>12, <2>0
  <2>2. \A q \in ToSet(w) : Type(q) # "count_edges"
    BY <1>12, <2>0
  <2>3. /\ Todo(w \o CountEdges)
        /\ \A q : q \in ToSet(w \o CountEdges) <=> q \in ToSet(w) \/ q \in ToSet(CountEdges)
    BY CountFacts, <2>0, <2>1, <2>2, TodoConcat
  <2> QED
    BY <2>0, <2>3
<1>17. t = w \o CountEdges
  BY <1>1 DEF u, v, w
<1>18. /\ Todo(t)
       /\ \A q : q \in ToSet(t) <=>
                   \/ q \in ToSet(qa) \/ q \in ToSet(qb) \/ q \in ToSet(qc)
                   \/ q \in ToSet(qd) \/ q \in ToSet(CountEdges)
  BY <1>16, <1>17
<1> HIDE DEF w
<1>19. Q("count_nodes", NoId) \in ToSet(t)
  BY <1>11, <1>18
<1>20. t # <<>>
  BY <1>19, TodoOfNone
<1>21. ASSUME NEW q \in ToSet(t) PROVE SaveAsks(g, q)
  <2>1. CASE q \in ToSet(qa)
    <3>1. PICK k \in DOMAIN cn : q = Q("nodes", rows(k))
      BY <1>8, <2>1
    <3>2. DOMAIN rows(k) \subseteq g.nodes /\ \A i \in DOMAIN rows(k) : rows(k)[i] = g.text[i]
      BY <1>5 DEF rows
    <3>3. Type(q) = "nodes" /\ Arg(q) = rows(k)
      BY <3>1, RankFacts
    <3> QED
      BY <3>2, <3>3 DEF SaveAsks
  <2>2. CASE q \in ToSet(qb)
    <3>1. PICK k \in DOMAIN ce : q = Q("edges", ce[k])
      BY <1>9, <2>2
    <3>2. ce[k] \subseteq EdgeRows(g)
      BY <1>7
    <3> QED
      BY <3>1, <3>2, RankFacts DEF SaveAsks
  <2>3. CASE q \in ToSet(qc)
    BY <1>10, <2>3, RankFacts DEF SaveAsks
  <2>4. CASE q \in ToSet(qd)
    BY <1>11, <2>4 DEF SaveAsks
  <2>5. CASE q \in ToSet(CountEdges)
    BY <2>5, CountFacts, RankFacts DEF SaveAsks
  <2> QED
    BY <1>18, <2>1, <2>2, <2>3, <2>4, <2>5
<1>22. ASSUME NEW i \in g.nodes
       PROVE  \E q \in ToSet(t) : Type(q) = "nodes" /\ i \in DOMAIN Arg(q)
  <2>1. PICK k \in DOMAIN cn : i \in cn[k]
    BY <1>5
  <2> DEFINE q == Q("nodes", rows(k))
  <2>2. qa[k] = q /\ DOMAIN rows(k) = cn[k]
    BY <1>8 DEF rows
  <2>3. Type(q) = "nodes" /\ Arg(q) = rows(k)
    BY RankFacts
  <2> HIDE DEF q
  <2>4. q \in ToSet(t)
    BY <1>8, <1>18, <2>2
  <2> QED
    BY <2>1, <2>2, <2>3, <2>4
<1>23. ASSUME NEW x \in EdgeRows(g)
       PROVE  \E q \in ToSet(t) : Type(q) = "edges" /\ x \in Arg(q)
  <2>1. PICK b \in ToSet(ce) : x \in b
    BY <1>7
  <2>2. PICK k \in DOMAIN ce : ce[k] = b
    BY <1>7, RangeFacts
  <2> DEFINE q == Q("edges", ce[k])
  <2>3. q \in ToSet(t)
    BY <1>9, <1>18
  <2>4. Type(q) = "edges" /\ x \in Arg(q)
    BY <2>1, <2>2, RankFacts
  <2> QED
    BY <2>3, <2>4
<1>24. \A f \in DOMAIN g.hashes : Q("hashes", g.hashes) \in ToSet(t)
  BY <1>10, <1>18
<1>25. \A k \in Kinds : Q("count_edges", k) \in ToSet(t)
  BY <1>18, CountFacts
<1> QED
  BY <1>18, <1>19, <1>20, <1>21, <1>22, <1>23, <1>24, <1>25

-----------------------------------------------------------------------------
(* The queries of the other operations *)

\* init_schema asks for each index.
LEMMA SchemaFacts ==
  /\ Todo(init_schema) /\ init_schema # <<>>
  /\ \A q : q \in ToSet(init_schema) <=> \E x \in ToSet(Indexes) : q = Q("index", x)
<1> DEFINE s == init_schema
           M == Len(Indexes)
<1>1. M \in Nat /\ DOMAIN Indexes = 1 .. M /\ M # 0
  BY KindsAssumption, EmptySeq
<1>2. \A x : x \in ToSet(Indexes) <=> \E i \in 1 .. M : Indexes[i] = x
  BY KindsAssumption, RangeFacts
<1> HIDE DEF M
<1>3. s = [k \in 1 .. M |-> Q("index", Indexes[k])]
  BY <1>1 DEF init_schema
<1> HIDE DEF s
<1>4. /\ s = [k \in 1 .. M |-> s[k]]
      /\ \A k \in 1 .. M : s[k] = Q("index", Indexes[k])
  BY <1>3
<1>5. \A k \in 1 .. M : Rank(s[k]) = 4 /\ Type(s[k]) # "count_edges"
  BY <1>4 DEF Rank, Q, Type
<1>6. Todo(s) /\ \A q : q \in ToSet(s) <=> \E k \in 1 .. M : s[k] = q
  BY ONLY <1>1, <1>4, <1>5, TodoOfType, SMTT(30)
<1>7. \A q : q \in ToSet(s) <=> \E x \in ToSet(Indexes) : q = Q("index", x)
  BY <1>2, <1>4, <1>6
<1>8. s # <<>>
  <2>1. 1 \in 1 .. M
    BY <1>1
  <2>2. s[1] \in ToSet(s)
    BY <1>6, <2>1
  <2> QED
    BY <2>2, TodoOfNone
<1> QED
  BY <1>6, <1>7, <1>8 DEF s

\* remove_file_nodes asks for the nodes and then for the hash.
LEMMA RemoveFacts ==
  ASSUME NEW f, NEW t, t = <<Q("remove_nodes", f), Q("remove_hash", f)>>
  PROVE  /\ Todo(t) /\ t # <<>>
         /\ \A q : q \in ToSet(t) <=> q \in {Q("remove_nodes", f), Q("remove_hash", f)}
<1> DEFINE a == Q("remove_nodes", f)
           b == Q("remove_hash", f)
<1>1. Rank(a) = 4 /\ Rank(b) = 4 /\ Type(a) = "remove_nodes"
  BY DEF Rank, Q, Type
<1> HIDE DEF a, b
<1>2. t = <<a>> \o <<b>>
  BY DEF a, b
<1>3. /\ Todo(<<a>>) /\ \A q : q \in ToSet(<<a>>) <=> q = a
      /\ Todo(<<b>>) /\ \A q : q \in ToSet(<<b>>) <=> q = b
  BY OneFacts
<1>4. Todo(t) /\ \A q : q \in ToSet(t) <=> q = a \/ q = b
  <2>1. \A p \in ToSet(<<a>>), q \in ToSet(<<b>>) : Rank(p) <= Rank(q)
    BY <1>1, <1>3
  <2>2. \A q \in ToSet(<<a>>) : Type(q) # "count_edges"
    BY <1>1, <1>3
  <2> QED
    BY <1>2, <1>3, <2>1, <2>2, TodoConcat
<1>5. t # <<>>
  BY <1>4, TodoOfNone
<1> QED
  BY <1>4, <1>5 DEF a, b

\* clear deletes and then asks for each index.
LEMMA ClearFacts ==
  ASSUME NEW t, t = <<Q("delete", NoId)>> \o init_schema
  PROVE  /\ Todo(t) /\ t # <<>>
         /\ \A q : q \in ToSet(t) <=>
                     q = Q("delete", NoId) \/ \E x \in ToSet(Indexes) : q = Q("index", x)
<1> DEFINE a == Q("delete", NoId)
<1>1. Rank(a) = 0 /\ Type(a) = "delete"
  BY DEF Rank, Q, Type
<1> HIDE DEF a
<1>2. Todo(<<a>>) /\ \A q : q \in ToSet(<<a>>) <=> q = a
  BY OneFacts
<1>3. /\ Todo(t)
      /\ \A q : q \in ToSet(t) <=> q = a \/ q \in ToSet(init_schema)
  <2>1. \A p \in ToSet(<<a>>), q \in ToSet(init_schema) : Rank(p) <= Rank(q)
    BY <1>1, <1>2, RankFacts
  <2>2. \A q \in ToSet(<<a>>) : Type(q) # "count_edges"
    BY <1>1, <1>2
  <2>3. t = <<a>> \o init_schema
    BY DEF a
  <2>4. /\ Todo(<<a>> \o init_schema)
        /\ \A q : q \in ToSet(<<a>> \o init_schema) <=>
                    q \in ToSet(<<a>>) \/ q \in ToSet(init_schema)
    BY <1>2, <2>1, <2>2, SchemaFacts, TodoConcat
  <2> QED
    BY <1>2, <2>3, <2>4
<1>4. t # <<>>
  BY <1>3, TodoOfNone
<1> QED
  BY <1>3, <1>4, SchemaFacts DEF a

\* get_stats counts nodes, the edges of each kind, and files.
LEMMA StatsFacts ==
  ASSUME NEW t, t = <<Q("count_nodes", NoId)>> \o CountEdges \o <<Q("count_files", NoId)>>
  PROVE  /\ Todo(t) /\ t # <<>>
         /\ \A q : q \in ToSet(t) <=> \/ q = Q("count_nodes", NoId)
                                      \/ q = Q("count_files", NoId)
                                      \/ \E k \in Kinds : q = Q("count_edges", k)
<1> DEFINE a == Q("count_nodes", NoId)
           b == Q("count_files", NoId)
           u == <<a>> \o CountEdges
<1>1. Rank(a) = 4 /\ Type(a) = "count_nodes" /\ Rank(b) = 4 /\ Type(b) = "count_files"
  BY DEF Rank, Q, Type
<1>2. \A q \in ToSet(CountEdges) : Rank(q) = 4 /\ Type(q) = "count_edges"
  BY CountFacts DEF Rank, Q, Type
<1> HIDE DEF a, b
<1>3. /\ Todo(<<a>>) /\ \A q : q \in ToSet(<<a>>) <=> q = a
      /\ Todo(<<b>>) /\ \A q : q \in ToSet(<<b>>) <=> q = b
  BY OneFacts
<1>4. /\ Todo(u)
      /\ \A q : q \in ToSet(u) <=> q = a \/ q \in ToSet(CountEdges)
  <2>1. \A p \in ToSet(<<a>>), q \in ToSet(CountEdges) : Rank(p) <= Rank(q)
    BY <1>1, <1>2, <1>3
  <2>2. \A q \in ToSet(<<a>>) : Type(q) # "count_edges"
    BY <1>1, <1>3
  <2>3. /\ Todo(u)
        /\ \A q : q \in ToSet(u) <=> q \in ToSet(<<a>>) \/ q \in ToSet(CountEdges)
    BY <1>3, <2>1, <2>2, CountFacts, TodoConcat
  <2> QED
    BY <1>3, <2>3
<1>5. t = u \o <<b>>
  BY DEF a, b
<1> HIDE DEF u
<1>6. /\ Todo(t)
      /\ \A q : q \in ToSet(t) <=> q = a \/ q \in ToSet(CountEdges) \/ q = b
  <2>1. \A p \in ToSet(u), q \in ToSet(<<b>>) : Rank(p) <= Rank(q)
    BY <1>1, <1>2, <1>3, <1>4
  <2>2. \A q \in ToSet(u) : Type(q) = "count_edges" => q \notin ToSet(<<b>>)
    BY <1>1, <1>3
  <2>3. /\ Todo(u \o <<b>>)
        /\ \A q : q \in ToSet(u \o <<b>>) <=> q \in ToSet(u) \/ q \in ToSet(<<b>>)
    BY <1>3, <1>4, <2>1, <2>2, TodoConcat
  <2> QED
    BY <1>3, <1>4, <1>5, <2>3
<1>7. t # <<>>
  BY <1>6, TodoOfNone
<1> QED
  BY <1>6, <1>7, CountFacts DEF a, b

\* load_graph reads parents, symbols, relationships and hashes.
LEMMA LoadFacts ==
  ASSUME NEW t, t = <<Q("parents", NoId), Q("symbols", NoId),
                      Q("relationships", NoId), Q("file_hashes", NoId)>>
  PROVE  /\ Todo(t) /\ t # <<>>
         /\ \A q : q \in ToSet(t) <=> q \in {Q("parents", NoId), Q("symbols", NoId),
                                             Q("relationships", NoId), Q("file_hashes", NoId)}
<1> DEFINE a == Q("parents", NoId)
           b == Q("symbols", NoId)
           c == Q("relationships", NoId)
           d == Q("file_hashes", NoId)
<1>1. \A q \in {a, b, c, d} : Rank(q) = 4 /\ Type(q) # "count_edges"
  BY DEF Rank, Q, Type
<1> HIDE DEF a, b, c, d
<1>2. t = <<a, b, c, d>>
  BY DEF a, b, c, d
<1>3. t \in Seq({a, b, c, d}) /\ Len(t) = 4
  BY <1>2
<1>4. t[1] = a /\ t[2] = b /\ t[3] = c /\ t[4] = d /\ \A k \in 1 .. 4 : k \in {1, 2, 3, 4}
  BY <1>2
<1>5. t \in Seq(ToSet(t)) /\ DOMAIN t = 1 .. 4
      /\ \A q : q \in ToSet(t) <=> \E k \in 1 .. 4 : t[k] = q
  <2>1. t \in Seq(ToSet(t)) /\ DOMAIN t = 1 .. Len(t)
        /\ \A q : q \in ToSet(t) <=> \E k \in 1 .. Len(t) : t[k] = q
    <3> DEFINE A == {a, b, c, d}
    <3>1. t \in Seq(A)
      BY <1>3
    <3> HIDE DEF A
    <3> QED
      BY ONLY <3>1, RangeFacts
  <2> QED
    BY <1>3, <2>1
<1>6. \A q : q \in ToSet(t) <=> q \in {a, b, c, d}
  <2>1. 1 \in 1 .. 4 /\ 2 \in 1 .. 4 /\ 3 \in 1 .. 4 /\ 4 \in 1 .. 4
    OBVIOUS
  <2> QED
    BY <1>4, <1>5, <2>1
<1>7. \A k \in 1 .. 4 : Rank(t[k]) = 4 /\ Type(t[k]) # "count_edges"
  BY <1>1, <1>4
<1>8. Todo(t)
  BY <1>5, <1>7 DEF Todo
<1>9. t # <<>>
  BY <1>6, TodoOfNone
<1> QED
  BY <1>6, <1>8, <1>9 DEF a, b, c, d

-----------------------------------------------------------------------------
(* Clients and the store, one query at a time *)

\* me goes on with what it has read; `same` says what else it keeps.
Keeps(me, you) ==
    /\ you.op = me.op /\ you.arg = me.arg /\ you.since = me.since /\ you.alone = me.alone
Reading(me, r) == [me EXCEPT !.read = r]
GivenUp(me) == [me EXCEPT !.whole = FALSE]
ReadOK(r) ==
    /\ r = [nodes |-> r.nodes, edges |-> r.edges, files |-> r.files, parents |-> r.parents,
            ids |-> r.ids, adjacency |-> r.adjacency, hashes |-> r.hashes]
    /\ r.edges \in Nat

Fields(op, arg, todo, attempt, status, read, whole, since, alone) ==
    [op |-> op, arg |-> arg, todo |-> todo, attempt |-> attempt, status |-> status,
     read |-> read, whole |-> whole, since |-> since, alone |-> alone]

\* A client by its fields.
LEMMA ClientFields ==
  ASSUME NEW me, ClientOK(me)
  PROVE  me = Fields(me.op, me.arg, me.todo, me.attempt, me.status, me.read, me.whole,
                     me.since, me.alone)
  BY DEF ClientOK, Fields

\* A client whose query has been answered, before it goes on.
LEMMA ReadingFacts ==
  ASSUME NEW me, ClientOK(me), NEW r, ReadOK(r)
  PROVE  /\ ClientOK(Reading(me, r)) /\ Keeps(me, Reading(me, r))
         /\ Reading(me, r).read = r /\ Reading(me, r).todo = me.todo
         /\ Reading(me, r).whole = me.whole /\ Reading(me, r).status = me.status
<1> DEFINE you == Reading(me, r)
<1>1. you = Fields(me.op, me.arg, me.todo, me.attempt, me.status, r, me.whole, me.since, me.alone)
  BY ClientFields DEF Reading, Fields
<1> HIDE DEF you
<1>2. /\ you.op = me.op /\ you.arg = me.arg /\ you.todo = me.todo /\ you.status = me.status
      /\ you.read = r /\ you.whole = me.whole /\ you.since = me.since /\ you.alone = me.alone
      /\ you = [op |-> you.op, arg |-> you.arg, todo |-> you.todo, attempt |-> you.attempt,
                status |-> you.status, read |-> you.read, whole |-> you.whole,
                since |-> you.since, alone |-> you.alone]
  BY <1>1 DEF Fields
<1>3. ClientOK(you)
  BY <1>2 DEF ClientOK, ReadOK
<1> QED
  BY <1>2, <1>3 DEF you, Keeps

\* A client whose query has been given up, before it goes on.
LEMMA GivenUpFacts ==
  ASSUME NEW me, ClientOK(me)
  PROVE  /\ ClientOK(GivenUp(me)) /\ Keeps(me, GivenUp(me))
         /\ GivenUp(me).read = me.read /\ GivenUp(me).todo = me.todo
         /\ GivenUp(me).whole = FALSE /\ GivenUp(me).status = me.status
<1> DEFINE no == FALSE
           you == [me EXCEPT !.whole = no]
<1> HIDE DEF no
<1>1. you = Fields(me.op, me.arg, me.todo, me.attempt, me.status, me.read, no, me.since, me.alone)
  BY ClientFields DEF Fields
<1> HIDE DEF you
<1>2. /\ you.op = me.op /\ you.arg = me.arg /\ you.todo = me.todo /\ you.status = me.status
      /\ you.read = me.read /\ you.whole = no /\ you.since = me.since
      /\ you.alone = me.alone
      /\ you = [op |-> you.op, arg |-> you.arg, todo |-> you.todo, attempt |-> you.attempt,
                status |-> you.status, read |-> you.read, whole |-> you.whole,
                since |-> you.since, alone |-> you.alone]
  BY <1>1 DEF Fields
<1>3. no \in BOOLEAN /\ no = FALSE
  BY DEF no
<1>4. ClientOK(you)
  BY <1>2, <1>3 DEF ClientOK
<1>5. GivenUp(me) = you
  BY DEF GivenUp, you, no
<1> QED
  BY <1>2, <1>3, <1>4, <1>5 DEF Keeps

\* A client that sends its query again.
LEMMA RetryFacts ==
  ASSUME NEW me, ClientOK(me)
  PROVE  /\ ClientOK(Retry(me)) /\ Keeps(me, Retry(me))
         /\ Retry(me).read = me.read /\ Retry(me).todo = me.todo
         /\ Retry(me).whole = me.whole /\ Retry(me).status = me.status
<1> DEFINE you == Retry(me)
<1>1. you = Fields(me.op, me.arg, me.todo, me.attempt + 1, me.status, me.read, me.whole,
                   me.since, me.alone)
  BY ClientFields DEF Retry, Fields
<1> HIDE DEF you
<1>2. /\ you.op = me.op /\ you.arg = me.arg /\ you.todo = me.todo /\ you.status = me.status
      /\ you.read = me.read /\ you.whole = me.whole /\ you.since = me.since
      /\ you.alone = me.alone
      /\ you = [op |-> you.op, arg |-> you.arg, todo |-> you.todo, attempt |-> you.attempt,
                status |-> you.status, read |-> you.read, whole |-> you.whole,
                since |-> you.since, alone |-> you.alone]
  BY <1>1 DEF Fields
<1>3. ClientOK(you)
  BY <1>2 DEF ClientOK
<1> QED
  BY <1>2, <1>3 DEF you, Keeps

\* A client that goes on to the next query, or to the end.
LEMMA AdvanceFacts ==
  ASSUME NEW me, ClientOK(me), me.status = "running"
  PROVE  /\ ClientOK(Advance(me)) /\ Keeps(me, Advance(me))
         /\ Advance(me).read = me.read /\ Advance(me).todo = Tail(me.todo)
         /\ Advance(me).whole = me.whole /\ Advance(me).status \in {"running", "ok"}
<1> DEFINE st == IF Len(me.todo) = 1 THEN "ok" ELSE "running"
           you == Advance(me)
           t == Tail(me.todo)
<1>1. you = Fields(me.op, me.arg, t, 0, st, me.read, me.whole, me.since, me.alone)
  <2> DEFINE a == [me EXCEPT !.todo = t]
             b == [a EXCEPT !.attempt = 0]
  <2>1. you = [b EXCEPT !.status = st]
    BY DEF Advance
  <2> HIDE DEF st, t
  <2>2. a = Fields(me.op, me.arg, t, me.attempt, me.status, me.read, me.whole, me.since, me.alone)
    BY ClientFields DEF Fields
  <2> HIDE DEF a
  <2>3. b = Fields(me.op, me.arg, t, 0, me.status, me.read, me.whole, me.since, me.alone)
    BY <2>2 DEF Fields
  <2> HIDE DEF b, you
  <2> QED
    BY <2>1, <2>3 DEF Fields
<1>2. st \in {"ok", "running"}
  OBVIOUS
<1>3. Todo(me.todo) /\ me.todo # <<>>
  BY DEF ClientOK
<1>4. /\ Todo(t) /\ \A q \in ToSet(t) : q \in ToSet(me.todo)
      /\ st = "running" <=> t # <<>>
  BY <1>3, TodoFacts
<1> HIDE DEF you, st, t
<1>5. /\ you.op = me.op /\ you.arg = me.arg /\ you.todo = t /\ you.status = st
      /\ you.read = me.read /\ you.whole = me.whole /\ you.since = me.since
      /\ you.alone = me.alone
      /\ you = [op |-> you.op, arg |-> you.arg, todo |-> you.todo, attempt |-> you.attempt,
                status |-> you.status, read |-> you.read, whole |-> you.whole,
                since |-> you.since, alone |-> you.alone]
  BY <1>1 DEF Fields
<1>6. ClientOK(you)
  BY <1>2, <1>4, <1>5 DEF ClientOK
<1> QED
  BY <1>2, <1>5, <1>6 DEF you, t, Keeps

\* What has been read at the beginning.
LEMMA NothingReadOK == ReadOK(NothingRead) /\ NothingRead.edges = 0
                       /\ NothingRead.parents = <<>>
  BY DEF ReadOK, NothingRead

\* A client that has nothing under way.
LEMMA IdleFacts ==
  /\ ClientOK(Idle) /\ Idle.status = "idle"
  /\ Idle = Fields("none", NoId, <<>>, 0, "idle", NothingRead, TRUE, EmptyStore, TRUE)
<1>1. Idle = Fields("none", NoId, <<>>, 0, "idle", NothingRead, TRUE, EmptyStore, TRUE)
  BY DEF Idle, Fields
<1>2. Todo(<<>>) /\ \A q : q \notin ToSet(<<>>)
  BY TodoOfNone
<1>3. /\ Idle.op = "none" /\ Idle.todo = <<>> /\ Idle.status = "idle"
      /\ Idle.read = NothingRead /\ Idle.whole = TRUE /\ Idle.alone = TRUE
      /\ Idle = [op |-> Idle.op, arg |-> Idle.arg, todo |-> Idle.todo, attempt |-> Idle.attempt,
                 status |-> Idle.status, read |-> Idle.read, whole |-> Idle.whole,
                 since |-> Idle.since, alone |-> Idle.alone]
  BY <1>1 DEF Fields
<1> QED
  BY <1>1, <1>2, <1>3, NothingReadOK DEF ClientOK, ReadOK

\* What Begin makes of a client.
Beginning(op, arg, todo, s) ==
    [Idle EXCEPT !.op = op, !.arg = arg, !.todo = todo, !.status = "running", !.since = s]

\* you is a client that begins an operation on store s.
Begun(you, op, arg, todo, s) ==
    /\ ClientOK(you) /\ you.op = op /\ you.arg = arg /\ you.todo = todo
    /\ you.status = "running" /\ you.read = NothingRead /\ you.whole = TRUE /\ you.since = s

\* A client begins an operation of these queries.
LEMMA BeginningFacts ==
  ASSUME NEW op \in Operations, NEW arg, NEW todo, NEW s, Todo(todo), todo # <<>>,
         op = "save" => arg \in Graphs,
         \A q \in ToSet(todo) : Asks(op, arg, q)
  PROVE  Begun(Beginning(op, arg, todo, s), op, arg, todo, s)
<1> DEFINE yes == TRUE
           you == Beginning(op, arg, todo, s)
<1>0. Idle = Fields("none", NoId, <<>>, 0, "idle", NothingRead, yes, EmptyStore, yes)
  BY IdleFacts DEF yes
<1> HIDE DEF yes
<1>1. you = Fields(op, arg, todo, 0, "running", NothingRead, yes, s, yes)
  <2> DEFINE a == [Idle EXCEPT !.op = op]
             b == [a EXCEPT !.arg = arg]
             c == [b EXCEPT !.todo = todo]
             d == [c EXCEPT !.status = "running"]
  <2>1. you = [d EXCEPT !.since = s]
    BY DEF Beginning
  <2>2. a = Fields(op, NoId, <<>>, 0, "idle", NothingRead, yes, EmptyStore, yes)
    BY <1>0 DEF Fields
  <2> HIDE DEF a
  <2>3. b = Fields(op, arg, <<>>, 0, "idle", NothingRead, yes, EmptyStore, yes)
    BY <2>2 DEF Fields
  <2> HIDE DEF b
  <2>4. c = Fields(op, arg, todo, 0, "idle", NothingRead, yes, EmptyStore, yes)
    BY <2>3 DEF Fields
  <2> HIDE DEF c
  <2>5. d = Fields(op, arg, todo, 0, "running", NothingRead, yes, EmptyStore, yes)
    BY <2>4 DEF Fields
  <2> HIDE DEF d, you
  <2> QED
    BY <2>1, <2>5 DEF Fields
<1> HIDE DEF you
<1>2. /\ you.op = op /\ you.arg = arg /\ you.todo = todo /\ you.status = "running"
      /\ you.read = NothingRead
      /\ you.whole = yes /\ you.since = s /\ you.alone = yes
      /\ you = [op |-> you.op, arg |-> you.arg, todo |-> you.todo, attempt |-> you.attempt,
                status |-> you.status, read |-> you.read, whole |-> you.whole,
                since |-> you.since, alone |-> you.alone]
  BY <1>1 DEF Fields
<1>3. yes = TRUE /\ op # "none"
  BY DEF Operations, yes
<1>4. ClientOK(you)
  BY <1>2, <1>3, NothingReadOK DEF ClientOK, ReadOK
<1>5. Begun(you, op, arg, todo, s)
  BY <1>2, <1>3, <1>4 DEF Begun
<1> QED
  BY <1>5 DEF you

-----------------------------------------------------------------------------
(* What a query makes of the store *)

Writes == {"nodes", "edges", "hashes", "remove_nodes", "remove_hash", "delete", "index"}

\* Only s2's field `field` differs from s's.
Only(field, s, s2) ==
    /\ s2 = [nodes |-> s2.nodes, edges |-> s2.edges, hashes |-> s2.hashes,
             indexes |-> s2.indexes]
    /\ field # "nodes" => s2.nodes = s.nodes
    /\ field # "edges" => s2.edges = s.edges
    /\ field # "hashes" => s2.hashes = s.hashes
    /\ field # "indexes" => s2.indexes = s.indexes

\* MERGE of symbols.
LEMMA ApplyNodes ==
  ASSUME NEW q, NEW s, StoreOK(s), Type(q) = "nodes", NEW s2, s2 = Apply(q, s)
  PROVE  Only("nodes", s, s2) /\ s2.nodes = Merged(Arg(q), s.nodes)
<1> DEFINE x == Merged(Arg(q), s.nodes)
<1>0. s = [nodes |-> s.nodes, edges |-> s.edges, hashes |-> s.hashes, indexes |-> s.indexes]
  BY DEF StoreOK
<1>1. s2 = [s EXCEPT !.nodes = x]
  BY DEF Apply
<1> HIDE DEF x
<1>2. Only("nodes", s, s2) /\ s2.nodes = x
  BY ONLY <1>0, <1>1 DEF Only
<1> QED
  BY <1>2 DEF x

\* MERGE of edges.
LEMMA ApplyEdges ==
  ASSUME NEW q, NEW s, StoreOK(s), Type(q) = "edges", NEW s2, s2 = Apply(q, s)
  PROVE  /\ Only("edges", s, s2)
         /\ s2.edges = s.edges \cup {e \in Arg(q) : {e.src, e.dst} \subseteq DOMAIN s.nodes}
<1> DEFINE x == s.edges \cup {e \in Arg(q) : {e.src, e.dst} \subseteq DOMAIN s.nodes}
<1>0. s = [nodes |-> s.nodes, edges |-> s.edges, hashes |-> s.hashes, indexes |-> s.indexes]
  BY DEF StoreOK
<1>1. s2 = [s EXCEPT !.edges = x]
  BY DEF Apply
<1> HIDE DEF x
<1>2. Only("edges", s, s2) /\ s2.edges = x
  BY ONLY <1>0, <1>1 DEF Only
<1> QED
  BY <1>2 DEF x

\* MERGE of hashes.
LEMMA ApplyHashes ==
  ASSUME NEW q, NEW s, StoreOK(s), Type(q) = "hashes", NEW s2, s2 = Apply(q, s)
  PROVE  Only("hashes", s, s2) /\ s2.hashes = Merged(Arg(q), s.hashes)
<1> DEFINE x == Merged(Arg(q), s.hashes)
<1>0. s = [nodes |-> s.nodes, edges |-> s.edges, hashes |-> s.hashes, indexes |-> s.indexes]
  BY DEF StoreOK
<1>1. s2 = [s EXCEPT !.hashes = x]
  BY DEF Apply
<1> HIDE DEF x
<1>2. Only("hashes", s, s2) /\ s2.hashes = x
  BY ONLY <1>0, <1>1 DEF Only
<1> QED
  BY <1>2 DEF x

\* Removal of a file's hash.
LEMMA ApplyRemoveHash ==
  ASSUME NEW q, NEW s, StoreOK(s), Type(q) = "remove_hash", NEW s2, s2 = Apply(q, s)
  PROVE  /\ Only("hashes", s, s2) /\ DOMAIN s2.hashes = DOMAIN s.hashes \ {Arg(q)}
         /\ s2.hashes = [f \in DOMAIN s2.hashes |-> s2.hashes[f]]
<1> DEFINE x == [f \in DOMAIN s.hashes \ {Arg(q)} |-> s.hashes[f]]
<1>0. s = [nodes |-> s.nodes, edges |-> s.edges, hashes |-> s.hashes, indexes |-> s.indexes]
  BY DEF StoreOK
<1>1. s2 = [s EXCEPT !.hashes = x]
  BY DEF Apply
<1>2. DOMAIN x = DOMAIN s.hashes \ {Arg(q)} /\ x = [f \in DOMAIN x |-> x[f]]
  OBVIOUS
<1> HIDE DEF x
<1>3. Only("hashes", s, s2) /\ s2.hashes = x
  BY ONLY <1>0, <1>1 DEF Only
<1>4. DOMAIN s2.hashes = DOMAIN s.hashes \ {Arg(q)}
      /\ s2.hashes = [f \in DOMAIN s2.hashes |-> s2.hashes[f]]
  BY <1>2, <1>3, Zenon
<1> QED
  BY <1>3, <1>4

\* Creation of an index.
LEMMA ApplyIndex ==
  ASSUME NEW q, NEW s, StoreOK(s), Type(q) = "index", NEW s2, s2 = Apply(q, s)
  PROVE  Only("indexes", s, s2) /\ s2.indexes = s.indexes \cup {Arg(q)}
<1> DEFINE x == s.indexes \cup {Arg(q)}
<1>0. s = [nodes |-> s.nodes, edges |-> s.edges, hashes |-> s.hashes, indexes |-> s.indexes]
  BY DEF StoreOK
<1>1. s2 = [s EXCEPT !.indexes = x]
  BY DEF Apply
<1> HIDE DEF x
<1>2. Only("indexes", s, s2) /\ s2.indexes = x
  BY ONLY <1>0, <1>1 DEF Only
<1> QED
  BY <1>2 DEF x

\* GRAPH.DELETE.
LEMMA ApplyDelete ==
  ASSUME NEW q, NEW s, Type(q) = "delete"
  PROVE  Apply(q, s) = EmptyStore
  BY DEF Apply

\* A query that only reads.
LEMMA ApplyRead ==
  ASSUME NEW q, NEW s, Type(q) \notin Writes
  PROVE  Apply(q, s) = s
  BY DEF Apply, Writes

\* Removal of a file's nodes, with their edges.
LEMMA RemoveNodesFacts ==
  ASSUME NEW q, NEW s, StoreOK(s), NEW s2, s2 = Apply(q, s), Type(q) = "remove_nodes"
  PROVE  /\ s2 = [nodes |-> s2.nodes, edges |-> s2.edges, hashes |-> s2.hashes,
                  indexes |-> s2.indexes]
         /\ s2.hashes = s.hashes /\ s2.indexes = s.indexes /\ s2.edges \subseteq s.edges
         /\ \A i : i \in DOMAIN s2.nodes <=> i \in DOMAIN s.nodes /\ FileOf[i] # Arg(q)
         /\ s2.nodes = [i \in DOMAIN s2.nodes |-> s2.nodes[i]]
<1> DEFINE S == {i \in DOMAIN s.nodes : FileOf[i] = Arg(q)}
           x == [i \in DOMAIN s.nodes \ S |-> s.nodes[i]]
           y == {e \in s.edges : e.src \notin S /\ e.dst \notin S}
           t == [s EXCEPT !.nodes = x]
<1>0. s = [nodes |-> s.nodes, edges |-> s.edges, hashes |-> s.hashes, indexes |-> s.indexes]
  BY DEF StoreOK
<1>1. s2 = [t EXCEPT !.edges = y]
  BY DEF Apply, WithoutNodes
<1>2. y \subseteq s.edges
  OBVIOUS
<1>3. DOMAIN x = {i \in DOMAIN s.nodes : FileOf[i] # Arg(q)} /\ x = [i \in DOMAIN x |-> x[i]]
  OBVIOUS
<1> HIDE DEF x, y
<1>4. Only("nodes", s, t) /\ t.nodes = x
  BY <1>0 DEF t, Only
<1> HIDE DEF t
<1>5. Only("edges", t, s2) /\ s2.edges = y
  <2>1. t = [nodes |-> t.nodes, edges |-> t.edges, hashes |-> t.hashes, indexes |-> t.indexes]
    BY <1>4 DEF Only
  <2> QED
    BY ONLY <1>1, <2>1 DEF Only
<1>6. /\ s2.hashes = s.hashes /\ s2.indexes = s.indexes /\ s2.nodes = x /\ s2.edges = y
      /\ s2 = [nodes |-> s2.nodes, edges |-> s2.edges, hashes |-> s2.hashes,
               indexes |-> s2.indexes]
  BY <1>4, <1>5 DEF Only
<1>7. /\ \A i : i \in DOMAIN s2.nodes <=> i \in DOMAIN s.nodes /\ FileOf[i] # Arg(q)
      /\ s2.nodes = [i \in DOMAIN s2.nodes |-> s2.nodes[i]]
  BY <1>3, <1>6, Zenon
<1> QED
  BY <1>2, <1>6, <1>7

\* A removal of nodes leaves the hashes as they are.
LEMMA RemoveNodesKeeps ==
  ASSUME NEW q, NEW s, StoreOK(s), Type(q) = "remove_nodes"
  PROVE  Apply(q, s).hashes = s.hashes
<1> DEFINE S == {i \in DOMAIN s.nodes : FileOf[i] = Arg(q)}
           x == [i \in DOMAIN s.nodes \ S |-> s.nodes[i]]
           y == {e \in s.edges : e.src \notin S /\ e.dst \notin S}
           t == [s EXCEPT !.nodes = x]
<1>1. s = [nodes |-> s.nodes, edges |-> s.edges, hashes |-> s.hashes, indexes |-> s.indexes]
  BY DEF StoreOK
<1>2. Apply(q, s) = [t EXCEPT !.edges = y]
  BY DEF Apply, WithoutNodes
<1> HIDE DEF x, y
<1>3. Only("nodes", s, t)
  BY <1>1 DEF Only
<1> HIDE DEF t
<1>4. [t EXCEPT !.edges = y].hashes = t.hashes
  BY <1>3 DEF Only
<1> QED
  BY <1>2, <1>3, <1>4 DEF Only

\* The edges a graph stands for are finitely many, between its nodes.
LEMMA EdgeRowsFacts ==
  ASSUME NEW g \in Graphs
  PROVE  /\ IsFiniteSet(g.nodes) /\ IsFiniteSet(EdgeRows(g))
         /\ \A e \in EdgeRows(g) : e.kind \in Kinds /\ e.src \in g.nodes /\ e.dst \in g.nodes
<1>1. IsFiniteSet(g.nodes) /\ IsFiniteSet(g.edges)
  BY GraphsAssumption
<1>2. IsFiniteSet(g.edges \cup EdgesToSend(g, "CONTAINS"))
  BY <1>1, SentEdges, FS_Union
<1>3. EdgeRows(g) \subseteq g.edges \cup EdgesToSend(g, "CONTAINS")
  BY DEF EdgeRows, EdgesToSend, Synthesized
<1>4. IsFiniteSet(EdgeRows(g))
  BY <1>2, <1>3, FS_Subset
<1>5. \A e \in EdgeRows(g) : e.src \in g.nodes /\ e.dst \in g.nodes
  BY DEF EdgeRows
<1> QED
  BY <1>1, <1>4, <1>5, SentEdges

\* Which operation a query belongs to.
LEMMA AskedFacts ==
  ASSUME NEW me, ClientOK(me), NEW q \in ToSet(me.todo)
  PROVE  /\ me.op = "save" => me.arg \in Graphs /\ SaveAsks(me.arg, q)
         /\ Type(q) \in {"nodes", "edges", "hashes"} => me.op = "save"
         /\ me.op = "remove" => q \in {Q("remove_nodes", me.arg), Q("remove_hash", me.arg)}
         /\ Type(q) \in {"remove_nodes", "remove_hash"} => me.op = "remove"
         /\ me.op = "clear" =>
              q = Q("delete", NoId) \/ \E x \in ToSet(Indexes) : q = Q("index", x)
         /\ Type(q) = "delete" => me.op = "clear"
         /\ Type(q) = "index" => me.op \in {"clear", "connect"}
         /\ me.op \notin {"save", "remove", "clear", "connect"} => Type(q) \in Reads
         /\ me.op \in {"save", "stats"} /\ Type(q) = "count_edges" =>
              \E k \in Kinds : q = Q("count_edges", k)
<1>1. Asks(me.op, me.arg, q)
  BY DEF ClientOK
<1>2. CASE me.op = "save"
  <2>1. SaveAsks(me.arg, q) /\ me.arg \in Graphs
    BY <1>1, <1>2 DEF Asks, ClientOK
  <2>2. Type(q) \in {"nodes", "edges", "hashes", "count_nodes", "count_edges"}
    BY <2>1 DEF SaveAsks, Q, Type
  <2>3. Type(q) = "count_edges" => \E k \in Kinds : q = Q("count_edges", k)
    BY <2>1 DEF SaveAsks, Q, Type
  <2> QED
    BY <1>2, <2>1, <2>2, <2>3
<1>3. CASE me.op = "remove"
  <2>1. q \in {Q("remove_nodes", me.arg), Q("remove_hash", me.arg)}
    BY <1>1, <1>3 DEF Asks
  <2>2. Type(q) \in {"remove_nodes", "remove_hash"}
    BY <2>1, RankFacts
  <2> QED
    BY <1>3, <2>1, <2>2
<1>4. CASE me.op = "clear"
  <2>1. q = Q("delete", NoId) \/ \E x \in ToSet(Indexes) : q = Q("index", x)
    BY <1>1, <1>4 DEF Asks
  <2>2. Type(q) \in {"delete", "index"}
    BY <2>1, RankFacts
  <2> QED
    BY <1>4, <2>1, <2>2
<1>5. CASE me.op = "connect"
  BY <1>1, <1>5 DEF Asks
<1>6. CASE me.op = "stats"
  <2>1. \/ q \in {Q("count_nodes", NoId), Q("count_files", NoId)}
        \/ \E k \in Kinds : q = Q("count_edges", k)
    BY <1>1, <1>6 DEF Asks
  <2>2. Type(q) \in {"count_nodes", "count_files", "count_edges"}
    BY <2>1, RankFacts
  <2>3. Type(q) = "count_edges" => \E k \in Kinds : q = Q("count_edges", k)
    BY <2>1, RankFacts
  <2> QED
    BY <1>6, <2>2, <2>3 DEF Reads
<1>7. CASE me.op \notin {"save", "remove", "clear", "connect", "stats"}
  <2>1. Type(q) \in Reads
    BY <1>1, <1>7 DEF Asks
  <2> QED
    BY <1>7, <2>1 DEF Reads
<1> QED
  BY <1>2, <1>3, <1>4, <1>5, <1>6, <1>7

\* No query of an operation breaks the store's records.
LEMMA StoreStays ==
  ASSUME NEW me, ClientOK(me), NEW q \in ToSet(me.todo), NEW s, StoreOK(s)
  PROVE  StoreOK(Apply(q, s))
<1> SUFFICES ASSUME NEW s2, s2 = Apply(q, s) PROVE StoreOK(s2)
  OBVIOUS
<1>0. /\ s = [nodes |-> s.nodes, edges |-> s.edges, hashes |-> s.hashes, indexes |-> s.indexes]
      /\ s.nodes = [i \in DOMAIN s.nodes |-> s.nodes[i]]
      /\ s.hashes = [f \in DOMAIN s.hashes |-> s.hashes[f]]
      /\ IsFiniteSet(DOMAIN s.nodes) /\ IsFiniteSet(s.edges)
      /\ \A e \in s.edges : e.kind \in Kinds
  BY DEF StoreOK
<1>1. CASE Type(q) = "nodes"
  <2>1. me.arg \in Graphs /\ DOMAIN Arg(q) \subseteq me.arg.nodes
    BY <1>1, AskedFacts DEF SaveAsks, Q, Type
  <2>2. IsFiniteSet(DOMAIN Arg(q))
    BY <2>1, EdgeRowsFacts, FS_Subset
  <2>3. Only("nodes", s, s2) /\ s2.nodes = Merged(Arg(q), s.nodes)
    BY <1>1, ApplyNodes
  <2>4. /\ DOMAIN s2.nodes = DOMAIN Arg(q) \cup DOMAIN s.nodes
        /\ s2.nodes = [i \in DOMAIN s2.nodes |-> s2.nodes[i]]
    BY <2>3 DEF Merged
  <2>5. IsFiniteSet(DOMAIN s2.nodes)
    <3>1. IsFiniteSet(DOMAIN Arg(q) \cup DOMAIN s.nodes)
      BY <1>0, <2>2, FS_Union
    <3> QED
      BY <2>4, <3>1
  <2>6. StoreOK(s2)
    BY <1>0, <2>3, <2>4, <2>5 DEF StoreOK, Only
  <2> QED
    BY <2>6
<1>2. CASE Type(q) = "edges"
  <2>1. me.arg \in Graphs /\ Arg(q) \subseteq EdgeRows(me.arg)
    BY <1>2, AskedFacts DEF SaveAsks, Q, Type
  <2> DEFINE new == {e \in Arg(q) : {e.src, e.dst} \subseteq DOMAIN s.nodes}
  <2>2. IsFiniteSet(new) /\ \A e \in new : e.kind \in Kinds
    BY <2>1, EdgeRowsFacts, FS_Subset
  <2>3. Only("edges", s, s2) /\ s2.edges = s.edges \cup new
    BY <1>2, ApplyEdges
  <2> HIDE DEF new
  <2>4. IsFiniteSet(s2.edges) /\ \A e \in s2.edges : e.kind \in Kinds
    <3>1. IsFiniteSet(s.edges \cup new)
      BY <1>0, <2>2, FS_Union
    <3> QED
      BY <1>0, <2>2, <2>3, <3>1
  <2>5. StoreOK(s2)
    BY <1>0, <2>3, <2>4 DEF StoreOK, Only
  <2> QED
    BY <2>5
<1>3. CASE Type(q) = "hashes"
  <2>1. Only("hashes", s, s2) /\ s2.hashes = Merged(Arg(q), s.hashes)
    BY <1>3, ApplyHashes
  <2>2. s2.hashes = [i \in DOMAIN s2.hashes |-> s2.hashes[i]]
    BY <2>1 DEF Merged
  <2>3. StoreOK(s2)
    BY <1>0, <2>1, <2>2 DEF StoreOK, Only
  <2> QED
    BY <2>3
<1>4. CASE Type(q) = "remove_nodes"
  <2>1. /\ s2 = [nodes |-> s2.nodes, edges |-> s2.edges, hashes |-> s2.hashes,
                 indexes |-> s2.indexes]
        /\ s2.hashes = s.hashes /\ s2.edges \subseteq s.edges
        /\ DOMAIN s2.nodes \subseteq DOMAIN s.nodes
        /\ s2.nodes = [i \in DOMAIN s2.nodes |-> s2.nodes[i]]
    BY <1>4, RemoveNodesFacts
  <2>2. IsFiniteSet(DOMAIN s2.nodes) /\ IsFiniteSet(s2.edges)
    BY <1>0, <2>1, FS_Subset
  <2>3. StoreOK(s2)
    BY <1>0, <2>1, <2>2 DEF StoreOK
  <2> QED
    BY <2>3
<1>5. CASE Type(q) = "remove_hash"
  <2>1. Only("hashes", s, s2) /\ s2.hashes = [f \in DOMAIN s2.hashes |-> s2.hashes[f]]
    BY <1>5, ApplyRemoveHash
  <2>2. StoreOK(s2)
    BY <1>0, <2>1 DEF StoreOK, Only
  <2> QED
    BY <2>2
<1>6. CASE Type(q) = "delete"
  <2>1. s2 = EmptyStore
    BY <1>6, ApplyDelete
  <2>2. StoreOK(EmptyStore)
    <3>1. DOMAIN <<>> = {} /\ <<>> = [i \in DOMAIN <<>> |-> <<>>[i]]
      OBVIOUS
    <3>2. /\ EmptyStore.nodes = <<>> /\ EmptyStore.hashes = <<>> /\ EmptyStore.edges = {}
          /\ EmptyStore = [nodes |-> EmptyStore.nodes, edges |-> EmptyStore.edges,
                           hashes |-> EmptyStore.hashes, indexes |-> EmptyStore.indexes]
      BY DEF EmptyStore
    <3> QED
      BY <3>1, <3>2, FS_EmptySet DEF StoreOK
  <2> QED
    BY <2>1, <2>2
<1>7. CASE Type(q) = "index"
  <2>1. Only("indexes", s, s2)
    BY <1>7, ApplyIndex
  <2>2. StoreOK(s2)
    BY <1>0, <2>1 DEF StoreOK, Only
  <2> QED
    BY <2>2
<1>8. CASE Type(q) \notin Writes
  BY <1>8, ApplyRead
<1> QED
  BY <1>1, <1>2, <1>3, <1>4, <1>5, <1>6, <1>7, <1>8 DEF Writes

-----------------------------------------------------------------------------
(* Rows merged in parts; what is left *)

\* Rows of the merge have been merged.
LEMMA MergingStep ==
  ASSUME NEW m, NEW before, NEW rows, NEW left, Merging(m, before, rows, left),
         NEW a, DOMAIN a \subseteq DOMAIN rows, \A x \in DOMAIN a : a[x] = rows[x],
         NEW left2, left \subseteq left2 \cup DOMAIN a
  PROVE  Merging(Merged(a, m), before, rows, left2)
<1> DEFINE w == Merged(a, m)
<1>1. DOMAIN w = DOMAIN a \cup DOMAIN m
  BY DEF Merged
<1>2. \A x \in DOMAIN w : w[x] = IF x \in DOMAIN a THEN a[x] ELSE m[x]
  BY DEF Merged
<1> HIDE DEF w
<1>3. Merging(w, before, rows, left2)
  BY <1>1, <1>2 DEF Merging
<1> QED
  BY <1>3 DEF w

\* Less of the merge is known to be done.
LEMMA MergingMore ==
  ASSUME NEW m, NEW before, NEW rows, NEW left, Merging(m, before, rows, left),
         NEW left2, left \subseteq left2
  PROVE  Merging(m, before, rows, left2)
  BY DEF Merging

\* Nothing of the merge is done.
LEMMA MergingStart ==
  ASSUME NEW m, NEW rows, NEW left, DOMAIN rows \subseteq left
  PROVE  Merging(m, m, rows, left)
  BY DEF Merging

\* All of the merge is done.
LEMMA MergingDone ==
  ASSUME NEW m, NEW before, NEW rows, Merging(m, before, rows, {}),
         m = [x \in DOMAIN m |-> m[x]]
  PROVE  m = Merged(rows, before)
<1> DEFINE w == Merged(rows, before)
<1>1. DOMAIN w = DOMAIN rows \cup DOMAIN before
  BY DEF Merged
<1>2. \A x \in DOMAIN w : w[x] = IF x \in DOMAIN rows THEN rows[x] ELSE before[x]
  BY DEF Merged
<1>3. w = [x \in DOMAIN w |-> w[x]]
  BY DEF Merged
<1> HIDE DEF w
<1>4. DOMAIN m = DOMAIN w /\ \A x \in DOMAIN w : m[x] = w[x]
  BY <1>1, <1>2 DEF Merging
<1> QED
  BY <1>3, <1>4 DEF w

\* A query of another type leaves what is left of this one.
LEMMA LeftSame ==
  ASSUME NEW s, Todo(s), s # <<>>, NEW type, Type(Head(s)) # type
  PROVE  /\ Left(Tail(s), type) = Left(s, type)
         /\ LeftRows(Tail(s), type) = LeftRows(s, type)
         /\ HasLeft(Tail(s), type) <=> HasLeft(s, type)
<1>1. \A p : p \in ToSet(s) <=> p = Head(s) \/ p \in ToSet(Tail(s))
  BY TodoFacts
<1> QED
  BY <1>1 DEF Left, LeftRows, HasLeft

\* A query of this type takes its rows from what is left.
LEMMA LeftLess ==
  ASSUME NEW s, Todo(s), s # <<>>, NEW type, Type(Head(s)) = type
  PROVE  /\ Left(s, type) = Left(Tail(s), type) \cup Arg(Head(s))
         /\ LeftRows(s, type) = LeftRows(Tail(s), type) \cup DOMAIN Arg(Head(s))
         /\ HasLeft(s, type)
<1>1. \A p : p \in ToSet(s) <=> p = Head(s) \/ p \in ToSet(Tail(s))
  BY TodoFacts
<1> QED
  BY <1>1 DEF Left, LeftRows, HasLeft

\* What comes earlier in the order is not left.
LEMMA NoneLeft ==
  ASSUME NEW s, Todo(s), s # <<>>
  PROVE  /\ \A p \in ToSet(s) : Rank(Head(s)) <= Rank(p)
         /\ Rank(Head(s)) > 1 => LeftRows(s, "nodes") = {}
         /\ Rank(Head(s)) > 2 => Left(s, "edges") = {}
<1>1. \A p \in ToSet(s) : Rank(Head(s)) <= Rank(p)
  BY TodoFacts, RankFacts
<1>2. \A p : Rank(p) \in Nat /\ (Type(p) = "nodes" => Rank(p) = 1)
             /\ (Type(p) = "edges" => Rank(p) = 2)
  BY RankFacts
<1>3. Rank(Head(s)) > 1 => \A p \in ToSet(s) : Type(p) # "nodes"
  BY <1>1, <1>2
<1>4. Rank(Head(s)) > 2 => \A p \in ToSet(s) : Type(p) # "edges"
  BY <1>1, <1>2
<1> QED
  BY <1>1, <1>3, <1>4 DEF Left, LeftRows

-----------------------------------------------------------------------------
(* Hashes vouch for files: a query of any client keeps it *)

\* Nothing is deleted from the store.
Grows(s, s2) ==
    /\ DOMAIN s.nodes \subseteq DOMAIN s2.nodes /\ s.edges \subseteq s2.edges

\* A query that deletes nothing takes nothing away.
LEMMA QueriesGrow ==
  ASSUME NEW q, NEW s, StoreOK(s), ~Deletes(q), NEW s2, s2 = Apply(q, s)
  PROVE  Grows(s, s2) /\ (Type(q) # "hashes" => s2.hashes = s.hashes)
<1>1. CASE Type(q) = "nodes"
  <2>1. Only("nodes", s, s2) /\ s2.nodes = Merged(Arg(q), s.nodes)
    BY <1>1, ApplyNodes
  <2> QED
    BY <2>1 DEF Grows, Only, Merged
<1>2. CASE Type(q) = "edges"
  <2>1. Only("edges", s, s2) /\ s.edges \subseteq s2.edges
    BY <1>2, ApplyEdges
  <2> QED
    BY <2>1 DEF Grows, Only
<1>3. CASE Type(q) = "hashes"
  <2>1. Only("hashes", s, s2)
    BY <1>3, ApplyHashes
  <2> QED
    BY <1>3, <2>1 DEF Grows, Only
<1>4. CASE Type(q) = "index"
  <2>1. Only("indexes", s, s2)
    BY <1>4, ApplyIndex
  <2> QED
    BY <2>1 DEF Grows, Only
<1>5. CASE Type(q) \notin Writes
  <2>1. s2 = s
    BY <1>5, ApplyRead
  <2> QED
    BY <2>1 DEF Grows
<1> QED
  BY <1>1, <1>2, <1>3, <1>4, <1>5 DEF Writes, Deletes

\* What has been sent stays there.
LEMMA SentGrows ==
  ASSUME NEW me, NEW s, NEW s2, Sent(me, s), Grows(s, s2)
  PROVE  Sent(me, s2)
  BY DEF Sent, Grows

\* The next query of a save has run and been answered.
LEMMA SentAdvances ==
  ASSUME NEW me, ClientOK(me), me.status = "running", NEW s, StoreOK(s), Sent(me, s),
         NEW q, q = Head(me.todo), NEW s2, s2 = Apply(q, s), ~Deletes(q),
         NEW you, Keeps(me, you), you.todo = Tail(me.todo)
  PROVE  Sent(you, s2)
<1> SUFFICES ASSUME me.op = "save" PROVE Sent(you, s2)
  BY DEF Sent, Keeps
<1> DEFINE g == me.arg
           t == you.todo
<1>0. you.op = "save" /\ you.arg = g
  BY DEF Keeps
<1>1. Todo(me.todo) /\ me.todo # <<>> /\ q \in ToSet(me.todo)
  BY TodoFacts DEF ClientOK
<1>2. g \in Graphs /\ SaveAsks(g, q)
  BY <1>1, AskedFacts
<1>3. /\ g.nodes \subseteq DOMAIN s.nodes \cup LeftRows(me.todo, "nodes")
      /\ EdgeRows(g) \subseteq s.edges \cup Left(me.todo, "edges")
  BY DEF Sent
<1>4. Grows(s, s2)
  BY QueriesGrow
<1>5. CASE Type(q) = "nodes"
  <2>1. s2.nodes = Merged(Arg(q), s.nodes)
    BY <1>5, ApplyNodes
  <2>2. DOMAIN s2.nodes = DOMAIN Arg(q) \cup DOMAIN s.nodes
    BY <2>1 DEF Merged
  <2>3. LeftRows(me.todo, "nodes") = LeftRows(t, "nodes") \cup DOMAIN Arg(q)
    BY <1>1, <1>5, LeftLess
  <2>4. Left(me.todo, "edges") = Left(t, "edges")
    BY <1>1, <1>5, LeftSame
  <2>5. g.nodes \subseteq DOMAIN s2.nodes \cup LeftRows(t, "nodes")
    BY <1>3, <2>2, <2>3
  <2>6. EdgeRows(g) \subseteq s2.edges \cup Left(t, "edges")
    BY <1>3, <1>4, <2>4 DEF Grows
  <2> QED
    BY <1>0, <2>5, <2>6 DEF Sent
<1>6. CASE Type(q) = "edges"
  <2>1. s2.edges = s.edges \cup {e \in Arg(q) : {e.src, e.dst} \subseteq DOMAIN s.nodes}
    BY <1>6, ApplyEdges
  <2>2. LeftRows(me.todo, "nodes") = LeftRows(t, "nodes")
    BY <1>1, <1>6, LeftSame
  <2>3. Left(me.todo, "edges") = Left(t, "edges") \cup Arg(q)
    BY <1>1, <1>6, LeftLess
  <2>4. LeftRows(me.todo, "nodes") = {}
    BY <1>1, <1>6, NoneLeft, RankFacts
  <2>5. \A e \in EdgeRows(g) : {e.src, e.dst} \subseteq DOMAIN s.nodes
    BY <1>2, <1>3, <2>4, EdgeRowsFacts
  <2>6. EdgeRows(g) \subseteq s2.edges \cup Left(t, "edges")
    BY <1>3, <2>1, <2>3, <2>5
  <2>7. g.nodes \subseteq DOMAIN s2.nodes \cup LeftRows(t, "nodes")
    BY <1>3, <1>4, <2>2 DEF Grows
  <2> QED
    BY <1>0, <2>6, <2>7 DEF Sent
<1>7. CASE Type(q) \notin {"nodes", "edges"}
  <2>1. /\ LeftRows(me.todo, "nodes") = LeftRows(t, "nodes")
        /\ Left(me.todo, "edges") = Left(t, "edges")
    BY <1>1, <1>7, LeftSame
  <2> QED
    BY <1>0, <1>3, <1>4, <2>1 DEF Sent, Grows
<1> QED
  BY <1>5, <1>6, <1>7

\* The next query of a save has been given up.
LEMMA SentSkips ==
  ASSUME NEW me, ClientOK(me), me.status = "running", NEW s, Sent(me, s),
         NEW q, q = Head(me.todo), Ignored(q),
         NEW you, Keeps(me, you), you.todo = Tail(me.todo)
  PROVE  Sent(you, s)
<1>1. Todo(me.todo) /\ me.todo # <<>>
  BY DEF ClientOK
<1>2. Type(q) # "nodes" /\ Type(q) # "edges"
  BY DEF Ignored
<1>3. /\ LeftRows(me.todo, "nodes") = LeftRows(you.todo, "nodes")
      /\ Left(me.todo, "edges") = Left(you.todo, "edges")
  BY <1>1, <1>2, LeftSame
<1> QED
  BY <1>3 DEF Sent, Keeps

\* The next query of any client keeps hashes vouching for files.
LEMMA QueriesVouch ==
  ASSUME NEW me, ClientOK(me), me.status = "running", NEW s, StoreOK(s), Sent(me, s),
         Vouched(s), NEW q, q = Head(me.todo), NEW s2, s2 = Apply(q, s), ~Deletes(q)
  PROVE  Vouched(s2)
<1>1. Grows(s, s2) /\ (Type(q) # "hashes" => s2.hashes = s.hashes)
  BY QueriesGrow
<1>2. ASSUME NEW f \in DOMAIN s.hashes
      PROVE  \E g \in Graphs : /\ f \in DOMAIN g.hashes /\ g.hashes[f] = s.hashes[f]
                               /\ {i \in g.nodes : FileOf[i] = f} \subseteq DOMAIN s2.nodes
                               /\ {e \in EdgeRows(g) : FileOf[e.src] = f} \subseteq s2.edges
  <2>1. PICK g \in Graphs : /\ f \in DOMAIN g.hashes /\ g.hashes[f] = s.hashes[f]
                            /\ {i \in g.nodes : FileOf[i] = f} \subseteq DOMAIN s.nodes
                            /\ {e \in EdgeRows(g) : FileOf[e.src] = f} \subseteq s.edges
    BY DEF Vouched
  <2>2. /\ {i \in g.nodes : FileOf[i] = f} \subseteq DOMAIN s2.nodes
        /\ {e \in EdgeRows(g) : FileOf[e.src] = f} \subseteq s2.edges
    BY <1>1, <2>1 DEF Grows
  <2> QED
    BY <2>1, <2>2
<1>3. CASE Type(q) # "hashes"
  BY <1>1, <1>2, <1>3 DEF Vouched
<1>4. CASE Type(q) = "hashes"
  <2> DEFINE g == me.arg
  <2>1. Todo(me.todo) /\ me.todo # <<>> /\ q \in ToSet(me.todo)
    BY TodoFacts DEF ClientOK
  <2>2. me.op = "save" /\ g \in Graphs /\ SaveAsks(g, q)
    BY <1>4, <2>1, AskedFacts
  <2>3. Arg(q) = g.hashes
    BY <1>4, <2>2 DEF SaveAsks, Q, Type
  <2>4. Only("hashes", s, s2) /\ s2.hashes = Merged(Arg(q), s.hashes)
    BY <1>4, ApplyHashes
  <2>5. LeftRows(me.todo, "nodes") = {} /\ Left(me.todo, "edges") = {}
    BY <1>4, <2>1, NoneLeft, RankFacts
  <2>6. g.nodes \subseteq DOMAIN s2.nodes /\ EdgeRows(g) \subseteq s2.edges
    BY <1>1, <2>2, <2>5 DEF Sent, Grows
  <2>7. /\ DOMAIN s2.hashes = DOMAIN g.hashes \cup DOMAIN s.hashes
        /\ \A f \in DOMAIN s2.hashes :
             s2.hashes[f] = IF f \in DOMAIN g.hashes THEN g.hashes[f] ELSE s.hashes[f]
    BY <2>3, <2>4 DEF Merged
  <2>8. ASSUME NEW f \in DOMAIN s2.hashes
        PROVE  \E h \in Graphs : /\ f \in DOMAIN h.hashes /\ h.hashes[f] = s2.hashes[f]
                                 /\ {i \in h.nodes : FileOf[i] = f} \subseteq DOMAIN s2.nodes
                                 /\ {e \in EdgeRows(h) : FileOf[e.src] = f} \subseteq s2.edges
    <3>1. CASE f \in DOMAIN g.hashes
      <4>1. /\ {i \in g.nodes : FileOf[i] = f} \subseteq DOMAIN s2.nodes
            /\ {e \in EdgeRows(g) : FileOf[e.src] = f} \subseteq s2.edges
        BY <2>6
      <4> QED
        BY <2>2, <2>7, <3>1, <4>1
    <3>2. CASE f \notin DOMAIN g.hashes
      <4>1. f \in DOMAIN s.hashes /\ s2.hashes[f] = s.hashes[f]
        BY <2>7, <3>2
      <4> QED
        BY <1>2, <4>1
    <3> QED
      BY <3>1, <3>2
  <2> QED
    BY <2>8 DEF Vouched
<1> QED
  BY <1>3, <1>4

-----------------------------------------------------------------------------
(* What a query answers *)

\* Only r's field `field` differs from what had been read.
OnlyRead(field, read, r) ==
    /\ ReadOK(r)
    /\ field # "nodes" => r.nodes = read.nodes
    /\ field # "edges" => r.edges = read.edges
    /\ field # "files" => r.files = read.files
    /\ field # "parents" => r.parents = read.parents
    /\ field # "ids" => r.ids = read.ids
    /\ field # "adjacency" => r.adjacency = read.adjacency
    /\ field # "hashes" => r.hashes = read.hashes

\* The fields of `read` that an operation has no use for may change as well.
LEMMA ReadUpdates ==
  ASSUME NEW read, ReadOK(read), NEW x
  PROVE  /\ OnlyRead("nodes", read, [read EXCEPT !.nodes = x])
         /\ [read EXCEPT !.nodes = x].nodes = x
         /\ x \in Nat => /\ OnlyRead("edges", read, [read EXCEPT !.edges = x])
                         /\ [read EXCEPT !.edges = x].edges = x
         /\ OnlyRead("files", read, [read EXCEPT !.files = x])
         /\ [read EXCEPT !.files = x].files = x
         /\ OnlyRead("parents", read, [read EXCEPT !.parents = x])
         /\ [read EXCEPT !.parents = x].parents = x
         /\ OnlyRead("ids", read, [read EXCEPT !.ids = x]) /\ [read EXCEPT !.ids = x].ids = x
         /\ OnlyRead("adjacency", read, [read EXCEPT !.adjacency = x])
         /\ [read EXCEPT !.adjacency = x].adjacency = x
         /\ OnlyRead("hashes", read, [read EXCEPT !.hashes = x])
         /\ [read EXCEPT !.hashes = x].hashes = x
<1>0. /\ read = [nodes |-> read.nodes, edges |-> read.edges, files |-> read.files,
                 parents |-> read.parents, ids |-> read.ids, adjacency |-> read.adjacency,
                 hashes |-> read.hashes]
      /\ read.edges \in Nat
  BY DEF ReadOK
<1>1. OnlyRead("nodes", read, [read EXCEPT !.nodes = x]) /\ [read EXCEPT !.nodes = x].nodes = x
  BY <1>0 DEF OnlyRead, ReadOK
<1>2. x \in Nat => OnlyRead("edges", read, [read EXCEPT !.edges = x])
                   /\ [read EXCEPT !.edges = x].edges = x
  BY <1>0 DEF OnlyRead, ReadOK
<1>3. OnlyRead("files", read, [read EXCEPT !.files = x]) /\ [read EXCEPT !.files = x].files = x
  BY <1>0 DEF OnlyRead, ReadOK
<1>4. OnlyRead("parents", read, [read EXCEPT !.parents = x])
      /\ [read EXCEPT !.parents = x].parents = x
  BY <1>0 DEF OnlyRead, ReadOK
<1>5. OnlyRead("ids", read, [read EXCEPT !.ids = x]) /\ [read EXCEPT !.ids = x].ids = x
  BY <1>0 DEF OnlyRead, ReadOK
<1>6. OnlyRead("adjacency", read, [read EXCEPT !.adjacency = x])
      /\ [read EXCEPT !.adjacency = x].adjacency = x
  BY <1>0 DEF OnlyRead, ReadOK
<1>7. OnlyRead("hashes", read, [read EXCEPT !.hashes = x]) /\ [read EXCEPT !.hashes = x].hashes = x
  BY <1>0 DEF OnlyRead, ReadOK
<1> QED
  BY <1>1, <1>2, <1>3, <1>4, <1>5, <1>6, <1>7

\* The answer to the count of nodes.
LEMMA AnswersOfNodes ==
  ASSUME NEW q, Type(q) = "count_nodes", NEW s, NEW read, ReadOK(read),
         NEW r \in Answers(q, s, read)
  PROVE  OnlyRead("nodes", read, r) /\ r.nodes = Cardinality(DOMAIN s.nodes)
<1>1. r = [read EXCEPT !.nodes = Cardinality(DOMAIN s.nodes)]
  BY DEF Answers
<1> QED
  BY <1>1, ReadUpdates

\* The answer to the count of a kind of edges.
LEMMA AnswersOfEdges ==
  ASSUME NEW q, Type(q) = "count_edges", NEW s, StoreOK(s), NEW read, ReadOK(read),
         NEW r \in Answers(q, s, read)
  PROVE  /\ OnlyRead("edges", read, r)
         /\ r.edges = read.edges + Cardinality({e \in s.edges : e.kind = Arg(q)})
<1> DEFINE n == Cardinality({e \in s.edges : e.kind = Arg(q)})
<1>1. r = [read EXCEPT !.edges = read.edges + n]
  BY DEF Answers
<1>2. read.edges + n \in Nat
  <2>1. IsFiniteSet({e \in s.edges : e.kind = Arg(q)})
    BY FS_Subset DEF StoreOK
  <2>2. n \in Nat
    BY <2>1, FS_CardinalityType
  <2> QED
    BY <2>2 DEF ReadOK
<1> HIDE DEF n
<1>3. OnlyRead("edges", read, r) /\ r.edges = read.edges + n
  BY <1>1, <1>2, ReadUpdates
<1> QED
  BY <1>3 DEF n

\* The answer to the count of files.
LEMMA AnswersOfFiles ==
  ASSUME NEW q, Type(q) = "count_files", NEW s, NEW read, ReadOK(read),
         NEW r \in Answers(q, s, read)
  PROVE  /\ OnlyRead("files", read, r)
         /\ r.files = Cardinality({FileOf[i] : i \in DOMAIN s.nodes})
<1> DEFINE n == Cardinality({FileOf[i] : i \in DOMAIN s.nodes})
<1>1. r = [read EXCEPT !.files = n]
  BY DEF Answers
<1> HIDE DEF n
<1>2. OnlyRead("files", read, r) /\ r.files = n
  BY <1>1, ReadUpdates
<1> QED
  BY <1>2 DEF n

\* The answer to the query for symbols.
LEMMA AnswersOfSymbols ==
  ASSUME NEW q, Type(q) = "symbols", NEW s, NEW read, ReadOK(read), NEW r \in Answers(q, s, read)
  PROVE  OnlyRead("ids", read, r) /\ r.ids = DOMAIN s.nodes
<1>1. r = [read EXCEPT !.ids = DOMAIN s.nodes]
  BY DEF Answers
<1> QED
  BY <1>1, ReadUpdates

\* The answer to the query for relationships.
LEMMA AnswersOfRelationships ==
  ASSUME NEW q, Type(q) = "relationships", NEW s, NEW read, ReadOK(read),
         NEW r \in Answers(q, s, read)
  PROVE  OnlyRead("adjacency", read, r) /\ r.adjacency = s.edges
<1>1. r = [read EXCEPT !.adjacency = s.edges]
  BY DEF Answers
<1> QED
  BY <1>1, ReadUpdates

\* The answer to the query for hashes.
LEMMA AnswersOfHashes ==
  ASSUME NEW q, Type(q) = "file_hashes", NEW s, NEW read, ReadOK(read),
         NEW r \in Answers(q, s, read)
  PROVE  OnlyRead("hashes", read, r) /\ r.hashes = s.hashes
<1>1. r = [read EXCEPT !.hashes = s.hashes]
  BY DEF Answers
<1> QED
  BY <1>1, ReadUpdates

\* The answer to the query for parents: each is one of the store's.
LEMMA AnswersOfParents ==
  ASSUME NEW q, Type(q) = "parents", NEW s, NEW read, ReadOK(read), NEW r \in Answers(q, s, read)
  PROVE  /\ OnlyRead("parents", read, r)
         /\ \A i \in DOMAIN r.parents : \E e \in s.edges :
              e.kind = "CONTAINS" /\ e.src = r.parents[i] /\ e.dst = i
<1> DEFINE rows == {e \in s.edges : e.kind = "CONTAINS"}
           children == {e.dst : e \in rows}
           M == {n \in [children -> Ids] : \A i \in children :
                   \E e \in rows : e.src = n[i] /\ e.dst = i}
<1>1. Answers(q, s, read) = {[read EXCEPT !.parents = m] : m \in M}
  BY DEF Answers
<1>2. \A m \in M : \A i \in DOMAIN m : \E e \in s.edges :
        e.kind = "CONTAINS" /\ e.src = m[i] /\ e.dst = i
  OBVIOUS
<1> HIDE DEF M
<1>3. PICK m \in M : r = [read EXCEPT !.parents = m]
  BY <1>1
<1>4. OnlyRead("parents", read, r) /\ r.parents = m
  BY <1>3, ReadUpdates
<1> QED
  BY <1>2, <1>4

\* A query that only writes answers nothing that is kept.
LEMMA AnswersOfWrites ==
  ASSUME NEW q, Type(q) \notin Reads, NEW s, NEW read, NEW r \in Answers(q, s, read)
  PROVE  r = read
<1>1. Answers(q, s, read) = {read}
  BY DEF Answers, Reads
<1> QED
  BY <1>1

\* Every answer keeps the record of what has been read well formed.
LEMMA AnswersOK ==
  ASSUME NEW q, NEW s, StoreOK(s), NEW read, ReadOK(read), NEW r \in Answers(q, s, read)
  PROVE  ReadOK(r)
<1>1. CASE Type(q) = "count_nodes"
  BY <1>1, AnswersOfNodes DEF OnlyRead
<1>2. CASE Type(q) = "count_edges"
  BY <1>2, AnswersOfEdges DEF OnlyRead
<1>3. CASE Type(q) = "count_files"
  BY <1>3, AnswersOfFiles DEF OnlyRead
<1>4. CASE Type(q) = "symbols"
  BY <1>4, AnswersOfSymbols DEF OnlyRead
<1>5. CASE Type(q) = "relationships"
  BY <1>5, AnswersOfRelationships DEF OnlyRead
<1>6. CASE Type(q) = "file_hashes"
  BY <1>6, AnswersOfHashes DEF OnlyRead
<1>7. CASE Type(q) = "parents"
  BY <1>7, AnswersOfParents DEF OnlyRead
<1>8. CASE Type(q) \notin Reads
  BY <1>8, AnswersOfWrites
<1> QED
  BY <1>1, <1>2, <1>3, <1>4, <1>5, <1>6, <1>7, <1>8 DEF Reads

-----------------------------------------------------------------------------
(* Counting comes last *)

CountLeft(todo) == {k \in Kinds : Q("count_edges", k) \in ToSet(todo)}
OtherEdges(s, left) == {e \in s.edges : e.kind \notin left}

\* Counting, by the kinds whose count is left.
LEMMA CountingMeans ==
  ASSUME NEW me, NEW s
  PROVE  Counting(me, s) <=>
           LET left == CountLeft(me.todo)
               n == Cardinality(OtherEdges(s, left))
           IN  /\ (\E q \in ToSet(me.todo) : Rank(q) < 4) =>
                    Q("count_nodes", NoId) \in ToSet(me.todo) /\ left = Kinds
               /\ Q("count_nodes", NoId) \notin ToSet(me.todo) =>
                    me.read.nodes = Cardinality(DOMAIN s.nodes)
               /\ me.read.edges <= n
               /\ me.whole => me.read.edges = n
  BY DEF Counting, CountLeft, OtherEdges

\* Before the counts the store may change.
LEMMA CountingWaits ==
  ASSUME NEW me, NEW s, StoreOK(s), Counting(me, s), NEW q \in ToSet(me.todo), Rank(q) < 4,
         NEW s2, StoreOK(s2), NEW you, you.read = me.read, you.whole = me.whole,
         \A p : p \in ToSet(me.todo) <=> p \in ToSet(you.todo) \/ p = q
  PROVE  Counting(you, s2)
<1>1. Rank(Q("count_nodes", NoId)) = 4 /\ \A k : Rank(Q("count_edges", k)) = 4
  BY DEF Rank, Q, Type
<1>2. CountLeft(you.todo) = CountLeft(me.todo)
  BY <1>1 DEF CountLeft
<1>3. CountLeft(me.todo) = Kinds /\ Q("count_nodes", NoId) \in ToSet(me.todo)
  BY CountingMeans
<1>4. Q("count_nodes", NoId) \in ToSet(you.todo)
  BY <1>1, <1>3
<1>5. OtherEdges(s, Kinds) = {} /\ OtherEdges(s2, Kinds) = {}
  BY DEF OtherEdges, StoreOK
<1>6. me.read.edges <= Cardinality({}) /\ (me.whole => me.read.edges = Cardinality({}))
  BY <1>3, <1>5, CountingMeans
<1> QED
  BY <1>2, <1>3, <1>4, <1>5, <1>6, CountingMeans

\* A kind of edges is one of those not counted before.
LEMMA OtherEdgesMore ==
  ASSUME NEW s, StoreOK(s), NEW left, NEW k \in left
  PROVE  /\ Cardinality(OtherEdges(s, left)) \in Nat
         /\ Cardinality({e \in s.edges : e.kind = k}) \in Nat
         /\ Cardinality(OtherEdges(s, left \ {k})) =
              Cardinality(OtherEdges(s, left)) + Cardinality({e \in s.edges : e.kind = k})
<1> DEFINE A == OtherEdges(s, left)
           B == {e \in s.edges : e.kind = k}
<1>1. IsFiniteSet(A) /\ IsFiniteSet(B)
  BY FS_Subset DEF StoreOK, OtherEdges
<1>2. A \cap B = {} /\ OtherEdges(s, left \ {k}) = A \cup B
  BY DEF OtherEdges
<1> HIDE DEF A, B
<1>3. Cardinality(A) \in Nat /\ Cardinality(B) \in Nat
  BY <1>1, FS_CardinalityType
<1>4. Cardinality(A \cup B) = Cardinality(A) + Cardinality(B) - Cardinality({})
  BY <1>1, <1>2, FS_Union
<1>5. Cardinality({}) = 0
  BY FS_EmptySet
<1> QED
  BY <1>2, <1>3, <1>4, <1>5 DEF A, B

\* The next query counts: answered, or given up when it counts edges.
LEMMA CountingGoesOn ==
  ASSUME NEW me, ClientOK(me), me.status = "running", me.op \in {"save", "stats"},
         NEW s, StoreOK(s), Counting(me, s), NEW q, q = Head(me.todo), Rank(q) = 4,
         NEW you, you.todo = Tail(me.todo), you.read.edges \in Nat,
         \/ you.read \in Answers(q, s, me.read) /\ you.whole = me.whole
         \/ Ignored(q) /\ you.read = me.read /\ you.whole = FALSE
  PROVE  Counting(you, s)
<1> DEFINE left == CountLeft(me.todo)
           left2 == CountLeft(you.todo)
           cn == Q("count_nodes", NoId)
<1>1. Todo(me.todo) /\ me.todo # <<>> /\ q \in ToSet(me.todo)
  BY TodoFacts DEF ClientOK
<1>2. /\ \A p : p \in ToSet(me.todo) <=> p = q \/ p \in ToSet(you.todo)
      /\ \A p \in ToSet(you.todo) : Rank(q) <= Rank(p)
      /\ Type(q) = "count_edges" => q \notin ToSet(you.todo)
  BY <1>1, TodoFacts
<1>3. \A p \in ToSet(you.todo) : ~ (Rank(p) < 4)
  BY <1>2, RankFacts
<1>4. /\ cn \notin ToSet(me.todo) => me.read.nodes = Cardinality(DOMAIN s.nodes)
      /\ me.read.edges <= Cardinality(OtherEdges(s, left))
      /\ me.whole => me.read.edges = Cardinality(OtherEdges(s, left))
  BY CountingMeans
<1>5. ReadOK(me.read)
  BY DEF ClientOK, ReadOK
<1> SUFFICES /\ cn \notin ToSet(you.todo) => you.read.nodes = Cardinality(DOMAIN s.nodes)
             /\ you.read.edges <= Cardinality(OtherEdges(s, left2))
             /\ you.whole => you.read.edges = Cardinality(OtherEdges(s, left2))
  BY <1>3, CountingMeans
<1>6. CASE Type(q) = "count_edges"
  <2>1. PICK k \in Kinds : q = Q("count_edges", k)
    BY <1>1, <1>6, AskedFacts
  <2>2. Type(cn) = "count_nodes" /\ Arg(q) = k /\ \A j : Q("count_edges", j) = q => j = k
    BY <2>1, RankFacts
  <2>3. k \in left /\ left2 = left \ {k}
    <3>1. \A j \in Kinds : j \in left <=> j = k \/ j \in left2
      BY <1>2, <2>1, <2>2 DEF CountLeft
    <3>2. k \notin left2 /\ k \in left
      BY <1>1, <1>2, <1>6, <2>1 DEF CountLeft
    <3>3. left \subseteq Kinds /\ left2 \subseteq Kinds
      BY DEF CountLeft
    <3> HIDE DEF left, left2
    <3> QED
      BY <3>1, <3>2, <3>3
  <2> DEFINE n == Cardinality({e \in s.edges : e.kind = k})
             a == Cardinality(OtherEdges(s, left))
             b == Cardinality(OtherEdges(s, left2))
  <2>4. a \in Nat /\ n \in Nat /\ b = a + n
    BY <2>3, OtherEdgesMore
  <2>5. cn \notin ToSet(you.todo) => cn \notin ToSet(me.todo)
    BY <1>2, <1>6, <2>2
  <2>6. CASE you.read \in Answers(q, s, me.read) /\ you.whole = me.whole
    <3>1. OnlyRead("edges", me.read, you.read) /\ you.read.edges = me.read.edges + n
      BY <1>5, <1>6, <2>2, <2>6, AnswersOfEdges
    <3>2. you.read.nodes = me.read.nodes /\ me.read.edges \in Nat
      BY <1>5, <3>1 DEF OnlyRead, ReadOK
    <3>3. me.read.edges <= a /\ (me.whole => me.read.edges = a)
      BY <1>4
    <3> HIDE DEF n, a, b
    <3>4. you.read.edges <= b /\ (you.whole => you.read.edges = b)
      BY <2>4, <2>6, <3>1, <3>2, <3>3
    <3> QED
      BY <1>4, <2>5, <3>2, <3>4 DEF b
  <2>7. CASE Ignored(q) /\ you.read = me.read /\ you.whole = FALSE
    <3>1. me.read.edges <= a /\ me.read.edges \in Nat
      BY <1>4, <1>5 DEF ReadOK
    <3> HIDE DEF n, a, b
    <3>2. me.read.edges <= b
      BY <2>4, <3>1
    <3> QED
      BY <1>4, <2>5, <2>7, <3>2 DEF b
  <2> QED
    BY <2>6, <2>7
<1>7. CASE Type(q) # "count_edges"
  <2>1. Type(q) \in {"count_nodes", "count_files"}
    <3>1. CASE me.op = "stats"
      <4>1. Asks("stats", me.arg, q)
        BY <1>1, <3>1 DEF ClientOK
      <4>2. \/ q \in {Q("count_nodes", NoId), Q("count_files", NoId)}
            \/ \E k \in Kinds : q = Q("count_edges", k)
        BY <4>1 DEF Asks
      <4> QED
        BY <1>7, <4>2, RankFacts
    <3>2. CASE me.op = "save"
      <4>1. SaveAsks(me.arg, q)
        BY <1>1, <3>2, AskedFacts
      <4> QED
        BY <1>7, <4>1, RankFacts DEF SaveAsks
    <3> QED
      BY <3>1, <3>2
  <2>2. you.read \in Answers(q, s, me.read) /\ you.whole = me.whole
    BY <2>1 DEF Ignored
  <2>3. left2 = left
    BY <1>2, <1>7, RankFacts DEF CountLeft
  <2>4. CASE Type(q) = "count_nodes"
    <3>1. /\ OnlyRead("nodes", me.read, you.read)
          /\ you.read.nodes = Cardinality(DOMAIN s.nodes)
      BY <1>5, <2>2, <2>4, AnswersOfNodes
    <3>2. you.read.edges = me.read.edges
      BY <3>1 DEF OnlyRead
    <3> QED
      BY <1>4, <2>2, <2>3, <3>1, <3>2
  <2>5. CASE Type(q) = "count_files"
    <3>1. OnlyRead("files", me.read, you.read)
      BY <1>5, <2>2, <2>5, AnswersOfFiles
    <3>2. you.read.edges = me.read.edges /\ you.read.nodes = me.read.nodes
      BY <3>1 DEF OnlyRead
    <3>3. cn \notin ToSet(you.todo) => cn \notin ToSet(me.todo)
      BY <1>2, <2>5, RankFacts
    <3> QED
      BY <1>4, <2>2, <2>3, <3>2, <3>3
  <2> QED
    BY <2>1, <2>4, <2>5
<1> QED
  BY <1>6, <1>7

-----------------------------------------------------------------------------
(* What a client that is alone has done, one query at a time *)

\* you is what me is after its next query, and s2 what the store is: the query
\* is to be sent again; it has been answered; it has been given up and ignored;
\* it asked for an index that exists.
Turn(me, you, s, s2) ==
    LET q == Head(me.todo) IN
    /\ Keeps(me, you) /\ ReadOK(you.read)
    /\ \/ /\ s2 \in {s, Apply(q, s)} /\ you.todo = me.todo
          /\ you.read = me.read /\ you.whole = me.whole
       \/ /\ s2 = Apply(q, s) /\ you.todo = Tail(me.todo)
          /\ you.read \in Answers(q, s, me.read) /\ you.whole = me.whole
       \/ /\ s2 \in {s, Apply(q, s)} /\ you.todo = Tail(me.todo)
          /\ Ignored(q) /\ you.read = me.read /\ you.whole = FALSE
       \/ /\ s2 = s /\ you.todo = Tail(me.todo)
          /\ Refuses(q, s) /\ you.read = me.read /\ you.whole = me.whole

\* A save goes on.
LEMMA SaveTurn ==
  ASSUME NEW me, ClientOK(me), me.status = "running", me.op = "save",
         NEW s, StoreOK(s), LoneSave(me, s),
         NEW you, NEW s2, StoreOK(s2), Turn(me, you, s, s2)
  PROVE  LoneSave(you, s2)
<1> DEFINE q == Head(me.todo)
           g == me.arg
           old == me.todo
           new == you.todo
<1>0. you.arg = g /\ you.since = me.since
  BY DEF Turn, Keeps
<1>1. Todo(old) /\ old # <<>> /\ q \in ToSet(old)
  BY TodoFacts DEF ClientOK
<1>2. g \in Graphs /\ SaveAsks(g, q) /\ ReadOK(me.read)
  BY <1>1, AskedFacts DEF ClientOK, ReadOK
<1>3. /\ Merging(s.nodes, me.since.nodes, SymbolRows(g), LeftRows(old, "nodes"))
      /\ me.since.edges \subseteq s.edges /\ s.edges \subseteq me.since.edges \cup EdgeRows(g)
      /\ EdgeRows(g) \subseteq s.edges \cup Left(old, "edges")
      /\ Merging(s.hashes, me.since.hashes, g.hashes, LeftRows(old, "hashes"))
      /\ Counting(me, s)
  BY DEF LoneSave
<1>4. Type(q) \in {"nodes", "edges", "hashes", "count_nodes", "count_edges"}
  BY <1>2, RankFacts DEF SaveAsks
<1>5. CASE Type(q) \in {"count_nodes", "count_edges"}
  <2>1. Rank(q) = 4 /\ s2 = s /\ ~Refuses(q, s)
    BY <1>5, ApplyRead DEF Turn, Rank, Writes, Refuses
  <2>2. /\ LeftRows(old, "nodes") = LeftRows(new, "nodes")
        /\ Left(old, "edges") = Left(new, "edges")
        /\ LeftRows(old, "hashes") = LeftRows(new, "hashes")
    <3>1. CASE new = old
      BY <3>1
    <3>2. CASE new = Tail(old)
      BY <1>1, <1>5, <3>2, LeftSame
    <3> QED
      BY <3>1, <3>2 DEF Turn
  <2>3. Counting(you, s)
    <3>1. CASE new = old /\ you.read = me.read /\ you.whole = me.whole
      BY <1>3, <3>1 DEF Counting
    <3>2. CASE /\ new = Tail(old)
               /\ \/ you.read \in Answers(q, s, me.read) /\ you.whole = me.whole
                  \/ Ignored(q) /\ you.read = me.read /\ you.whole = FALSE
      <4>1. you.read.edges \in Nat
        BY DEF Turn, ReadOK
      <4> QED
        BY <1>3, <2>1, <3>2, <4>1, CountingGoesOn
    <3> QED
      BY <2>1, <3>1, <3>2 DEF Turn
  <2> QED
    BY <1>0, <1>3, <2>1, <2>2, <2>3 DEF LoneSave
<1>6. CASE Type(q) \in {"nodes", "edges", "hashes"}
  <2>1. Rank(q) < 4 /\ ~Refuses(q, s) /\ ~Ignored(q) /\ Type(q) \notin Reads
    BY <1>6 DEF Rank, Refuses, Ignored, Reads
  <2>2. /\ you.read = me.read /\ you.whole = me.whole
        /\ \/ s2 = Apply(q, s) /\ new = Tail(old)
           \/ s2 \in {s, Apply(q, s)} /\ new = old
    <3>1. \A r \in Answers(q, s, me.read) : r = me.read
      BY <1>2, <2>1, AnswersOfWrites
    <3> QED
      BY <2>1, <3>1 DEF Turn
  <2>3. CASE s2 = s /\ new = old
    BY <1>0, <1>3, <2>2, <2>3 DEF LoneSave, Counting
  <2>4. CASE s2 = Apply(q, s)
    <3>1. Counting(you, s2)
      <4>1. \A p : p \in ToSet(old) <=> p \in ToSet(new) \/ p = q
        BY <1>1, <2>2, TodoFacts
      <4> QED
        BY <1>1, <1>3, <2>1, <2>2, <4>1, CountingWaits
    <3>2. \A type : Type(q) # type => /\ LeftRows(old, type) = LeftRows(new, type)
                                      /\ Left(old, type) = Left(new, type)
      BY <1>1, <2>2, LeftSame
    <3>3. \A type : Type(q) = type =>
            /\ LeftRows(old, type) \subseteq LeftRows(new, type) \cup DOMAIN Arg(q)
            /\ Left(old, type) \subseteq Left(new, type) \cup Arg(q)
      <4>1. CASE new = old
        BY <4>1
      <4>2. CASE new = Tail(old)
        BY <1>1, <4>2, LeftLess
      <4> QED
        BY <2>2, <4>1, <4>2
    <3>4. CASE Type(q) = "nodes"
      <4>1. Only("nodes", s, s2) /\ s2.nodes = Merged(Arg(q), s.nodes)
        BY <2>4, <3>4, ApplyNodes
      <4>2. DOMAIN Arg(q) \subseteq g.nodes /\ \A i \in DOMAIN Arg(q) : Arg(q)[i] = g.text[i]
        BY <1>2, <3>4, RankFacts DEF SaveAsks
      <4>3. /\ DOMAIN Arg(q) \subseteq DOMAIN SymbolRows(g)
            /\ \A i \in DOMAIN Arg(q) : Arg(q)[i] = SymbolRows(g)[i]
        BY <4>2 DEF SymbolRows
      <4>4. Merging(Merged(Arg(q), s.nodes), me.since.nodes, SymbolRows(g), LeftRows(new, "nodes"))
        BY <1>3, <3>3, <3>4, <4>3, MergingStep
      <4>5. s2.edges = s.edges /\ s2.hashes = s.hashes
        BY <4>1 DEF Only
      <4> QED
        BY <1>0, <1>3, <3>1, <3>2, <3>4, <4>1, <4>4, <4>5 DEF LoneSave
    <3>5. CASE Type(q) = "edges"
      <4>1. /\ Only("edges", s, s2)
            /\ s2.edges = s.edges \cup {e \in Arg(q) : {e.src, e.dst} \subseteq DOMAIN s.nodes}
        BY <2>4, <3>5, ApplyEdges
      <4>2. Arg(q) \subseteq EdgeRows(g)
        BY <1>2, <3>5, RankFacts DEF SaveAsks
      <4>3. LeftRows(old, "nodes") = {}
        BY <1>1, <3>5, NoneLeft, RankFacts
      <4>4. g.nodes \subseteq DOMAIN s.nodes
        BY <1>3, <4>3 DEF Merging, SymbolRows
      <4>5. \A e \in Arg(q) : {e.src, e.dst} \subseteq DOMAIN s.nodes
        BY <1>2, <4>2, <4>4, EdgeRowsFacts
      <4>6. s2.edges = s.edges \cup Arg(q)
        BY <4>1, <4>5
      <4>7. s2.nodes = s.nodes /\ s2.hashes = s.hashes
        BY <4>1 DEF Only
      <4>8. /\ me.since.edges \subseteq s2.edges
            /\ s2.edges \subseteq me.since.edges \cup EdgeRows(g)
            /\ EdgeRows(g) \subseteq s2.edges \cup Left(new, "edges")
        BY <1>3, <3>3, <3>5, <4>2, <4>6
      <4>9. /\ LeftRows(old, "nodes") = LeftRows(new, "nodes")
            /\ LeftRows(old, "hashes") = LeftRows(new, "hashes")
        BY <3>2, <3>5
      <4> QED
        BY <1>0, <1>3, <3>1, <4>7, <4>8, <4>9 DEF LoneSave
    <3>6. CASE Type(q) = "hashes"
      <4>1. Only("hashes", s, s2) /\ s2.hashes = Merged(Arg(q), s.hashes)
        BY <2>4, <3>6, ApplyHashes
      <4>2. Arg(q) = g.hashes
        BY <1>2, <3>6, RankFacts DEF SaveAsks
      <4>3. Merging(Merged(Arg(q), s.hashes), me.since.hashes, g.hashes, LeftRows(new, "hashes"))
        BY <1>3, <3>3, <3>6, <4>2, MergingStep
      <4>4. s2.edges = s.edges /\ s2.nodes = s.nodes
        BY <4>1 DEF Only
      <4>5. /\ LeftRows(old, "nodes") = LeftRows(new, "nodes")
            /\ Left(old, "edges") = Left(new, "edges")
        BY <3>2, <3>6
      <4> QED
        BY <1>0, <1>3, <3>1, <4>1, <4>3, <4>4, <4>5 DEF LoneSave
    <3> QED
      BY <1>6, <3>4, <3>5, <3>6
  <2> QED
    BY <2>2, <2>3, <2>4
<1> QED
  BY <1>4, <1>5, <1>6

\* Counting goes on.
LEMMA StatsTurn ==
  ASSUME NEW me, ClientOK(me), me.status = "running", me.op = "stats",
         NEW s, StoreOK(s), LoneStats(me, s),
         NEW you, NEW s2, StoreOK(s2), Turn(me, you, s, s2)
  PROVE  LoneStats(you, s2)
<1> DEFINE q == Head(me.todo)
           old == me.todo
           new == you.todo
           files == Cardinality({FileOf[i] : i \in DOMAIN s.nodes})
<1>1. Todo(old) /\ old # <<>> /\ q \in ToSet(old)
  BY TodoFacts DEF ClientOK
<1>2. Type(q) \in {"count_nodes", "count_files", "count_edges"}
  <2>1. Asks("stats", me.arg, q)
    BY <1>1 DEF ClientOK
  <2>2. \/ q \in {Q("count_nodes", NoId), Q("count_files", NoId)}
        \/ \E k \in Kinds : q = Q("count_edges", k)
    BY <2>1 DEF Asks
  <2> QED
    BY <2>2, RankFacts
<1>3. Rank(q) = 4 /\ s2 = s /\ ~Refuses(q, s) /\ ReadOK(me.read) /\ ReadOK(you.read)
  BY <1>2, ApplyRead DEF Turn, Rank, Writes, Refuses, ClientOK, ReadOK
<1>4. Counting(me, s) /\ (~HasLeft(old, "count_files") => me.read.files = files)
  BY DEF LoneStats
<1>5. CASE new = old /\ you.read = me.read /\ you.whole = me.whole
  BY <1>3, <1>4, <1>5 DEF Counting, LoneStats
<1>6. CASE /\ new = Tail(old)
           /\ \/ you.read \in Answers(q, s, me.read) /\ you.whole = me.whole
              \/ Ignored(q) /\ you.read = me.read /\ you.whole = FALSE
  <2>1. Counting(you, s)
    <3>1. you.read.edges \in Nat
      BY <1>3 DEF ReadOK
    <3> QED
      BY <1>3, <1>4, <1>6, <3>1, CountingGoesOn
  <2>2. CASE Type(q) = "count_files"
    <3>1. you.read \in Answers(q, s, me.read)
      BY <1>6, <2>2 DEF Ignored
    <3>2. you.read.files = files
      BY <1>3, <2>2, <3>1, AnswersOfFiles
    <3> QED
      BY <1>3, <2>1, <3>2 DEF LoneStats
  <2>3. CASE Type(q) # "count_files"
    <3>1. HasLeft(new, "count_files") <=> HasLeft(old, "count_files")
      BY <1>1, <1>6, <2>3, LeftSame
    <3>2. you.read.files = me.read.files
      <4>1. CASE you.read = me.read
        BY <4>1
      <4>2. CASE you.read \in Answers(q, s, me.read) /\ Type(q) = "count_nodes"
        BY <1>3, <4>2, AnswersOfNodes DEF OnlyRead
      <4>3. CASE you.read \in Answers(q, s, me.read) /\ Type(q) = "count_edges"
        <5> HIDE DEF q
        <5>1. OnlyRead("edges", me.read, you.read)
          BY <1>3, <4>3, AnswersOfEdges
        <5> QED
          BY <5>1 DEF OnlyRead
      <4> QED
        BY <1>2, <1>6, <2>3, <4>1, <4>2, <4>3
    <3> QED
      BY <1>3, <1>4, <2>1, <3>1, <3>2 DEF LoneStats
  <2> QED
    BY <2>2, <2>3
<1> QED
  BY <1>3, <1>5, <1>6 DEF Turn

\* A removal goes on.
LEMMA RemoveTurn ==
  ASSUME NEW me, ClientOK(me), me.status = "running", me.op = "remove",
         NEW s, StoreOK(s), LoneRemove(me, s),
         NEW you, NEW s2, StoreOK(s2), Turn(me, you, s, s2)
  PROVE  LoneRemove(you, s2)
<1> DEFINE q == Head(me.todo)
           f == me.arg
           old == me.todo
           new == you.todo
<1>0. you.arg = f
  BY DEF Turn, Keeps
<1>1. Todo(old) /\ old # <<>> /\ q \in ToSet(old)
  BY TodoFacts DEF ClientOK
<1>2. q \in {Q("remove_nodes", f), Q("remove_hash", f)}
  BY <1>1, AskedFacts
<1>3. /\ Type(q) \in {"remove_nodes", "remove_hash"} /\ Arg(q) = f
      /\ ~Refuses(q, s) /\ ~Ignored(q)
  BY <1>2, RankFacts DEF Refuses, Ignored
<1>4. \/ s2 \in {s, Apply(q, s)} /\ new = old
      \/ s2 = Apply(q, s) /\ new = Tail(old)
  BY <1>3 DEF Turn
<1>5. /\ ~HasLeft(old, "remove_hash") => f \notin DOMAIN s.hashes
      /\ ~HasLeft(old, "remove_nodes") => \A i \in DOMAIN s.nodes : FileOf[i] # f
  BY DEF LoneRemove
<1>6. \A type : Type(q) # type => (HasLeft(new, type) <=> HasLeft(old, type))
  BY <1>1, <1>4, LeftSame
<1>7. CASE s2 = s /\ new = old
  BY <1>0, <1>5, <1>7 DEF LoneRemove
<1>8. CASE s2 = Apply(q, s) /\ Type(q) = "remove_nodes"
  <2>1. /\ s2.hashes = s.hashes
        /\ \A i : i \in DOMAIN s2.nodes <=> i \in DOMAIN s.nodes /\ FileOf[i] # f
    <3> HIDE DEF q
    <3>1. Type(q) = "remove_nodes" /\ s2 = Apply(q, s) /\ StoreOK(s) /\ Arg(q) = f
      BY <1>3, <1>8
    <3>2. s2.hashes = s.hashes
      BY ONLY <3>1, RemoveNodesKeeps
    <3>3. \A i : i \in DOMAIN s2.nodes <=> i \in DOMAIN s.nodes /\ FileOf[i] # Arg(q)
      BY ONLY <3>1, RemoveNodesFacts
    <3> QED
      BY <3>1, <3>2, <3>3
  <2>2. HasLeft(new, "remove_hash") <=> HasLeft(old, "remove_hash")
    BY <1>6, <1>8
  <2> QED
    BY <1>0, <1>5, <2>1, <2>2 DEF LoneRemove
<1>9. CASE s2 = Apply(q, s) /\ Type(q) = "remove_hash"
  <2>1. Only("hashes", s, s2) /\ DOMAIN s2.hashes = DOMAIN s.hashes \ {f}
    <3> HIDE DEF q
    <3>1. Type(q) = "remove_hash" /\ s2 = Apply(q, s) /\ StoreOK(s) /\ Arg(q) = f
      BY <1>3, <1>9
    <3>2. Only("hashes", s, s2) /\ DOMAIN s2.hashes = DOMAIN s.hashes \ {Arg(q)}
      BY ONLY <3>1, ApplyRemoveHash
    <3> QED
      BY <3>1, <3>2
  <2>2. HasLeft(new, "remove_nodes") <=> HasLeft(old, "remove_nodes")
    BY <1>6, <1>9
  <2>3. s2.nodes = s.nodes
    BY <2>1 DEF Only
  <2> QED
    BY <1>0, <1>5, <2>1, <2>2, <2>3 DEF LoneRemove
<1> QED
  BY <1>3, <1>4, <1>7, <1>8, <1>9

\* A load goes on.
LEMMA LoadTurn ==
  ASSUME NEW me, ClientOK(me), me.status = "running", me.op = "load",
         NEW s, StoreOK(s), LoneLoad(me, s),
         NEW you, NEW s2, StoreOK(s2), Turn(me, you, s, s2)
  PROVE  LoneLoad(you, s2)
<1> DEFINE q == Head(me.todo)
           old == me.todo
           new == you.todo
           Held(p) == \A i \in DOMAIN p : \E e \in s.edges :
                        e.kind = "CONTAINS" /\ e.src = p[i] /\ e.dst = i
<1>1. Todo(old) /\ old # <<>> /\ q \in ToSet(old)
  BY TodoFacts DEF ClientOK
<1>2. Type(q) \in Reads
  BY <1>1, AskedFacts
<1>3. s2 = s /\ ~Refuses(q, s) /\ ReadOK(me.read)
  BY <1>2, ApplyRead DEF Turn, Writes, Reads, Refuses, ClientOK, ReadOK
<1>4. /\ ~HasLeft(old, "symbols") => me.read.ids = DOMAIN s.nodes
      /\ ~HasLeft(old, "relationships") => me.read.adjacency = s.edges
      /\ ~HasLeft(old, "file_hashes") => me.read.hashes = s.hashes
      /\ Held(me.read.parents)
  BY DEF LoneLoad
<1> SUFFICES /\ ~HasLeft(new, "symbols") => you.read.ids = DOMAIN s.nodes
             /\ ~HasLeft(new, "relationships") => you.read.adjacency = s.edges
             /\ ~HasLeft(new, "file_hashes") => you.read.hashes = s.hashes
             /\ Held(you.read.parents)
  BY <1>3 DEF LoneLoad
<1> HIDE DEF Held
<1>5. CASE new = old /\ you.read = me.read
  BY <1>4, <1>5
<1>6. CASE new = Tail(old) /\ Ignored(q) /\ you.read = me.read
  <2>1. Type(q) = "count_edges"
    BY <1>2, <1>6 DEF Ignored, Reads
  <2>2. /\ HasLeft(new, "symbols") <=> HasLeft(old, "symbols")
        /\ HasLeft(new, "relationships") <=> HasLeft(old, "relationships")
        /\ HasLeft(new, "file_hashes") <=> HasLeft(old, "file_hashes")
    BY <1>1, <1>6, <2>1, LeftSame
  <2> QED
    BY <1>4, <1>6, <2>2
<1>7. CASE new = Tail(old) /\ you.read \in Answers(q, s, me.read)
  <2>1. \A type : Type(q) # type => (HasLeft(new, type) <=> HasLeft(old, type))
    BY <1>1, <1>7, LeftSame
  <2>2. CASE Type(q) = "symbols"
    <3>1. OnlyRead("ids", me.read, you.read) /\ you.read.ids = DOMAIN s.nodes
      BY <1>3, <1>7, <2>2, AnswersOfSymbols
    <3> QED
      BY <1>4, <2>1, <2>2, <3>1 DEF OnlyRead
  <2>3. CASE Type(q) = "relationships"
    <3>1. OnlyRead("adjacency", me.read, you.read) /\ you.read.adjacency = s.edges
      BY <1>3, <1>7, <2>3, AnswersOfRelationships
    <3> QED
      BY <1>4, <2>1, <2>3, <3>1 DEF OnlyRead
  <2>4. CASE Type(q) = "file_hashes"
    <3>1. OnlyRead("hashes", me.read, you.read) /\ you.read.hashes = s.hashes
      BY <1>3, <1>7, <2>4, AnswersOfHashes
    <3> QED
      BY <1>4, <2>1, <2>4, <3>1 DEF OnlyRead
  <2>5. CASE Type(q) = "parents"
    <3>1. OnlyRead("parents", me.read, you.read) /\ Held(you.read.parents)
      BY <1>3, <1>7, <2>5, AnswersOfParents DEF Held
    <3> QED
      BY <1>4, <2>1, <2>5, <3>1 DEF OnlyRead
  <2>6. CASE Type(q) \in {"count_nodes", "count_edges", "count_files"}
    <3>1. \/ OnlyRead("nodes", me.read, you.read) \/ OnlyRead("edges", me.read, you.read)
          \/ OnlyRead("files", me.read, you.read)
      <4> HIDE DEF q
      <4>1. CASE Type(q) = "count_nodes"
        BY <1>3, <1>7, <4>1, AnswersOfNodes
      <4>2. CASE Type(q) = "count_edges"
        BY <1>3, <1>7, <4>2, AnswersOfEdges
      <4>3. CASE Type(q) = "count_files"
        BY <1>3, <1>7, <4>3, AnswersOfFiles
      <4> QED
        BY <2>6, <4>1, <4>2, <4>3
    <3> QED
      BY <1>4, <2>1, <2>6, <3>1 DEF OnlyRead
  <2> QED
    BY <1>2, <2>2, <2>3, <2>4, <2>5, <2>6 DEF Reads
<1> QED
  BY <1>3, <1>5, <1>6, <1>7 DEF Turn

\* Clearing goes on.
LEMMA ClearTurn ==
  ASSUME NEW me, ClientOK(me), me.status = "running", me.op = "clear",
         NEW s, StoreOK(s), LoneClear(me, s),
         NEW you, NEW s2, StoreOK(s2), Turn(me, you, s, s2)
  PROVE  LoneClear(you, s2)
<1> DEFINE q == Head(me.todo)
           old == me.todo
           new == you.todo
           I == ToSet(Indexes)
           IndexLeft(todo) == {x \in I : Q("index", x) \in ToSet(todo)}
           del == Q("delete", NoId)
           Clean(t, todo) ==
             /\ DOMAIN t.nodes = {} /\ t.edges = {} /\ DOMAIN t.hashes = {}
             /\ t.indexes \subseteq I /\ I \subseteq t.indexes \cup IndexLeft(todo)
<1>1. Todo(old) /\ old # <<>> /\ q \in ToSet(old)
  BY TodoFacts DEF ClientOK
<1>2. q = del \/ \E x \in I : q = Q("index", x)
  BY <1>1, AskedFacts
<1>3. /\ del \in ToSet(old) => IndexLeft(old) = I
      /\ me.whole /\ del \notin ToSet(old) => Clean(s, old)
  BY DEF LoneClear
<1>4. \A p : p \in ToSet(old) <=> p = q \/ p \in ToSet(Tail(old))
  BY <1>1, TodoFacts
<1>5. /\ Type(del) = "delete" /\ Rank(del) = 0
      /\ \A x : /\ Type(Q("index", x)) = "index" /\ Arg(Q("index", x)) = x
                /\ Rank(Q("index", x)) = 4
  BY DEF Type, Arg, Q, Rank
<1> SUFFICES /\ del \in ToSet(new) => IndexLeft(new) = I
             /\ you.whole /\ del \notin ToSet(new) => Clean(s2, new)
  BY DEF LoneClear
<1>6. CASE q = del
  <2>1. Type(q) = "delete" /\ \A x \in I : q # Q("index", x)
    BY <1>5, <1>6
  <2>2. IndexLeft(new) = I /\ (new = old \/ new = Tail(old))
    <3>1. IndexLeft(old) = I
      BY <1>1, <1>3, <1>6
    <3>2. CASE new = old
      BY <3>1, <3>2
    <3>3. CASE new = Tail(old)
      BY <1>4, <2>1, <3>1, <3>3
    <3> QED
      BY <3>1, <3>2, <3>3 DEF Turn
  <2>3. del \notin ToSet(new) => new = Tail(old)
    BY <1>1, <1>6, <2>2
  <2>4. you.whole /\ new = Tail(old) /\ del \notin ToSet(new) => s2 = EmptyStore
    <3>1. new = old => del \in ToSet(new)
      BY <1>1, <1>6
    <3>2. Apply(q, s) = EmptyStore /\ ~Refuses(q, s)
      BY <2>1, ApplyDelete DEF Refuses
    <3> QED
      BY <3>1, <3>2 DEF Turn
  <2>5. Clean(EmptyStore, new)
    <3>1. /\ EmptyStore.nodes = <<>> /\ EmptyStore.edges = {} /\ EmptyStore.hashes = <<>>
          /\ EmptyStore.indexes = {} /\ DOMAIN <<>> = {}
      BY DEF EmptyStore
    <3> QED
      BY <2>2, <3>1
  <2> HIDE DEF Clean, IndexLeft
  <2> QED
    BY <2>2, <2>3, <2>4, <2>5
<1>7. CASE \E x \in I : q = Q("index", x)
  <2>1. PICK x \in I : q = Q("index", x)
    BY <1>7
  <2>2. Type(q) = "index" /\ Arg(q) = x /\ q # del
    BY <1>5, <2>1
  <2>3. del \notin ToSet(old) /\ del \notin ToSet(new)
    <3>1. \A p \in ToSet(old) : Rank(q) <= Rank(p)
      BY <1>1, NoneLeft
    <3>2. del \notin ToSet(old)
      BY <1>5, <2>1, <3>1
    <3> QED
      BY <1>4, <3>2 DEF Turn
  <2>4. SUFFICES ASSUME you.whole PROVE Clean(s2, new)
    BY <2>3
  <2>5. me.whole
    BY <2>4 DEF Turn
  <2>6. Clean(s, old)
    BY <1>3, <2>3, <2>5
  <2>7. /\ Only("indexes", s, Apply(q, s))
        /\ Apply(q, s).indexes = s.indexes \cup {x}
    BY <2>2, ApplyIndex
  <2>8. /\ s2.nodes = s.nodes /\ s2.edges = s.edges /\ s2.hashes = s.hashes
        /\ s2.indexes = s.indexes \/ s2.indexes = s.indexes \cup {x}
    <3>1. s2 \in {s, Apply(q, s)}
      BY DEF Turn
    <3> QED
      BY <2>7, <3>1 DEF Only
  <2>9. \/ new = old
        \/ new = Tail(old) /\ x \in s2.indexes
    <3>1. CASE new = Tail(old) /\ s2 = Apply(q, s)
      BY <2>7, <3>1
    <3>2. CASE s2 = s /\ Refuses(q, s) /\ new = Tail(old)
      BY <2>2, <3>2 DEF Refuses
    <3> QED
      BY <2>4, <3>1, <3>2 DEF Turn
  <2>10. /\ IndexLeft(old) \subseteq IndexLeft(new) \cup {x}
         /\ new = old => IndexLeft(new) = IndexLeft(old)
    <3>1. CASE new = old
      BY <3>1
    <3>2. CASE new = Tail(old)
      <4>1. \A y : Q("index", y) = q => y = x
        BY <1>5, <2>1
      <4> QED
        BY <1>4, <3>2, <4>1
    <3> QED
      BY <2>9, <3>1, <3>2
  <2> HIDE DEF IndexLeft
  <2> QED
    BY <2>1, <2>6, <2>8, <2>9, <2>10
<1> QED
  BY <1>2, <1>6, <1>7

-----------------------------------------------------------------------------
(* How operations begin *)

\* Nothing has been counted yet.
LEMMA CountingStarts ==
  ASSUME NEW you, NEW s, StoreOK(s), you.read = NothingRead,
         Q("count_nodes", NoId) \in ToSet(you.todo),
         \A k \in Kinds : Q("count_edges", k) \in ToSet(you.todo)
  PROVE  Counting(you, s)
<1>1. CountLeft(you.todo) = Kinds
  BY DEF CountLeft
<1>2. OtherEdges(s, Kinds) = {}
  BY DEF OtherEdges, StoreOK
<1>3. Cardinality(OtherEdges(s, CountLeft(you.todo))) = 0
  BY <1>1, <1>2, FS_EmptySet
<1> QED
  BY <1>1, <1>3, NothingReadOK, CountingMeans

\* A save begins with all of its graph to be sent.
LEMMA SaveStarts ==
  ASSUME NEW g \in Graphs, NEW n \in SetToSeqs(g.nodes), NEW e \in EdgeOrders(g),
         NEW s, StoreOK(s), NEW you, Begun(you, "save", g, SaveQueries(g, n, e), s)
  PROVE  LoneSave(you, s) /\ Sent(you, s)
<1> DEFINE t == SaveQueries(g, n, e)
<1>1. /\ \A i \in g.nodes : \E q \in ToSet(t) : Type(q) = "nodes" /\ i \in DOMAIN Arg(q)
      /\ \A x \in EdgeRows(g) : \E q \in ToSet(t) : Type(q) = "edges" /\ x \in Arg(q)
      /\ \A f \in DOMAIN g.hashes : Q("hashes", g.hashes) \in ToSet(t)
      /\ Q("count_nodes", NoId) \in ToSet(t)
      /\ \A k \in Kinds : Q("count_edges", k) \in ToSet(t)
  BY SaveFacts
<1>2. you.todo = t /\ you.arg = g /\ you.read = NothingRead /\ you.since = s
  BY DEF Begun
<1> HIDE DEF t
<1>3. g.nodes \subseteq LeftRows(t, "nodes")
  BY <1>1, Zenon DEF LeftRows
<1>4. EdgeRows(g) \subseteq Left(t, "edges")
  BY <1>1, Zenon DEF Left
<1>5. DOMAIN g.hashes \subseteq LeftRows(t, "hashes")
  <2>1. \A f \in DOMAIN g.hashes : \E q \in ToSet(t) : Type(q) = "hashes" /\ f \in DOMAIN Arg(q)
    BY <1>1, RankFacts
  <2> QED
    BY <2>1, Zenon DEF LeftRows
<1>6. DOMAIN SymbolRows(g) = g.nodes
  BY DEF SymbolRows
<1>7. Merging(s.nodes, s.nodes, SymbolRows(g), LeftRows(t, "nodes"))
  BY <1>3, <1>6, MergingStart
<1>8. Merging(s.hashes, s.hashes, g.hashes, LeftRows(t, "hashes"))
  BY <1>5, MergingStart
<1>9. Counting(you, s)
  BY <1>1, <1>2, CountingStarts
<1>10. LoneSave(you, s)
  BY <1>2, <1>4, <1>7, <1>8, <1>9 DEF LoneSave
<1> QED
  BY <1>2, <1>3, <1>4, <1>10 DEF Sent

\* Counting begins with all counts to be asked for.
LEMMA StatsStarts ==
  ASSUME NEW s, StoreOK(s), NEW t,
         t = <<Q("count_nodes", NoId)>> \o CountEdges \o <<Q("count_files", NoId)>>,
         NEW you, Begun(you, "stats", NoId, t, s)
  PROVE  LoneStats(you, s)
<1>1. \A q : q \in ToSet(t) <=> \/ q = Q("count_nodes", NoId)
                                \/ q = Q("count_files", NoId)
                                \/ \E k \in Kinds : q = Q("count_edges", k)
  BY StatsFacts
<1>2. you.todo = t /\ you.read = NothingRead
  BY DEF Begun
<1>3. Counting(you, s)
  BY <1>1, <1>2, CountingStarts
<1>4. HasLeft(t, "count_files")
  <2>1. Type(Q("count_files", NoId)) = "count_files" /\ Q("count_files", NoId) \in ToSet(t)
    BY <1>1, RankFacts
  <2> QED
    BY <2>1 DEF HasLeft
<1> QED
  BY <1>2, <1>3, <1>4 DEF LoneStats

\* A removal begins with both queries.
LEMMA RemoveStarts ==
  ASSUME NEW f, NEW s, NEW t, t = <<Q("remove_nodes", f), Q("remove_hash", f)>>,
         NEW you, Begun(you, "remove", f, t, s)
  PROVE  LoneRemove(you, s)
<1>1. Q("remove_nodes", f) \in ToSet(t) /\ Q("remove_hash", f) \in ToSet(t)
  BY RemoveFacts
<1>2. Type(Q("remove_nodes", f)) = "remove_nodes" /\ Type(Q("remove_hash", f)) = "remove_hash"
  BY RankFacts
<1>3. HasLeft(t, "remove_nodes") /\ HasLeft(t, "remove_hash")
  BY <1>1, <1>2 DEF HasLeft
<1> QED
  BY <1>3 DEF LoneRemove, Begun

\* Clearing begins with the deletion.
LEMMA ClearStarts ==
  ASSUME NEW s, NEW t, t = <<Q("delete", NoId)>> \o init_schema,
         NEW you, Begun(you, "clear", NoId, t, s)
  PROVE  LoneClear(you, s)
<1>1. \A q : q \in ToSet(t) <=>
               q = Q("delete", NoId) \/ \E x \in ToSet(Indexes) : q = Q("index", x)
  BY ClearFacts
<1> QED
  BY <1>1 DEF LoneClear, Begun

\* A load begins with all its queries.
LEMMA LoadStarts ==
  ASSUME NEW s, NEW t, t = <<Q("parents", NoId), Q("symbols", NoId),
                             Q("relationships", NoId), Q("file_hashes", NoId)>>,
         NEW you, Begun(you, "load", NoId, t, s)
  PROVE  LoneLoad(you, s)
<1>1. /\ Q("symbols", NoId) \in ToSet(t) /\ Q("relationships", NoId) \in ToSet(t)
      /\ Q("file_hashes", NoId) \in ToSet(t)
  BY LoadFacts
<1>2. /\ Type(Q("symbols", NoId)) = "symbols"
      /\ Type(Q("relationships", NoId)) = "relationships"
      /\ Type(Q("file_hashes", NoId)) = "file_hashes"
  BY RankFacts
<1>3. /\ HasLeft(t, "symbols") /\ HasLeft(t, "relationships") /\ HasLeft(t, "file_hashes")
  BY <1>1, <1>2 DEF HasLeft
<1>4. you.todo = t /\ you.read.parents = <<>> /\ DOMAIN <<>> = {}
  BY NothingReadOK DEF Begun
<1> QED
  BY <1>3, <1>4 DEF LoneLoad

\* One query more of an operation whose client is alone.
LEMMA LoneTurn ==
  ASSUME NEW me, ClientOK(me), me.status = "running", NEW s, StoreOK(s), Lone(me, s),
         NEW you, NEW s2, StoreOK(s2), Turn(me, you, s, s2)
  PROVE  Lone(you, s2)
<1>0. you.op = me.op
  BY DEF Turn, Keeps
<1>1. CASE me.op = "save"
  BY <1>0, <1>1, SaveTurn DEF Lone
<1>2. CASE me.op = "stats"
  BY <1>0, <1>2, StatsTurn DEF Lone
<1>3. CASE me.op = "remove"
  BY <1>0, <1>3, RemoveTurn DEF Lone
<1>4. CASE me.op = "clear"
  BY <1>0, <1>4, ClearTurn DEF Lone
<1>5. CASE me.op = "load"
  BY <1>0, <1>5, LoadTurn DEF Lone
<1> QED
  BY <1>0, <1>1, <1>2, <1>3, <1>4, <1>5 DEF Lone

-----------------------------------------------------------------------------
(* The steps *)

\* What a client becomes when another writes while it is under way.
Disturbed(me) == [me EXCEPT !.alone = FALSE, !.since = EmptyStore]

\* It is otherwise as it was.
LEMMA DisturbedFacts ==
  ASSUME NEW me, ClientOK(me)
  PROVE  /\ ClientOK(Disturbed(me)) /\ Disturbed(me).alone = FALSE
         /\ Disturbed(me).op = me.op /\ Disturbed(me).arg = me.arg
         /\ Disturbed(me).todo = me.todo /\ Disturbed(me).status = me.status
<1> DEFINE no == FALSE
           a == [me EXCEPT !.alone = no]
           you == Disturbed(me)
<1>1. you = [a EXCEPT !.since = EmptyStore]
  BY DEF Disturbed
<1> HIDE DEF no
<1>2. a = Fields(me.op, me.arg, me.todo, me.attempt, me.status, me.read, me.whole,
                 me.since, no)
  BY ClientFields DEF Fields
<1> HIDE DEF a, you
<1>3. you = Fields(me.op, me.arg, me.todo, me.attempt, me.status, me.read, me.whole,
                   EmptyStore, no)
  BY ONLY <1>1, <1>2 DEF Fields
<1>4. /\ you.op = me.op /\ you.arg = me.arg /\ you.todo = me.todo /\ you.status = me.status
      /\ you.read = me.read /\ you.whole = me.whole /\ you.alone = no
      /\ you = [op |-> you.op, arg |-> you.arg, todo |-> you.todo, attempt |-> you.attempt,
                status |-> you.status, read |-> you.read, whole |-> you.whole,
                since |-> you.since, alone |-> you.alone]
  BY ONLY <1>3 DEF Fields
<1>5. no = FALSE
  BY DEF no
<1>6. ClientOK(you)
  BY <1>4, <1>5 DEF ClientOK
<1> QED
  BY <1>4, <1>5, <1>6 DEF you

\* What a client becomes when its operation fails.
Failed(me) == [me EXCEPT !.status = "error", !.todo = <<>>, !.attempt = 0]

\* It has nothing left to ask.
LEMMA FailedFacts ==
  ASSUME NEW me, ClientOK(me), me.status = "running"
  PROVE  ClientOK(Failed(me)) /\ Failed(me).status = "error"
<1> DEFINE none == <<>>
           a == [me EXCEPT !.status = "error"]
           b == [a EXCEPT !.todo = none]
           you == Failed(me)
<1>1. you = [b EXCEPT !.attempt = 0]
  BY DEF Failed
<1>2. Todo(none) /\ none = <<>> /\ \A q : q \notin ToSet(none)
  BY TodoOfNone
<1> HIDE DEF none
<1>3. a = Fields(me.op, me.arg, me.todo, me.attempt, "error", me.read, me.whole,
                 me.since, me.alone)
  BY ClientFields DEF Fields
<1> HIDE DEF a
<1>4. b = Fields(me.op, me.arg, none, me.attempt, "error", me.read, me.whole,
                 me.since, me.alone)
  BY ONLY <1>3 DEF Fields, b
<1> HIDE DEF b, you
<1>5. you = Fields(me.op, me.arg, none, 0, "error", me.read, me.whole, me.since, me.alone)
  BY ONLY <1>1, <1>4 DEF Fields
<1>6. /\ you.op = me.op /\ you.arg = me.arg /\ you.todo = none /\ you.status = "error"
      /\ you.read = me.read /\ you.whole = me.whole /\ you.alone = me.alone
      /\ you = [op |-> you.op, arg |-> you.arg, todo |-> you.todo, attempt |-> you.attempt,
                status |-> you.status, read |-> you.read, whole |-> you.whole,
                since |-> you.since, alone |-> you.alone]
  BY ONLY <1>5 DEF Fields
<1>7. ClientOK(you)
  BY <1>2, <1>6 DEF ClientOK
<1> QED
  BY <1>6, <1>7 DEF you

\* A client goes on as `next`, its query having run or not.
LEMMA NoticedStep ==
  ASSUME IInv, NEW c \in Clients, Running(c), Runs(Query(c)) \/ Lost,
         NEW next, client' = Noticed(c, next), ClientOK(next),
         ~removed' => Sent(next, db'),
         next.alone /\ next.status \in {"running", "ok"} => Lone(next, db')
  PROVE  IInv'
<1> DEFINE q == Query(c)
<1>1. /\ StoreOK(db) /\ DOMAIN client = Clients /\ \A d \in Clients : ClientOK(client[d])
      /\ removed \in BOOLEAN /\ ops \in Nat
  BY DEF IInv, TypeInv
<1>2. client[c].status = "running" /\ client[c].todo # <<>> /\ Todo(client[c].todo)
  BY <1>1 DEF Running, ClientOK
<1>3. q = Head(client[c].todo) /\ q \in ToSet(client[c].todo)
  BY <1>2, TodoFacts DEF Query
<1> HIDE DEF q
<1>4. /\ ops' = ops /\ removed' \in BOOLEAN
      /\ \/ db' = db /\ removed' = removed
         \/ db' = Apply(q, db) /\ removed' = (removed \/ Deletes(q))
  <2>1. CASE Lost
    BY <1>1, <2>1 DEF Lost
  <2>2. CASE Runs(q)
    <3>1. (removed \/ Deletes(q)) \in BOOLEAN
      OBVIOUS
    <3> QED
      BY <2>2, <3>1, Zenon DEF Runs
  <2> QED
    BY <2>1, <2>2 DEF q
<1>5. StoreOK(db')
  <2>1. StoreOK(Apply(q, db))
    BY <1>1, <1>3, StoreStays
  <2> QED
    BY <1>1, <1>4, <2>1
<1>6. \A d \in Clients \ {c} :
         /\ ClientOK(client'[d])
         /\ client'[d].op = client[d].op /\ client'[d].arg = client[d].arg
         /\ client'[d].todo = client[d].todo /\ client'[d].status = client[d].status
         /\ \/ client'[d] = client[d] /\ (db' = db \/ client[d].status = "idle")
            \/ client'[d].alone = FALSE
  <2> SUFFICES ASSUME NEW d \in Clients \ {c}
               PROVE  /\ ClientOK(client'[d])
                      /\ client'[d].op = client[d].op /\ client'[d].arg = client[d].arg
                      /\ client'[d].todo = client[d].todo
                      /\ client'[d].status = client[d].status
                      /\ \/ client'[d] = client[d] /\ (db' = db \/ client[d].status = "idle")
                         \/ client'[d].alone = FALSE
    OBVIOUS
  <2>1. client'[d] = IF db' # db /\ client[d].status # "idle"
                     THEN Disturbed(client[d]) ELSE client[d]
    BY DEF Noticed, Disturbed
  <2>2. ClientOK(client[d])
    BY <1>1
  <2>3. CASE db' # db /\ client[d].status # "idle"
    <3>1. client'[d] = Disturbed(client[d])
      BY <2>1, <2>3
    <3> QED
      BY <2>2, <3>1, DisturbedFacts
  <2>4. CASE ~(db' # db /\ client[d].status # "idle")
    BY <2>1, <2>2, <2>4
  <2> QED
    BY <2>3, <2>4
<1>7. DOMAIN client' = Clients /\ client'[c] = next
  BY DEF Noticed
<1>8. TypeInv'
  <2>1. StoreOK(db')
    BY <1>5
  <2>2. DOMAIN client' = Clients /\ \A d \in Clients : ClientOK(client'[d])
    BY <1>6, <1>7
  <2>3. removed' \in BOOLEAN /\ ops' \in Nat
    BY <1>1, <1>4
  <2> QED
    BY <2>1, <2>2, <2>3 DEF TypeInv
<1>9. VouchInv'
  <2> SUFFICES ASSUME ~removed' PROVE Vouched(db') /\ \A d \in Clients : Sent(client'[d], db')
    BY DEF VouchInv
  <2>1. ~removed /\ (db' = db \/ (db' = Apply(q, db) /\ ~Deletes(q)))
    <3>1. CASE db' = db /\ removed' = removed
      BY <3>1, Zenon
    <3>2. CASE db' = Apply(q, db) /\ removed' = (removed \/ Deletes(q))
      BY <3>2, Zenon
    <3> QED
      BY <1>4, <3>1, <3>2
  <2>2. Vouched(db) /\ \A d \in Clients : Sent(client[d], db)
    BY <2>1 DEF IInv, VouchInv
  <2>3. Vouched(db') /\ Grows(db, db')
    <3>1. CASE db' = db
      BY <2>2, <3>1 DEF Grows
    <3>2. CASE db' = Apply(q, db) /\ ~Deletes(q)
      <4>1. Grows(db, Apply(q, db))
        BY <1>1, <3>2, QueriesGrow
      <4>2. Vouched(Apply(q, db))
        BY <1>1, <1>2, <1>3, <2>2, <3>2, QueriesVouch
      <4> QED
        BY <3>2, <4>1, <4>2
    <3> QED
      BY <2>1, <3>1, <3>2
  <2>4. \A d \in Clients \ {c} : Sent(client'[d], db')
    <3> SUFFICES ASSUME NEW d \in Clients \ {c} PROVE Sent(client'[d], db')
      OBVIOUS
    <3>1. Sent(client[d], db')
      BY <2>2, <2>3, SentGrows
    <3> QED
      BY <1>6, <3>1 DEF Sent
  <2> QED
    BY <1>7, <2>3, <2>4
<1>10. LoneInv'
  <2> SUFFICES ASSUME NEW d \in Clients, client'[d].alone,
                      client'[d].status \in {"running", "ok"}
               PROVE  Lone(client'[d], db')
    BY DEF LoneInv
  <2>1. CASE d = c
    BY <1>7, <2>1
  <2>2. CASE d # c
    <3>1. client'[d] = client[d] /\ db' = db
      BY <1>6, <2>2
    <3> QED
      BY <3>1 DEF IInv, LoneInv
  <2> QED
    BY <2>1, <2>2
<1> QED
  BY <1>8, <1>9, <1>10 DEF IInv

\* A client begins an operation.
LEMMA BeginStep ==
  ASSUME IInv, NEW c \in Clients, NEW op, NEW arg, NEW t, Begin(c, op, arg, t),
         NEW you, you = Beginning(op, arg, t, db), Begun(you, op, arg, t, db),
         Sent(you, db), Lone(you, db)
  PROVE  IInv'
<1>1. /\ StoreOK(db) /\ DOMAIN client = Clients /\ \A d \in Clients : ClientOK(client[d])
      /\ removed \in BOOLEAN /\ ops \in Nat
  BY DEF IInv, TypeInv
<1>2. /\ db' = db /\ removed' = removed /\ ops' = ops + 1
      /\ client' = [client EXCEPT ![c] = you]
  BY DEF Begin, Beginning
<1>3. /\ DOMAIN client' = Clients /\ client'[c] = you
      /\ \A d \in Clients \ {c} : client'[d] = client[d]
  BY <1>1, <1>2
<1>4. ClientOK(you)
  BY DEF Begun
<1>5. TypeInv'
  <2>1. StoreOK(db')
    BY <1>1, <1>2
  <2>2. \A d \in Clients : ClientOK(client'[d])
    BY <1>1, <1>3, <1>4
  <2>3. removed' \in BOOLEAN /\ ops' \in Nat
    BY <1>1, <1>2
  <2> QED
    BY <1>3, <2>1, <2>2, <2>3 DEF TypeInv
<1>6. VouchInv'
  <2> SUFFICES ASSUME ~removed' PROVE Vouched(db') /\ \A d \in Clients : Sent(client'[d], db')
    BY DEF VouchInv
  <2>1. Vouched(db) /\ \A d \in Clients : Sent(client[d], db)
    BY <1>2 DEF IInv, VouchInv
  <2> QED
    BY <1>2, <1>3, <2>1
<1>7. LoneInv'
  <2> SUFFICES ASSUME NEW d \in Clients, client'[d].alone,
                      client'[d].status \in {"running", "ok"}
               PROVE  Lone(client'[d], db')
    BY DEF LoneInv
  <2>1. CASE d = c
    BY <1>2, <1>3, <2>1
  <2>2. CASE d # c
    <3>1. client'[d] = client[d]
      BY <1>3, <2>2
    <3>2. Lone(client[d], db)
      BY <3>1 DEF IInv, LoneInv
    <3> QED
      BY <1>2, <3>1, <3>2
  <2> QED
    BY <2>1, <2>2
<1> QED
  BY <1>5, <1>6, <1>7 DEF IInv

\* An operation that is not a save has nothing to send, and nothing is asked of
\* operations other than these five.
LEMMA OthersStart ==
  ASSUME NEW you, NEW s, you.op # "save"
  PROVE  /\ Sent(you, s)
         /\ you.op \in {"connect", "load_hashes"} => Lone(you, s)
  BY DEF Sent, Lone

\* Connect keeps the invariant.
LEMMA ConnectStep ==
  ASSUME IInv, NEW c \in Clients, Connect(c)
  PROVE  IInv'
<1> DEFINE you == Beginning("connect", NoId, init_schema, db)
<1>1. Begin(c, "connect", NoId, init_schema)
  BY DEF Connect
<1>2. \A q \in ToSet(init_schema) : Asks("connect", NoId, q)
  BY SchemaFacts, RankFacts DEF Asks
<1>3. Begun(you, "connect", NoId, init_schema, db)
  BY <1>2, SchemaFacts, BeginningFacts DEF Operations
<1> HIDE DEF you
<1>4. Sent(you, db) /\ Lone(you, db)
  BY <1>3, OthersStart DEF Begun
<1> QED
  BY <1>1, <1>3, <1>4, BeginStep DEF you

\* A save's beginning keeps the invariant.
LEMMA SaveStep ==
  ASSUME IInv, NEW c \in Clients, NEW g \in Graphs, SaveGraph(c, g)
  PROVE  IInv'
<1>1. PICK n \in SetToSeqs(g.nodes), e \in EdgeOrders(g) :
         Begin(c, "save", g, SaveQueries(g, n, e))
  BY DEF SaveGraph
<1> DEFINE t == SaveQueries(g, n, e)
           you == Beginning("save", g, t, db)
<1>2. StoreOK(db)
  BY DEF IInv, TypeInv
<1>3. /\ Todo(t) /\ t # <<>>
      /\ \A q \in ToSet(t) : SaveAsks(g, q)
  BY SaveFacts
<1>4. \A q \in ToSet(t) : Asks("save", g, q)
  BY <1>3 DEF Asks
<1> HIDE DEF t
<1>5. Begun(you, "save", g, t, db)
  BY <1>3, <1>4, BeginningFacts DEF Operations
<1> HIDE DEF you
<1>6. LoneSave(you, db) /\ Sent(you, db)
  BY <1>2, <1>5, SaveStarts DEF t
<1>7. Lone(you, db)
  BY <1>5, <1>6 DEF Begun, Lone
<1>8. Begin(c, "save", g, t)
  BY <1>1 DEF t
<1> QED
  BY <1>5, <1>6, <1>7, <1>8, BeginStep DEF you

\* A removal's beginning keeps the invariant.
LEMMA RemoveStep ==
  ASSUME IInv, NEW c \in Clients, NEW f, RemoveFileNodes(c, f)
  PROVE  IInv'
<1> DEFINE t == <<Q("remove_nodes", f), Q("remove_hash", f)>>
           you == Beginning("remove", f, t, db)
<1>1. Begin(c, "remove", f, t)
  BY DEF RemoveFileNodes
<1>2. /\ Todo(t) /\ t # <<>>
      /\ \A q \in ToSet(t) : Asks("remove", f, q)
  BY RemoveFacts DEF Asks
<1> HIDE DEF t
<1>3. Begun(you, "remove", f, t, db)
  BY <1>2, BeginningFacts DEF Operations
<1> HIDE DEF you
<1>4. LoneRemove(you, db)
  BY <1>3, RemoveStarts DEF t
<1>5. Sent(you, db) /\ Lone(you, db)
  BY <1>3, <1>4, OthersStart DEF Begun, Lone
<1> QED
  BY <1>1, <1>3, <1>5, BeginStep DEF you

\* The beginning of clear keeps the invariant.
LEMMA ClearStep ==
  ASSUME IInv, NEW c \in Clients, Clear(c)
  PROVE  IInv'
<1> DEFINE t == <<Q("delete", NoId)>> \o init_schema
           you == Beginning("clear", NoId, t, db)
<1>1. Begin(c, "clear", NoId, t)
  BY DEF Clear
<1>2. /\ Todo(t) /\ t # <<>>
      /\ \A q \in ToSet(t) : Asks("clear", NoId, q)
  BY ClearFacts DEF Asks
<1> HIDE DEF t
<1>3. Begun(you, "clear", NoId, t, db)
  BY <1>2, BeginningFacts DEF Operations
<1> HIDE DEF you
<1>4. LoneClear(you, db)
  BY <1>3, ClearStarts DEF t
<1>5. Sent(you, db) /\ Lone(you, db)
  BY <1>3, <1>4, OthersStart DEF Begun, Lone
<1> QED
  BY <1>1, <1>3, <1>5, BeginStep DEF you

\* A load's beginning keeps the invariant.
LEMMA LoadStep ==
  ASSUME IInv, NEW c \in Clients, LoadGraph(c)
  PROVE  IInv'
<1> DEFINE t == <<Q("parents", NoId), Q("symbols", NoId),
                  Q("relationships", NoId), Q("file_hashes", NoId)>>
           you == Beginning("load", NoId, t, db)
<1>1. Begin(c, "load", NoId, t)
  BY DEF LoadGraph
<1>2. /\ Todo(t) /\ t # <<>>
      /\ \A q \in ToSet(t) : Asks("load", NoId, q)
  BY LoadFacts, RankFacts DEF Asks, Reads
<1> HIDE DEF t
<1>3. Begun(you, "load", NoId, t, db)
  BY <1>2, BeginningFacts DEF Operations
<1> HIDE DEF you
<1>4. LoneLoad(you, db)
  BY <1>3, LoadStarts DEF t
<1>5. Sent(you, db) /\ Lone(you, db)
  BY <1>3, <1>4, OthersStart DEF Begun, Lone
<1> QED
  BY <1>1, <1>3, <1>5, BeginStep DEF you

\* The beginning of a load of hashes keeps the invariant.
LEMMA LoadHashesStep ==
  ASSUME IInv, NEW c \in Clients, LoadFileHashes(c)
  PROVE  IInv'
<1> DEFINE t == <<Q("file_hashes", NoId)>>
           you == Beginning("load_hashes", NoId, t, db)
<1>1. Begin(c, "load_hashes", NoId, t)
  BY DEF LoadFileHashes
<1>2. Todo(t) /\ \A p : p \in ToSet(t) <=> p = Q("file_hashes", NoId)
  BY OneFacts
<1> HIDE DEF t
<1>3. t # <<>> /\ \A q \in ToSet(t) : Asks("load_hashes", NoId, q)
  BY <1>2, TodoOfNone, RankFacts DEF Asks, Reads
<1>4. Begun(you, "load_hashes", NoId, t, db)
  BY <1>2, <1>3, BeginningFacts DEF Operations
<1> HIDE DEF you
<1>5. Sent(you, db) /\ Lone(you, db)
  BY <1>4, OthersStart DEF Begun
<1> QED
  BY <1>1, <1>4, <1>5, BeginStep DEF you

\* The beginning of a count keeps the invariant.
LEMMA StatsStep ==
  ASSUME IInv, NEW c \in Clients, GetStats(c)
  PROVE  IInv'
<1> DEFINE t == <<Q("count_nodes", NoId)>> \o CountEdges \o <<Q("count_files", NoId)>>
           you == Beginning("stats", NoId, t, db)
<1>0. StoreOK(db)
  BY DEF IInv, TypeInv
<1>1. Begin(c, "stats", NoId, t)
  BY DEF GetStats
<1>2. /\ Todo(t) /\ t # <<>>
      /\ \A q \in ToSet(t) : Asks("stats", NoId, q)
  BY StatsFacts DEF Asks
<1> HIDE DEF t
<1>3. Begun(you, "stats", NoId, t, db)
  BY <1>2, BeginningFacts DEF Operations
<1> HIDE DEF you
<1>4. LoneStats(you, db)
  BY <1>0, <1>3, StatsStarts DEF t
<1>5. Sent(you, db) /\ Lone(you, db)
  BY <1>3, <1>4, OthersStart DEF Begun, Lone
<1> QED
  BY <1>1, <1>3, <1>5, BeginStep DEF you

\* A client that goes on with its operation, its query having run or not.
LEMMA TurnStep ==
  ASSUME IInv, NEW c \in Clients, Running(c), Runs(Query(c)) \/ Lost,
         NEW next, client' = Noticed(c, next), ClientOK(next),
         Turn(client[c], next, db, db'), ~removed' => Sent(next, db')
  PROVE  IInv'
<1> DEFINE me == client[c]
<1>1. StoreOK(db) /\ ClientOK(me) /\ me.status = "running"
  BY DEF IInv, TypeInv, Running
<1>2. Query(c) = Head(me.todo) /\ Query(c) \in ToSet(me.todo)
  BY <1>1, TodoFacts DEF Query, ClientOK
<1>3. StoreOK(db')
  <2>1. StoreOK(Apply(Query(c), db))
    BY <1>1, <1>2, StoreStays
  <2> QED
    BY <1>1, <2>1 DEF Runs, Lost
<1>4. ASSUME next.alone PROVE Lone(next, db')
  <2>1. me.alone
    BY <1>4 DEF Turn, Keeps
  <2>2. Lone(me, db)
    BY <1>1, <2>1 DEF IInv, LoneInv
  <2> HIDE DEF me
  <2>3. Turn(me, next, db, db')
    BY DEF me
  <2> QED
    BY <1>1, <1>3, <2>2, <2>3, LoneTurn
<1> QED
  BY <1>4, NoticedStep

\* The store a query leads to keeps what has been sent, unless it deletes.
LEMMA StoreGrows ==
  ASSUME IInv, NEW c \in Clients, Running(c), Runs(Query(c)) \/ Lost, ~removed'
  PROVE  /\ Grows(db, db') /\ Sent(client[c], db)
         /\ Runs(Query(c)) => ~Deletes(Query(c)) /\ db' = Apply(Query(c), db)
<1>1. StoreOK(db) /\ removed \in BOOLEAN
  BY DEF IInv, TypeInv
<1>2. CASE Lost
  <2>1. Grows(db, db') /\ ~removed
    BY <1>2 DEF Lost, Grows
  <2>2. Sent(client[c], db)
    BY <2>1 DEF IInv, VouchInv
  <2>3. Runs(Query(c)) => ~Deletes(Query(c)) /\ db' = Apply(Query(c), db)
    BY Zenon DEF Runs
  <2> QED
    BY <2>1, <2>2, <2>3
<1>3. CASE Runs(Query(c))
  <2>1. ~removed /\ ~Deletes(Query(c)) /\ db' = Apply(Query(c), db)
    BY <1>3, Zenon DEF Runs
  <2>2. Sent(client[c], db)
    BY <2>1 DEF IInv, VouchInv
  <2>3. Grows(db, db')
    BY <1>1, <2>1, QueriesGrow
  <2> QED
    BY <2>1, <2>2, <2>3
<1> QED
  BY <1>2, <1>3

\* A query that ran and was answered.
LEMMA AnsweredStep ==
  ASSUME IInv, NEW c \in Clients, Answered(c)
  PROVE  IInv'
<1> DEFINE me == client[c]
           q == Query(c)
<1>1. PICK read \in Answers(q, db, me.read) :
         client' = Noticed(c, Advance(Reading(me, read)))
  BY DEF Answered, Reading
<1> DEFINE mid == Reading(me, read)
           next == Advance(mid)
<1>2. /\ StoreOK(db) /\ ClientOK(me) /\ me.status = "running" /\ q = Head(me.todo)
      /\ Runs(q) /\ Running(c) /\ ReadOK(me.read)
  BY DEF IInv, TypeInv, Answered, Running, Query, ClientOK, ReadOK
<1> HIDE DEF me, q
<1>3. ReadOK(read)
  BY <1>1, <1>2, AnswersOK
<1>4. /\ ClientOK(mid) /\ Keeps(me, mid) /\ mid.read = read /\ mid.todo = me.todo
      /\ mid.whole = me.whole /\ mid.status = "running"
  BY <1>2, <1>3, ReadingFacts
<1> HIDE DEF mid
<1>5. /\ ClientOK(next) /\ Keeps(mid, next) /\ next.read = read /\ next.todo = Tail(me.todo)
      /\ next.whole = me.whole
  BY <1>4, AdvanceFacts
<1> HIDE DEF next
<1>6. Keeps(me, next)
  BY <1>4, <1>5 DEF Keeps
<1>7. db' = Apply(q, db)
  BY <1>2 DEF Runs
<1>8. Turn(me, next, db, db')
  BY <1>1, <1>2, <1>3, <1>5, <1>6, <1>7 DEF Turn
<1>9. ASSUME ~removed' PROVE Sent(next, db')
  <2>1. Sent(me, db) /\ ~Deletes(q)
    BY <1>2, <1>9, StoreGrows DEF me, q
  <2> QED
    BY <1>2, <1>5, <1>6, <1>7, <2>1, SentAdvances
<1>10. client' = Noticed(c, next)
  BY <1>1 DEF next, mid
<1> QED
  BY <1>2, <1>5, <1>8, <1>9, <1>10, TurnStep DEF me, q

\* After an error that is not retried.
LEMMA GiveUpStep ==
  ASSUME IInv, NEW c \in Clients, Running(c), Runs(Query(c)) \/ Lost,
         client' = Noticed(c, GiveUp(c))
  PROVE  IInv'
<1> DEFINE me == client[c]
           q == Query(c)
<1>1. /\ StoreOK(db) /\ ClientOK(me) /\ me.status = "running" /\ q = Head(me.todo)
      /\ ReadOK(me.read)
  BY DEF IInv, TypeInv, Running, Query, ClientOK, ReadOK
<1>2. db' \in {db, Apply(q, db)}
  BY DEF Runs, Lost
<1>3. CASE ~Ignored(q)
  <2>1. client' = Noticed(c, Failed(me))
    BY <1>3 DEF GiveUp, Failed
  <2> HIDE DEF me
  <2>2. ClientOK(Failed(me)) /\ Failed(me).status = "error"
    BY <1>1, FailedFacts
  <2>3. Sent(Failed(me), db')
    BY <2>2 DEF Sent
  <2> QED
    BY <2>1, <2>2, <2>3, NoticedStep
<1>4. CASE Ignored(q)
  <2> DEFINE mid == GivenUp(me)
             next == Advance(mid)
  <2>1. client' = Noticed(c, next)
    BY <1>4 DEF GiveUp, GivenUp
  <2> HIDE DEF me, q
  <2>2. /\ ClientOK(mid) /\ Keeps(me, mid) /\ mid.read = me.read /\ mid.todo = me.todo
        /\ mid.whole = FALSE /\ mid.status = "running"
    BY <1>1, GivenUpFacts
  <2> HIDE DEF mid
  <2>3. /\ ClientOK(next) /\ Keeps(mid, next) /\ next.read = me.read
        /\ next.todo = Tail(me.todo) /\ next.whole = FALSE
    BY <2>2, AdvanceFacts
  <2> HIDE DEF next
  <2>4. Keeps(me, next)
    BY <2>2, <2>3 DEF Keeps
  <2>5. Turn(me, next, db, db')
    BY <1>1, <1>2, <1>4, <2>3, <2>4 DEF Turn
  <2>6. ASSUME ~removed' PROVE Sent(next, db')
    <3>1. Sent(me, db) /\ Grows(db, db')
      BY <2>6, StoreGrows DEF me
    <3>2. Sent(next, db)
      BY <1>1, <1>4, <2>3, <2>4, <3>1, SentSkips
    <3> QED
      BY <3>1, <3>2, SentGrows
  <2> QED
    BY <2>1, <2>3, <2>5, <2>6, TurnStep DEF me
<1> QED
  BY <1>3, <1>4

\* A query whose connection went down, before or after it ran.
LEMMA ConnectionErrorStep ==
  ASSUME IInv, NEW c \in Clients, ConnectionError(c)
  PROVE  IInv'
<1> DEFINE me == client[c]
           q == Query(c)
<1>1. /\ StoreOK(db) /\ ClientOK(me) /\ me.status = "running" /\ q = Head(me.todo)
      /\ ReadOK(me.read) /\ Running(c) /\ (Runs(q) \/ Lost)
  BY DEF IInv, TypeInv, ConnectionError, Running, Query, ClientOK, ReadOK
<1>2. db' \in {db, Apply(q, db)}
  BY <1>1 DEF Runs, Lost
<1>3. CASE client' = Noticed(c, GiveUp(c))
  BY <1>1, <1>3, GiveUpStep
<1>4. CASE client' = Noticed(c, Retry(me))
  <2> DEFINE next == Retry(me)
  <2> HIDE DEF me, q
  <2>1. /\ ClientOK(next) /\ Keeps(me, next) /\ next.read = me.read /\ next.todo = me.todo
        /\ next.whole = me.whole /\ next.status = me.status
    BY <1>1, RetryFacts
  <2> HIDE DEF next
  <2>2. Turn(me, next, db, db')
    BY <1>1, <1>2, <2>1 DEF Turn
  <2>3. ASSUME ~removed' PROVE Sent(next, db')
    <3>1. Sent(me, db) /\ Grows(db, db')
      BY <1>1, <2>3, StoreGrows DEF me, q
    <3>2. Sent(next, db)
      BY <2>1, <3>1 DEF Sent, Keeps
    <3> QED
      BY <3>1, <3>2, SentGrows
  <2>4. client' = Noticed(c, next)
    BY <1>4 DEF next
  <2> QED
    BY <1>1, <2>1, <2>2, <2>3, <2>4, TurnStep DEF me, q
<1> QED
  BY <1>3, <1>4 DEF ConnectionError

\* A query that was answered with an error.
LEMMA OtherErrorStep ==
  ASSUME IInv, NEW c \in Clients, OtherError(c)
  PROVE  IInv'
<1> DEFINE me == client[c]
           q == Query(c)
<1>1. /\ StoreOK(db) /\ ClientOK(me) /\ me.status = "running" /\ q = Head(me.todo)
      /\ ReadOK(me.read) /\ Running(c) /\ Lost
  BY DEF IInv, TypeInv, OtherError, Running, Query, ClientOK, ReadOK
<1>2. CASE ~Refuses(q, db)
  BY <1>1, <1>2, GiveUpStep DEF OtherError
<1>3. CASE Refuses(q, db)
  <2> DEFINE next == Advance(me)
  <2>1. client' = Noticed(c, next) /\ db' = db
    BY <1>1, <1>3 DEF OtherError, Lost
  <2> HIDE DEF me, q
  <2>2. /\ ClientOK(next) /\ Keeps(me, next) /\ next.read = me.read
        /\ next.todo = Tail(me.todo) /\ next.whole = me.whole
    BY <1>1, AdvanceFacts
  <2> HIDE DEF next
  <2>3. Turn(me, next, db, db')
    BY <1>1, <1>3, <2>1, <2>2 DEF Turn
  <2>4. ASSUME ~removed' PROVE Sent(next, db')
    <3>1. Sent(me, db)
      BY <1>1, <2>4, StoreGrows DEF me
    <3>2. Ignored(q)
      BY <1>3 DEF Refuses, Ignored
    <3> QED
      BY <1>1, <2>1, <2>2, <3>1, <3>2, SentSkips
  <2> QED
    BY <1>1, <2>1, <2>2, <2>3, <2>4, TurnStep DEF me
<1> QED
  BY <1>2, <1>3

\* A client that crashes is replaced by one that has nothing under way.
LEMMA CrashStep ==
  ASSUME IInv, NEW c \in Clients, Crash(c)
  PROVE  IInv'
<1>1. Sent(Idle, db') /\ ClientOK(Idle) /\ Idle.status = "idle"
  BY IdleFacts DEF Sent
<1> QED
  BY <1>1, NoticedStep DEF Crash

\* A client takes its result and is free again.
LEMMA ReturnStep ==
  ASSUME IInv, NEW c \in Clients, Return(c)
  PROVE  IInv'
<1>1. /\ client' = [client EXCEPT ![c] = Idle]
      /\ db' = db /\ removed' = removed /\ ops' = ops
  BY DEF Return, Lost
<1>2. DOMAIN client = Clients /\ \A d \in Clients : ClientOK(client[d])
  BY DEF IInv, TypeInv
<1>3. /\ DOMAIN client' = Clients /\ client'[c] = Idle
      /\ \A d \in Clients \ {c} : client'[d] = client[d]
  BY <1>1, <1>2
<1>4. Sent(Idle, db) /\ ClientOK(Idle) /\ Idle.status = "idle"
  BY IdleFacts DEF Sent
<1>5. TypeInv'
  <2>1. StoreOK(db') /\ removed' \in BOOLEAN /\ ops' \in Nat
    BY <1>1 DEF IInv, TypeInv
  <2>2. \A d \in Clients : ClientOK(client'[d])
    BY <1>2, <1>3, <1>4
  <2> QED
    BY <1>3, <2>1, <2>2 DEF TypeInv
<1>6. VouchInv'
  <2> SUFFICES ASSUME ~removed' PROVE Vouched(db') /\ \A d \in Clients : Sent(client'[d], db')
    BY DEF VouchInv
  <2>1. Vouched(db) /\ \A d \in Clients : Sent(client[d], db)
    BY <1>1 DEF IInv, VouchInv
  <2> QED
    BY <1>1, <1>3, <1>4, <2>1
<1>7. LoneInv'
  <2> SUFFICES ASSUME NEW d \in Clients, client'[d].alone,
                      client'[d].status \in {"running", "ok"}
               PROVE  Lone(client'[d], db')
    BY DEF LoneInv
  <2>1. d # c
    BY <1>3, <1>4
  <2>2. client'[d] = client[d]
    BY <1>3, <2>1
  <2> QED
    BY <1>1, <2>2 DEF IInv, LoneInv
<1> QED
  BY <1>5, <1>6, <1>7 DEF IInv

\* The invariant holds at the beginning.
LEMMA InitialState ==
  ASSUME Init
  PROVE  IInv
<1>1. \A c \in Clients : client[c] = Idle
  BY DEF Init
<1>2. /\ db = EmptyStore /\ removed = FALSE /\ ops = 0 /\ DOMAIN client = Clients
  BY DEF Init
<1>3. EmptyStore = [nodes |-> <<>>, edges |-> {}, hashes |-> <<>>, indexes |-> {}]
  BY DEF EmptyStore
<1>4. DOMAIN <<>> = {} /\ <<>> = [x \in {} |-> <<>>[x]]
  OBVIOUS
<1>5. StoreOK(EmptyStore)
  <2> DEFINE n == <<>>
  <2>1. DOMAIN n = {} /\ n = [x \in DOMAIN n |-> n[x]]
    BY <1>4
  <2> HIDE DEF n
  <2>2. EmptyStore = [nodes |-> n, edges |-> {}, hashes |-> n, indexes |-> {}]
    BY <1>3 DEF n
  <2>3. IsFiniteSet({})
    BY FS_EmptySet
  <2> QED
    BY <2>1, <2>2, <2>3 DEF StoreOK
<1>6. TypeInv
  BY <1>1, <1>2, <1>5, IdleFacts DEF TypeInv
<1>7. VouchInv
  <2>1. DOMAIN db.hashes = {}
    BY <1>2, <1>3, <1>4
  <2>2. Vouched(db)
    BY <2>1 DEF Vouched
  <2>3. \A c \in Clients : Sent(client[c], db)
    BY <1>1, IdleFacts DEF Sent
  <2> QED
    BY <2>2, <2>3 DEF VouchInv
<1>8. LoneInv
  BY <1>1, IdleFacts DEF LoneInv
<1> QED
  BY <1>6, <1>7, <1>8 DEF IInv

-----------------------------------------------------------------------------
(* The theorems *)

\* In every reachable state the server's records and what each client has under
\* way are well formed, what saves have sent is there while nothing is removed,
\* and a client that was alone has done what its operation says so far.
THEOREM Storing == Spec => []IInv
<1>1. Init => IInv
  BY InitialState
<1>2. IInv /\ [Next]_vars => IInv'
  <2> SUFFICES ASSUME IInv, [Next]_vars PROVE IInv'
    OBVIOUS
  <2>1. CASE UNCHANGED vars
    BY <2>1 DEF vars, IInv, TypeInv, VouchInv, LoneInv
  <2>2. ASSUME NEW c \in Clients,
               \/ Connect(c) \/ Clear(c) \/ LoadGraph(c) \/ LoadFileHashes(c) \/ GetStats(c)
        PROVE  IInv'
    BY <2>2, ConnectStep, ClearStep, LoadStep, LoadHashesStep, StatsStep
  <2>3. ASSUME NEW c \in Clients, NEW g \in Graphs, SaveGraph(c, g) PROVE IInv'
    BY <2>3, SaveStep
  <2>4. ASSUME NEW c \in Clients, NEW f \in Files, RemoveFileNodes(c, f) PROVE IInv'
    BY <2>4, RemoveStep
  <2>5. ASSUME NEW c \in Clients, Step(c) PROVE IInv'
    BY <2>5, AnsweredStep, ConnectionErrorStep, OtherErrorStep, ReturnStep DEF Step
  <2>6. ASSUME NEW c \in Clients, Crash(c) PROVE IInv'
    BY <2>6, CrashStep
  <2> QED
    BY <2>1, <2>2, <2>3, <2>4, <2>5, <2>6 DEF Next
<1> QED
  BY <1>1, <1>2, PTL DEF Spec

\* While nothing is removed, a stored hash vouches for its file (:386-408).
THEOREM Vouching == Spec => []HashesVouchForFiles
<1>1. IInv => HashesVouchForFiles
  BY DEF IInv, VouchInv, Vouched, HashesVouchForFiles
<1> QED
  BY <1>1, Storing, PTL

\* Nothing is left of an operation that is over.
LEMMA NothingLeft ==
  /\ \A type : Left(<<>>, type) = {} /\ LeftRows(<<>>, type) = {} /\ ~HasLeft(<<>>, type)
  /\ CountLeft(<<>>) = {} /\ \A q : q \notin ToSet(<<>>)
<1> DEFINE none == <<>>
<1>1. \A q : q \notin ToSet(none)
  BY TodoOfNone
<1> HIDE DEF none
<1>2. \A type : Left(none, type) = {} /\ LeftRows(none, type) = {} /\ ~HasLeft(none, type)
  BY <1>1 DEF Left, LeftRows, HasLeft
<1>3. CountLeft(none) = {}
  BY <1>1 DEF CountLeft
<1> QED
  BY <1>1, <1>2, <1>3 DEF none

\* When all has been counted, the counts are the store's.
LEMMA CountingDone ==
  ASSUME NEW me, NEW s, StoreOK(s), Counting(me, s), me.todo = <<>>
  PROVE  /\ me.read.nodes = Cardinality(DOMAIN s.nodes)
         /\ me.read.edges <= Cardinality(s.edges)
         /\ me.whole => me.read.edges = Cardinality(s.edges)
<1>1. CountLeft(me.todo) = {} /\ Q("count_nodes", NoId) \notin ToSet(me.todo)
  BY NothingLeft
<1>2. OtherEdges(s, {}) = s.edges
  BY DEF OtherEdges
<1> QED
  BY <1>1, <1>2, CountingMeans

\* A save that was alone stored all of its graph and nothing else.
LEMMA SaveDone ==
  ASSUME NEW me, NEW s, StoreOK(s), LoneSave(me, s), me.todo = <<>>
  PROVE  /\ s.nodes = Merged(SymbolRows(me.arg), me.since.nodes)
         /\ s.edges = me.since.edges \cup EdgeRows(me.arg)
         /\ s.hashes = Merged(me.arg.hashes, me.since.hashes)
<1>1. /\ Left(me.todo, "edges") = {} /\ LeftRows(me.todo, "nodes") = {}
      /\ LeftRows(me.todo, "hashes") = {}
  BY NothingLeft
<1>2. /\ s.nodes = [i \in DOMAIN s.nodes |-> s.nodes[i]]
      /\ s.hashes = [f \in DOMAIN s.hashes |-> s.hashes[f]]
  BY DEF StoreOK
<1>3. /\ Merging(s.nodes, me.since.nodes, SymbolRows(me.arg), {})
      /\ Merging(s.hashes, me.since.hashes, me.arg.hashes, {})
      /\ me.since.edges \subseteq s.edges /\ s.edges \subseteq me.since.edges \cup EdgeRows(me.arg)
      /\ EdgeRows(me.arg) \subseteq s.edges
  BY <1>1 DEF LoneSave
<1>4. s.nodes = Merged(SymbolRows(me.arg), me.since.nodes)
  BY <1>2, <1>3, MergingDone
<1>5. s.hashes = Merged(me.arg.hashes, me.since.hashes)
  BY <1>2, <1>3, MergingDone
<1> QED
  BY <1>3, <1>4, <1>5

\* Clearing that was alone left the schema's indexes and nothing else.
LEMMA ClearDone ==
  ASSUME NEW me, NEW s, StoreOK(s), LoneClear(me, s), me.todo = <<>>, me.whole
  PROVE  s = [EmptyStore EXCEPT !.indexes = ToSet(Indexes)]
<1> DEFINE none == <<>>
<1>1. /\ DOMAIN s.nodes = {} /\ s.edges = {} /\ DOMAIN s.hashes = {}
      /\ s.indexes = ToSet(Indexes)
  <2>1. \A x : Q("index", x) \notin ToSet(me.todo)
    BY NothingLeft
  <2>2. Q("delete", NoId) \notin ToSet(me.todo)
    BY NothingLeft
  <2> QED
    BY <2>1, <2>2 DEF LoneClear
<1>2. DOMAIN none = {} /\ none = [x \in {} |-> none[x]]
  OBVIOUS
<1> HIDE DEF none
<1>3. ASSUME NEW f, DOMAIN f = {}, f = [x \in DOMAIN f |-> f[x]] PROVE f = none
  BY <1>2, <1>3
<1>4. s.nodes = none /\ s.hashes = none
  BY <1>1, <1>3 DEF StoreOK
<1>5. s = [nodes |-> none, edges |-> {}, hashes |-> none, indexes |-> ToSet(Indexes)]
  BY <1>1, <1>4 DEF StoreOK
<1>6. EmptyStore = [nodes |-> none, edges |-> {}, hashes |-> none, indexes |-> {}]
  BY DEF EmptyStore, none
<1>7. \A x : [EmptyStore EXCEPT !.indexes = x] =
               [nodes |-> none, edges |-> {}, hashes |-> none, indexes |-> x]
  BY ONLY <1>6
<1> QED
  BY ONLY <1>5, <1>7

\* An operation that no other client disturbed did what its name says, however
\* often its queries were sent (run_cypher :127).
THEOREM Exactness == Spec => []LoneOperationsAreExact
<1>1. IInv => LoneOperationsAreExact
  <2> SUFFICES ASSUME IInv, NEW c \in Clients, client[c].alone
               PROVE  LET since == client[c].since  read == client[c].read
                          counted == /\ read.nodes = Cardinality(DOMAIN db.nodes)
                                     /\ read.edges <= Cardinality(db.edges)
                                     /\ client[c].whole => read.edges = Cardinality(db.edges)
                      IN  /\ Returned(c, "save") =>
                               /\ db.nodes = Merged(SymbolRows(Graph(c)), since.nodes)
                               /\ db.edges = since.edges \cup EdgeRows(Graph(c))
                               /\ db.hashes = Merged(Graph(c).hashes, since.hashes)
                               /\ counted
                          /\ Returned(c, "stats") =>
                               /\ counted
                               /\ read.files = Cardinality({FileOf[i] : i \in DOMAIN db.nodes})
                          /\ Returned(c, "remove") =>
                               /\ client[c].arg \notin DOMAIN db.hashes
                               /\ \A i \in DOMAIN db.nodes : FileOf[i] # client[c].arg
                          /\ Returned(c, "clear") /\ client[c].whole =>
                               db = [EmptyStore EXCEPT !.indexes = ToSet(Indexes)]
                          /\ Returned(c, "load") =>
                               /\ read.ids = DOMAIN db.nodes /\ read.adjacency = db.edges
                               /\ read.hashes = db.hashes
                               /\ \A i \in DOMAIN read.parents : \E e \in db.edges :
                                    e.kind = "CONTAINS" /\ e.src = read.parents[i] /\ e.dst = i
    BY DEF LoneOperationsAreExact
  <2> DEFINE me == client[c]
             counted == /\ me.read.nodes = Cardinality(DOMAIN db.nodes)
                        /\ me.read.edges <= Cardinality(db.edges)
                        /\ me.whole => me.read.edges = Cardinality(db.edges)
  <2>1. StoreOK(db)
    BY DEF IInv, TypeInv
  <2>2. ASSUME me.status = "ok" PROVE Lone(me, db) /\ me.todo = <<>>
    <3>1. Lone(me, db)
      BY <2>2 DEF IInv, LoneInv
    <3>2. ClientOK(me)
      BY DEF IInv, TypeInv
    <3> QED
      BY <2>2, <3>1, <3>2 DEF ClientOK
  <2>3. ASSUME Returned(c, "save")
        PROVE  /\ db.nodes = Merged(SymbolRows(Graph(c)), me.since.nodes)
               /\ db.edges = me.since.edges \cup EdgeRows(Graph(c))
               /\ db.hashes = Merged(Graph(c).hashes, me.since.hashes)
               /\ counted
    <3>1. LoneSave(me, db) /\ me.todo = <<>> /\ Graph(c) = me.arg
      BY <2>2, <2>3 DEF Returned, Lone, Graph
    <3>2. Counting(me, db)
      BY <3>1 DEF LoneSave
    <3> HIDE DEF me
    <3> QED
      BY <2>1, <3>1, <3>2, SaveDone, CountingDone
  <2>4. ASSUME Returned(c, "stats")
        PROVE  counted /\ me.read.files = Cardinality({FileOf[i] : i \in DOMAIN db.nodes})
    <3>1. LoneStats(me, db) /\ me.todo = <<>>
      BY <2>2, <2>4 DEF Returned, Lone
    <3>2. Counting(me, db) /\ ~HasLeft(me.todo, "count_files")
      BY <3>1, NothingLeft DEF LoneStats
    <3>3. me.read.files = Cardinality({FileOf[i] : i \in DOMAIN db.nodes})
      BY <3>1, <3>2 DEF LoneStats
    <3> HIDE DEF me
    <3> QED
      BY <2>1, <3>1, <3>2, <3>3, CountingDone
  <2>5. ASSUME Returned(c, "remove")
        PROVE  me.arg \notin DOMAIN db.hashes /\ \A i \in DOMAIN db.nodes : FileOf[i] # me.arg
    <3>1. LoneRemove(me, db) /\ me.todo = <<>>
      BY <2>2, <2>5 DEF Returned, Lone
    <3> QED
      BY <3>1, NothingLeft DEF LoneRemove
  <2>6. ASSUME Returned(c, "clear"), me.whole
        PROVE  db = [EmptyStore EXCEPT !.indexes = ToSet(Indexes)]
    <3>1. LoneClear(me, db) /\ me.todo = <<>> /\ me.whole
      BY <2>2, <2>6 DEF Returned, Lone
    <3> HIDE DEF me
    <3> QED
      BY <2>1, <3>1, ClearDone
  <2>7. ASSUME Returned(c, "load")
        PROVE  /\ me.read.ids = DOMAIN db.nodes /\ me.read.adjacency = db.edges
               /\ me.read.hashes = db.hashes
               /\ \A i \in DOMAIN me.read.parents : \E e \in db.edges :
                    e.kind = "CONTAINS" /\ e.src = me.read.parents[i] /\ e.dst = i
    <3>1. LoneLoad(me, db) /\ me.todo = <<>>
      BY <2>2, <2>7 DEF Returned, Lone
    <3> QED
      BY <3>1, NothingLeft DEF LoneLoad
  <2> QED
    BY <2>3, <2>4, <2>5, <2>6, <2>7
<1> QED
  BY <1>1, Storing, PTL
=============================================================================
