--------------------------- MODULE McpServerProofs ---------------------------
(***************************************************************************)
(* What the server answers.  A session answers its requests in order,      *)
(* whatever the messages, the jobs and the other processes are (InOrder).  *)
(* The queries return what they stand for on every stored graph: rows in   *)
(* order (Take), walks of calls (WalksExact), chains of IMPLEMENTS         *)
(* (ImplementationsExact), shortest paths (PathsShortest); so queries      *)
(* written apart agree.  What a job that nothing disturbs has found so far *)
(* is true of the graph (Truth), so its answer is.  And Cypher's paths,    *)
(* which use no relationship twice, end where those walks do (PathEnds),   *)
(* so both backends name the same symbols.                                 *)
(***************************************************************************)
EXTENDS McpServer, PureLemmas, FiniteSetTheorems, TLAPS

-----------------------------------------------------------------------------
\* Filtered sequences.

\* The recursive function in Kept is one, and takes s an element at a time.
Keeps(f, A, s, S) ==
    /\ f \in [0 .. Len(s) -> Seq(A)] /\ f[0] = <<>>
    /\ \A i \in 1 .. Len(s) : f[i] = IF s[i] \in S THEN Append(f[i - 1], s[i]) ELSE f[i - 1]

\* The recursion exists, and Kept is what it ends in.
LEMMA KeptDefined ==
  ASSUME NEW A, NEW s \in Seq(A), NEW S
  PROVE  \E f : Keeps(f, A, s, S) /\ Kept(s, S) = f[Len(s)]
<1> DEFINE U == Seq(A)
           N == Len(s)
           More(n, u) == IF n + 1 \in 1 .. N /\ s[n + 1] \in S THEN Append(u, s[n + 1]) ELSE u
           F == [p \in Nat \X U |-> More(p[1], p[2])]
           kept[i \in 0 .. N] ==
             IF i = 0 THEN <<>>
             ELSE IF s[i] \in S THEN Append(kept[i - 1], s[i]) ELSE kept[i - 1]
           Fits(f) == f = [i \in 0 .. N |->
             IF i = 0 THEN <<>>
             ELSE IF s[i] \in S THEN Append(f[i - 1], s[i]) ELSE f[i - 1]]
<1>1. N \in Nat /\ <<>> \in U /\ \A i \in 1 .. N : s[i] \in A
  OBVIOUS
<1>2. ASSUME NEW n \in Nat, NEW u \in U PROVE More(n, u) \in U
  BY <1>1
<1>3. F \in [Nat \X U -> U]
  <2> HIDE DEF U, More
  <2>1. \A p \in Nat \X U : p[1] \in Nat /\ p[2] \in U
    OBVIOUS
  <2> QED
    BY <1>2, <2>1
<1>4. ASSUME NEW n \in Nat, NEW u \in U PROVE F[<<n, u>>] = More(n, u)
  <2> HIDE DEF U, More
  <2>1. <<n, u>> \in Nat \X U
    BY <1>4
  <2> QED
    BY <2>1
<1> HIDE DEF F, U, N
<1>5. PICK h : Recurs(h, U, <<>>, F)
  BY <1>1, <1>3, RecursionExists, Zenon
<1>6. h \in [Nat -> U] /\ h[0] = <<>> /\ \A n \in Nat : h[n + 1] = More(n, h[n])
  <2>1. h \in [Nat -> U] /\ h[0] = <<>> /\ \A n \in Nat : h[n + 1] = F[<<n, h[n]>>]
    BY <1>5 DEF Recurs
  <2> HIDE DEF More
  <2> QED
    BY <1>4, <2>1
<1> DEFINE f == [i \in 0 .. N |-> h[i]]
<1>7. f \in [0 .. N -> U] /\ f[0] = <<>> /\ \A i \in 0 .. N : f[i] = h[i]
  BY <1>1, <1>6
<1>8. ASSUME NEW i \in 1 .. N
      PROVE  f[i] = IF s[i] \in S THEN Append(f[i - 1], s[i]) ELSE f[i - 1]
  <2>1. i - 1 \in Nat /\ (i - 1) + 1 = i /\ i \in 0 .. N /\ i - 1 \in 0 .. N
    BY <1>1
  <2>2. h[i] = More(i - 1, h[i - 1])
    BY <1>6, <2>1
  <2> QED
    BY <1>7, <1>8, <2>1, <2>2
<1>9. f = [i \in 0 .. N |-> h[i]]
  OBVIOUS
<1> HIDE DEF f
<1>10. \A i \in 0 .. N : h[i] = IF i = 0 THEN <<>>
             ELSE IF s[i] \in S THEN Append(f[i - 1], s[i]) ELSE f[i - 1]
  <2> TAKE i \in 0 .. N
  <2>1. i = 0 \/ (i # 0 /\ i \in 1 .. N)
    BY <1>1
  <2> QED
    BY <1>7, <1>8, <2>1
<1>11. Fits(f)
  BY <1>9, <1>10, Zenon
<1>12. \E x : Fits(x)
  BY <1>11
<1>13. Fits(kept)
  BY <1>12, Zenon
<1> DEFINE K == [i \in 0 .. N |-> IF i = 0 THEN <<>>
             ELSE IF s[i] \in S THEN Append(kept[i - 1], s[i]) ELSE kept[i - 1]]
<1>14. kept = K
  BY <1>13, Zenon
<1>15. Kept(s, S) = kept[N]
  BY Zenon DEF Kept, N
<1> HIDE DEF kept
<1>16. \A i \in 0 .. N : K[i] = IF i = 0 THEN <<>>
             ELSE IF s[i] \in S THEN Append(kept[i - 1], s[i]) ELSE kept[i - 1]
  BY Zenon
<1>17. K = [i \in 0 .. N |-> K[i]]
  BY Zenon
<1> HIDE DEF K
<1>18. \A i \in 0 .. N : kept[i] = IF i = 0 THEN <<>>
             ELSE IF s[i] \in S THEN Append(kept[i - 1], s[i]) ELSE kept[i - 1]
  BY <1>14, <1>16, Zenon
<1>19. kept = [i \in 0 .. N |-> kept[i]]
  BY <1>14, <1>17, Zenon
<1> DEFINE T == {i \in Nat : kept[i] \in U}
<1>20. 0 \in T
  BY <1>1, <1>18
<1>21. ASSUME NEW i \in 0 .. N - 1, i \in T PROVE i + 1 \in T
  <2>1. i + 1 \in 0 .. N /\ i + 1 # 0 /\ (i + 1) - 1 = i /\ i + 1 \in 1 .. N
    BY <1>1
  <2>2. kept[i + 1] = IF s[i + 1] \in S THEN Append(kept[i], s[i + 1]) ELSE kept[i]
    BY <1>18, <2>1
  <2>3. kept[i] \in Seq(A) /\ s[i + 1] \in A
    BY <1>1, <1>21, <2>1 DEF U
  <2>4. Append(kept[i], s[i + 1]) \in Seq(A)
    BY <2>3
  <2>5. kept[i + 1] \in U
    BY <2>2, <2>3, <2>4 DEF U
  <2> QED
    BY <2>1, <2>5
<1> HIDE DEF T
<1>22. \A i \in 0 .. N : i \in T
  BY <1>1, <1>20, <1>21, InductUpTo
<1>23. kept \in [0 .. N -> Seq(A)]
  BY <1>19, <1>22 DEF T, U
<1>24. Keeps(kept, A, s, S)
  <2>1. \A i \in 1 .. N : i \in 0 .. N /\ i # 0
    BY <1>1
  <2>2. 0 \in 0 .. N
    BY <1>1
  <2> QED
    BY <1>18, <1>23, <2>1, <2>2 DEF Keeps, N
<1> QED
  BY <1>15, <1>24 DEF N

\* What is in a sequence with one more element.
LEMMA AppendRange ==
  ASSUME NEW A, NEW u \in Seq(A), NEW y \in A
  PROVE  \A x : x \in ToSet(Append(u, y)) <=> x \in ToSet(u) \/ x = y
<1> DEFINE v == Append(u, y)
<1>1. /\ DOMAIN u = 1 .. Len(u) /\ DOMAIN v = 1 .. Len(u) + 1 /\ Len(u) \in Nat
      /\ v[Len(u) + 1] = y /\ \A i \in 1 .. Len(u) : v[i] = u[i]
  OBVIOUS
<1> HIDE DEF v
<1>2. \A i : i \in 1 .. Len(u) + 1 <=> i \in 1 .. Len(u) \/ i = Len(u) + 1
  BY <1>1
<1>3. \A x : x \in ToSet(v) <=> x \in ToSet(u) \/ x = y
  BY <1>1, <1>2 DEF ToSet
<1> QED
  BY <1>3 DEF v

\* Nothing is kept of nothing.
LEMMA KeptOfNone ==
  ASSUME NEW S
  PROVE  Kept(<<>>, S) = <<>>
<1>1. <<>> \in Seq({}) /\ Len(<<>>) = 0
  OBVIOUS
<1>2. PICK f : Keeps(f, {}, <<>>, S) /\ Kept(<<>>, S) = f[Len(<<>>)]
  BY <1>1, KeptDefined
<1> QED
  BY <1>1, <1>2 DEF Keeps

\* What is kept of a sequence are its elements that are in S.
LEMMA KeptFacts ==
  ASSUME NEW A, NEW s \in Seq(A), NEW S
  PROVE  /\ Kept(s, S) \in Seq(A)
         /\ \A x : x \in ToSet(Kept(s, S)) <=> x \in ToSet(s) /\ x \in S
<1>1. PICK f : Keeps(f, A, s, S) /\ Kept(s, S) = f[Len(s)]
  BY KeptDefined
<1> DEFINE Holds(i) == \A x : x \in ToSet(f[i]) <=> (x \in S /\ \E j \in 1 .. i : s[j] = x)
           T == {i \in Nat : Holds(i)}
<1>2. Len(s) \in Nat /\ \A j \in 1 .. Len(s) : s[j] \in A
  OBVIOUS
<1>3. 0 \in T
  BY <1>1 DEF Keeps, ToSet
<1>4. ASSUME NEW i \in 0 .. Len(s) - 1, i \in T PROVE i + 1 \in T
  <2>1. /\ i + 1 \in 1 .. Len(s) /\ i \in 0 .. Len(s) /\ (i + 1) - 1 = i /\ i + 1 \in Nat
        /\ \A j : j \in 1 .. i + 1 <=> j \in 1 .. i \/ j = i + 1
    OBVIOUS
  <2>2. f[i + 1] = IF s[i + 1] \in S THEN Append(f[i], s[i + 1]) ELSE f[i]
    BY <1>1, <2>1 DEF Keeps
  <2>3. f[i] \in Seq(A) /\ s[i + 1] \in A
    BY <1>1, <1>2, <2>1 DEF Keeps
  <2>4. \A x : x \in ToSet(Append(f[i], s[i + 1])) <=> x \in ToSet(f[i]) \/ x = s[i + 1]
    <3> DEFINE u == f[i]
               y == s[i + 1]
    <3>1. u \in Seq(A) /\ y \in A
      BY <2>3
    <3> HIDE DEF u, y
    <3>2. \A x : x \in ToSet(Append(u, y)) <=> x \in ToSet(u) \/ x = y
      BY <3>1, AppendRange
    <3> QED
      BY <3>2 DEF u, y
  <2>5. Holds(i)
    BY <1>4
  <2>6. Holds(i + 1)
    <3>1. CASE s[i + 1] \in S
      BY <2>1, <2>2, <2>4, <2>5, <3>1
    <3>2. CASE s[i + 1] \notin S
      BY <2>1, <2>2, <2>5, <3>2
    <3> QED
      BY <3>1, <3>2
  <2> HIDE DEF Holds
  <2> QED
    BY <2>1, <2>6
<1> HIDE DEF T
<1>5. \A i \in 0 .. Len(s) : i \in T
  BY <1>2, <1>3, <1>4, InductUpTo
<1>6. Holds(Len(s)) /\ f[Len(s)] \in Seq(A)
  BY <1>1, <1>2, <1>5 DEF T, Keeps
<1>7. \A x : x \in ToSet(s) <=> \E j \in 1 .. Len(s) : s[j] = x
  BY DEF ToSet
<1> QED
  BY <1>1, <1>6, <1>7

\* The last element is kept or not, whatever comes before.
LEMMA KeptAppend ==
  ASSUME NEW A, NEW s \in Seq(A), NEW x \in A, NEW S
  PROVE  Kept(Append(s, x), S) = IF x \in S THEN Append(Kept(s, S), x) ELSE Kept(s, S)
<1> DEFINE t == Append(s, x)
           N == Len(s)
<1>1. /\ t \in Seq(A) /\ Len(t) = N + 1 /\ t[N + 1] = x /\ N \in Nat
      /\ \A i \in 1 .. N : t[i] = s[i]
  OBVIOUS
<1> HIDE DEF t
<1>2. PICK f : Keeps(f, A, s, S) /\ Kept(s, S) = f[N]
  BY KeptDefined
<1>3. PICK g : Keeps(g, A, t, S) /\ Kept(t, S) = g[Len(t)]
  BY <1>1, KeptDefined
<1> DEFINE T == {i \in Nat : f[i] = g[i]}
<1>4. 0 \in T
  BY <1>2, <1>3 DEF Keeps
<1>5. ASSUME NEW i \in 0 .. N - 1, i \in T PROVE i + 1 \in T
  <2>1. i + 1 \in 1 .. N /\ i + 1 \in 1 .. Len(t) /\ (i + 1) - 1 = i /\ i + 1 \in Nat
        /\ t[i + 1] = s[i + 1]
    BY <1>1
  <2>2. f[i + 1] = IF s[i + 1] \in S THEN Append(f[i], s[i + 1]) ELSE f[i]
    BY <1>2, <2>1 DEF Keeps
  <2>3. g[i + 1] = IF t[i + 1] \in S THEN Append(g[i], t[i + 1]) ELSE g[i]
    BY <1>3, <2>1 DEF Keeps
  <2> QED
    BY <1>5, <2>1, <2>2, <2>3
<1> HIDE DEF T
<1>6. \A i \in 0 .. N : i \in T
  BY <1>1, <1>4, <1>5, InductUpTo
<1>7. f[N] = g[N]
  BY <1>1, <1>6 DEF T
<1>8. g[N + 1] = IF t[N + 1] \in S THEN Append(g[N], t[N + 1]) ELSE g[N]
  <2>1. N + 1 \in 1 .. Len(t) /\ (N + 1) - 1 = N
    BY <1>1
  <2> QED
    BY <1>3, <2>1 DEF Keeps
<1> QED
  BY <1>1, <1>2, <1>3, <1>7, <1>8 DEF t

-----------------------------------------------------------------------------
\* The session.

JobOK(j) ==
    /\ j = [by |-> j.by, tool |-> j.tool, text |-> j.text, opts |-> j.opts,
            stage |-> j.stage, todo |-> j.todo, target |-> j.target, rows |-> j.rows,
            status |-> j.status]
    /\ j.stage \in {"find", "query", "done"}

Replies == [id : {m.id : m \in Messages}, kind : {"result", "error", "toolError"}]

SessionInv ==
    /\ job = NoJob \/ JobOK(job)
    /\ inbox \in Seq(Messages) /\ outbox \in Seq(Replies)
    /\ pos \in 0 .. Len(inbox)
    /\ server # "none" /\ ~Idle =>
         /\ pos > 0
         /\ inbox[pos].framing \in {"line", "header"} /\ inbox[pos].method = "tools/call"

\* A job under way is not the absent one.
LEMMA JobNotIdle ==
  ASSUME NEW j, JobOK(j)
  PROVE  j.stage # "idle" /\ j # NoJob
<1>1. j.stage # "idle"
  BY DEF JobOK
<1>2. NoJob.stage = "idle"
  BY DEF NoJob
<1> QED
  BY <1>1, <1>2

\* The server is idle exactly when it has no job.
LEMMA IdleMeansNoJob ==
  ASSUME SessionInv
  PROVE  /\ Idle <=> job = NoJob
         /\ ~Idle => JobOK(job)
<1>1. NoJob.stage = "idle"
  BY DEF NoJob
<1> QED
  BY <1>1, JobNotIdle DEF SessionInv, Idle

\* What starts is a job.
LEMMA BegunJob ==
  ASSUME NEW by, NEW tool, NEW text, NEW opts, Begin(by, tool, text, opts)
  PROVE  JobOK(job')
  BY DEF Begin, JobOK

Fields(by, tool, text, opts, stage, todo, target, rows, status) ==
    [by |-> by, tool |-> tool, text |-> text, opts |-> opts, stage |-> stage, todo |-> todo,
     target |-> target, rows |-> rows, status |-> status]

SetStage(j, x) == [j EXCEPT !.stage = x]
SetTodo(j, x) == [j EXCEPT !.todo = x]
SetTarget(j, x) == [j EXCEPT !.target = x]
SetRows(j, x) == [j EXCEPT !.rows = x]
SetStatus(j, x) == [j EXCEPT !.status = x]

\* One field changes and the others stay.
LEMMA FieldChanges ==
  ASSUME NEW a, NEW b, NEW c, NEW d, NEW e, NEW f, NEW g, NEW h, NEW i, NEW x
  PROVE  /\ SetStage(Fields(a, b, c, d, e, f, g, h, i), x) = Fields(a, b, c, d, x, f, g, h, i)
         /\ SetTodo(Fields(a, b, c, d, e, f, g, h, i), x) = Fields(a, b, c, d, e, x, g, h, i)
         /\ SetTarget(Fields(a, b, c, d, e, f, g, h, i), x) = Fields(a, b, c, d, e, f, x, h, i)
         /\ SetRows(Fields(a, b, c, d, e, f, g, h, i), x) = Fields(a, b, c, d, e, f, g, x, i)
         /\ SetStatus(Fields(a, b, c, d, e, f, g, h, i), x) = Fields(a, b, c, d, e, f, g, h, x)
  BY DEF Fields, SetStage, SetTodo, SetTarget, SetRows, SetStatus

\* A record with these fields is a job.
LEMMA MadeJob ==
  ASSUME NEW a, NEW b, NEW c, NEW d, NEW e, NEW f, NEW g, NEW h, NEW i,
         e \in {"find", "query", "done"}
  PROVE  JobOK(Fields(a, b, c, d, e, f, g, h, i))
<1> DEFINE j == Fields(a, b, c, d, e, f, g, h, i)
<1>1. /\ j.by = a /\ j.tool = b /\ j.text = c /\ j.opts = d /\ j.stage = e
      /\ j.todo = f /\ j.target = g /\ j.rows = h /\ j.status = i
  BY DEF Fields
<1>2. j = Fields(j.by, j.tool, j.text, j.opts, j.stage, j.todo, j.target, j.rows, j.status)
  BY <1>1, Zenon
<1> HIDE DEF j
<1>3. JobOK(j)
  BY <1>1, <1>2 DEF JobOK, Fields
<1> QED
  BY <1>3 DEF j

JobFields(j) ==
    j = Fields(j.by, j.tool, j.text, j.opts, j.stage, j.todo, j.target, j.rows, j.status)

\* A job is the record of its fields.
LEMMA JobHasFields ==
  ASSUME NEW j, JobOK(j)
  PROVE  JobFields(j)
  BY DEF JobOK, Fields, JobFields

\* A job with its fields changed in turn.
LEMMA ChangedJob ==
  ASSUME NEW j, JobFields(j), NEW x, NEW y, NEW z
  PROVE  /\ SetRows(SetStatus(SetStage(j, x), y), z) =
               Fields(j.by, j.tool, j.text, j.opts, x, j.todo, j.target, z, y)
         /\ SetStage(SetTodo(SetTarget(j, x), y), z) =
               Fields(j.by, j.tool, j.text, j.opts, z, y, x, j.rows, j.status)
         /\ SetStage(SetTarget(j, x), y) =
               Fields(j.by, j.tool, j.text, j.opts, y, j.todo, x, j.rows, j.status)
         /\ SetStage(SetTodo(SetRows(j, x), y), z) =
               Fields(j.by, j.tool, j.text, j.opts, z, y, j.target, x, j.status)
<1> DEFINE a == j.by
           b == j.tool
           c == j.text
           d == j.opts
           e == j.stage
           f == j.todo
           g == j.target
           h == j.rows
           i == j.status
<1> HIDE DEF a, b, c, d, e, f, g, h, i
<1>1. j = Fields(a, b, c, d, e, f, g, h, i)
  BY DEF JobFields, a, b, c, d, e, f, g, h, i
<1>2. SetRows(SetStatus(SetStage(j, x), y), z) = Fields(a, b, c, d, x, f, g, z, y)
  BY <1>1, FieldChanges
<1>3. SetStage(SetTodo(SetTarget(j, x), y), z) = Fields(a, b, c, d, z, y, x, h, i)
  BY <1>1, FieldChanges
<1>4. SetStage(SetTarget(j, x), y) = Fields(a, b, c, d, y, f, x, h, i)
  BY <1>1, FieldChanges
<1>5. SetStage(SetTodo(SetRows(j, x), y), z) = Fields(a, b, c, d, z, y, g, x, i)
  BY <1>1, FieldChanges
<1> QED
  BY <1>2, <1>3, <1>4, <1>5 DEF a, b, c, d, e, f, g, h, i

\* The job that Done makes, field by field.
LEMMA DoneFields ==
  ASSUME JobOK(job), NEW s, NEW r
  PROVE  Done(s, r) =
           Fields(job.by, job.tool, job.text, job.opts, "done", job.todo, job.target, r, s)
<1> DEFINE done == "done"
<1> HIDE DEF done
<1>1. Done(s, r) = [job EXCEPT !.stage = done, !.status = s, !.rows = r]
  BY Zenon DEF Done, done
<1>2. Done(s, r) = SetRows(SetStatus(SetStage(job, done), s), r)
  BY <1>1, Zenon DEF SetStage, SetTodo, SetRows, SetStatus
<1>3. SetRows(SetStatus(SetStage(job, done), s), r) =
      Fields(job.by, job.tool, job.text, job.opts, done, job.todo, job.target, r, s)
  BY ChangedJob, JobHasFields
<1> QED
  BY <1>2, <1>3 DEF done

\* The job that NextPart makes, field by field.
LEMMA PartFields ==
  ASSUME JobOK(job), NEW r
  PROVE  NextPart(r) = Fields(job.by, job.tool, job.text, job.opts,
                              IF Len(job.todo) = 1 THEN "done" ELSE "query",
                              Tail(job.todo), job.target, job.rows \cup r, job.status)
<1> DEFINE stage == IF Len(job.todo) = 1 THEN "done" ELSE "query"
           rows == job.rows \cup r
           todo == Tail(job.todo)
<1>1. NextPart(r) = [job EXCEPT !.rows = rows, !.todo = todo, !.stage = stage]
  BY Zenon DEF NextPart
<1> HIDE DEF stage, rows, todo
<1>2. NextPart(r) = SetStage(SetTodo(SetRows(job, rows), todo), stage)
  BY <1>1, Zenon DEF SetStage, SetTodo, SetRows, SetStatus
<1>3. SetStage(SetTodo(SetRows(job, rows), todo), stage) =
      Fields(job.by, job.tool, job.text, job.opts, stage, todo, job.target, rows, job.status)
  BY ChangedJob, JobHasFields
<1> QED
  BY <1>2, <1>3 DEF stage, rows, todo

\* A job that is done is one.
LEMMA DoneJob ==
  ASSUME JobOK(job), NEW s, NEW r
  PROVE  JobOK(Done(s, r))
  BY DoneFields, MadeJob

\* A job with one part less to do is one.
LEMMA PartJob ==
  ASSUME JobOK(job), NEW r
  PROVE  JobOK(NextPart(r))
<1> DEFINE stage == IF Len(job.todo) = 1 THEN "done" ELSE "query"
<1>1. stage \in {"find", "query", "done"}
  OBVIOUS
<1>2. NextPart(r) = Fields(job.by, job.tool, job.text, job.opts, stage, Tail(job.todo),
                           job.target, job.rows \cup r, job.status)
  BY PartFields
<1> HIDE DEF stage
<1> QED
  BY <1>1, <1>2, MadeJob

\* A step of a job leaves a job.
LEMMA SteppedJob ==
  ASSUME JobOK(job), JobStep
  PROVE  JobOK(job')
<1>1. CASE FindSymbols
  <2>1. PICK answer, found :
                             LET details == IF job.by = "cli" THEN CliDetails(found)
                                            ELSE McpDetails(found)
       IN  job' = CASE found = <<>> ->
                         Done(IF job.by = "cli" \/ job.tool = "symbol"
                              THEN "nothing" ELSE "error", {})
                    [] found # <<>> /\ job.tool = "symbol" ->
                         [job EXCEPT !.target = ToSet(found), !.todo = details,
                                     !.stage = IF details = <<>> THEN "done" ELSE "query"]
                    [] OTHER -> [job EXCEPT !.target = {found[1]}, !.stage = "query"]
    BY <1>1, Zenon DEF FindSymbols
  <2> DEFINE details == IF job.by = "cli" THEN CliDetails(found) ELSE McpDetails(found)
             stage == IF details = <<>> THEN "done" ELSE "query"
             status == IF job.by = "cli" \/ job.tool = "symbol" THEN "nothing" ELSE "error"
             seen == ToSet(found)
             first == {found[1]}
             query == "query"
  <2>2. stage \in {"find", "query", "done"} /\ query \in {"find", "query", "done"}
    OBVIOUS
  <2> HIDE DEF details
  <2>3. \/ job' = Done(status, {})
        \/ job' = [job EXCEPT !.target = seen, !.todo = details, !.stage = stage]
        \/ job' = [job EXCEPT !.target = first, !.stage = query]
    BY <2>1 DEF details
  <2> HIDE DEF stage, status, seen, first, query
  <2>4. JobOK([job EXCEPT !.target = seen, !.todo = details, !.stage = stage])
    <3> DEFINE next == SetStage(SetTodo(SetTarget(job, seen), details), stage)
    <3>1. next = [job EXCEPT !.target = seen, !.todo = details, !.stage = stage]
      BY Zenon DEF SetStage, SetTodo, SetTarget
    <3>2. next = Fields(job.by, job.tool, job.text, job.opts, stage, details, seen,
                        job.rows, job.status)
      BY ChangedJob, JobHasFields
    <3> HIDE DEF next
    <3>3. JobOK(next)
      BY <2>2, <3>2, MadeJob
    <3> QED
      BY <3>1, <3>3, Zenon
  <2>5. JobOK([job EXCEPT !.target = first, !.stage = query])
    <3> DEFINE next == SetStage(SetTarget(job, first), query)
    <3>1. next = [job EXCEPT !.target = first, !.stage = query]
      BY Zenon DEF SetStage, SetTarget
    <3>2. next = Fields(job.by, job.tool, job.text, job.opts, query, job.todo, first,
                        job.rows, job.status)
      BY ChangedJob, JobHasFields
    <3> HIDE DEF next
    <3>3. JobOK(next)
      BY <2>2, <3>2, MadeJob
    <3> QED
      BY <3>1, <3>3, Zenon
  <2>6. JobOK(Done(status, {}))
    BY DoneJob
  <2> QED
    BY <2>3, <2>4, <2>5, <2>6, Zenon
<1>2. CASE WalkCalls
  BY <1>2, DoneJob, Zenon DEF WalkCalls
<1>3. CASE QueryDetail
  BY <1>3, PartJob, Zenon DEF QueryDetail
<1>4. CASE QueryStat
  BY <1>4, PartJob, Zenon DEF QueryStat
<1>5. CASE QueryList
  BY <1>5, DoneJob, Zenon DEF QueryList
<1>6. CASE QueryFails
  BY <1>6, DoneJob, Zenon DEF QueryFails
<1>7. CASE RowsLost
  <2> DEFINE status == IF job.by = "cli" \/ job.tool = "symbol" THEN "nothing" ELSE "error"
  <2>1. \/ job' = Done(status, {})
        \/ job' = NextPart({})
        \/ job' = Done("ok", {})
    BY <1>7 DEF RowsLost
  <2> QED
    BY <2>1, DoneJob, PartJob, Zenon
<1> QED
  BY <1>1, <1>2, <1>3, <1>4, <1>5, <1>6, <1>7 DEF JobStep

\* The replies so far answer the requests among the first n messages, one by one.
AnsweredOf(in, n, out) ==
    LET requests == Kept(SubSeq(in, 1, n), Asking)
        replies == Kept(out, Identified)
    IN  /\ Len(replies) = Len(requests)
        /\ \A i \in 1 .. Len(replies) : replies[i].id = requests[i].id

\* The first messages of an inbox, when one is read and when one comes.
LEMMA SubSeqFacts ==
  ASSUME NEW A, NEW s \in Seq(A), NEW n \in 0 .. Len(s)
  PROVE  /\ SubSeq(s, 1, n) \in Seq(A)
         /\ n < Len(s) => SubSeq(s, 1, n + 1) = Append(SubSeq(s, 1, n), s[n + 1])
         /\ \A x \in A : SubSeq(Append(s, x), 1, n) = SubSeq(s, 1, n)
  OBVIOUS

\* One more reply to one more request, or none to none.
LEMMA OneMore ==
  ASSUME NEW in \in Seq(Messages), NEW out \in Seq(Replies), NEW n \in 0 .. Len(in) - 1,
         NEW more \in Seq(Replies),
         AnsweredOf(in, n, out),
         \/ in[n + 1] \notin Asking /\ more = out
         \/ in[n + 1] \notin Asking /\ \E r \in Replies \ Identified : more = Append(out, r)
         \/ /\ in[n + 1] \in Asking
            /\ \E r \in Identified : more = Append(out, r) /\ r.id = in[n + 1].id
  PROVE  AnsweredOf(in, n + 1, more)
<1> DEFINE m == in[n + 1]
           s == SubSeq(in, 1, n)
           q == Kept(s, Asking)
           p == Kept(out, Identified)
           q1 == Kept(SubSeq(in, 1, n + 1), Asking)
           p1 == Kept(more, Identified)
<1>1. m \in Messages /\ s \in Seq(Messages) /\ SubSeq(in, 1, n + 1) = Append(s, m)
  BY SubSeqFacts
<1> HIDE DEF m, s
<1>2. q \in Seq(Messages) /\ p \in Seq(Replies)
  BY <1>1, KeptFacts
<1>3. q1 = IF m \in Asking THEN Append(q, m) ELSE q
  <2>1. Kept(Append(s, m), Asking) = IF m \in Asking THEN Append(Kept(s, Asking), m) ELSE Kept(s, Asking)
    BY <1>1, KeptAppend
  <2> QED
    BY ONLY <1>1, <2>1
<1>4. Identified \subseteq Replies
  BY DEF Identified, Replies
<1>5. \A r \in Replies : Kept(Append(out, r), Identified) = IF r \in Identified THEN Append(p, r) ELSE p
  BY KeptAppend
<1>6. Len(p) = Len(q) /\ \A i \in 1 .. Len(p) : p[i].id = q[i].id
  BY DEF s, AnsweredOf
<1>7. \/ m \notin Asking /\ p1 = p
      \/ m \in Asking /\ \E r \in Identified : p1 = Append(p, r) /\ r.id = m.id
  <2>1. CASE m \notin Asking /\ more = out
    BY <2>1
  <2>2. CASE m \notin Asking /\ \E r \in Replies \ Identified : more = Append(out, r)
    BY <1>5, <2>2
  <2>3. CASE m \in Asking /\ \E r \in Identified : more = Append(out, r) /\ r.id = m.id
    BY <1>4, <1>5, <2>3
  <2> QED
    BY <2>1, <2>2, <2>3 DEF m
<1> HIDE DEF q, p, q1, p1
<1>8. CASE m \notin Asking
  <2>1. q1 = q /\ p1 = p
    BY <1>3, <1>7, <1>8
  <2> QED
    BY <1>6, <2>1 DEF q1, p1, AnsweredOf
<1>9. CASE m \in Asking
  <2>1. PICK r \in Identified : p1 = Append(p, r) /\ r.id = m.id
    BY <1>7, <1>9
  <2>2. q1 = Append(q, m)
    BY <1>3, <1>9
  <2>3. /\ Len(p1) = Len(p) + 1 /\ p1[Len(p) + 1] = r /\ \A i \in 1 .. Len(p) : p1[i] = p[i]
        /\ Len(q1) = Len(q) + 1 /\ q1[Len(q) + 1] = m /\ \A i \in 1 .. Len(q) : q1[i] = q[i]
        /\ Len(p) \in Nat
    BY <1>1, <1>2, <1>4, <2>1, <2>2
  <2>4. Len(p1) = Len(q1)
    BY <1>6, <2>3
  <2>5. ASSUME NEW i \in 1 .. Len(p1) PROVE p1[i].id = q1[i].id
    <3>1. i \in 1 .. Len(p) \/ i = Len(p) + 1
      BY <2>3
    <3>2. CASE i \in 1 .. Len(p)
      BY <1>6, <2>3, <3>2
    <3>3. CASE i = Len(p) + 1
      BY <1>6, <2>1, <2>3, <3>3
    <3> QED
      BY <3>1, <3>2, <3>3
  <2> QED
    BY <2>4, <2>5 DEF p1, q1, AnsweredOf
<1> QED
  BY <1>8, <1>9

-----------------------------------------------------------------------------
\* The session, step by step.

\* A session starts with nothing asked and nothing answered.
LEMMA InitialSession ==
  Init => SessionInv /\ (server # "none" => AnsweredOf(inbox, Handled, outbox))
<1> SUFFICES ASSUME Init PROVE SessionInv /\ AnsweredOf(inbox, Handled, outbox)
  OBVIOUS
<1>1. job = NoJob /\ inbox = <<>> /\ pos = 0 /\ outbox = <<>> /\ Idle
  BY DEF Init, Idle, NoJob
<1>2. SessionInv
  BY <1>1 DEF SessionInv
<1>3. SubSeq(inbox, 1, Handled) = <<>> /\ outbox = <<>>
  BY <1>1 DEF Handled
<1>4. AnsweredOf(inbox, Handled, outbox)
  BY <1>3, KeptOfNone DEF AnsweredOf
<1> QED
  BY <1>2, <1>4

InOrder == server # "none" => AnsweredOf(inbox, Handled, outbox)

\* The messages that are dealt with: all that were read, but for the one in work.
LEMMA HandledFacts ==
  ASSUME SessionInv
  PROVE  /\ pos \in Nat /\ Len(inbox) \in Nat /\ pos <= Len(inbox)
         /\ server # "none" => Handled \in 0 .. Len(inbox)
         /\ Idle => Handled = pos
         /\ ~Idle => Handled = pos - 1
<1>1. inbox \in Seq(Messages) /\ pos \in 0 .. Len(inbox)
  BY DEF SessionInv
<1> QED
  BY <1>1 DEF Handled, SessionInv

\* A message that comes changes nothing of what was answered.
LEMMA SendStep ==
  ASSUME SessionInv, InOrder, NEW m \in Messages, Send(m)
  PROVE  (SessionInv /\ InOrder)'
<1>1. /\ server # "none" /\ inbox' = Append(inbox, m) /\ job' = job /\ pos' = pos
      /\ outbox' = outbox /\ server' = server
  BY DEF Send, jobVars
<1>2. /\ inbox \in Seq(Messages) /\ pos \in 0 .. Len(inbox) /\ Handled \in 0 .. Len(inbox)
      /\ Handled' = Handled /\ Idle' = Idle
  BY <1>1, HandledFacts DEF SessionInv, Handled, Idle
<1>3. inbox' \in Seq(Messages) /\ Len(inbox') = Len(inbox) + 1 /\ pos' \in 0 .. Len(inbox')
      /\ (pos > 0 => inbox'[pos] = inbox[pos])
  BY <1>1, <1>2
<1>4. SessionInv'
  BY <1>1, <1>2, <1>3 DEF SessionInv
<1>5. SubSeq(inbox', 1, Handled) = SubSeq(inbox, 1, Handled)
  BY <1>1, <1>2, SubSeqFacts
<1>6. AnsweredOf(inbox', Handled, outbox)
  BY <1>1, <1>5 DEF AnsweredOf, InOrder
<1> QED
  BY <1>1, <1>2, <1>4, <1>6 DEF InOrder

\* A message that is read gets its reply at once, or becomes a job, or needs none.
LEMMA ReadStep ==
  ASSUME SessionInv, InOrder, ReadMessage
  PROVE  (SessionInv /\ InOrder)'
<1> DEFINE m == inbox[pos + 1]
<1>1. /\ server = "up" /\ Idle /\ pos < Len(inbox) /\ pos' = pos + 1 /\ inbox' = inbox
      /\ \/ m.framing = "broken" /\ server' = "stopped" /\ job' = job /\ outbox' = outbox
         \/ /\ m.framing = "other" \/ m.method \in Silent
            /\ job' = job /\ outbox' = outbox /\ server' = server
         \/ /\ m.framing \in {"line", "header"} /\ m.method = "tools/call"
            /\ Begin("mcp", m.tool, m.text, m.opts)
            /\ outbox' = outbox /\ server' = server
         \/ /\ m.framing \in {"line", "header"} /\ m.method \notin Silent
            /\ Reply(m.id, IF m.method \in Simple THEN "result" ELSE "error")
            /\ job' = job /\ server' = server
  BY DEF ReadMessage, jobVars
<1>2. /\ inbox \in Seq(Messages) /\ pos \in 0 .. Len(inbox) - 1 /\ m \in Messages
      /\ Len(inbox) \in Nat /\ Handled = pos /\ job = NoJob /\ pos + 1 \in 0 .. Len(inbox)
      /\ outbox \in Seq(Replies) /\ AnsweredOf(inbox, pos, outbox)
  <2>1. inbox \in Seq(Messages) /\ pos \in 0 .. Len(inbox) /\ outbox \in Seq(Replies)
    BY DEF SessionInv
  <2>2. AnsweredOf(inbox, Handled, outbox) /\ Handled = pos /\ job = NoJob
    BY <1>1, HandledFacts, IdleMeansNoJob DEF InOrder
  <2> QED
    BY <1>1, <2>1, <2>2
<1> HIDE DEF m
<1>3. CASE /\ m.framing \in {"line", "header"} /\ m.method = "tools/call"
           /\ Begin("mcp", m.tool, m.text, m.opts)
           /\ outbox' = outbox /\ server' = server
  <2>1. JobOK(job')
    BY <1>3, BegunJob
  <2>2. ~Idle' /\ Handled' = pos
    <3>1. ~Idle'
      BY <2>1, JobNotIdle DEF Idle
    <3> QED
      BY <1>1, <1>2, <3>1 DEF Handled
  <2>3. SessionInv'
    BY <1>1, <1>2, <1>3, <2>1 DEF SessionInv, m
  <2> QED
    BY <1>1, <1>2, <1>3, <2>2, <2>3 DEF InOrder
<1>4. ASSUME job' = job, server' \in {"up", "stopped"}, outbox' \in Seq(Replies),
             \/ m \notin Asking /\ outbox' = outbox
             \/ m \notin Asking /\ \E r \in Replies \ Identified : outbox' = Append(outbox, r)
             \/ m \in Asking /\ \E r \in Identified : outbox' = Append(outbox, r) /\ r.id = m.id
      PROVE  (SessionInv /\ InOrder)'
  <2>1. Idle' /\ Handled' = pos + 1
    BY <1>1, <1>4 DEF Idle, Handled
  <2>2. SessionInv'
    BY <1>1, <1>2, <1>4, <2>1 DEF SessionInv
  <2> DEFINE out == outbox'
  <2> HIDE DEF out
  <2>3. /\ out \in Seq(Replies)
        /\ \/ m \notin Asking /\ out = outbox
           \/ m \notin Asking /\ \E r \in Replies \ Identified : out = Append(outbox, r)
           \/ m \in Asking /\ \E r \in Identified : out = Append(outbox, r) /\ r.id = m.id
    BY <1>4 DEF out
  <2>4. AnsweredOf(inbox, pos + 1, out)
    BY <1>2, <2>3, OneMore DEF m
  <2> QED
    BY <1>1, <2>1, <2>2, <2>4 DEF InOrder, out
<1>5. CASE m.framing = "broken" /\ server' = "stopped" /\ job' = job /\ outbox' = outbox
  <2>1. m \notin Asking
    BY <1>5 DEF Asking
  <2> QED
    BY <1>2, <1>4, <1>5, <2>1
<1>6. CASE /\ m.framing = "other" \/ m.method \in Silent
           /\ job' = job /\ outbox' = outbox /\ server' = server
  <2>1. m \notin Asking
    BY <1>6 DEF Asking
  <2> QED
    BY <1>1, <1>2, <1>4, <1>6, <2>1
<1>7. CASE /\ m.framing \in {"line", "header"} /\ m.method \notin Silent
           /\ Reply(m.id, IF m.method \in Simple THEN "result" ELSE "error")
           /\ job' = job /\ server' = server
  <2> DEFINE kind == IF m.method \in Simple THEN "result" ELSE "error"
             r == [id |-> m.id, kind |-> kind]
  <2>1. kind \in {"result", "error", "toolError"}
    OBVIOUS
  <2>2. outbox' = Append(outbox, r)
    BY <1>7 DEF Reply
  <2> HIDE DEF kind
  <2>3. r \in Replies /\ r.id = m.id /\ (r \in Identified <=> m.id # NoId)
    BY <1>2, <2>1 DEF Replies, Identified
  <2>4. m \in Asking <=> m.id # NoId
    BY <1>2, <1>7 DEF Asking
  <2> HIDE DEF r
  <2>5. outbox' \in Seq(Replies)
    BY <1>2, <2>2, <2>3
  <2>6. CASE m.id = NoId
    BY <1>1, <1>4, <1>7, <2>2, <2>3, <2>4, <2>5, <2>6
  <2>7. CASE m.id # NoId
    BY <1>1, <1>4, <1>7, <2>2, <2>3, <2>4, <2>5, <2>7
  <2> QED
    BY <2>6, <2>7
<1> QED
  BY <1>1, <1>3, <1>5, <1>6, <1>7 DEF m

\* A job works without touching the session.
LEMMA WorkStep ==
  ASSUME SessionInv, InOrder, JobStep, UNCHANGED sessionVars
  PROVE  (SessionInv /\ InOrder)'
<1>1. job.stage \in {"find", "query"}
  BY DEF JobStep, FindSymbols, WalkCalls, QueryDetail, QueryStat, QueryList, QueryFails, RowsLost
<1>2. ~Idle /\ JobOK(job)
  BY <1>1, IdleMeansNoJob DEF Idle
<1>3. JobOK(job')
  BY <1>2, SteppedJob
<1>4. ~Idle'
  BY <1>3, JobNotIdle DEF Idle
<1>5. inbox' = inbox /\ outbox' = outbox /\ pos' = pos /\ server' = server
  BY DEF sessionVars
<1>6. Handled' = Handled
  BY <1>2, <1>4, <1>5 DEF Handled
<1> QED
  BY <1>2, <1>3, <1>5, <1>6 DEF SessionInv, InOrder

\* The reply of a job answers the request it was started for.
LEMMA ReplyStep ==
  ASSUME SessionInv, InOrder, ReplyTool
  PROVE  (SessionInv /\ InOrder)'
<1> DEFINE kind == IF job.status = "error" THEN "toolError" ELSE "result"
           m == inbox[pos]
           r == [id |-> m.id, kind |-> kind]
<1>1. /\ server = "up" /\ job.stage = "done" /\ job' = NoJob /\ outbox' = Append(outbox, r)
      /\ inbox' = inbox /\ pos' = pos /\ server' = server
  BY DEF ReplyTool, Reply
<1>2. /\ inbox \in Seq(Messages) /\ pos \in 0 .. Len(inbox) /\ pos > 0 /\ m \in Messages
      /\ pos - 1 \in 0 .. Len(inbox) - 1 /\ (pos - 1) + 1 = pos
      /\ outbox \in Seq(Replies) /\ AnsweredOf(inbox, pos - 1, outbox)
      /\ m.framing \in {"line", "header"} /\ m.method = "tools/call"
  <2>1. ~Idle
    BY <1>1 DEF Idle
  <2>2. inbox \in Seq(Messages) /\ pos \in 0 .. Len(inbox) /\ outbox \in Seq(Replies) /\ pos > 0
        /\ m.framing \in {"line", "header"} /\ m.method = "tools/call"
    BY <1>1, <2>1 DEF SessionInv
  <2>3. AnsweredOf(inbox, Handled, outbox) /\ Handled = pos - 1
    BY <1>1, <2>1 DEF InOrder, Handled
  <2> HIDE DEF m, r
  <2>4. pos - 1 \in 0 .. Len(inbox) - 1 /\ (pos - 1) + 1 = pos /\ m \in Messages
    BY <2>2 DEF m
  <2> QED
    BY <2>2, <2>3, <2>4
<1>3. kind \in {"result", "error", "toolError"}
  OBVIOUS
<1> HIDE DEF kind, m
<1>4. r \in Replies /\ r.id = m.id /\ (r \in Identified <=> m.id # NoId)
  BY <1>2, <1>3 DEF Replies, Identified
<1>5. m \in Asking <=> m.id # NoId
  BY <1>2 DEF Asking, Silent
<1> HIDE DEF r
<1>6. Idle' /\ Handled' = pos
  BY <1>1 DEF Idle, Handled, NoJob
<1> DEFINE out == outbox'
<1>7. out \in Seq(Replies) /\ out = Append(outbox, r)
  BY <1>1, <1>2, <1>4
<1>8. SessionInv'
  BY <1>1, <1>2, <1>6, <1>7 DEF SessionInv
<1> HIDE DEF out
<1> DEFINE n == pos - 1
<1>9. n \in 0 .. Len(inbox) - 1 /\ n + 1 = pos /\ AnsweredOf(inbox, n, outbox) /\ inbox[n + 1] = m
  BY <1>2 DEF m
<1> HIDE DEF n
<1>10. AnsweredOf(inbox, n + 1, out)
  <2>1. CASE m.id = NoId
    <3>1. inbox[n + 1] \notin Asking /\ \E x \in Replies \ Identified : out = Append(outbox, x)
      BY <1>4, <1>5, <1>7, <1>9, <2>1
    <3> QED
      BY <1>2, <1>7, <1>9, <3>1, OneMore
  <2>2. CASE m.id # NoId
    <3>1. inbox[n + 1] \in Asking
          /\ \E x \in Identified : out = Append(outbox, x) /\ x.id = inbox[n + 1].id
      BY <1>4, <1>5, <1>7, <1>9, <2>2
    <3> QED
      BY <1>2, <1>7, <1>9, <3>1, OneMore
  <2> QED
    BY <2>1, <2>2
<1> QED
  BY <1>1, <1>6, <1>8, <1>9, <1>10 DEF InOrder, out

\* What the environment does touches no message.
LEMMA OtherSteps ==
  ASSUME SessionInv, InOrder,
         \/ Exit \/ Close \/ (\E r \in Requests : Type(r))
         \/ (\E g \in Commits : OtherCommits(g) /\ UNCHANGED sessionVars) \/ UNCHANGED vars
  PROVE  (SessionInv /\ InOrder)'
<1>1. CASE Exit
  BY <1>1 DEF Exit, SessionInv, InOrder, sessionVars, Idle, NoJob
<1>2. CASE Close
  BY <1>2 DEF Close, SessionInv, InOrder, jobVars, Idle, Handled
<1>3. CASE \E r \in Requests : Type(r)
  BY <1>3, BegunJob DEF Type, SessionInv, InOrder, sessionVars
<1>4. CASE (\E g \in Commits : OtherCommits(g) /\ UNCHANGED sessionVars) \/ UNCHANGED vars
  <2>1. job' = job /\ inbox' = inbox /\ outbox' = outbox /\ pos' = pos /\ server' = server
    BY <1>4 DEF OtherCommits, sessionVars, vars, jobVars
  <2> QED
    BY <2>1 DEF SessionInv, InOrder, Idle, Handled
<1> QED
  BY <1>1, <1>2, <1>3, <1>4

\* Sessions are well formed, and requests are answered so far.
THEOREM Serving == Spec => [](SessionInv /\ InOrder)
<1>1. Init => SessionInv /\ InOrder
  BY InitialSession DEF InOrder
<1>2. (SessionInv /\ InOrder) /\ [Next]_vars => (SessionInv /\ InOrder)'
  <2> SUFFICES ASSUME SessionInv, InOrder, [Next]_vars PROVE (SessionInv /\ InOrder)'
    OBVIOUS
  <2>1. CASE Next
    BY <2>1, SendStep, ReadStep, WorkStep, ReplyStep, OtherSteps DEF Next, Work
  <2>2. CASE UNCHANGED vars
    BY <2>2, OtherSteps
  <2> QED
    BY <2>1, <2>2
<1> QED
  BY <1>1, <1>2, PTL DEF Spec

\* Every request that has been dealt with has one reply, in order and under its id.
THEOREM Answering == Spec => []RequestsAnsweredInOrder
<1>1. SessionInv /\ InOrder => RequestsAnsweredInOrder
  <2> SUFFICES ASSUME SessionInv, InOrder, server # "none"
               PROVE  LET requests == Kept(SubSeq(inbox, 1, Handled), Asking)
                          replies == Kept(outbox, Identified)
                      IN  [i \in DOMAIN replies |-> replies[i].id] =
                          [i \in DOMAIN requests |-> requests[i].id]
    BY DEF RequestsAnsweredInOrder
  <2> DEFINE requests == Kept(SubSeq(inbox, 1, Handled), Asking)
             replies == Kept(outbox, Identified)
  <2>1. requests \in Seq(Messages) /\ replies \in Seq(Replies)
    BY HandledFacts, SubSeqFacts, KeptFacts DEF SessionInv
  <2>2. Len(replies) = Len(requests) /\ \A i \in 1 .. Len(replies) : replies[i].id = requests[i].id
    BY DEF InOrder, AnsweredOf
  <2> HIDE DEF requests, replies
  <2>3. DOMAIN replies = DOMAIN requests /\ \A i \in DOMAIN replies : replies[i].id = requests[i].id
    BY <2>1, <2>2
  <2>4. [i \in DOMAIN replies |-> replies[i].id] = [i \in DOMAIN requests |-> requests[i].id]
    BY <2>3
  <2> QED
    BY <2>4 DEF requests, replies
<1> QED
  BY <1>1, Serving, PTL

-----------------------------------------------------------------------------
\* Rows in order.

Rankable(rows, rank) ==
    /\ IsFiniteSet(rows)
    /\ \A a \in rows : a.id \in Int /\ rank[a] \in Int
    /\ \A a, b \in rows : a.id = b.id => a = b

\* How many rows come before one.
Place(rows, rank, b) == Cardinality({a \in rows : Before(rank, a, b)})

\* Rows are in a strict total order: by rank, then by id.
LEMMA BeforeIsOrder ==
  ASSUME NEW rows, NEW rank, Rankable(rows, rank)
  PROVE  /\ \A a \in rows : ~Before(rank, a, a)
         /\ \A a, b \in rows : a # b => Before(rank, a, b) \/ Before(rank, b, a)
         /\ \A a, b, c \in rows : Before(rank, a, b) /\ Before(rank, b, c) => Before(rank, a, c)
  BY DEF Rankable, Before

\* Every row has a place of its own.
LEMMA PlaceFacts ==
  ASSUME NEW rows, NEW rank, Rankable(rows, rank)
  PROVE  /\ Cardinality(rows) \in Nat
         /\ \A a \in rows : Place(rows, rank, a) \in 0 .. Cardinality(rows) - 1
         /\ \A a, b \in rows : Place(rows, rank, a) = Place(rows, rank, b) => a = b
<1> DEFINE Ahead(b) == {a \in rows : Before(rank, a, b)}
<1>0. IsFiniteSet(rows)
  BY DEF Rankable
<1>1. Cardinality(rows) \in Nat
  BY <1>0, FS_CardinalityType
<1>2. ASSUME NEW a \in rows
      PROVE  Place(rows, rank, a) \in 0 .. Cardinality(rows) - 1
  <2> DEFINE S == Ahead(a)
  <2>1. S \in SUBSET rows /\ a \notin S
    BY BeforeIsOrder
  <2>2. Place(rows, rank, a) = Cardinality(S)
    BY DEF Place
  <2> HIDE DEF S
  <2>3. IsFiniteSet(S) /\ Cardinality(S) <= Cardinality(rows)
        /\ (Cardinality(rows) = Cardinality(S) => rows = S)
    BY <1>0, <2>1, FS_Subset
  <2>4. Cardinality(S) \in Nat /\ Cardinality(S) # Cardinality(rows)
    BY <2>1, <2>3, FS_CardinalityType
  <2> QED
    BY <1>1, <2>2, <2>3, <2>4
<1>3. ASSUME NEW a \in rows, NEW b \in rows, Before(rank, a, b)
      PROVE  Place(rows, rank, a) < Place(rows, rank, b)
  <2> DEFINE S == Ahead(a)
             T == Ahead(b)
  <2>1. S \in SUBSET T /\ a \in T /\ a \notin S /\ T \in SUBSET rows
    BY <1>3, BeforeIsOrder
  <2>2. Place(rows, rank, a) = Cardinality(S) /\ Place(rows, rank, b) = Cardinality(T)
    BY DEF Place
  <2> HIDE DEF S, T
  <2>3. IsFiniteSet(T)
    BY <1>0, <2>1, FS_Subset
  <2>4. IsFiniteSet(S) /\ Cardinality(S) <= Cardinality(T)
        /\ (Cardinality(T) = Cardinality(S) => T = S)
    BY <2>1, <2>3, FS_Subset
  <2>5. Cardinality(S) \in Nat /\ Cardinality(T) \in Nat
    BY <2>3, <2>4, FS_CardinalityType
  <2> QED
    BY <2>1, <2>2, <2>4, <2>5
<1>4. ASSUME NEW a \in rows, NEW b \in rows, a # b
      PROVE  Place(rows, rank, a) # Place(rows, rank, b)
  <2>1. Place(rows, rank, a) \in Int /\ Place(rows, rank, b) \in Int
    BY <1>1, <1>2
  <2>2. CASE Before(rank, a, b)
    BY <1>3, <2>1, <2>2
  <2>3. CASE Before(rank, b, a)
    BY <1>3, <2>1, <2>3
  <2> QED
    BY <1>4, <2>2, <2>3, BeforeIsOrder
<1> QED
  BY <1>1, <1>2, <1>4

\* ... and every place has its row.
LEMMA NthFacts ==
  ASSUME NEW rows, NEW rank, Rankable(rows, rank)
  PROVE  /\ \A i \in 1 .. Cardinality(rows) :
              Nth(rows, rank, i) \in rows /\ Place(rows, rank, Nth(rows, rank, i)) = i - 1
         /\ \A a \in rows : \E i \in 1 .. Cardinality(rows) : Nth(rows, rank, i) = a
<1> DEFINE size == Cardinality(rows)
           T == 0 .. size - 1
           f == [a \in rows |-> Place(rows, rank, a)]
<1>1. size \in Nat /\ IsFiniteSet(rows)
  BY PlaceFacts DEF Rankable
<1>2. IsFiniteSet(T) /\ Cardinality(T) = size
  <2>1. 0 \in Int /\ size - 1 \in Int
    BY <1>1
  <2>2. IsFiniteSet(T) /\ Cardinality(T) = IF 0 > size - 1 THEN 0 ELSE (size - 1) - 0 + 1
    BY <2>1, FS_Interval
  <2> QED
    BY <1>1, <2>2
<1>3. f \in Injection(rows, T)
  BY PlaceFacts DEF Injection, IsInjective
<1> HIDE DEF T
<1>4. f \in Surjection(rows, T)
  BY <1>1, <1>2, <1>3, FS_Injection
<1>5. \A k \in T : \E a \in rows : Place(rows, rank, a) = k
  BY <1>4 DEF Surjection
<1> HIDE DEF f
<1>6. ASSUME NEW i \in 1 .. size
      PROVE  Nth(rows, rank, i) \in rows /\ Place(rows, rank, Nth(rows, rank, i)) = i - 1
  <2>1. i - 1 \in T
    BY <1>1 DEF T
  <2>2. \E a \in rows : Place(rows, rank, a) = i - 1
    BY <1>5, <2>1
  <2>3. Nth(rows, rank, i) = CHOOSE a \in rows : Place(rows, rank, a) = i - 1
    BY DEF Nth, Place
  <2> QED
    BY <2>2, <2>3
<1>7. ASSUME NEW a \in rows
      PROVE  \E i \in 1 .. size : Nth(rows, rank, i) = a
  <2> DEFINE i == Place(rows, rank, a) + 1
  <2>1. i \in 1 .. size /\ i - 1 = Place(rows, rank, a)
    BY <1>1, PlaceFacts
  <2> HIDE DEF i
  <2>2. Nth(rows, rank, i) \in rows /\ Place(rows, rank, Nth(rows, rank, i)) = i - 1
    BY <1>6, <2>1
  <2>3. Nth(rows, rank, i) = a
    BY <2>1, <2>2, PlaceFacts
  <2> QED
    BY <2>1, <2>3
<1> QED
  BY <1>6, <1>7

\* LIMIT n: the n rows that come first, all of them when there are no more.
LEMMA TakeFacts ==
  ASSUME NEW rows, NEW rank, Rankable(rows, rank), NEW n \in Nat
  PROVE  /\ Take(rows, rank, n) \in Seq(rows)
         /\ Len(Take(rows, rank, n)) = IF n < Cardinality(rows) THEN n ELSE Cardinality(rows)
         /\ \A i, j \in 1 .. Len(Take(rows, rank, n)) :
               Take(rows, rank, n)[i] = Take(rows, rank, n)[j] => i = j
         /\ Cardinality(rows) <= n => \A a : a \in ToSet(Take(rows, rank, n)) <=> a \in rows
<1> DEFINE size == Cardinality(rows)
           m == IF n < size THEN n ELSE size
           s == Take(rows, rank, n)
<1>1. size \in Nat /\ m \in Nat /\ m <= size
  BY PlaceFacts
<1>2. s = [i \in 1 .. m |-> Nth(rows, rank, i)]
  BY DEF Take
<1> HIDE DEF m, s, size
<1>3. \A i \in 1 .. m : s[i] = Nth(rows, rank, i) /\ i \in 1 .. size
  BY <1>1, <1>2
<1>4. \A i \in 1 .. m : s[i] \in rows /\ Place(rows, rank, s[i]) = i - 1
  BY <1>3, NthFacts DEF size
<1>5. s \in [1 .. m -> rows]
  BY <1>2, <1>4
<1>6. s \in Seq(rows) /\ Len(s) = m
  BY <1>1, <1>5
<1>7. \A i, j \in 1 .. m : s[i] = s[j] => i = j
  <2> TAKE i, j \in 1 .. m
  <2> HAVE s[i] = s[j]
  <2>1. i - 1 = j - 1
    BY <1>4
  <2> QED
    BY <1>1, <2>1
<1>8. ASSUME size <= n PROVE \A a : a \in ToSet(s) <=> a \in rows
  <2>1. m = size
    BY <1>1, <1>8 DEF m
  <2>2. \A a : a \in ToSet(s) <=> \E i \in 1 .. m : s[i] = a
    BY <1>6 DEF ToSet
  <2>3. \A a \in rows : \E i \in 1 .. m : s[i] = a
    BY <1>3, <2>1, NthFacts DEF size
  <2> QED
    BY <1>4, <2>2, <2>3
<1> QED
  BY <1>6, <1>7, <1>8 DEF m, s, size

-----------------------------------------------------------------------------
\* Walks of k steps of R among S.

Joins(S, R, a, b, k) ==
    \E p \in [0 .. k -> S] :
        /\ p[0] = a /\ p[k] = b
        /\ \A i \in 1 .. k : <<p[i - 1], p[i]>> \in R

\* A walk of no step stays.
LEMMA JoinsZero ==
  ASSUME NEW S, NEW R, NEW a, NEW b
  PROVE  Joins(S, R, a, b, 0) <=> a \in S /\ a = b
<1>1. ASSUME a \in S, a = b PROVE Joins(S, R, a, b, 0)
  <2> DEFINE p == [i \in 0 .. 0 |-> a]
  <2>1. p \in [0 .. 0 -> S] /\ p[0] = a /\ p[0] = b /\ \A i \in 1 .. 0 : <<p[i - 1], p[i]>> \in R
    BY <1>1
  <2> HIDE DEF p
  <2> QED
    BY <2>1 DEF Joins
<1>2. ASSUME Joins(S, R, a, b, 0) PROVE a \in S /\ a = b
  BY <1>2 DEF Joins
<1> QED
  BY <1>1, <1>2

\* A walk and a step more at its end.
LEMMA JoinsLast ==
  ASSUME NEW S, NEW R, NEW a, NEW b, NEW k \in Nat
  PROVE  Joins(S, R, a, b, k + 1) <=>
           \E c \in S : Joins(S, R, a, c, k) /\ <<c, b>> \in R /\ b \in S
<1>1. ASSUME Joins(S, R, a, b, k + 1)
      PROVE  \E c \in S : Joins(S, R, a, c, k) /\ <<c, b>> \in R /\ b \in S
  <2>1. PICK p \in [0 .. k + 1 -> S] :
           p[0] = a /\ p[k + 1] = b /\ \A i \in 1 .. k + 1 : <<p[i - 1], p[i]>> \in R
    BY <1>1 DEF Joins
  <2> DEFINE q == [i \in 0 .. k |-> p[i]]
  <2>2. q \in [0 .. k -> S] /\ q[0] = a /\ q[k] = p[k]
        /\ \A i \in 1 .. k : <<q[i - 1], q[i]>> \in R
    BY <2>1
  <2> HIDE DEF q
  <2>3. Joins(S, R, a, p[k], k)
    BY <2>2 DEF Joins
  <2>4. p[k] \in S /\ b \in S /\ <<p[k], b>> \in R
    <3>1. k + 1 \in 1 .. k + 1 /\ (k + 1) - 1 = k /\ k \in 0 .. k + 1 /\ k + 1 \in 0 .. k + 1
      OBVIOUS
    <3> QED
      BY <2>1, <3>1
  <2> QED
    BY <2>3, <2>4
<1>2. ASSUME NEW c \in S, Joins(S, R, a, c, k), <<c, b>> \in R, b \in S
      PROVE  Joins(S, R, a, b, k + 1)
  <2>1. PICK p \in [0 .. k -> S] :
           p[0] = a /\ p[k] = c /\ \A i \in 1 .. k : <<p[i - 1], p[i]>> \in R
    BY <1>2 DEF Joins
  <2> DEFINE q == [i \in 0 .. k + 1 |-> IF i = k + 1 THEN b ELSE p[i]]
  <2>2. q \in [0 .. k + 1 -> S] /\ q[0] = a /\ q[k + 1] = b /\ \A i \in 0 .. k : q[i] = p[i]
    BY <1>2, <2>1
  <2> HIDE DEF q
  <2>3. ASSUME NEW i \in 1 .. k + 1 PROVE <<q[i - 1], q[i]>> \in R
    <3>1. CASE i = k + 1
      BY <1>2, <2>1, <2>2, <3>1
    <3>2. CASE i # k + 1
      BY <2>1, <2>2, <3>2
    <3> QED
      BY <3>1, <3>2
  <2> QED
    BY <2>2, <2>3 DEF Joins
<1> QED
  BY <1>1, <1>2

\* ... and at its start.
LEMMA JoinsFirst ==
  ASSUME NEW S, NEW R, NEW a, NEW b, NEW k \in Nat
  PROVE  Joins(S, R, a, b, k + 1) <=>
           \E c \in S : Joins(S, R, c, b, k) /\ <<a, c>> \in R /\ a \in S
<1>1. ASSUME Joins(S, R, a, b, k + 1)
      PROVE  \E c \in S : Joins(S, R, c, b, k) /\ <<a, c>> \in R /\ a \in S
  <2>1. PICK p \in [0 .. k + 1 -> S] :
           p[0] = a /\ p[k + 1] = b /\ \A i \in 1 .. k + 1 : <<p[i - 1], p[i]>> \in R
    BY <1>1 DEF Joins
  <2> DEFINE q == [i \in 0 .. k |-> p[i + 1]]
  <2>2. q \in [0 .. k -> S] /\ q[0] = p[1] /\ q[k] = b
    BY <2>1
  <2>3. ASSUME NEW i \in 1 .. k PROVE <<q[i - 1], q[i]>> \in R
    <3>1. i + 1 \in 1 .. k + 1 /\ (i + 1) - 1 = i /\ (i - 1) + 1 = i /\ i - 1 \in 0 .. k
          /\ i \in 0 .. k
      OBVIOUS
    <3>2. <<p[i], p[i + 1]>> \in R
      BY <2>1, <3>1
    <3> QED
      BY <3>1, <3>2
  <2> HIDE DEF q
  <2>4. Joins(S, R, p[1], b, k)
    BY <2>2, <2>3 DEF Joins
  <2>5. p[1] \in S /\ a \in S /\ <<a, p[1]>> \in R
    <3>1. 1 \in 1 .. k + 1 /\ 1 - 1 = 0 /\ 0 \in 0 .. k + 1 /\ 1 \in 0 .. k + 1
      OBVIOUS
    <3> QED
      BY <2>1, <3>1
  <2> QED
    BY <2>4, <2>5
<1>2. ASSUME NEW c \in S, Joins(S, R, c, b, k), <<a, c>> \in R, a \in S
      PROVE  Joins(S, R, a, b, k + 1)
  <2>1. PICK p \in [0 .. k -> S] :
           p[0] = c /\ p[k] = b /\ \A i \in 1 .. k : <<p[i - 1], p[i]>> \in R
    BY <1>2 DEF Joins
  <2> DEFINE q == [i \in 0 .. k + 1 |-> IF i = 0 THEN a ELSE p[i - 1]]
  <2>2. q \in [0 .. k + 1 -> S] /\ q[0] = a /\ q[k + 1] = b
        /\ \A i \in 1 .. k + 1 : q[i] = p[i - 1]
    BY <1>2, <2>1
  <2> HIDE DEF q
  <2>3. ASSUME NEW i \in 1 .. k + 1 PROVE <<q[i - 1], q[i]>> \in R
    <3>1. CASE i = 1
      BY <1>2, <2>1, <2>2, <3>1
    <3>2. CASE i # 1
      <4>1. i - 1 \in 1 .. k /\ i - 1 \in 1 .. k + 1
        BY <3>2
      <4>2. q[i - 1] = p[(i - 1) - 1] /\ q[i] = p[i - 1]
        BY <2>2, <4>1
      <4> QED
        BY <2>1, <4>1, <4>2
    <3> QED
      BY <3>1, <3>2
  <2> QED
    BY <2>2, <2>3 DEF Joins
<1> QED
  BY <1>1, <1>2

IdsOf(g) == {n.id : n \in g.nodes}
Pairs(E) == {<<e.src, e.dst>> : e \in E}

\* Walk of GraphQueries, in these terms.
LEMMA WalkFacts ==
  ASSUME NEW g, NEW a, NEW b, NEW d
  PROVE  Walk(g, a, b, d) <=> \E k \in 1 .. d : Joins(IdsOf(g), Pairs(Edges(g, "CALLS")), a, b, k)
<1>1. \A x, y : <<x, y>> \in Pairs(Edges(g, "CALLS")) <=>
                \E e \in Edges(g, "CALLS") : e.src = x /\ e.dst = y
  BY DEF Pairs
<1> DEFINE S == IdsOf(g)
           R == Pairs(Edges(g, "CALLS"))
<1> DEFINE Along(k, p) == \A i \in 1 .. k : \E e \in Edges(g, "CALLS") : e.src = p[i - 1] /\ e.dst = p[i]
           InR(k, p) == \A i \in 1 .. k : <<p[i - 1], p[i]>> \in R
<1>3. \A k, p : Along(k, p) <=> InR(k, p)
  <2> HIDE DEF R
  <2> QED
    BY <1>1 DEF R
<1>4. \A k : Joins(S, R, a, b, k) <=> \E p \in [0 .. k -> S] : p[0] = a /\ p[k] = b /\ InR(k, p)
  BY Zenon DEF Joins
<1>5. Walk(g, a, b, d) <=>
        \E k \in 1 .. d : \E p \in [0 .. k -> S] : p[0] = a /\ p[k] = b /\ Along(k, p)
  BY Zenon DEF Walk, IdsOf
<1> HIDE DEF Along, InR
<1>6. \A k : (\E p \in [0 .. k -> S] : p[0] = a /\ p[k] = b /\ Along(k, p)) <=> Joins(S, R, a, b, k)
  BY ONLY <1>3, <1>4, Zenon
<1> HIDE DEF S, R
<1>7. Walk(g, a, b, d) <=> \E k \in 1 .. d : Joins(S, R, a, b, k)
  BY ONLY <1>5, <1>6, Zenon
<1> QED
  BY ONLY <1>7 DEF S, R

-----------------------------------------------------------------------------
\* The levels of call_chain.

Walkers(g) ==
    [id : IdsOf(g), path : Seq({n.name : n \in g.nodes}), line : {0} \cup {e.line : e \in g.edges}]
FirstLevel(g, id) == {[id |-> n.id, path |-> <<n.name>>, line |-> 0] : n \in Rows(g, id)}
NextCalled(g, L) ==
    {[id |-> t[3].id, path |-> Append(t[1].path, t[3].name), line |-> t[2].line] : t \in Called(g, L)}
NextCalling(g, L) ==
    {[id |-> t[3].id, path |-> <<t[3].name>> \o t[1].path, line |-> t[2].line] : t \in Calling(g, L)}

\* The first level is the symbol itself.
LEMMA FirstLevelFacts ==
  ASSUME NEW g, NEW a
  PROVE  /\ FirstLevel(g, a) \in SUBSET Walkers(g)
         /\ \A b : (\E w \in FirstLevel(g, a) : w.id = b) <=> b \in IdsOf(g) /\ b = a
<1>1. ASSUME NEW n \in Rows(g, a)
      PROVE  [id |-> n.id, path |-> <<n.name>>, line |-> 0] \in Walkers(g)
  <2>1. n \in g.nodes /\ n.id \in IdsOf(g) /\ n.name \in {m.name : m \in g.nodes}
    BY DEF Rows, IdsOf
  <2>2. <<n.name>> \in Seq({m.name : m \in g.nodes})
    BY <2>1
  <2> QED
    BY <2>1, <2>2 DEF Walkers
<1> DEFINE Made(n) == [id |-> n.id, path |-> <<n.name>>, line |-> 0]
<1>2. \A b : (\E w \in FirstLevel(g, a) : w.id = b) <=> \E n \in Rows(g, a) : n.id = b
  <2>1. FirstLevel(g, a) = {Made(n) : n \in Rows(g, a)}
    BY DEF FirstLevel
  <2>2. \A n : Made(n).id = n.id
    OBVIOUS
  <2> HIDE DEF Made
  <2> QED
    BY <2>1, <2>2
<1>3. \A b : (\E n \in Rows(g, a) : n.id = b) <=> b \in IdsOf(g) /\ b = a
  BY DEF Rows, IdsOf
<1>4. FirstLevel(g, a) \in SUBSET Walkers(g)
  BY <1>1 DEF FirstLevel
<1> QED
  BY <1>2, <1>3, <1>4

\* One level leads to the next by calls.
LEMMA NextCalledFacts ==
  ASSUME NEW g, NEW L \in SUBSET Walkers(g)
  PROVE  /\ NextCalled(g, L) \in SUBSET Walkers(g)
         /\ \A b : (\E w \in NextCalled(g, L) : w.id = b) <=>
                   \E w \in L : <<w.id, b>> \in Pairs(Edges(g, "CALLS")) /\ b \in IdsOf(g)
<1> DEFINE Names1 == {n.name : n \in g.nodes}
           Lines == {0} \cup {e.line : e \in g.edges}
           T == L \X Edges(g, "CALLS") \X g.nodes
           Made(t) == [id |-> t[3].id, path |-> Append(t[1].path, t[3].name), line |-> t[2].line]
<1>1. ASSUME NEW t \in Called(g, L) PROVE Made(t) \in Walkers(g)
  <2>1. t[1] \in Walkers(g) /\ t[2] \in g.edges /\ t[3] \in g.nodes
    BY DEF Called, Edges
  <2>2. t[1].path \in Seq(Names1) /\ t[3].name \in Names1 /\ t[3].id \in IdsOf(g)
        /\ t[2].line \in Lines
    BY <2>1 DEF Walkers, IdsOf
  <2> HIDE DEF Names1, Lines
  <2>3. Append(t[1].path, t[3].name) \in Seq(Names1)
    BY <2>2
  <2> QED
    BY <2>2, <2>3 DEF Walkers, Names1, Lines
<1>2. NextCalled(g, L) \in SUBSET Walkers(g)
  BY <1>1 DEF NextCalled
<1>3. ASSUME NEW b, NEW w \in NextCalled(g, L), w.id = b
      PROVE  \E v \in L : <<v.id, b>> \in Pairs(Edges(g, "CALLS")) /\ b \in IdsOf(g)
  <2>1. PICK t \in Called(g, L) : w = Made(t)
    BY <1>3 DEF NextCalled
  <2>2. /\ t[1] \in L /\ t[2] \in Edges(g, "CALLS") /\ t[3] \in g.nodes
        /\ t[2].src = t[1].id /\ t[2].dst = t[3].id /\ t[3].id = b
    BY <1>3, <2>1 DEF Called
  <2>3. <<t[1].id, b>> \in Pairs(Edges(g, "CALLS")) /\ b \in IdsOf(g)
    BY <2>2 DEF Pairs, IdsOf
  <2> QED
    BY <2>2, <2>3
<1>4. ASSUME NEW b, NEW v \in L, <<v.id, b>> \in Pairs(Edges(g, "CALLS")), b \in IdsOf(g)
      PROVE  \E w \in NextCalled(g, L) : w.id = b
  <2>1. PICK e \in Edges(g, "CALLS") : e.src = v.id /\ e.dst = b
    BY <1>4 DEF Pairs
  <2>2. PICK n \in g.nodes : n.id = b
    BY <1>4 DEF IdsOf
  <2> DEFINE t == <<v, e, n>>
  <2>3. t \in Called(g, L) /\ t[3].id = b
    BY <2>1, <2>2 DEF Called
  <2> HIDE DEF t
  <2>4. Made(t) \in NextCalled(g, L) /\ Made(t).id = b
    BY <2>3 DEF NextCalled
  <2> QED
    BY <2>4
<1> QED
  BY <1>2, <1>3, <1>4

\* The recursion of call_chain exists, and goes on level by level.
LEMMA CallLevelsFacts ==
  ASSUME NEW g, NEW a
  PROVE  /\ CallLevels(g, a)[0] = FirstLevel(g, a)
         /\ \A d \in Nat : /\ CallLevels(g, a)[d] \in SUBSET Walkers(g)
                           /\ CallLevels(g, a)[d + 1] = NextCalled(g, CallLevels(g, a)[d])
<1> DEFINE U == SUBSET Walkers(g)
           A == FirstLevel(g, a)
           F == [L \in U |-> NextCalled(g, L)]
           level[d \in Nat] ==
             IF d = 0
             THEN {[id |-> n.id, path |-> <<n.name>>, line |-> 0] : n \in Rows(g, a)}
             ELSE {[id |-> t[3].id, path |-> Append(t[1].path, t[3].name), line |-> t[2].line] :
                     t \in Called(g, level[d - 1])}
           Fits(f) == f = [d \in Nat |-> IF d = 0 THEN A ELSE NextCalled(g, f[d - 1])]
<1>1. A \in U /\ F \in [U -> U] /\ \A L \in U : F[L] = NextCalled(g, L)
  BY FirstLevelFacts, NextCalledFacts
<1> HIDE DEF U, A, F
<1>2. PICK h : Iterates(h, U, A, F)
  BY <1>1, IterationExists, Zenon
<1>3. h \in [Nat -> U] /\ h[0] = A /\ \A n \in Nat : h[n + 1] = NextCalled(g, h[n])
  BY <1>1, <1>2 DEF Iterates
<1>4. \A d \in Nat : h[d] = IF d = 0 THEN A ELSE NextCalled(g, h[d - 1])
  <2> TAKE d \in Nat
  <2>1. CASE d = 0
    BY <1>3, <2>1
  <2>2. CASE d # 0
    <3>1. d - 1 \in Nat /\ (d - 1) + 1 = d
      BY <2>2
    <3> QED
      BY <1>3, <2>2, <3>1
  <2> QED
    BY <2>1, <2>2
<1>5. h = [d \in Nat |-> h[d]]
  BY <1>3
<1>6. Fits(h)
  BY <1>4, <1>5, Zenon
<1>7. \E f : Fits(f)
  BY <1>6
<1>8. Fits(level)
  BY <1>7, Zenon DEF A, FirstLevel, NextCalled
<1>9. CallLevels(g, a) = level
  BY Zenon DEF CallLevels
<1> HIDE DEF level
<1> DEFINE K == [d \in Nat |-> IF d = 0 THEN A ELSE NextCalled(g, level[d - 1])]
<1>10. level = K
  BY <1>8, Zenon
<1>11. \A d \in Nat : K[d] = IF d = 0 THEN A ELSE NextCalled(g, level[d - 1])
  BY Zenon
<1> HIDE DEF K, Fits
<1>12. \A d \in Nat : level[d] = IF d = 0 THEN A ELSE NextCalled(g, level[d - 1])
  BY <1>10, <1>11, Zenon
<1>13. level[0] = A
  BY <1>12
<1>14. \A d \in Nat : level[d + 1] = NextCalled(g, level[d])
  <2> TAKE d \in Nat
  <2>1. d + 1 \in Nat /\ d + 1 # 0 /\ (d + 1) - 1 = d
    OBVIOUS
  <2> QED
    BY <1>12, <2>1
<1> DEFINE T == {d \in Nat : level[d] \in U}
<1>15. 0 \in T
  BY <1>1, <1>13
<1>16. \A d \in Nat : d \in T => d + 1 \in T
  <2> SUFFICES ASSUME NEW d \in Nat, level[d] \in U PROVE level[d + 1] \in U
    OBVIOUS
  <2> QED
    BY <1>14, NextCalledFacts DEF U
<1> HIDE DEF T
<1>17. \A d \in Nat : d \in T
  BY <1>15, <1>16, Induct
<1>18. \A d \in Nat : level[d] \in U
  BY <1>17 DEF T
<1> QED
  BY <1>9, <1>13, <1>14, <1>18 DEF U, A

\* The same for the levels of reverse_call_chain.
LEMMA NextCallingFacts ==
  ASSUME NEW g, NEW L \in SUBSET Walkers(g)
  PROVE  /\ NextCalling(g, L) \in SUBSET Walkers(g)
         /\ \A b : (\E w \in NextCalling(g, L) : w.id = b) <=>
                   \E w \in L : <<b, w.id>> \in Pairs(Edges(g, "CALLS")) /\ b \in IdsOf(g)
<1> DEFINE Names1 == {n.name : n \in g.nodes}
           Lines == {0} \cup {e.line : e \in g.edges}
           T == L \X Edges(g, "CALLS") \X g.nodes
           Made(t) == [id |-> t[3].id, path |-> <<t[3].name>> \o t[1].path, line |-> t[2].line]
<1>1. ASSUME NEW t \in Calling(g, L) PROVE Made(t) \in Walkers(g)
  <2>1. t[1] \in Walkers(g) /\ t[2] \in g.edges /\ t[3] \in g.nodes
    BY DEF Calling, Edges
  <2>2. t[1].path \in Seq(Names1) /\ t[3].name \in Names1 /\ t[3].id \in IdsOf(g)
        /\ t[2].line \in Lines
    BY <2>1 DEF Walkers, IdsOf
  <2> HIDE DEF Names1, Lines
  <2>3. <<t[3].name>> \o t[1].path \in Seq(Names1)
    BY <2>2
  <2> QED
    BY <2>2, <2>3 DEF Walkers, Names1, Lines
<1>2. NextCalling(g, L) \in SUBSET Walkers(g)
  BY <1>1 DEF NextCalling
<1>3. ASSUME NEW b, NEW w \in NextCalling(g, L), w.id = b
      PROVE  \E v \in L : <<b, v.id>> \in Pairs(Edges(g, "CALLS")) /\ b \in IdsOf(g)
  <2>1. PICK t \in Calling(g, L) : w = Made(t)
    BY <1>3 DEF NextCalling
  <2>2. /\ t[1] \in L /\ t[2] \in Edges(g, "CALLS") /\ t[3] \in g.nodes
        /\ t[2].dst = t[1].id /\ t[2].src = t[3].id /\ t[3].id = b
    BY <1>3, <2>1 DEF Calling
  <2>3. <<b, t[1].id>> \in Pairs(Edges(g, "CALLS")) /\ b \in IdsOf(g)
    BY <2>2 DEF Pairs, IdsOf
  <2> QED
    BY <2>2, <2>3
<1>4. ASSUME NEW b, NEW v \in L, <<b, v.id>> \in Pairs(Edges(g, "CALLS")), b \in IdsOf(g)
      PROVE  \E w \in NextCalling(g, L) : w.id = b
  <2>1. PICK e \in Edges(g, "CALLS") : e.src = b /\ e.dst = v.id
    BY <1>4 DEF Pairs
  <2>2. PICK n \in g.nodes : n.id = b
    BY <1>4 DEF IdsOf
  <2> DEFINE t == <<v, e, n>>
  <2>3. t \in Calling(g, L) /\ t[3].id = b
    BY <2>1, <2>2 DEF Calling
  <2> HIDE DEF t
  <2>4. Made(t) \in NextCalling(g, L) /\ Made(t).id = b
    BY <2>3 DEF NextCalling
  <2> QED
    BY <2>4
<1> QED
  BY <1>2, <1>3, <1>4

\* The recursion of reverse_call_chain, the same.
LEMMA CallerLevelsFacts ==
  ASSUME NEW g, NEW a
  PROVE  /\ CallerLevels(g, a)[0] = FirstLevel(g, a)
         /\ \A d \in Nat : /\ CallerLevels(g, a)[d] \in SUBSET Walkers(g)
                           /\ CallerLevels(g, a)[d + 1] = NextCalling(g, CallerLevels(g, a)[d])
<1> DEFINE U == SUBSET Walkers(g)
           A == FirstLevel(g, a)
           F == [L \in U |-> NextCalling(g, L)]
           level[d \in Nat] ==
             IF d = 0
             THEN {[id |-> n.id, path |-> <<n.name>>, line |-> 0] : n \in Rows(g, a)}
             ELSE {[id |-> t[3].id, path |-> <<t[3].name>> \o t[1].path, line |-> t[2].line] :
                     t \in Calling(g, level[d - 1])}
           Fits(f) == f = [d \in Nat |-> IF d = 0 THEN A ELSE NextCalling(g, f[d - 1])]
<1>1. A \in U /\ F \in [U -> U] /\ \A L \in U : F[L] = NextCalling(g, L)
  BY FirstLevelFacts, NextCallingFacts
<1> HIDE DEF U, A, F
<1>2. PICK h : Iterates(h, U, A, F)
  BY <1>1, IterationExists, Zenon
<1>3. h \in [Nat -> U] /\ h[0] = A /\ \A n \in Nat : h[n + 1] = NextCalling(g, h[n])
  BY <1>1, <1>2 DEF Iterates
<1>4. \A d \in Nat : h[d] = IF d = 0 THEN A ELSE NextCalling(g, h[d - 1])
  <2> TAKE d \in Nat
  <2>1. CASE d = 0
    BY <1>3, <2>1
  <2>2. CASE d # 0
    <3>1. d - 1 \in Nat /\ (d - 1) + 1 = d
      BY <2>2
    <3> QED
      BY <1>3, <2>2, <3>1
  <2> QED
    BY <2>1, <2>2
<1>5. h = [d \in Nat |-> h[d]]
  BY <1>3
<1>6. Fits(h)
  BY <1>4, <1>5, Zenon
<1>7. \E f : Fits(f)
  BY <1>6
<1>8. Fits(level)
  BY <1>7, Zenon DEF A, FirstLevel, NextCalling
<1>9. CallerLevels(g, a) = level
  BY Zenon DEF CallerLevels
<1> HIDE DEF level
<1> DEFINE K == [d \in Nat |-> IF d = 0 THEN A ELSE NextCalling(g, level[d - 1])]
<1>10. level = K
  BY <1>8, Zenon
<1>11. \A d \in Nat : K[d] = IF d = 0 THEN A ELSE NextCalling(g, level[d - 1])
  BY Zenon
<1> HIDE DEF K, Fits
<1>12. \A d \in Nat : level[d] = IF d = 0 THEN A ELSE NextCalling(g, level[d - 1])
  BY <1>10, <1>11, Zenon
<1>13. level[0] = A
  BY <1>12
<1>14. \A d \in Nat : level[d + 1] = NextCalling(g, level[d])
  <2> TAKE d \in Nat
  <2>1. d + 1 \in Nat /\ d + 1 # 0 /\ (d + 1) - 1 = d
    OBVIOUS
  <2> QED
    BY <1>12, <2>1
<1> DEFINE T == {d \in Nat : level[d] \in U}
<1>15. 0 \in T
  BY <1>1, <1>13
<1>16. \A d \in Nat : d \in T => d + 1 \in T
  <2> SUFFICES ASSUME NEW d \in Nat, level[d] \in U PROVE level[d + 1] \in U
    OBVIOUS
  <2> QED
    BY <1>14, NextCallingFacts DEF U
<1> HIDE DEF T
<1>17. \A d \in Nat : d \in T
  BY <1>15, <1>16, Induct
<1>18. \A d \in Nat : level[d] \in U
  BY <1>17 DEF T
<1> QED
  BY <1>9, <1>13, <1>14, <1>18 DEF U, A

-----------------------------------------------------------------------------
\* The levels hold what walks of that many calls lead to.

\* A walk is among S, its ends too.
LEMMA JoinsEnds ==
  ASSUME NEW S, NEW R, NEW a, NEW b, NEW k \in Nat, Joins(S, R, a, b, k)
  PROVE  a \in S /\ b \in S
<1>1. PICK p \in [0 .. k -> S] : p[0] = a /\ p[k] = b
  BY DEF Joins
<1> QED
  BY <1>1

\* Calls that lead from one to the other join symbols of the graph.
LEMMA WalksEndInNodes ==
  ASSUME NEW g, NEW a, NEW b, NEW d \in Nat, Walk(g, a, b, d)
  PROVE  a \in IdsOf(g) /\ b \in IdsOf(g)
<1> DEFINE S == IdsOf(g)
           R == Pairs(Edges(g, "CALLS"))
<1>1. PICK k \in 1 .. d : Joins(S, R, a, b, k)
  BY WalkFacts
<1> HIDE DEF R
<1> QED
  BY <1>1, JoinsEnds

\* Level k of call_chain has what k calls lead to.
LEMMA CallLevelsReach ==
  ASSUME NEW g, NEW a
  PROVE  \A k \in Nat : \A b : b \in Ends(CallLevels(g, a)[k]) <=>
           Joins(IdsOf(g), Pairs(Edges(g, "CALLS")), a, b, k)
<1> DEFINE S == IdsOf(g)
           R == Pairs(Edges(g, "CALLS"))
           level == CallLevels(g, a)
           T == {k \in Nat : \A b : b \in Ends(level[k]) <=> Joins(S, R, a, b, k)}
<1>1. level[0] = FirstLevel(g, a)
      /\ \A d \in Nat : level[d] \in SUBSET Walkers(g) /\ level[d + 1] = NextCalled(g, level[d])
  BY CallLevelsFacts
<1> HIDE DEF level
<1>2. 0 \in T
  <2>1. \A b : b \in Ends(level[0]) <=> b \in S /\ b = a
    BY <1>1, FirstLevelFacts DEF Ends
  <2> HIDE DEF S, R
  <2>2. \A b : b \in Ends(level[0]) <=> Joins(S, R, a, b, 0)
    BY <2>1, JoinsZero
  <2> QED
    BY <2>2
<1>3. ASSUME NEW k \in Nat, k \in T PROVE k + 1 \in T
  <2> DEFINE L == level[k]
  <2>1. L \in SUBSET Walkers(g) /\ level[k + 1] = NextCalled(g, L)
        /\ \A b : b \in Ends(L) <=> Joins(S, R, a, b, k)
    BY <1>1, <1>3
  <2> HIDE DEF L
  <2>2. \A b : (\E w \in NextCalled(g, L) : w.id = b) <=>
               \E w \in L : <<w.id, b>> \in R /\ b \in S
    BY <2>1, NextCalledFacts
  <2> HIDE DEF S, R
  <2>3. \A b : b \in Ends(level[k + 1]) <=> \E c : c \in Ends(L) /\ <<c, b>> \in R /\ b \in S
    BY <2>1, <2>2 DEF Ends
  <2>4. \A b : Joins(S, R, a, b, k + 1) <=>
               \E c \in S : Joins(S, R, a, c, k) /\ <<c, b>> \in R /\ b \in S
    BY JoinsLast
  <2>5. \A c : Joins(S, R, a, c, k) => c \in S
    BY JoinsEnds
  <2>6. \A b : b \in Ends(level[k + 1]) <=> Joins(S, R, a, b, k + 1)
    BY ONLY <2>1, <2>3, <2>4, <2>5
  <2> QED
    BY <2>6
<1> HIDE DEF T
<1>4. \A k \in Nat : k \in T
  BY <1>2, <1>3, Induct
<1> QED
  BY <1>4 DEF T, level

\* Level k of reverse_call_chain has what k calls lead from.
LEMMA CallerLevelsReach ==
  ASSUME NEW g, NEW b
  PROVE  \A k \in Nat : \A a : a \in Ends(CallerLevels(g, b)[k]) <=>
           Joins(IdsOf(g), Pairs(Edges(g, "CALLS")), a, b, k)
<1> DEFINE S == IdsOf(g)
           R == Pairs(Edges(g, "CALLS"))
           level == CallerLevels(g, b)
           T == {k \in Nat : \A a : a \in Ends(level[k]) <=> Joins(S, R, a, b, k)}
<1>1. level[0] = FirstLevel(g, b)
      /\ \A d \in Nat : level[d] \in SUBSET Walkers(g) /\ level[d + 1] = NextCalling(g, level[d])
  BY CallerLevelsFacts
<1> HIDE DEF level
<1>2. 0 \in T
  <2>1. \A a : a \in Ends(level[0]) <=> a \in S /\ a = b
    BY <1>1, FirstLevelFacts DEF Ends
  <2> HIDE DEF S, R
  <2>2. \A a : a \in Ends(level[0]) <=> Joins(S, R, a, b, 0)
    BY <2>1, JoinsZero
  <2> QED
    BY <2>2
<1>3. ASSUME NEW k \in Nat, k \in T PROVE k + 1 \in T
  <2> DEFINE L == level[k]
  <2>1. L \in SUBSET Walkers(g) /\ level[k + 1] = NextCalling(g, L)
        /\ \A a : a \in Ends(L) <=> Joins(S, R, a, b, k)
    BY <1>1, <1>3
  <2> HIDE DEF L
  <2>2. \A a : (\E w \in NextCalling(g, L) : w.id = a) <=>
               \E w \in L : <<a, w.id>> \in R /\ a \in S
    BY <2>1, NextCallingFacts
  <2> HIDE DEF S, R
  <2>3. \A a : a \in Ends(level[k + 1]) <=> \E c : c \in Ends(L) /\ <<a, c>> \in R /\ a \in S
    <3>1. \A a : a \in Ends(level[k + 1]) <=> \E w \in L : <<a, w.id>> \in R /\ a \in S
      BY <2>1, <2>2 DEF Ends
    <3>2. \A c : c \in Ends(L) <=> \E w \in L : w.id = c
      BY DEF Ends
    <3> QED
      BY ONLY <3>1, <3>2, Zenon
  <2>4. \A a : Joins(S, R, a, b, k + 1) <=>
               \E c \in S : Joins(S, R, c, b, k) /\ <<a, c>> \in R /\ a \in S
    BY JoinsFirst
  <2>5. \A c : Joins(S, R, c, b, k) => c \in S
    BY JoinsEnds
  <2>6. \A a : a \in Ends(level[k + 1]) <=> Joins(S, R, a, b, k + 1)
    BY ONLY <2>1, <2>3, <2>4, <2>5
  <2> QED
    BY <2>6
<1> HIDE DEF T
<1>4. \A k \in Nat : k \in T
  BY <1>2, <1>3, Induct
<1> QED
  BY <1>4 DEF T, level

\* The rows of both traversals name the symbols a walk of 1..d calls leads to, or from.
LEMMA TraversalFacts ==
  ASSUME NEW g, NEW a, NEW b, NEW d \in Nat
  PROVE  /\ b \in Ends(call_chain(g, a, d)) <=> Walk(g, a, b, d)
         /\ a \in Ends(reverse_call_chain(g, b, d)) <=> Walk(g, a, b, d)
<1> DEFINE Row(w, k) == [id |-> w.id, depth |-> k, path |-> w.path, line |-> w.line]
           S == IdsOf(g)
           R == Pairs(Edges(g, "CALLS"))
           down == CallLevels(g, a)
           up == CallerLevels(g, b)
<1>1. \A w, k : Row(w, k).id = w.id
  OBVIOUS
<1>2. /\ call_chain(g, a, d) = UNION {{Row(w, k) : w \in down[k]} : k \in 1 .. d}
      /\ reverse_call_chain(g, b, d) = UNION {{Row(w, k) : w \in up[k]} : k \in 1 .. d}
  BY DEF call_chain, reverse_call_chain
<1> HIDE DEF Row
<1>3. /\ b \in Ends(call_chain(g, a, d)) <=> \E k \in 1 .. d : b \in Ends(down[k])
      /\ a \in Ends(reverse_call_chain(g, b, d)) <=> \E k \in 1 .. d : a \in Ends(up[k])
  BY <1>1, <1>2 DEF Ends
<1>4. \A k \in 1 .. d : /\ b \in Ends(down[k]) <=> Joins(S, R, a, b, k)
                        /\ a \in Ends(up[k]) <=> Joins(S, R, a, b, k)
  BY CallLevelsReach, CallerLevelsReach
<1>5. Walk(g, a, b, d) <=> \E k \in 1 .. d : Joins(S, R, a, b, k)
  BY WalkFacts
<1> QED
  BY ONLY <1>3, <1>4, <1>5

\* Both traversals are exact on every graph, to every depth.
LEMMA WalksExact ==
  ASSUME NEW g, NEW d \in Nat
  PROVE  WalksAreExact(g, d)
<1>1. \A a, b : /\ (\E r \in call_chain(g, a, d) : r.id = b) <=> b \in Ends(call_chain(g, a, d))
                /\ (\E r \in reverse_call_chain(g, b, d) : r.id = a) <=>
                      a \in Ends(reverse_call_chain(g, b, d))
  BY DEF Ends
<1> QED
  BY <1>1, TraversalFacts DEF WalksAreExact

-----------------------------------------------------------------------------
\* Chains of IMPLEMENTS.

\* A walk of one step is a pair of R.
LEMMA JoinsOne ==
  ASSUME NEW S, NEW R, NEW a, NEW b
  PROVE  Joins(S, R, a, b, 1) <=> a \in S /\ b \in S /\ <<a, b>> \in R
<1>1. Joins(S, R, a, b, 0 + 1) <=> \E c \in S : Joins(S, R, a, c, 0) /\ <<c, b>> \in R /\ b \in S
  BY JoinsLast
<1>2. 0 + 1 = 1
  OBVIOUS
<1>3. Joins(S, R, a, b, 1) <=> \E c \in S : Joins(S, R, a, c, 0) /\ <<c, b>> \in R /\ b \in S
  BY ONLY <1>1, <1>2, Zenon
<1>4. \A c : Joins(S, R, a, c, 0) <=> a \in S /\ a = c
  BY JoinsZero
<1> QED
  BY ONLY <1>3, <1>4, Zenon

Traits(g, trait) == {n.id : n \in {m \in g.nodes : IsTrait(m, trait)}}
NextImpl(g, L) == {e.src : e \in {x \in Edges(g, "IMPLEMENTS") : x.dst \in L}}

\* The recursion of find_implementations exists.
LEMMA ImplLevelsFacts ==
  ASSUME NEW g, NEW trait
  PROVE  LET level == ImplLevels(g, trait)
         IN  /\ level[0] = NextImpl(g, Traits(g, trait))
             /\ \A d \in Nat : level[d + 1] = NextImpl(g, level[d])
<1> DEFINE U == SUBSET {e.src : e \in g.edges}
           impl == Edges(g, "IMPLEMENTS")
           A == NextImpl(g, Traits(g, trait))
           F == [L \in U |-> NextImpl(g, L)]
           level[d \in Nat] ==
             IF d = 0
             THEN {e.src : e \in {x \in impl : \E t \in Rows(g, x.dst) : IsTrait(t, trait)}}
             ELSE {e.src : e \in {x \in impl : x.dst \in level[d - 1]}}
           Fits(f) == f = [d \in Nat |-> IF d = 0 THEN A ELSE NextImpl(g, f[d - 1])]
<1>1. \A L : NextImpl(g, L) \in U
  BY DEF NextImpl, Edges
<1>2. A \in U /\ F \in [U -> U] /\ \A L \in U : F[L] = NextImpl(g, L)
  <2> HIDE DEF U
  <2> QED
    BY <1>1
<1>3. {e.src : e \in {x \in impl : \E t \in Rows(g, x.dst) : IsTrait(t, trait)}} = A
  <2>1. \A id : (\E t \in Rows(g, id) : IsTrait(t, trait)) <=> id \in Traits(g, trait)
    BY DEF Rows, Traits
  <2> QED
    BY <2>1 DEF NextImpl
<1> HIDE DEF U, A, F
<1>4. PICK h : Iterates(h, U, A, F)
  BY <1>2, IterationExists, Zenon
<1>5. h \in [Nat -> U] /\ h[0] = A /\ \A n \in Nat : h[n + 1] = NextImpl(g, h[n])
  BY <1>2, <1>4 DEF Iterates
<1>6. \A d \in Nat : h[d] = IF d = 0 THEN A ELSE NextImpl(g, h[d - 1])
  <2> TAKE d \in Nat
  <2>1. CASE d = 0
    BY <1>5, <2>1
  <2>2. CASE d # 0
    <3>1. d - 1 \in Nat /\ (d - 1) + 1 = d
      BY <2>2
    <3> QED
      BY <1>5, <2>2, <3>1
  <2> QED
    BY <2>1, <2>2
<1>7. h = [d \in Nat |-> h[d]]
  BY <1>5
<1>8. Fits(h)
  BY <1>6, <1>7, Zenon
<1>9. \E f : Fits(f)
  BY <1>8
<1> HIDE DEF Fits
<1>10. level = CHOOSE f : Fits(f)
  BY <1>3, Zenon DEF Fits, NextImpl
<1>11. Fits(level)
  BY <1>9, <1>10, Zenon
<1>12. ImplLevels(g, trait) = level
  BY Zenon DEF ImplLevels
<1> HIDE DEF level
<1> DEFINE K == [d \in Nat |-> IF d = 0 THEN A ELSE NextImpl(g, level[d - 1])]
<1>13. level = K
  BY <1>11, Zenon DEF Fits
<1>14. \A d \in Nat : K[d] = IF d = 0 THEN A ELSE NextImpl(g, level[d - 1])
  BY Zenon
<1> HIDE DEF K
<1>15. \A d \in Nat : level[d] = IF d = 0 THEN A ELSE NextImpl(g, level[d - 1])
  BY <1>13, <1>14, Zenon
<1>16. \A d \in Nat : level[d + 1] = NextImpl(g, level[d])
  <2> TAKE d \in Nat
  <2>1. d + 1 \in Nat /\ d + 1 # 0 /\ (d + 1) - 1 = d
    OBVIOUS
  <2> QED
    BY <1>15, <2>1
<1>17. level[0] = A
  BY <1>15
<1> QED
  BY <1>12, <1>16, <1>17, Zenon DEF A

\* Level k has what k + 1 edges IMPLEMENTS join with the trait.
LEMMA ImplLevelsReach ==
  ASSUME NEW g, GraphOK(g), NEW trait
  PROVE  \A k \in Nat : \A a : a \in ImplLevels(g, trait)[k] <=>
           \E c \in Traits(g, trait) : Joins(IdsOf(g), Pairs(Edges(g, "IMPLEMENTS")), a, c, k + 1)
<1> DEFINE S == IdsOf(g)
           R == Pairs(Edges(g, "IMPLEMENTS"))
           C == Traits(g, trait)
           level == ImplLevels(g, trait)
           T == {k \in Nat : \A a : a \in level[k] <=> \E c \in C : Joins(S, R, a, c, k + 1)}
<1>1. level[0] = NextImpl(g, C) /\ \A d \in Nat : level[d + 1] = NextImpl(g, level[d])
  BY ImplLevelsFacts, Zenon
<1>2. \A L, a : a \in NextImpl(g, L) <=> \E b \in L : <<a, b>> \in R
  <2>1. \A a, b : <<a, b>> \in R <=> \E e \in Edges(g, "IMPLEMENTS") : e.src = a /\ e.dst = b
    BY DEF Pairs
  <2>2. \A L, a : a \in NextImpl(g, L) <=>
                    \E e \in Edges(g, "IMPLEMENTS") : e.src = a /\ e.dst \in L
    BY DEF NextImpl
  <2> HIDE DEF R
  <2> SUFFICES ASSUME NEW L, NEW a
               PROVE  (\E e \in Edges(g, "IMPLEMENTS") : e.src = a /\ e.dst \in L) <=>
                      \E b \in L : <<a, b>> \in R
    BY <2>2
  <2>3. ASSUME NEW e \in Edges(g, "IMPLEMENTS"), e.src = a, e.dst \in L
        PROVE  \E b \in L : <<a, b>> \in R
    <3>1. <<a, e.dst>> \in R
      BY <2>1, <2>3
    <3> QED
      BY <2>3, <3>1
  <2>4. ASSUME NEW b \in L, <<a, b>> \in R
        PROVE  \E e \in Edges(g, "IMPLEMENTS") : e.src = a /\ e.dst \in L
    BY <2>1, <2>4
  <2> QED
    BY <2>3, <2>4
<1>3. \A a, b : <<a, b>> \in R => a \in S /\ b \in S
  BY DEF Pairs, Edges, GraphOK, IdsOf
<1> HIDE DEF S, R, C, level
<1>4. 0 \in T
  <2>1. \A a, c : Joins(S, R, a, c, 1) <=> a \in S /\ c \in S /\ <<a, c>> \in R
    BY JoinsOne
  <2>2. \A a : a \in level[0] <=> \E c \in C : Joins(S, R, a, c, 1)
    <3>1. \A a : a \in NextImpl(g, C) <=> \E b \in C : <<a, b>> \in R
      BY <1>2
    <3>2. \A a : a \in level[0] <=> \E b \in C : <<a, b>> \in R
      BY ONLY <1>1, <3>1
    <3> QED
      BY ONLY <1>3, <2>1, <3>2, Zenon
  <2>3. 0 + 1 = 1
    OBVIOUS
  <2>4. \A a : a \in level[0] <=> \E c \in C : Joins(S, R, a, c, 0 + 1)
    BY ONLY <2>2, <2>3, Zenon
  <2> QED
    BY <2>4
<1>5. ASSUME NEW k \in Nat, k \in T PROVE k + 1 \in T
  <2> DEFINE m == k + 1
  <2>1. \A a : a \in level[k] <=> \E c \in C : Joins(S, R, a, c, m)
    BY <1>5
  <2>2. m \in Nat /\ level[m] = NextImpl(g, level[k])
    BY <1>1
  <2> HIDE DEF m
  <2>3. \A a, c : Joins(S, R, a, c, m + 1) <=>
                    \E b \in S : Joins(S, R, b, c, m) /\ <<a, b>> \in R /\ a \in S
    BY <2>2, JoinsFirst
  <2>4. \A a : a \in level[m] <=> \E b \in level[k] : <<a, b>> \in R
    <3>1. \A a : a \in NextImpl(g, level[k]) <=> \E b \in level[k] : <<a, b>> \in R
      BY <1>2
    <3> QED
      BY ONLY <2>2, <3>1
  <2>5. \A a : a \in level[m] <=> \E c \in C : Joins(S, R, a, c, m + 1)
    BY ONLY <1>3, <2>1, <2>3, <2>4, Zenon
  <2> QED
    BY <2>2, <2>5 DEF m
<1> HIDE DEF T
<1>6. \A k \in Nat : k \in T
  BY <1>4, <1>5, Induct
<1> QED
  BY <1>6 DEF T, S, R, C, level

\* find_implementations names what a chain of 1 to MaxImpl edges joins with the trait.
LEMMA ImplementationFacts ==
  ASSUME NEW g, GraphOK(g), NEW trait, NEW a
  PROVE  a \in Ends(find_implementations(g, trait)) <=>
           \E k \in 1 .. MaxImpl : \E c \in Traits(g, trait) :
             Joins(IdsOf(g), Pairs(Edges(g, "IMPLEMENTS")), a, c, k)
<1> DEFINE S == IdsOf(g)
           R == Pairs(Edges(g, "IMPLEMENTS"))
           C == Traits(g, trait)
           level == ImplLevels(g, trait)
           Row(n, k) == [id |-> n.id, depth |-> k]
<1>1. find_implementations(g, trait) =
        UNION {{Row(n, k) : n \in {m \in g.nodes : m.id \in level[k - 1]}} : k \in 1 .. MaxImpl}
  BY DEF find_implementations
<1>2. \A n, k : Row(n, k).id = n.id
  OBVIOUS
<1> HIDE DEF Row, level
<1>3. a \in Ends(find_implementations(g, trait)) <=>
        a \in S /\ \E k \in 1 .. MaxImpl : a \in level[k - 1]
  BY <1>1, <1>2 DEF Ends, IdsOf
<1>4. \A k \in 1 .. MaxImpl : a \in level[k - 1] <=> \E c \in C : Joins(S, R, a, c, k)
  <2> TAKE k \in 1 .. MaxImpl
  <2>1. k - 1 \in Nat /\ (k - 1) + 1 = k
    BY QueriesAssumption
  <2>2. a \in level[k - 1] <=> \E c \in C : Joins(S, R, a, c, (k - 1) + 1)
    BY <2>1, ImplLevelsReach DEF level
  <2> QED
    BY ONLY <2>1, <2>2, Zenon
<1> HIDE DEF S, R, C
<1>5. \A k \in 1 .. MaxImpl : \A c : Joins(S, R, a, c, k) => a \in S
  <2> TAKE k \in 1 .. MaxImpl
  <2>1. k \in Nat
    BY QueriesAssumption
  <2> QED
    BY <2>1, JoinsEnds
<1>6. a \in Ends(find_implementations(g, trait)) <=>
        \E k \in 1 .. MaxImpl : \E c \in C : Joins(S, R, a, c, k)
  BY ONLY <1>3, <1>4, <1>5, Zenon
<1> QED
  BY <1>6 DEF S, R, C

\* find_implementations returns what a chain of 1 to MaxImpl edges joins with
\* the trait or with what is in it.
LEMMA ImplementationsExact ==
  ASSUME NEW g, GraphOK(g)
  PROVE  ImplementationsAreExact(g)
<1> SUFFICES ASSUME NEW trait \in Names
             PROVE  {r.id : r \in find_implementations(g, trait)} =
      {a \in {n.id : n \in g.nodes} :
         \E k \in 1..MaxImpl : \E p \in [0..k -> {n.id : n \in g.nodes}] :
            /\ p[0] = a /\ \E t \in Rows(g, p[k]) : IsTrait(t, trait)
            /\ \A i \in 1..k : \E e \in Edges(g, "IMPLEMENTS") :
                 e.src = p[i - 1] /\ e.dst = p[i]}
  BY Zenon DEF ImplementationsAreExact
<1> DEFINE S == IdsOf(g)
           E == Edges(g, "IMPLEMENTS")
           R == Pairs(E)
           C == Traits(g, trait)
           Along(k, p) == \A i \in 1 .. k : \E e \in E : e.src = p[i - 1] /\ e.dst = p[i]
           InR(k, p) == \A i \in 1 .. k : <<p[i - 1], p[i]>> \in R
           Named(id) == \E t \in Rows(g, id) : IsTrait(t, trait)
<1>1. \A k, p : Along(k, p) <=> InR(k, p)
  <2>1. \A x, y : <<x, y>> \in R <=> \E e \in E : e.src = x /\ e.dst = y
    BY DEF Pairs
  <2> HIDE DEF R
  <2> QED
    BY <2>1
<1>2. \A id : Named(id) <=> id \in C
  BY DEF Rows, Traits
<1>3. \A a, c, k : Joins(S, R, a, c, k) <=> \E p \in [0 .. k -> S] : p[0] = a /\ p[k] = c /\ InR(k, p)
  BY Zenon DEF Joins
<1>4. \A a : a \in {r.id : r \in find_implementations(g, trait)} <=>
              \E k \in 1 .. MaxImpl : \E c \in C : Joins(S, R, a, c, k)
  BY ImplementationFacts DEF Ends
<1>5. \A k \in 1 .. MaxImpl : \A a, c : Joins(S, R, a, c, k) => a \in S
  <2> TAKE k \in 1 .. MaxImpl
  <2>1. k \in Nat
    BY QueriesAssumption
  <2> HIDE DEF S, R
  <2> QED
    BY <2>1, JoinsEnds
<1> DEFINE Chain(a, k) == \E p \in [0 .. k -> S] : p[0] = a /\ Named(p[k]) /\ Along(k, p)
<1>6. {a \in {n.id : n \in g.nodes} :
         \E k \in 1..MaxImpl : \E p \in [0..k -> {n.id : n \in g.nodes}] :
            /\ p[0] = a /\ \E t \in Rows(g, p[k]) : IsTrait(t, trait)
            /\ \A i \in 1..k : \E e \in Edges(g, "IMPLEMENTS") :
                 e.src = p[i - 1] /\ e.dst = p[i]} =
      {a \in S : \E k \in 1 .. MaxImpl : Chain(a, k)}
  BY Zenon DEF IdsOf
<1> HIDE DEF S, E, R, C, Along, InR, Named
<1>7. \A k, a : Chain(a, k) <=> \E c \in C : Joins(S, R, a, c, k)
  <2> TAKE k, a
  <2>1. ASSUME NEW p \in [0 .. k -> S], p[0] = a, Named(p[k]), Along(k, p)
        PROVE  \E c \in C : Joins(S, R, a, c, k)
    <3>1. p[k] \in C /\ InR(k, p)
      BY ONLY <1>1, <1>2, <2>1
    <3>2. Joins(S, R, a, p[k], k)
      BY ONLY <1>3, <2>1, <3>1, p \in [0 .. k -> S], Zenon
    <3> QED
      BY <3>1, <3>2
  <2>2. ASSUME NEW c \in C, Joins(S, R, a, c, k)
        PROVE  \E p \in [0 .. k -> S] : p[0] = a /\ Named(p[k]) /\ Along(k, p)
    <3>1. PICK p \in [0 .. k -> S] : p[0] = a /\ p[k] = c /\ InR(k, p)
      BY <1>3, <2>2
    <3>2. Named(p[k]) /\ Along(k, p)
      BY ONLY <1>1, <1>2, <3>1, c \in C
    <3> QED
      BY ONLY <3>1, <3>2, p \in [0 .. k -> S]
  <2> QED
    BY <2>1, <2>2
<1> HIDE DEF Chain
<1>8. \A a : a \in {r.id : r \in find_implementations(g, trait)} <=>
              a \in {x \in S : \E k \in 1 .. MaxImpl : Chain(x, k)}
  BY ONLY <1>4, <1>5, <1>7, Zenon
<1> QED
  BY <1>6, <1>8

-----------------------------------------------------------------------------
\* Shortest paths.

Near(g) == {<<e.src, e.dst>> : e \in g.edges} \cup {<<e.dst, e.src>> : e \in g.edges}

\* Neighbours are joined by an edge in either direction.
LEMMA NearFacts ==
  ASSUME NEW g, NEW a, NEW b
  PROVE  /\ Neighbour(g, a, b) <=> <<a, b>> \in Near(g)
         /\ (\E e \in g.edges : <<e.src, e.dst>> \in {<<a, b>>, <<b, a>>}) <=> <<a, b>> \in Near(g)
<1>1. <<a, b>> \in Near(g) <=>
        \E e \in g.edges : (e.src = a /\ e.dst = b) \/ (e.src = b /\ e.dst = a)
  BY DEF Near
<1>2. Neighbour(g, a, b) <=>
        \E e \in g.edges : (e.src = a /\ e.dst = b) \/ (e.src = b /\ e.dst = a)
  <2>1. \A x, y : {x, y} = {a, b} <=> (x = a /\ y = b) \/ (x = b /\ y = a)
    OBVIOUS
  <2> QED
    BY <2>1 DEF Neighbour
<1>3. (\E e \in g.edges : <<e.src, e.dst>> \in {<<a, b>>, <<b, a>>}) <=>
        \E e \in g.edges : (e.src = a /\ e.dst = b) \/ (e.src = b /\ e.dst = a)
  OBVIOUS
<1> QED
  BY ONLY <1>1, <1>2, <1>3

SimpleWalk(S, R, a, b, k, p) ==
    /\ p \in [0 .. k -> S] /\ p[0] = a /\ p[k] = b
    /\ \A i \in 1 .. k : <<p[i - 1], p[i]>> \in R
    /\ \A i, j \in 0 .. k : p[i] = p[j] => i = j

\* A walk that comes somewhere twice can be cut short.
LEMMA CutDetour ==
  ASSUME NEW S, NEW R, NEW a, NEW b, NEW k \in Nat, NEW p \in [0 .. k -> S],
         p[0] = a, p[k] = b, \A m \in 1 .. k : <<p[m - 1], p[m]>> \in R,
         NEW i \in 0 .. k, NEW j \in 0 .. k, i < j, p[i] = p[j]
  PROVE  Joins(S, R, a, b, k - (j - i))
<1> DEFINE n == k - (j - i)
           q == [m \in 0 .. n |-> IF m <= i THEN p[m] ELSE p[m + (j - i)]]
<1>1. n \in 0 .. k - 1 /\ i \in 0 .. n
  OBVIOUS
<1>2. /\ \A m \in 0 .. i : m \in 0 .. n /\ m \in 0 .. k
      /\ \A m \in i + 1 .. n : m \in 0 .. n /\ m + (j - i) \in 0 .. k
  OBVIOUS
<1>3. /\ \A m \in 0 .. i : q[m] = p[m]
      /\ \A m \in i + 1 .. n : q[m] = p[m + (j - i)]
  BY <1>2
<1>4. q \in [0 .. n -> S]
  BY <1>1
<1>5. q[0] = a
  BY <1>3
<1>6. q[n] = b
  <2>1. CASE n = i
    BY <1>1, <1>3, <2>1
  <2>2. CASE n # i
    <3>1. n \in i + 1 .. n /\ n + (j - i) = k
      BY <1>1, <2>2
    <3> QED
      BY <1>3, <3>1
  <2> QED
    BY <2>1, <2>2
<1>7. ASSUME NEW m \in 1 .. n PROVE <<q[m - 1], q[m]>> \in R
  <2>1. CASE m <= i
    <3>1. m \in 0 .. i /\ m - 1 \in 0 .. i /\ m \in 1 .. k
      BY <2>1
    <3> QED
      BY <1>3, <3>1
  <2>2. CASE m = i + 1
    <3>1. q[m - 1] = p[j] /\ q[m] = p[j + 1] /\ j + 1 \in 1 .. k /\ (j + 1) - 1 = j
      <4>1. m - 1 \in 0 .. i /\ m - 1 = i /\ m \in i + 1 .. n /\ m + (j - i) = j + 1
            /\ j + 1 \in 1 .. k
        BY <1>1, <2>2
      <4> QED
        BY <1>3, <4>1
    <3>2. <<p[(j + 1) - 1], p[j + 1]>> \in R
      BY <3>1
    <3> QED
      BY <3>1, <3>2
  <2>3. CASE m > i + 1
    <3>1. m \in i + 1 .. n /\ m - 1 \in i + 1 .. n /\ m + (j - i) \in 1 .. k
          /\ (m - 1) + (j - i) = (m + (j - i)) - 1
      BY <1>1, <2>3
    <3>2. <<p[(m + (j - i)) - 1], p[m + (j - i)]>> \in R
      BY <3>1
    <3> QED
      BY <1>3, <3>1, <3>2
  <2> QED
    BY <1>1, <2>1, <2>2, <2>3
<1> HIDE DEF q
<1>8. n = k - (j - i)
  OBVIOUS
<1> HIDE DEF n
<1>9. Joins(S, R, a, b, n)
  BY <1>4, <1>5, <1>6, <1>7 DEF Joins
<1> QED
  BY ONLY <1>8, <1>9, Zenon

\* A walk that could not be shorter comes nowhere twice.
LEMMA ShortestIsSimple ==
  ASSUME NEW S, NEW R, NEW a, NEW b, NEW k \in Nat, Joins(S, R, a, b, k),
         \A j \in 0 .. k - 1 : ~Joins(S, R, a, b, j)
  PROVE  \E p : SimpleWalk(S, R, a, b, k, p)
<1>1. PICK p \in [0 .. k -> S] :
         p[0] = a /\ p[k] = b /\ \A i \in 1 .. k : <<p[i - 1], p[i]>> \in R
  BY DEF Joins
<1>2. ASSUME NEW i \in 0 .. k, NEW j \in 0 .. k, i < j, p[i] = p[j] PROVE FALSE
  <2>1. Joins(S, R, a, b, k - (j - i))
    BY <1>1, <1>2, CutDetour
  <2>2. k - (j - i) \in 0 .. k - 1
    BY <1>2
  <2> QED
    BY <2>1, <2>2
<1>3. \A i, j \in 0 .. k : p[i] = p[j] => i = j
  <2> TAKE i, j \in 0 .. k
  <2> HAVE p[i] = p[j]
  <2> SUFFICES ASSUME i # j PROVE FALSE
    OBVIOUS
  <2>1. i < j \/ j < i
    OBVIOUS
  <2> QED
    BY <1>2, <2>1
<1> QED
  BY <1>1, <1>3 DEF SimpleWalk

NextTrails(g, L) ==
    {Append(t[1], t[2].id) :
       t \in {u \in L \X g.nodes : /\ Neighbour(g, Last(u[1]), u[2].id)
                                   /\ ~Contains(u[1], u[2].id)}}
FirstTrails(g, from) == {<<n.id>> : n \in Rows(g, from)}

\* What a step adds: a node near the last, not yet on the trail.
LEMMA NextTrailsFacts ==
  ASSUME NEW g, NEW L \in SUBSET Seq(IdsOf(g))
  PROVE  /\ NextTrails(g, L) \in SUBSET Seq(IdsOf(g))
         /\ \A s : s \in NextTrails(g, L) <=>
              \E u \in L : \E x \in IdsOf(g) :
                /\ s = Append(u, x) /\ <<Last(u), x>> \in Near(g) /\ ~Contains(u, x)
<1>1. \A s : s \in NextTrails(g, L) <=>
        \E u \in L : \E n \in g.nodes :
          /\ s = Append(u, n.id) /\ Neighbour(g, Last(u), n.id) /\ ~Contains(u, n.id)
  <2>1. ASSUME NEW s, s \in NextTrails(g, L)
        PROVE  \E u \in L : \E n \in g.nodes :
                 /\ s = Append(u, n.id) /\ Neighbour(g, Last(u), n.id) /\ ~Contains(u, n.id)
    <3>1. PICK t \in L \X g.nodes : /\ Neighbour(g, Last(t[1]), t[2].id) /\ ~Contains(t[1], t[2].id)
                                    /\ s = Append(t[1], t[2].id)
      BY <2>1, Zenon DEF NextTrails
    <3>2. t[1] \in L /\ t[2] \in g.nodes
      OBVIOUS
    <3> QED
      BY ONLY <3>1, <3>2, Zenon
  <2>2. ASSUME NEW s, NEW u \in L, NEW n \in g.nodes,
               s = Append(u, n.id), Neighbour(g, Last(u), n.id), ~Contains(u, n.id)
        PROVE  s \in NextTrails(g, L)
    <3> DEFINE t == <<u, n>>
    <3>1. t \in L \X g.nodes /\ t[1] = u /\ t[2] = n
      OBVIOUS
    <3> HIDE DEF t
    <3>2. /\ Neighbour(g, Last(t[1]), t[2].id) /\ ~Contains(t[1], t[2].id)
          /\ s = Append(t[1], t[2].id)
      BY ONLY <2>2, <3>1, Zenon
    <3>3. \E y \in L \X g.nodes : /\ Neighbour(g, Last(y[1]), y[2].id) /\ ~Contains(y[1], y[2].id)
                                  /\ s = Append(y[1], y[2].id)
      BY ONLY <3>1, <3>2, Zenon
    <3> QED
      BY ONLY <3>3, Zenon DEF NextTrails
  <2> QED
    BY <2>1, <2>2
<1>2. \A x : x \in IdsOf(g) <=> \E n \in g.nodes : x = n.id
  BY DEF IdsOf
<1>3. \A u, x : Neighbour(g, Last(u), x) <=> <<Last(u), x>> \in Near(g)
  BY NearFacts
<1>4. ASSUME NEW s
      PROVE  s \in NextTrails(g, L) <=>
              \E u \in L : \E x \in IdsOf(g) :
                /\ s = Append(u, x) /\ <<Last(u), x>> \in Near(g) /\ ~Contains(u, x)
  <2>1. (\E u \in L : \E n \in g.nodes :
          /\ s = Append(u, n.id) /\ Neighbour(g, Last(u), n.id) /\ ~Contains(u, n.id)) <=>
        \E u \in L : \E x \in IdsOf(g) :
          /\ s = Append(u, x) /\ Neighbour(g, Last(u), x) /\ ~Contains(u, x)
    BY ONLY <1>2, Zenon
  <2> QED
    BY ONLY <1>1, <1>3, <2>1, Zenon
<1>5. NextTrails(g, L) \in SUBSET Seq(IdsOf(g))
  <2> SUFFICES ASSUME NEW s \in NextTrails(g, L) PROVE s \in Seq(IdsOf(g))
    OBVIOUS
  <2>1. PICK u \in L, x \in IdsOf(g) : s = Append(u, x)
    BY <1>4
  <2> QED
    BY <2>1
<1> QED
  BY <1>4, <1>5

\* The recursion of shortest_path exists.
LEMMA TrailLevelsFacts ==
  ASSUME NEW g, NEW from
  PROVE  LET level == TrailLevels(g, from)
         IN  /\ level[0] = FirstTrails(g, from)
             /\ \A d \in Nat : /\ level[d] \in SUBSET Seq(IdsOf(g))
                               /\ level[d + 1] = NextTrails(g, level[d])
<1> DEFINE U == SUBSET Seq(IdsOf(g))
           A == FirstTrails(g, from)
           F == [L \in U |-> NextTrails(g, L)]
           level[d \in Nat] ==
             IF d = 0 THEN {<<n.id>> : n \in Rows(g, from)}
             ELSE {Append(t[1], t[2].id) :
                     t \in {u \in level[d - 1] \X g.nodes :
                              /\ Neighbour(g, Last(u[1]), u[2].id)
                              /\ ~Contains(u[1], u[2].id)}}
           Fits(f) == f = [d \in Nat |-> IF d = 0 THEN A ELSE NextTrails(g, f[d - 1])]
<1>1. \A L \in U : NextTrails(g, L) \in U
  BY NextTrailsFacts
<1>2. A \in U
  <2>1. \A n \in Rows(g, from) : <<n.id>> \in Seq(IdsOf(g))
    BY DEF Rows, IdsOf
  <2> QED
    BY <2>1 DEF FirstTrails
<1> HIDE DEF U, A
<1>3. F \in [U -> U] /\ \A L \in U : F[L] = NextTrails(g, L)
  BY <1>1
<1> HIDE DEF F
<1>4. PICK h : Iterates(h, U, A, F)
  BY <1>2, <1>3, IterationExists, Zenon
<1>5. h \in [Nat -> U] /\ h[0] = A /\ \A n \in Nat : h[n + 1] = NextTrails(g, h[n])
  BY <1>3, <1>4 DEF Iterates
<1>6. \A d \in Nat : h[d] = IF d = 0 THEN A ELSE NextTrails(g, h[d - 1])
  <2> TAKE d \in Nat
  <2>1. CASE d = 0
    BY <1>5, <2>1
  <2>2. CASE d # 0
    <3>1. d - 1 \in Nat /\ (d - 1) + 1 = d
      BY <2>2
    <3> QED
      BY <1>5, <2>2, <3>1
  <2> QED
    BY <2>1, <2>2
<1>7. h = [d \in Nat |-> h[d]]
  BY <1>5
<1>8. Fits(h)
  BY <1>6, <1>7, Zenon
<1>9. \E f : Fits(f)
  BY <1>8
<1>10. Fits(level)
  BY <1>9, Zenon DEF A, FirstTrails, NextTrails
<1>11. TrailLevels(g, from) = level
  BY Zenon DEF TrailLevels
<1> HIDE DEF level
<1> DEFINE K == [d \in Nat |-> IF d = 0 THEN A ELSE NextTrails(g, level[d - 1])]
<1>12. level = K
  BY <1>10, Zenon
<1>13. \A d \in Nat : K[d] = IF d = 0 THEN A ELSE NextTrails(g, level[d - 1])
  BY Zenon
<1> HIDE DEF K, Fits
<1>14. \A d \in Nat : level[d] = IF d = 0 THEN A ELSE NextTrails(g, level[d - 1])
  BY <1>12, <1>13, Zenon
<1>15. \A d \in Nat : level[d + 1] = NextTrails(g, level[d])
  <2> TAKE d \in Nat
  <2>1. d + 1 \in Nat /\ d + 1 # 0 /\ (d + 1) - 1 = d
    OBVIOUS
  <2> QED
    BY <1>14, <2>1
<1>16. level[0] = A
  BY <1>14
<1> DEFINE T == {d \in Nat : level[d] \in U}
<1>17. 0 \in T
  BY <1>2, <1>16
<1>18. \A d \in Nat : d \in T => d + 1 \in T
  BY <1>1, <1>15
<1> HIDE DEF T
<1>19. \A d \in Nat : d \in T
  BY <1>17, <1>18, Induct
<1>20. \A d \in Nat : level[d] \in U
  BY <1>19 DEF T
<1> QED
  BY <1>11, <1>15, <1>16, <1>20, Zenon DEF A, U

\* Trails are walks.
LEMMA TrailsWalk ==
  ASSUME NEW g, NEW from
  PROVE  \A d \in Nat : \A s \in TrailLevels(g, from)[d] :
           /\ s \in Seq(IdsOf(g)) /\ Len(s) = d + 1
           /\ Joins(IdsOf(g), Near(g), from, s[d + 1], d)
<1> DEFINE S == IdsOf(g)
           R == Near(g)
           level == TrailLevels(g, from)
           Fine(d) == \A s \in level[d] : Len(s) = d + 1 /\ Joins(S, R, from, s[d + 1], d)
           T == {d \in Nat : Fine(d)}
<1>1. /\ level[0] = FirstTrails(g, from)
      /\ \A d \in Nat : level[d] \in SUBSET Seq(S) /\ level[d + 1] = NextTrails(g, level[d])
  BY TrailLevelsFacts, Zenon
<1> HIDE DEF level
<1>2. 0 \in T
  <2> SUFFICES ASSUME NEW s \in level[0] PROVE Len(s) = 0 + 1 /\ Joins(S, R, from, s[0 + 1], 0)
    BY Zenon DEF T
  <2>1. PICK n \in Rows(g, from) : s = <<n.id>>
    BY <1>1 DEF FirstTrails
  <2>2. from \in S /\ n.id = from
    BY DEF Rows, IdsOf
  <2>3. Len(s) = 0 + 1 /\ s[0 + 1] = from
    BY <2>1, <2>2
  <2> QED
    BY <2>2, <2>3, JoinsZero
<1>3. ASSUME NEW d \in Nat, d \in T PROVE d + 1 \in T
  <2> DEFINE L == level[d]
  <2>1. L \in SUBSET Seq(S) /\ level[d + 1] = NextTrails(g, L)
    BY <1>1
  <2>2a. \A t : t \in NextTrails(g, L) <=>
           \E v \in L : \E y \in S :
             /\ t = Append(v, y) /\ <<Last(v), y>> \in R /\ ~Contains(v, y)
    BY ONLY <2>1, NextTrailsFacts
  <2>2. \A u \in L : Len(u) = d + 1 /\ Joins(S, R, from, u[d + 1], d)
    BY <1>3
  <2> HIDE DEF L
  <2>3. ASSUME NEW s \in level[d + 1]
        PROVE  Len(s) = (d + 1) + 1 /\ Joins(S, R, from, s[(d + 1) + 1], d + 1)
    <3>1a. s \in NextTrails(g, L)
      BY ONLY <2>1, <2>3, Zenon
    <3>1. PICK u \in L, x \in S : s = Append(u, x) /\ <<Last(u), x>> \in R
      BY ONLY <2>2a, <3>1a, Zenon
    <3>2. u \in Seq(S) /\ Len(u) = d + 1
      BY <2>1, <2>2
    <3> DEFINE c == u[d + 1]
    <3>3. c \in S /\ Last(u) = c /\ Joins(S, R, from, c, d)
      BY <2>2, <3>2 DEF Last
    <3>4. Len(s) = (d + 1) + 1 /\ s[(d + 1) + 1] = x
      BY <3>1, <3>2
    <3> HIDE DEF c, S, R
    <3>5. <<c, x>> \in R
      BY <3>1, <3>3
    <3>6. Joins(S, R, from, x, d + 1)
      BY <3>1, <3>3, <3>5, JoinsLast
    <3> QED
      BY <3>4, <3>6
  <2> QED
    BY <2>3
<1> HIDE DEF T
<1>4. \A d \in Nat : d \in T
  BY <1>2, <1>3, Induct
<1> QED
  BY <1>1, <1>4 DEF T, level

\* A walk that comes nowhere twice is a trail.
LEMMA WalksAreTrails ==
  ASSUME NEW g, NEW a, NEW b, NEW k \in Nat, NEW p, SimpleWalk(IdsOf(g), Near(g), a, b, k, p)
  PROVE  \E s \in TrailLevels(g, a)[k] : Last(s) = b
<1>0. /\ p \in [0 .. k -> IdsOf(g)] /\ p[0] = a /\ p[k] = b
      /\ \A i \in 1 .. k : <<p[i - 1], p[i]>> \in Near(g)
      /\ \A i, j \in 0 .. k : p[i] = p[j] => i = j
  BY DEF SimpleWalk
<1> DEFINE S == IdsOf(g)
           R == Near(g)
           level == TrailLevels(g, a)
           Same(s, i) == s \in Seq(S) /\ Len(s) = i + 1 /\ \A m \in 0 .. i : s[m + 1] = p[m]
           T == {i \in Nat : \E s \in level[i] : Same(s, i)}
<1>1. /\ level[0] = FirstTrails(g, a)
      /\ \A d \in Nat : level[d] \in SUBSET Seq(S) /\ level[d + 1] = NextTrails(g, level[d])
  BY ONLY TrailLevelsFacts, Zenon
<1> HIDE DEF level
<1>2. 0 \in T
  <2>1. p[0] \in S /\ p[0] = a
    BY <1>0
  <2>2. PICK n \in g.nodes : n.id = p[0]
    BY <2>1 DEF IdsOf
  <2>3. <<p[0]>> \in level[0]
    BY <1>1, <2>1, <2>2 DEF FirstTrails, Rows
  <2>4. Same(<<p[0]>>, 0)
    BY <2>1
  <2> HIDE DEF Same
  <2> QED
    BY <2>3, <2>4
<1>3. ASSUME NEW i \in 0 .. k - 1, i \in T PROVE i + 1 \in T
  <2> DEFINE L == level[i]
             x == p[i + 1]
  <2>0. i \in Nat
    OBVIOUS
  <2>1. L \in SUBSET Seq(S) /\ level[i + 1] = NextTrails(g, L)
    BY ONLY <1>1, <2>0, Zenon
  <2>2. PICK u \in L : Same(u, i)
    BY <1>3
  <2>3. i + 1 \in 1 .. k /\ i + 1 \in 0 .. k /\ i \in 0 .. k /\ (i + 1) - 1 = i
    OBVIOUS
  <2>4. x \in S /\ <<p[i], x>> \in R
    BY <1>0, <2>3
  <2>5. Last(u) = p[i]
    BY <2>2 DEF Last
  <2>6. ~Contains(u, x)
    <3>1. SUFFICES ASSUME NEW m \in 1 .. Len(u), u[m] = x PROVE FALSE
      BY DEF Contains
    <3>2. m - 1 \in 0 .. i /\ m - 1 \in 0 .. k /\ (m - 1) + 1 = m
      BY <2>2, <2>3
    <3>3. p[m - 1] = p[i + 1]
      BY <2>2, <3>1, <3>2
    <3>4. m - 1 = i + 1
      BY <1>0, <2>3, <3>2, <3>3
    <3> QED
      BY <3>2, <3>4
  <2> DEFINE s == Append(u, x)
  <2>7. s \in level[i + 1]
    <3>1. \A t : t \in NextTrails(g, L) <=>
            \E v \in L : \E y \in S :
              /\ t = Append(v, y) /\ <<Last(v), y>> \in R /\ ~Contains(v, y)
      BY ONLY <2>1, NextTrailsFacts
    <3> HIDE DEF L, x, S, R
    <3>2. <<Last(u), x>> \in R
      BY <2>4, <2>5
    <3> QED
      BY ONLY <2>1, <2>2, <2>4, <2>6, <3>1, <3>2, Zenon
  <2>8. Same(s, i + 1)
    <3>1. /\ s \in Seq(S) /\ Len(s) = (i + 1) + 1 /\ s[(i + 1) + 1] = x
          /\ \A m \in 1 .. i + 1 : s[m] = u[m]
      BY <2>2, <2>4
    <3>2. ASSUME NEW m \in 0 .. i + 1 PROVE s[m + 1] = p[m]
      <4>1. CASE m = i + 1
        BY <3>1, <4>1
      <4>2. CASE m # i + 1
        <5>1. m \in 0 .. i /\ m + 1 \in 1 .. i + 1
          BY <4>2
        <5> QED
          BY <2>2, <3>1, <5>1
      <4> QED
        BY <4>1, <4>2
    <3> QED
      BY <3>1, <3>2
  <2> HIDE DEF s, Same
  <2> QED
    BY <2>7, <2>8
<1> HIDE DEF T
<1>4. \A i \in 0 .. k : i \in T
  BY <1>2, <1>3, InductUpTo
<1>5. PICK s \in level[k] : Same(s, k)
  BY <1>4 DEF T
<1>6. Last(s) = b
  BY <1>0, <1>5 DEF Last
<1> QED
  BY <1>6 DEF level

\* A shortest walk is a trail of its length.
LEMMA ShortestIsTrail ==
  ASSUME NEW g, NEW a, NEW b, NEW k \in Nat, Joins(IdsOf(g), Near(g), a, b, k),
         \A j \in 0 .. k - 1 : ~Joins(IdsOf(g), Near(g), a, b, j)
  PROVE  \E s \in TrailLevels(g, a)[k] : Last(s) = b
<1>1. PICK p : SimpleWalk(IdsOf(g), Near(g), a, b, k, p)
  BY ShortestIsSimple
<1> QED
  BY <1>1, WalksAreTrails

\* Shorter than MaxPath or not at all.
Lengths(g, a, b) == {k \in 0 .. MaxPath : Joins(IdsOf(g), Near(g), a, b, k)}
Least(T) == CHOOSE k \in T : \A j \in T : k <= j

\* There is one least number.
LEMMA LeastFacts ==
  ASSUME NEW T \in SUBSET Nat, T # {}
  PROVE  Least(T) \in T /\ (\A j \in T : Least(T) <= j)
         /\ \A k \in T : (\A j \in T : k <= j) => k = Least(T)
<1>1. \E k \in T : \A j \in T : k <= j
  BY LeastExists
<1>2. Least(T) \in T /\ \A j \in T : Least(T) <= j
  BY <1>1 DEF Least
<1>3. ASSUME NEW k \in T, \A j \in T : k <= j PROVE k = Least(T)
  <2>1. k <= Least(T) /\ Least(T) <= k /\ k \in Nat /\ Least(T) \in Nat
    BY <1>2, <1>3
  <2> QED
    BY <2>1
<1> QED
  BY <1>2, <1>3

\* shortest_path finds a walk if there is one, and then one of the least length.
LEMMA ShortestPathFacts ==
  ASSUME NEW g, NEW a, NEW b
  PROVE  /\ Lengths(g, a, b) = {} => shortest_path(g, a, b) = {}
         /\ Lengths(g, a, b) # {} =>
              \E p : shortest_path(g, a, b) = {p} /\ p \in Seq(IdsOf(g))
                     /\ Len(p) - 1 = Least(Lengths(g, a, b))
<1> DEFINE S == IdsOf(g)
           R == Near(g)
           level == TrailLevels(g, a)
           lengths == Lengths(g, a, b)
           found == {d \in 0 .. MaxPath : \E p \in level[d] : Last(p) = b}
<1>1. shortest_path(g, a, b) =
        IF found = {} THEN {} ELSE {CHOOSE p \in level[Least(found)] : Last(p) = b}
  BY Zenon DEF shortest_path, Least
<1>2. \A d \in 0 .. MaxPath : \A s \in level[d] :
        s \in Seq(S) /\ Len(s) = d + 1 /\ Joins(S, R, a, s[d + 1], d)
  BY TrailsWalk
<1>3. found \subseteq lengths
  <2> SUFFICES ASSUME NEW d \in found PROVE d \in lengths
    OBVIOUS
  <2>1. PICK s \in level[d] : Last(s) = b /\ d \in 0 .. MaxPath
    OBVIOUS
  <2>2. s \in Seq(S) /\ Len(s) = d + 1 /\ Joins(S, R, a, s[d + 1], d)
    BY <1>2, <2>1
  <2>3. s[d + 1] = b
    BY <2>1, <2>2 DEF Last
  <2> QED
    BY <2>1, <2>2, <2>3 DEF Lengths
<1>4. lengths \in SUBSET Nat /\ found \in SUBSET Nat
  BY DEF Lengths
<1>5. ASSUME lengths # {} PROVE Least(lengths) \in found
  <2> DEFINE k == Least(lengths)
  <2>1. k \in lengths /\ \A j \in lengths : k <= j
    BY <1>4, <1>5, LeastFacts
  <2> HIDE DEF k
  <2>2. k \in Nat /\ k \in 0 .. MaxPath /\ Joins(S, R, a, b, k)
    BY <2>1 DEF Lengths
  <2>3. ASSUME NEW j \in 0 .. k - 1, Joins(S, R, a, b, j) PROVE FALSE
    <3>1. j \in lengths
      BY <2>2, <2>3, QueriesAssumption DEF Lengths
    <3> QED
      BY <2>1, <2>2, <3>1
  <2>6. \E s \in level[k] : Last(s) = b
    BY ONLY <2>2, <2>3, ShortestIsTrail
  <2> QED
    BY <2>2, <2>6 DEF k
<1> HIDE DEF found, lengths
<1>6. CASE lengths = {}
  BY <1>1, <1>3, <1>6 DEF lengths
<1>7. CASE lengths # {}
  <2>1. found # {} /\ Least(lengths) \in found
    BY <1>5, <1>7
  <2>2. \A j \in found : Least(lengths) <= j
    BY <1>3, <1>4, <1>7, LeastFacts
  <2>3. Least(found) = Least(lengths)
    BY <1>4, <2>1, <2>2, LeastFacts
  <2> DEFINE k == Least(lengths)
             p == CHOOSE p \in level[k] : Last(p) = b
  <2>4. k \in 0 .. MaxPath /\ \E s \in level[k] : Last(s) = b
    BY <2>1 DEF found
  <2>5. p \in level[k]
    BY <2>4
  <2>6. shortest_path(g, a, b) = {p}
    BY <1>1, <2>1, <2>3
  <2> HIDE DEF p, k
  <2>7. p \in Seq(S) /\ Len(p) = k + 1
    BY <1>2, <2>4, <2>5
  <2>8. Len(p) - 1 = k
    BY <2>4, <2>7
  <2> QED
    BY <1>7, <2>6, <2>7, <2>8 DEF k, lengths
<1> QED
  BY <1>6, <1>7 DEF lengths

\* What shortest_path returns is a shortest path, of any two symbols.
LEMMA PathsShortest ==
  ASSUME NEW g
  PROVE  PathsAreShortest(g)
<1> SUFFICES ASSUME NEW a \in IdsOf(g), NEW b \in IdsOf(g)
             PROVE
      LET Joined(k) == \E p \in [0..k -> {n.id : n \in g.nodes}] :
              /\ p[0] = a /\ p[k] = b
              /\ \A i \in 1..k : \E e \in g.edges :
                   <<e.src, e.dst>> \in {<<p[i - 1], p[i]>>, <<p[i], p[i - 1]>>}
          lengths == {k \in 0..MaxPath : Joined(k)}
      IN  IF lengths = {} THEN shortest_path(g, a, b) = {}
          ELSE \E p \in shortest_path(g, a, b) :
                 Len(p) - 1 = CHOOSE k \in lengths : \A j \in lengths : k <= j
  BY Zenon DEF PathsAreShortest, IdsOf
<1> DEFINE S == IdsOf(g)
           R == Near(g)
           Along(k, p) == \A i \in 1 .. k : \E e \in g.edges :
                   <<e.src, e.dst>> \in {<<p[i - 1], p[i]>>, <<p[i], p[i - 1]>>}
           InR(k, p) == \A i \in 1 .. k : <<p[i - 1], p[i]>> \in R
           Joined(k) == \E p \in [0 .. k -> {n.id : n \in g.nodes}] :
                          p[0] = a /\ p[k] = b /\ Along(k, p)
           lengths == {k \in 0..MaxPath : Joined(k)}
<1>1. \A k, p : Along(k, p) <=> InR(k, p)
  BY NearFacts, Zenon
<1>2. \A k : Joins(S, R, a, b, k) <=> \E p \in [0 .. k -> S] : p[0] = a /\ p[k] = b /\ InR(k, p)
  BY Zenon DEF Joins
<1>3. \A k : Joined(k) <=> \E p \in [0 .. k -> S] : p[0] = a /\ p[k] = b /\ Along(k, p)
  BY Zenon DEF IdsOf
<1> HIDE DEF Along, InR, Joined, S, R
<1>4. \A k : Joined(k) <=> Joins(S, R, a, b, k)
  BY ONLY <1>1, <1>2, <1>3, Zenon
<1>5. lengths = Lengths(g, a, b)
  BY <1>4 DEF Lengths, S, R
<1>6. IF lengths = {} THEN shortest_path(g, a, b) = {}
      ELSE \E p \in shortest_path(g, a, b) : Len(p) - 1 = Least(lengths)
  BY <1>5, ShortestPathFacts
<1> HIDE DEF lengths
<1>7. IF lengths = {} THEN shortest_path(g, a, b) = {}
      ELSE \E p \in shortest_path(g, a, b) :
             Len(p) - 1 = CHOOSE k \in lengths : \A j \in lengths : k <= j
  BY ONLY <1>6, Zenon DEF Least
<1> QED
  BY ONLY <1>7, Zenon DEF lengths, Joined, Along

-----------------------------------------------------------------------------
\* Stored graphs.

\* There are finitely many rows, no more than ids, and any of them can be put in order.
LEMMA StoredFacts ==
  ASSUME NEW g, GraphOK(g)
  PROVE  /\ IsFiniteSet(g.nodes) /\ Cardinality(g.nodes) \in Nat /\ Cardinality(Ids) \in Nat
         /\ \A D \in SUBSET g.nodes :
              /\ IsFiniteSet(D) /\ Cardinality(D) \in Nat /\ Cardinality(D) <= Cardinality(Ids)
              /\ \A rank : (\A n \in D : rank[n] \in Int) => Rankable(D, rank)
<1>1. /\ Ids \subseteq Int /\ IsFiniteSet(Ids)
      /\ \A n \in g.nodes : n.id \in Ids
      /\ \A n, m \in g.nodes : n.id = m.id => n = m
  BY QueriesAssumption DEF GraphOK
<1>2. ASSUME NEW D \in SUBSET g.nodes
      PROVE  IsFiniteSet(D) /\ Cardinality(D) <= Cardinality(Ids)
  <2> DEFINE f == [n \in D |-> n.id]
  <2>1. f \in Injection(D, Ids)
    BY <1>1 DEF Injection, IsInjective
  <2> HIDE DEF f
  <2> QED
    BY <1>1, <2>1, FS_Injection
<1>3. g.nodes \in SUBSET g.nodes
  OBVIOUS
<1>4. ASSUME NEW D \in SUBSET g.nodes, NEW rank, \A n \in D : rank[n] \in Int
      PROVE  Rankable(D, rank)
  BY <1>1, <1>2, <1>4 DEF Rankable
<1> QED
  BY <1>1, <1>2, <1>3, <1>4, FS_CardinalityType

\* A walk of one call is a call between two symbols.
LEMMA OneCall ==
  ASSUME NEW g, NEW a, NEW b
  PROVE  Walk(g, a, b, 1) <=>
           /\ a \in IdsOf(g) /\ b \in IdsOf(g)
           /\ \E e \in Edges(g, "CALLS") : e.src = a /\ e.dst = b
<1> DEFINE S == IdsOf(g)
           R == Pairs(Edges(g, "CALLS"))
<1>1. <<a, b>> \in R <=> \E e \in Edges(g, "CALLS") : e.src = a /\ e.dst = b
  BY DEF Pairs
<1>2. Walk(g, a, b, 1) <=> \E k \in 1 .. 1 : Joins(S, R, a, b, k)
  BY WalkFacts
<1> HIDE DEF S, R
<1>3. Joins(S, R, a, b, 1) <=> a \in S /\ b \in S /\ <<a, b>> \in R
  BY JoinsOne
<1> QED
  BY <1>1, <1>2, <1>3 DEF S

\* Callers, callees and the first level of the traversals agree.
LEMMA EndsOfEdgesAgree ==
  ASSUME NEW g
  PROVE  EndsAgree(g)
<1>1. ASSUME NEW a \in g.nodes, NEW b \in g.nodes
      PROVE  /\ a \in symbol_callers(g, b.id) <=> b \in symbol_callees(g, a.id)
             /\ b \in symbol_callees(g, a.id) <=>
                  \E r \in call_chain(g, a.id, 1) : r.id = b.id
  <2>1. a \in symbol_callers(g, b.id) <=> \E e \in Edges(g, "CALLS") : e.src = a.id /\ e.dst = b.id
    BY DEF symbol_callers
  <2>2. b \in symbol_callees(g, a.id) <=> \E e \in Edges(g, "CALLS") : e.src = a.id /\ e.dst = b.id
    BY DEF symbol_callees
  <2>3. a.id \in IdsOf(g) /\ b.id \in IdsOf(g)
    BY DEF IdsOf
  <2>4. Walk(g, a.id, b.id, 1) <=> \E e \in Edges(g, "CALLS") : e.src = a.id /\ e.dst = b.id
    BY <2>3, OneCall
  <2>5. (\E r \in call_chain(g, a.id, 1) : r.id = b.id) <=> b.id \in Ends(call_chain(g, a.id, 1))
    BY DEF Ends
  <2>6. b.id \in Ends(call_chain(g, a.id, 1)) <=> Walk(g, a.id, b.id, 1)
    BY TraversalFacts
  <2> QED
    BY <2>1, <2>2, <2>4, <2>5, <2>6
<1> QED
  BY <1>1 DEF EndsAgree

\* The dead symbols are those with an empty blast radius.
LEMMA DeadHasNoCallers ==
  ASSUME NEW g, GraphOK(g)
  PROVE  DeadIsUnreached(g)
<1> DEFINE D == {n \in g.nodes : /\ n.kind \in Callables /\ n.file \notin {}
                                 /\ \A e \in Edges(g, "CALLS") : e.dst # n.id}
           rank == [n \in D |-> 0]
           size == Cardinality(Ids)
           dead == ToSet(dead_symbols(g, Callables, {}, size))
<1>1. dead_symbols(g, Callables, {}, size) = Take(D, rank, size)
  BY DEF dead_symbols
<1>2. D \in SUBSET g.nodes /\ \A n \in D : rank[n] \in Int
  OBVIOUS
<1>3. \A n \in g.nodes : n \in D <=> /\ n.kind \in Callables
                                     /\ \A e \in Edges(g, "CALLS") : e.dst # n.id
  OBVIOUS
<1> HIDE DEF D, rank
<1>4. Rankable(D, rank) /\ Cardinality(D) <= size /\ size \in Nat
  BY <1>2, StoredFacts
<1>5. \A n : n \in dead <=> n \in D
  BY <1>1, <1>4, TakeFacts
<1> HIDE DEF dead
<1>6. ASSUME NEW n \in g.nodes
      PROVE  (\A e \in Edges(g, "CALLS") : e.dst # n.id) <=> reverse_call_chain(g, n.id, 1) = {}
  <2>1. reverse_call_chain(g, n.id, 1) = {} <=> \A a : a \notin Ends(reverse_call_chain(g, n.id, 1))
    BY DEF Ends
  <2>2. \A a : a \in Ends(reverse_call_chain(g, n.id, 1)) <=> Walk(g, a, n.id, 1)
    BY TraversalFacts
  <2>3. \A a : Walk(g, a, n.id, 1) <=>
                 /\ a \in IdsOf(g) /\ n.id \in IdsOf(g)
                 /\ \E e \in Edges(g, "CALLS") : e.src = a /\ e.dst = n.id
    BY OneCall
  <2>4. n.id \in IdsOf(g) /\ \A e \in Edges(g, "CALLS") : e.src \in IdsOf(g)
    BY DEF GraphOK, Edges, IdsOf
  <2> QED
    BY <2>1, <2>2, <2>3, <2>4
<1> QED
  BY <1>3, <1>5, <1>6 DEF DeadIsUnreached, dead, size

\* Every graph a job can find in the store is a stored graph.
LEMMA StoredStep ==
  ASSUME GraphOK(graph), [Next]_vars
  PROVE  GraphOK(graph')
<1>1. CASE graph' = graph
  BY <1>1
<1>2. CASE \E g \in Commits : OtherCommits(g)
  BY <1>2, GraphsAssumption DEF OtherCommits
<1>3. CASE graph' = [graph EXCEPT !.edges = {}]
  <2>1. graph = [nodes |-> graph.nodes, edges |-> graph.edges]
    BY DEF GraphOK
  <2>2. graph' = [nodes |-> graph.nodes, edges |-> {}]
    BY <1>3, <2>1
  <2> QED
    BY <2>2, FS_EmptySet DEF GraphOK
<1>4. \/ graph' = graph \/ graph' = [graph EXCEPT !.edges = {}]
      \/ \E g \in Commits : OtherCommits(g)
  <2>1. CASE JobStep
    BY <2>1 DEF JobStep, FindSymbols, WalkCalls, QueryDetail, QueryStat, QueryList, QueryFails, RowsLost
  <2>2. CASE ReadMessage \/ ReplyTool \/ Exit \/ (\E m \in Messages : Send(m)) \/ Close
             \/ (\E r \in Requests : Type(r)) \/ UNCHANGED vars
    BY <2>2 DEF ReadMessage, ReplyTool, Exit, Send, Close, Type, Begin, vars, jobVars
  <2>3. CASE \E g \in Commits : OtherCommits(g) /\ UNCHANGED sessionVars
    BY <2>3
  <2> QED
    BY <2>1, <2>2, <2>3 DEF Next, Work
<1> QED
  BY <1>1, <1>2, <1>3, <1>4

\* The server only ever reads stored graphs, or one without edges that a raw query left.
THEOREM Stored == Spec => []GraphOK(graph)
<1>1. Init => GraphOK(graph)
  BY GraphsAssumption DEF Init
<1>2. GraphOK(graph) /\ [Next]_vars => GraphOK(graph)'
  BY StoredStep
<1> QED
  BY <1>1, <1>2, PTL DEF Spec

\* What the recursive statements return is what they stand for, on every stored graph.
THEOREM TraversalsExact == Spec => []TraversalsAreExact
<1>1. GraphOK(graph) => TraversalsAreExact
  <2>1. Depth \in Nat
    BY QueriesAssumption
  <2> QED
    BY <2>1, WalksExact, ImplementationsExact, PathsShortest DEF TraversalsAreExact
<1> QED
  BY <1>1, Stored, PTL

\* Queries written apart agree, on every stored graph.
THEOREM Agreeing == Spec => []QueriesAgree
<1>1. GraphOK(graph) => QueriesAgree
  BY EndsOfEdgesAgree, DeadHasNoCallers DEF QueriesAgree
<1> QED
  BY <1>1, Stored, PTL

-----------------------------------------------------------------------------
\* What "nothing found" says.

\* n distinct values.
LEMMA ManyDistinct ==
  ASSUME NEW n \in Nat, NEW S, IsFiniteSet(S), NEW s,
         \A i \in 1 .. n : s[i] \in S,
         \A i, j \in 1 .. n : s[i] = s[j] => i = j
  PROVE  Cardinality(S) >= n
<1> DEFINE f == [i \in 1 .. n |-> s[i]]
<1>1. f \in Injection(1 .. n, S)
  BY DEF Injection, IsInjective
<1> HIDE DEF f
<1>2. Cardinality(1 .. n) <= Cardinality(S)
  BY <1>1, FS_Injection
<1>3. 1 \in Int /\ n \in Int
  OBVIOUS
<1>4. Cardinality(1 .. n) = IF 1 > n THEN 0 ELSE n - 1 + 1
  BY <1>3, FS_Interval
<1>5. Cardinality(S) \in Nat
  BY FS_CardinalityType
<1> QED
  BY <1>2, <1>4, <1>5

Matching(g, text) == {n \in Listed(g) : n.name \in Matches[text]}
Rejected(g, by, tool, text) == {n \in Matching(g, text) : ~Accepts(by, tool, n.kind)}

\* Symbols found by name are ranked by a number.
LEMMA RanksAreNumbers ==
  ASSUME NEW g, GraphOK(g), NEW n \in g.nodes
  PROVE  1000 * KindRank(n.kind) + NameLength[n.name] \in Int
<1>1. KindRank(n.kind) \in Int
  BY DEF KindRank
<1>2. NameLength[n.name] \in Int
  BY QueriesAssumption DEF GraphOK
<1> QED
  BY <1>1, <1>2

\* find_symbols gives rows of the graph.
LEMMA FindFacts ==
  ASSUME NEW g, GraphOK(g), NEW text, NEW n \in Nat
  PROVE  find_symbols(g, text, n) \in Seq(g.nodes)
<1> DEFINE M == Matching(g, text)
           rank == [m \in M |-> 1000 * KindRank(m.kind) + NameLength[m.name]]
           s == Take(M, rank, n)
<1>1. find_symbols(g, text, n) = s
  BY DEF find_symbols, Matching
<1>2. M \in SUBSET g.nodes
  BY DEF Matching, Listed
<1>3. \A m \in M : rank[m] \in Int
  <2> HIDE DEF M
  <2>1. \A m \in M : 1000 * KindRank(m.kind) + NameLength[m.name] \in Int
    BY <1>2, RanksAreNumbers
  <2> QED
    BY <2>1
<1> HIDE DEF M, rank
<1>4. Rankable(M, rank)
  BY <1>2, <1>3, StoredFacts
<1>5. s \in Seq(M)
  BY <1>4, TakeFacts
<1> HIDE DEF s
<1> QED
  BY <1>1, <1>2, <1>5

\* Nothing is left of what was found only if nothing else matches, or too much does.
LEMMA FoundNothing ==
  ASSUME NEW g, GraphOK(g), NEW by, NEW tool, NEW text, NEW n \in Nat,
         Kept(find_symbols(g, text, n), {m \in g.nodes : Accepts(by, tool, m.kind)}) = <<>>
  PROVE  \/ Matching(g, text) = Rejected(g, by, tool, text)
         \/ Cardinality(Rejected(g, by, tool, text)) >= n
<1> DEFINE M == Matching(g, text)
           N == Rejected(g, by, tool, text)
           A == {m \in g.nodes : Accepts(by, tool, m.kind)}
           rank == [m \in M |-> 1000 * KindRank(m.kind) + NameLength[m.name]]
           s == Take(M, rank, n)
<1>1. find_symbols(g, text, n) = s
  BY DEF find_symbols, Matching
<1>2. M \in SUBSET g.nodes
  BY DEF Matching, Listed
<1>3. \A m : m \in N <=> m \in M /\ m \notin A
  BY <1>2 DEF Rejected
<1>4. \A m \in M : rank[m] \in Int
  <2> HIDE DEF M
  <2>1. \A m \in M : 1000 * KindRank(m.kind) + NameLength[m.name] \in Int
    BY <1>2, RanksAreNumbers
  <2> QED
    BY <2>1
<1> HIDE DEF M, N, A, rank
<1>5. Rankable(M, rank) /\ Cardinality(M) \in Nat
  BY <1>2, <1>4, StoredFacts
<1>6. /\ s \in Seq(M) /\ Len(s) = IF n < Cardinality(M) THEN n ELSE Cardinality(M)
      /\ \A i, j \in 1 .. Len(s) : s[i] = s[j] => i = j
      /\ Cardinality(M) <= n => \A a : a \in ToSet(s) <=> a \in M
  BY <1>5, TakeFacts
<1> HIDE DEF s
<1>7. Kept(s, A) = <<>>
  BY <1>1 DEF A
<1>8. \A x : ~(x \in ToSet(s) /\ x \in A)
  <2>1. \A x : x \in ToSet(Kept(s, A)) <=> x \in ToSet(s) /\ x \in A
    BY <1>6, KeptFacts
  <2>2. \A x : x \notin ToSet(<<>>)
    BY DEF ToSet
  <2> QED
    BY <1>7, <2>1, <2>2
<1>9. CASE Cardinality(M) <= n
  BY <1>3, <1>6, <1>8, <1>9 DEF M, N
<1>10. CASE n < Cardinality(M)
  <2>1. Len(s) = n
    BY <1>6, <1>10
  <2>2. \A i \in 1 .. n : s[i] \in M /\ s[i] \in ToSet(s)
    BY <1>6, <2>1 DEF ToSet
  <2>3. \A i \in 1 .. n : s[i] \in N
    BY <1>3, <1>8, <2>2
  <2>4. N \in SUBSET g.nodes
    BY <1>2, <1>3
  <2>5. IsFiniteSet(N)
    BY <2>4, StoredFacts
  <2>6. Cardinality(N) >= n
    BY <1>6, <2>1, <2>3, <2>5, ManyDistinct
  <2> QED
    BY <2>6 DEF N
<1> QED
  BY <1>5, <1>9, <1>10

\* A job that has not come to its end looks for a symbol or makes queries, with no
\* outcome yet; the outcome "nothing" of an undisturbed job is right.
UnderWay(j) ==
    /\ j.stage = "find" => /\ j.by \in {"cli", "mcp"}
                           /\ j.tool \in {"symbol", "call_chain", "blast_radius"}
    /\ j.stage \in {"find", "query"} => j.status = "ok"

NothingIsRight(j, g) ==
    j.stage = "done" /\ j.status = "nothing" =>
      \/ Matching(g, j.text) = Rejected(g, j.by, j.tool, j.text)
      \/ Cardinality(Rejected(g, j.by, j.tool, j.text)) >= FindLimit[j.by, j.tool]

-----------------------------------------------------------------------------
\* The steps of a job, field by field.

\* What find_symbols gave, and what the command does with it.
LEMMA FoundJob ==
  ASSUME JobOK(job), FindSymbols
  PROVE  \E found :
           /\ found = Kept(find_symbols(graph, job.text, FindLimit[job.by, job.tool]),
                           {m \in graph.nodes : Accepts(job.by, job.tool, m.kind)})
           /\ \/ /\ found = <<>>
                 /\ job' = Fields(job.by, job.tool, job.text, job.opts, "done", job.todo, job.target,
                                  {}, IF job.by = "cli" \/ job.tool = "symbol" THEN "nothing"
                                      ELSE "error")
              \/ /\ found # <<>> /\ job.tool = "symbol"
                 /\ \E details, stage :
                      /\ details = IF job.by = "cli" THEN CliDetails(found) ELSE McpDetails(found)
                      /\ stage = IF details = <<>> THEN "done" ELSE "query"
                      /\ job' = Fields(job.by, job.tool, job.text, job.opts, stage, details,
                                       ToSet(found), job.rows, job.status)
              \/ /\ found # <<>> /\ job.tool # "symbol"
                 /\ job' = Fields(job.by, job.tool, job.text, job.opts, "query", job.todo,
                                  {found[1]}, job.rows, job.status)
<1>0. JobFields(job)
  BY JobHasFields
<1> DEFINE kept == Kept(find_symbols(graph, job.text, FindLimit[job.by, job.tool]),
                        {m \in graph.nodes : Accepts(job.by, job.tool, m.kind)})
<1>2. PICK found : found = kept /\
       LET details == IF job.by = "cli" THEN CliDetails(found) ELSE McpDetails(found)
       IN  job' = CASE found = <<>> ->
                         Done(IF job.by = "cli" \/ job.tool = "symbol"
                              THEN "nothing" ELSE "error", {})
                    [] found # <<>> /\ job.tool = "symbol" ->
                         [job EXCEPT !.target = ToSet(found), !.todo = details,
                                     !.stage = IF details = <<>> THEN "done" ELSE "query"]
                    [] OTHER -> [job EXCEPT !.target = {found[1]}, !.stage = "query"]
  BY Zenon DEF FindSymbols
<1> DEFINE details == IF job.by = "cli" THEN CliDetails(found) ELSE McpDetails(found)
           stage == IF details = <<>> THEN "done" ELSE "query"
           status == IF job.by = "cli" \/ job.tool = "symbol" THEN "nothing" ELSE "error"
           seen == ToSet(found)
           first == {found[1]}
           query == "query"
<1>3. found = kept
  BY <1>2, Zenon
<1> HIDE DEF details, kept
<1>4. \/ found = <<>> /\ job' = Done(status, {})
      \/ /\ found # <<>> /\ job.tool = "symbol"
         /\ job' = [job EXCEPT !.target = seen, !.todo = details, !.stage = stage]
      \/ /\ found # <<>> /\ job.tool # "symbol"
         /\ job' = [job EXCEPT !.target = first, !.stage = query]
  BY <1>2 DEF details
<1>5. stage = IF details = <<>> THEN "done" ELSE "query"
  OBVIOUS
<1> HIDE DEF stage, status, seen, first, query
<1>6. [job EXCEPT !.target = seen, !.todo = details, !.stage = stage] =
      Fields(job.by, job.tool, job.text, job.opts, stage, details, seen, job.rows, job.status)
  <2> DEFINE next == SetStage(SetTodo(SetTarget(job, seen), details), stage)
  <2>1. next = [job EXCEPT !.target = seen, !.todo = details, !.stage = stage]
    BY Zenon DEF SetStage, SetTodo, SetTarget
  <2>2. next = Fields(job.by, job.tool, job.text, job.opts, stage, details, seen,
                      job.rows, job.status)
    BY ONLY <1>0, ChangedJob
  <2> HIDE DEF next
  <2> QED
    BY <2>1, <2>2, Zenon
<1>7. [job EXCEPT !.target = first, !.stage = query] =
      Fields(job.by, job.tool, job.text, job.opts, query, job.todo, first, job.rows, job.status)
  <2> DEFINE next == SetStage(SetTarget(job, first), query)
  <2>1. next = [job EXCEPT !.target = first, !.stage = query]
    BY Zenon DEF SetStage, SetTarget
  <2>2. next = Fields(job.by, job.tool, job.text, job.opts, query, job.todo, first,
                      job.rows, job.status)
    BY ONLY <1>0, ChangedJob
  <2> HIDE DEF next
  <2> QED
    BY <2>1, <2>2, Zenon
<1>8. Done(status, {}) =
      Fields(job.by, job.tool, job.text, job.opts, "done", job.todo, job.target, {}, status)
  BY DoneFields
<1>9. /\ found = kept
      /\ \/ /\ found = <<>>
            /\ job' = Fields(job.by, job.tool, job.text, job.opts, "done", job.todo, job.target,
                             {}, status)
         \/ /\ found # <<>> /\ job.tool = "symbol"
            /\ \E d, t : /\ d = details /\ t = IF d = <<>> THEN "done" ELSE "query"
                         /\ job' = Fields(job.by, job.tool, job.text, job.opts, t, d,
                                          seen, job.rows, job.status)
         \/ /\ found # <<>> /\ job.tool # "symbol"
            /\ job' = Fields(job.by, job.tool, job.text, job.opts, query, job.todo,
                             first, job.rows, job.status)
  <2>1. CASE found = <<>> /\ job' = Done(status, {})
    BY ONLY <1>3, <1>8, <2>1, Zenon
  <2>2. CASE /\ found # <<>> /\ job.tool = "symbol"
             /\ job' = [job EXCEPT !.target = seen, !.todo = details, !.stage = stage]
    <3>1. \E d, t : /\ d = details /\ t = IF d = <<>> THEN "done" ELSE "query"
                    /\ job' = Fields(job.by, job.tool, job.text, job.opts, t, d,
                                     seen, job.rows, job.status)
      BY ONLY <1>5, <1>6, <2>2, Zenon
    <3> QED
      BY ONLY <1>3, <2>2, <3>1, Zenon
  <2>3. CASE /\ found # <<>> /\ job.tool # "symbol"
             /\ job' = [job EXCEPT !.target = first, !.stage = query]
    BY ONLY <1>3, <1>7, <2>3, Zenon
  <2> QED
    BY <1>4, <2>1, <2>2, <2>3
<1> QED
  BY ONLY <1>9, Zenon DEF kept, details, status, seen, first, query

-----------------------------------------------------------------------------
\* What a job that nothing disturbed has found so far.

\* The fields of a record made of them.
LEMMA FieldsAre ==
  ASSUME NEW a, NEW b, NEW c, NEW d, NEW e, NEW f, NEW g, NEW h, NEW i, NEW j,
         j = Fields(a, b, c, d, e, f, g, h, i)
  PROVE  /\ j.by = a /\ j.tool = b /\ j.text = c /\ j.opts = d /\ j.stage = e
         /\ j.todo = f /\ j.target = g /\ j.rows = h /\ j.status = i
  BY DEF Fields

IdOf(target) == (CHOOSE n \in target : TRUE).id
Details(g) == IdsOf(g) \X Callers

TrueRow(g, r) ==
    /\ r.section = "callers" => Walk(g, r.id, r.of, 1)
    /\ r.section = "callees" => Walk(g, r.of, r.id, 1)
    /\ r.section = "members" => \E n \in g.nodes : n.id = r.id /\ n.parent = r.of

\* The first k counts are made, the rest is to do.
CountRow(g, i) == [part |-> StatParts[i], count |-> Stat(g, StatParts[i])]
Counted(g, todo, rows, k) ==
    /\ todo \in Seq({StatParts[i] : i \in 1 .. 5}) /\ Len(todo) = 5 - k
    /\ \A i \in 1 .. 5 - k : todo[i] = StatParts[k + i]
    /\ rows = {CountRow(g, i) : i \in 1 .. k}

Symbol(j, g) ==
    j.tool = "symbol" =>
      /\ j.stage \in {"find", "query", "done"} => \A r \in j.rows : TrueRow(g, r)
      /\ j.stage = "query" => j.todo \in Seq(Details(g)) /\ j.todo # <<>>
Counting(j, g) ==
    j.tool = "stats" /\ j.status = "ok" =>
      \E k \in 0 .. 5 : /\ Counted(g, j.todo, j.rows, k)
                        /\ j.stage = "query" => k < 5
                        /\ j.stage = "done" => k = 5
Walked(j, g) ==
    j.stage = "done" /\ j.status = "ok" =>
      /\ j.tool = "call_chain" => j.rows = call_chain(g, IdOf(j.target), Depth)
      /\ j.tool = "blast_radius" => j.rows = reverse_call_chain(g, IdOf(j.target), Depth)

Told(j, g) == UnderWay(j) /\ NothingIsRight(j, g) /\ Symbol(j, g) /\ Counting(j, g) /\ Walked(j, g)

\* A job that failed claims nothing.
LEMMA FailureTellsNothing ==
  ASSUME NEW j, NEW g, j.stage = "done", j.status = "error", j.rows = {}
  PROVE  Told(j, g)
  BY DEF Told, UnderWay, NothingIsRight, Symbol, Counting, Walked

\* A job that starts has found nothing, which is true.
LEMMA BegunTold ==
  ASSUME NEW by \in {"cli", "mcp"}, NEW tool, NEW text, NEW opts, NEW g, Begin(by, tool, text, opts)
  PROVE  Told(job', g)
<1> DEFINE stage == CASE tool \in {"symbol", "call_chain", "blast_radius"} -> "find"
                      [] tool = "unknown" -> "done"
                      [] OTHER -> "query"
           todo == IF tool = "stats" THEN StatParts ELSE <<>>
           status == IF tool = "unknown" THEN "error" ELSE "ok"
           j == job'
<1>1. j = Fields(by, tool, text, opts, stage, todo, {}, {}, status)
  BY DEF Begin, Fields
<1>2. /\ stage \in {"find", "query", "done"}
      /\ stage = "find" <=> tool \in {"symbol", "call_chain", "blast_radius"}
      /\ stage = "done" <=> tool = "unknown"
      /\ tool = "stats" => stage = "query" /\ todo = StatParts
      /\ status = IF tool = "unknown" THEN "error" ELSE "ok"
  OBVIOUS
<1> HIDE DEF j, stage, todo, status
<1>3. j.by = by /\ j.tool = tool /\ j.stage = stage /\ j.todo = todo /\ j.rows = {} /\ j.status = status
  BY <1>1, FieldsAre
<1>4. Counted(g, StatParts, {}, 0)
  <2>1. Len(StatParts) = 5 /\ StatParts \in Seq({StatParts[i] : i \in 1 .. 5})
    BY DEF StatParts
  <2>2. {CountRow(g, i) : i \in 1 .. 0} = {}
    OBVIOUS
  <2> QED
    BY <2>1, <2>2 DEF Counted
<1>5. Counting(j, g)
  <2>1. CASE tool = "stats"
    <3>1. j.todo = StatParts /\ j.rows = {} /\ j.stage = "query"
      BY <1>2, <1>3, <2>1
    <3> QED
      BY <1>4, <3>1 DEF Counting
  <2>2. CASE tool # "stats"
    BY <1>3, <2>2 DEF Counting
  <2> QED
    BY <2>1, <2>2
<1>6. UnderWay(j) /\ NothingIsRight(j, g) /\ Symbol(j, g) /\ Walked(j, g)
  BY <1>2, <1>3 DEF UnderWay, NothingIsRight, Symbol, Walked
<1> QED
  BY <1>5, <1>6 DEF Told, j

\* The details that are asked for are of symbols of the graph.
LEMMA DetailsFacts ==
  ASSUME NEW found \in Seq(graph.nodes), found # <<>>
  PROVE  /\ CliDetails(found) \in Seq(Details(graph))
         /\ McpDetails(found) \in Seq(Details(graph))
<1>1. Len(found) \in Nat \ {0} /\ \A k \in 1 .. Len(found) : found[k].id \in IdsOf(graph)
  BY DEF IdsOf
<1>2. /\ <<"members", "callers", "callees">> \in Seq(Callers)
      /\ <<"callers", "callees", "members">> \in Seq(Callers)
  BY DEF Callers
<1>3. ASSUME NEW s \in Seq(Callers), NEW a \in IdsOf(graph)
      PROVE  [k \in DOMAIN s |-> <<a, s[k]>>] \in Seq(Details(graph))
  <2>1. DOMAIN s = 1 .. Len(s) /\ Len(s) \in Nat /\ \A k \in 1 .. Len(s) : s[k] \in Callers
    OBVIOUS
  <2>2. [k \in 1 .. Len(s) |-> <<a, s[k]>>] \in [1 .. Len(s) -> Details(graph)]
    BY <2>1 DEF Details
  <2> QED
    BY <2>1, <2>2
<1>4. CliDetails(found) \in Seq(Details(graph))
  <2> DEFINE exact == Kept(found, {m \in graph.nodes : m.name \in Exact[job.text]})
             m == IF exact = <<>> THEN found[1] ELSE exact[1]
             sections == CliSections(m, job.opts)
             list == [k \in DOMAIN sections |-> <<m.id, sections[k]>>]
  <2>1. CliDetails(found) = list \/ CliDetails(found) = <<>>
    BY Zenon DEF CliDetails
  <2>2. exact \in Seq(graph.nodes)
    BY KeptFacts
  <2> HIDE DEF exact
  <2>3. m \in graph.nodes
    BY <1>1, <2>2
  <2>4. m.id \in IdsOf(graph)
    BY <2>3 DEF IdsOf
  <2> HIDE DEF m
  <2>5. sections \in Seq(Callers)
    BY <1>2, KeptFacts DEF CliSections
  <2> HIDE DEF sections
  <2>6. list \in Seq(Details(graph))
    BY <1>3, <2>4, <2>5
  <2> HIDE DEF list
  <2>7. <<>> \in Seq(Details(graph))
    OBVIOUS
  <2> QED
    BY <2>1, <2>6, <2>7, Zenon
<1>5. McpDetails(found) \in Seq(Details(graph))
  <2> DEFINE wanted == Kept(<<"callers", "callees", "members">>, job.opts)
             N == Len(found)
             of(k) == [j \in DOMAIN wanted |-> <<found[k].id, wanted[j]>>]
             ss == [k \in 1 .. N |-> of(k)]
  <2>1. McpDetails(found) = FlattenSeq(ss)
    <3>1. DOMAIN found = 1 .. N
      OBVIOUS
    <3> QED
      BY <3>1 DEF McpDetails
  <2>2. wanted \in Seq(Callers)
    BY <1>2, KeptFacts
  <2> HIDE DEF wanted
  <2>3. \A k \in 1 .. N : of(k) \in Seq(Details(graph))
    BY <1>1, <1>3, <2>2
  <2> HIDE DEF of
  <2>4. ss \in [1 .. N -> Seq(Details(graph))] /\ N \in Nat \ {0}
    BY <1>1, <2>3
  <2> HIDE DEF ss, N
  <2>5. FlattenSeq(ss) \in Seq(Details(graph))
    BY <2>4, FlattenFacts
  <2> QED
    BY <2>1, <2>5
<1> QED
  BY <1>4, <1>5

\* What find_symbols leads to is true.
LEMMA FindTold ==
  ASSUME JobOK(job), GraphOK(graph), Told(job, graph), FindSymbols
  PROVE  Told(job', graph)
<1> DEFINE j == job'
           n == FindLimit[job.by, job.tool]
<1>1. /\ job.stage = "find" /\ job.status = "ok"
      /\ job.by \in {"cli", "mcp"} /\ job.tool \in {"symbol", "call_chain", "blast_radius"}
      /\ job.tool = "symbol" => \A r \in job.rows : TrueRow(graph, r)
  BY DEF FindSymbols, Told, UnderWay, Symbol
<1>2. n \in Nat
  <2>1. <<job.by, job.tool>> \in {"cli", "mcp"} \X {"symbol", "call_chain", "blast_radius"}
    BY <1>1
  <2> QED
    BY <2>1, QueriesAssumption
<1>3. PICK found :
           /\ found = Kept(find_symbols(graph, job.text, n),
                           {m \in graph.nodes : Accepts(job.by, job.tool, m.kind)})
           /\ \/ /\ found = <<>>
                 /\ j = Fields(job.by, job.tool, job.text, job.opts, "done", job.todo, job.target,
                                  {}, IF job.by = "cli" \/ job.tool = "symbol" THEN "nothing"
                                      ELSE "error")
              \/ /\ found # <<>> /\ job.tool = "symbol"
                 /\ \E details, stage :
                      /\ details = IF job.by = "cli" THEN CliDetails(found) ELSE McpDetails(found)
                      /\ stage = IF details = <<>> THEN "done" ELSE "query"
                      /\ j = Fields(job.by, job.tool, job.text, job.opts, stage, details,
                                       ToSet(found), job.rows, job.status)
              \/ /\ found # <<>> /\ job.tool # "symbol"
                 /\ j = Fields(job.by, job.tool, job.text, job.opts, "query", job.todo,
                                  {found[1]}, job.rows, job.status)
  BY FoundJob
<1> HIDE DEF j, n
<1>4. CASE /\ found = <<>>
           /\ j = Fields(job.by, job.tool, job.text, job.opts, "done", job.todo, job.target,
                         {}, IF job.by = "cli" \/ job.tool = "symbol" THEN "nothing"
                             ELSE "error")
  <2>1. /\ j.by = job.by /\ j.tool = job.tool /\ j.text = job.text /\ j.stage = "done"
        /\ j.rows = {} /\ j.status \in {"nothing", "error"}
    BY <1>4, FieldsAre
  <2>2. \/ Matching(graph, job.text) = Rejected(graph, job.by, job.tool, job.text)
        \/ Cardinality(Rejected(graph, job.by, job.tool, job.text)) >= n
    <3>1. Kept(find_symbols(graph, job.text, n),
               {m \in graph.nodes : Accepts(job.by, job.tool, m.kind)}) = <<>>
      BY ONLY <1>3, <1>4
    <3> QED
      BY <1>2, <3>1, FoundNothing
  <2>3. NothingIsRight(j, graph)
    BY <2>1, <2>2 DEF NothingIsRight, n
  <2>4. UnderWay(j) /\ Symbol(j, graph) /\ Counting(j, graph) /\ Walked(j, graph)
    BY <1>1, <2>1 DEF UnderWay, Symbol, Counting, Walked
  <2> QED
    BY <2>3, <2>4 DEF Told, j
<1>5. CASE /\ found # <<>> /\ job.tool = "symbol"
           /\ \E details, stage :
                /\ details = IF job.by = "cli" THEN CliDetails(found) ELSE McpDetails(found)
                /\ stage = IF details = <<>> THEN "done" ELSE "query"
                /\ j = Fields(job.by, job.tool, job.text, job.opts, stage, details,
                              ToSet(found), job.rows, job.status)
  <2>1. PICK details, stage :
                /\ details = IF job.by = "cli" THEN CliDetails(found) ELSE McpDetails(found)
                /\ stage = IF details = <<>> THEN "done" ELSE "query"
                /\ j = Fields(job.by, job.tool, job.text, job.opts, stage, details,
                              ToSet(found), job.rows, job.status)
    BY <1>5
  <2>2. /\ j.by = job.by /\ j.tool = "symbol" /\ j.stage = stage /\ j.todo = details
        /\ j.rows = job.rows /\ j.status = "ok"
    BY <1>1, <1>5, <2>1, FieldsAre
  <2>3. found \in Seq(graph.nodes)
    <3>1. find_symbols(graph, job.text, n) \in Seq(graph.nodes)
      BY <1>2, FindFacts
    <3>2. Kept(find_symbols(graph, job.text, n),
               {m \in graph.nodes : Accepts(job.by, job.tool, m.kind)}) \in Seq(graph.nodes)
      BY <3>1, KeptFacts
    <3> QED
      BY ONLY <1>3, <3>2
  <2>4. details \in Seq(Details(graph))
    <3>1. CliDetails(found) \in Seq(Details(graph)) /\ McpDetails(found) \in Seq(Details(graph))
      BY <1>5, <2>3, DetailsFacts
    <3> QED
      BY ONLY <2>1, <3>1, Zenon
  <2>5. stage \in {"done", "query"} /\ (stage = "query" => details # <<>>)
    BY <2>1
  <2>6. Symbol(j, graph)
    BY <1>1, <1>5, <2>2, <2>4, <2>5 DEF Symbol
  <2>7. UnderWay(j) /\ NothingIsRight(j, graph) /\ Counting(j, graph) /\ Walked(j, graph)
    BY <2>2, <2>5 DEF UnderWay, NothingIsRight, Counting, Walked
  <2> QED
    BY <2>6, <2>7 DEF Told, j
<1>6. CASE /\ found # <<>> /\ job.tool # "symbol"
           /\ j = Fields(job.by, job.tool, job.text, job.opts, "query", job.todo,
                         {found[1]}, job.rows, job.status)
  <2>1. j.by = job.by /\ j.tool = job.tool /\ j.stage = "query" /\ j.status = "ok"
    BY <1>1, <1>6, FieldsAre
  <2> QED
    BY <1>1, <1>6, <2>1 DEF Told, UnderWay, NothingIsRight, Symbol, Counting, Walked, j
<1> QED
  BY <1>3, <1>4, <1>5, <1>6

\* The call traversals answer with what they found.
LEMMA WalkTold ==
  ASSUME JobOK(job), Told(job, graph), WalkCalls
  PROVE  Told(job', graph)
<1> DEFINE rows == IF job.tool = "call_chain" THEN call_chain(graph, TargetId, Depth)
                   ELSE reverse_call_chain(graph, TargetId, Depth)
           j == job'
<1>1. job.tool \in {"call_chain", "blast_radius"} /\ j = Done("ok", rows)
  BY DEF WalkCalls
<1>2. TargetId = IdOf(job.target)
  BY DEF TargetId, IdOf
<1>3. /\ job.tool = "call_chain" => rows = call_chain(graph, IdOf(job.target), Depth)
      /\ job.tool = "blast_radius" => rows = reverse_call_chain(graph, IdOf(job.target), Depth)
  BY <1>2
<1> HIDE DEF j, rows
<1>4. j = Fields(job.by, job.tool, job.text, job.opts, "done", job.todo, job.target, rows, "ok")
  BY <1>1, DoneFields
<1>5. j.tool = job.tool /\ j.stage = "done" /\ j.target = job.target /\ j.rows = rows /\ j.status = "ok"
  BY <1>4, FieldsAre
<1>6. UnderWay(j) /\ NothingIsRight(j, graph) /\ Symbol(j, graph) /\ Counting(j, graph)
  BY <1>1, <1>5 DEF UnderWay, NothingIsRight, Symbol, Counting
<1>7. Walked(j, graph)
  BY <1>3, <1>5 DEF Walked
<1> QED
  BY <1>6, <1>7 DEF Told, j

\* A part of the answer more.
LEMMA TailFacts ==
  ASSUME NEW A, NEW s \in Seq(A), s # <<>>
  PROVE  /\ Head(s) \in A /\ Head(s) = s[1] /\ Tail(s) \in Seq(A) /\ Len(s) \in Nat \ {0}
         /\ Len(Tail(s)) = Len(s) - 1
         /\ \A i \in 1 .. Len(s) - 1 : Tail(s)[i] = s[i + 1]
         /\ Len(s) # 1 => Tail(s) # <<>>
<1>1. Len(s) \in Nat \ {0}
  OBVIOUS
<1>2. Head(s) = s[1] /\ s[1] \in A
  BY <1>1
<1>3. /\ Tail(s) \in Seq(A) /\ Len(Tail(s)) = Len(s) - 1
      /\ \A i \in 1 .. Len(s) - 1 : Tail(s)[i] = s[i + 1]
  BY <1>1
<1>4. ASSUME Len(s) # 1 PROVE Tail(s) # <<>>
  <2>1. Len(Tail(s)) # 0
    BY <1>1, <1>3, <1>4
  <2>2. Len(<<>>) = 0
    OBVIOUS
  <2> QED
    BY ONLY <2>1, <2>2, Zenon
<1> QED
  BY <1>1, <1>2, <1>3, <1>4

\* One list of details more is true.
LEMMA DetailTold ==
  ASSUME JobOK(job), Told(job, graph), QueryDetail
  PROVE  Told(job', graph)
<1> DEFINE of == Head(job.todo)
           new == {[of |-> of[1], section |-> of[2], id |-> n.id] : n \in Section(of[1], of[2])}
           stage == IF Len(job.todo) = 1 THEN "done" ELSE "query"
           todo == Tail(job.todo)
           rows == job.rows \cup new
           j == job'
<1>1. job.stage = "query" /\ job.tool = "symbol" /\ j = NextPart(new)
  BY DEF QueryDetail
<1>2. /\ job.todo \in Seq(Details(graph)) /\ job.todo # <<>> /\ job.status = "ok"
      /\ \A r \in job.rows : TrueRow(graph, r)
  BY <1>1 DEF Told, UnderWay, Symbol
<1>3. /\ of \in Details(graph) /\ todo \in Seq(Details(graph))
      /\ stage = "query" => todo # <<>>
  BY <1>2, TailFacts
<1>4. of[1] \in IdsOf(graph) /\ of[2] \in Callers
  BY <1>3 DEF Details
<1>5. ASSUME NEW r \in new PROVE TrueRow(graph, r)
  <2>1. PICK n \in Section(of[1], of[2]) :
          r.of = of[1] /\ r.section = of[2] /\ r.id = n.id
    OBVIOUS
  <2> HIDE DEF of
  <2>2. CASE of[2] = "callers"
    <3>1. n \in symbol_callers(graph, of[1])
      BY <2>1, <2>2 DEF Section
    <3>2. n.id \in IdsOf(graph) /\ \E e \in Edges(graph, "CALLS") : e.src = n.id /\ e.dst = of[1]
      BY <3>1 DEF symbol_callers, IdsOf
    <3>3. Walk(graph, n.id, of[1], 1)
      BY <1>4, <3>2, OneCall
    <3> QED
      BY <2>1, <2>2, <3>3 DEF TrueRow
  <2>3. CASE of[2] = "callees"
    <3>1. n \in symbol_callees(graph, of[1])
      BY <2>1, <2>3 DEF Section
    <3>2. n.id \in IdsOf(graph) /\ \E e \in Edges(graph, "CALLS") : e.src = of[1] /\ e.dst = n.id
      BY <3>1 DEF symbol_callees, IdsOf
    <3>3. Walk(graph, of[1], n.id, 1)
      BY <1>4, <3>2, OneCall
    <3> QED
      BY <2>1, <2>3, <3>3 DEF TrueRow
  <2>4. CASE of[2] = "members"
    <3>1. n \in graph.nodes /\ n.parent = of[1]
      BY <2>1, <2>4 DEF Section, symbol_members
    <3> QED
      BY <2>1, <2>4, <3>1 DEF TrueRow
  <2> QED
    BY <1>4, <2>2, <2>3, <2>4 DEF Callers
<1>6. \A r \in rows : TrueRow(graph, r)
  BY <1>2, <1>5
<1> HIDE DEF new
<1>7. j = Fields(job.by, job.tool, job.text, job.opts, stage, todo, job.target, rows, job.status)
  BY <1>1, PartFields
<1>8. stage \in {"query", "done"}
  OBVIOUS
<1> HIDE DEF j, stage, todo, rows
<1>9. j.tool = "symbol" /\ j.stage = stage /\ j.todo = todo /\ j.rows = rows /\ j.status = "ok"
  BY <1>1, <1>2, <1>7, FieldsAre
<1>10. Symbol(j, graph)
  BY <1>3, <1>6, <1>9 DEF Symbol
<1>11. UnderWay(j) /\ NothingIsRight(j, graph) /\ Counting(j, graph) /\ Walked(j, graph)
  BY <1>8, <1>9 DEF UnderWay, NothingIsRight, Counting, Walked
<1> QED
  BY <1>10, <1>11 DEF Told, j

\* One count more is true.
LEMMA StatTold ==
  ASSUME JobOK(job), Told(job, graph), QueryStat
  PROVE  Told(job', graph)
<1> DEFINE part == Head(job.todo)
           new == {[part |-> part, count |-> Stat(graph, part)]}
           stage == IF Len(job.todo) = 1 THEN "done" ELSE "query"
           todo == Tail(job.todo)
           rows == job.rows \cup new
           Parts == {StatParts[i] : i \in 1 .. 5}
           j == job'
<1>1. job.stage = "query" /\ job.tool = "stats" /\ j = NextPart(new)
  BY DEF QueryStat
<1>2. job.status = "ok"
  BY <1>1 DEF Told, UnderWay
<1>3. PICK k \in 0 .. 5 : Counted(graph, job.todo, job.rows, k) /\ k < 5
  BY <1>1, <1>2 DEF Told, Counting
<1>4. /\ job.todo \in Seq(Parts) /\ Len(job.todo) = 5 - k
      /\ \A i \in 1 .. 5 - k : job.todo[i] = StatParts[k + i]
      /\ job.rows = {CountRow(graph, i) : i \in 1 .. k}
  BY <1>3 DEF Counted
<1>5. job.todo # <<>>
  BY <1>3, <1>4
<1>6. /\ part = StatParts[k + 1] /\ todo \in Seq(Parts) /\ Len(todo) = 5 - (k + 1)
      /\ \A i \in 1 .. 5 - (k + 1) : todo[i] = StatParts[(k + 1) + i]
  <2>1. /\ part = job.todo[1] /\ todo \in Seq(Parts) /\ Len(todo) = Len(job.todo) - 1
        /\ \A i \in 1 .. Len(job.todo) - 1 : todo[i] = job.todo[i + 1]
    BY <1>4, <1>5, TailFacts
  <2> HIDE DEF part, todo, Parts
  <2>2. 1 \in 1 .. 5 - k /\ \A i \in 1 .. 5 - (k + 1) :
          i \in 1 .. Len(job.todo) - 1 /\ i + 1 \in 1 .. 5 - k /\ k + (i + 1) = (k + 1) + i
    BY <1>3, <1>4
  <2>3. Len(todo) = 5 - (k + 1)
    BY <1>3, <1>4, <2>1
  <2> QED
    BY <1>4, <2>1, <2>2, <2>3
<1>7. rows = {CountRow(graph, i) : i \in 1 .. k + 1}
  <2>1. new = {CountRow(graph, k + 1)}
    BY <1>6 DEF CountRow
  <2> HIDE DEF new
  <2>2. \A i : i \in 1 .. k + 1 <=> i \in 1 .. k \/ i = k + 1
    BY <1>3
  <2> QED
    BY <1>4, <2>1, <2>2
<1>8. stage \in {"query", "done"} /\ (stage = "done" <=> k + 1 = 5)
  BY <1>3, <1>4
<1> HIDE DEF new
<1>9. j = Fields(job.by, job.tool, job.text, job.opts, stage, todo, job.target, rows, job.status)
  BY <1>1, PartFields
<1> HIDE DEF j, stage, todo, rows
<1>10. j.tool = "stats" /\ j.stage = stage /\ j.todo = todo /\ j.rows = rows /\ j.status = "ok"
  BY <1>1, <1>2, <1>9, FieldsAre
<1>11. k + 1 \in 0 .. 5 /\ Counted(graph, todo, rows, k + 1)
  BY <1>3, <1>6, <1>7 DEF Counted
<1>12. Counting(j, graph)
  BY <1>3, <1>8, <1>10, <1>11 DEF Counting
<1>13. UnderWay(j) /\ NothingIsRight(j, graph) /\ Symbol(j, graph) /\ Walked(j, graph)
  BY <1>8, <1>10 DEF UnderWay, NothingIsRight, Symbol, Walked
<1> QED
  BY <1>12, <1>13 DEF Told, j

\* Listings claim nothing here; one of them may write.
LEMMA ListTold ==
  ASSUME JobOK(job), Told(job, graph), QueryList, NEW g
  PROVE  Told(job', g)
<1> DEFINE rows == ToSet(Listing(job.tool))
           j == job'
<1>1. /\ job.tool \in {"hotspots", "dead_code", "search", "routes", "processes", "query"}
      /\ j = Done("ok", rows)
  BY DEF QueryList
<1> HIDE DEF j, rows
<1>2. j = Fields(job.by, job.tool, job.text, job.opts, "done", job.todo, job.target, rows, "ok")
  BY <1>1, DoneFields
<1>3. j.tool = job.tool /\ j.stage = "done" /\ j.status = "ok"
  BY <1>2, FieldsAre
<1> QED
  BY <1>1, <1>3 DEF Told, UnderWay, NothingIsRight, Symbol, Counting, Walked, j

\* A query that fails tells nothing.
LEMMA FailsTold ==
  ASSUME JobOK(job), QueryFails, NEW g
  PROVE  Told(job', g)
<1> DEFINE j == job'
<1>1. j = Done("error", {})
  BY DEF QueryFails
<1> HIDE DEF j
<1>2. j = Fields(job.by, job.tool, job.text, job.opts, "done", job.todo, job.target, {}, "error")
  BY <1>1, DoneFields
<1>3. j.stage = "done" /\ j.rows = {} /\ j.status = "error"
  BY <1>2, FieldsAre
<1> QED
  BY <1>3, FailureTellsNothing DEF j

-----------------------------------------------------------------------------
\* The truth of the answers.

Truth == ~Idle /\ calm /\ ~cut => Told(job, graph)

\* Whatever a job does next is true.
LEMMA JobTold ==
  ASSUME SessionInv, GraphOK(graph), Truth, JobStep
  PROVE  Truth'
<1>1. job.stage \in {"find", "query"}
  BY DEF JobStep, FindSymbols, WalkCalls, QueryDetail, QueryStat, QueryList, QueryFails, RowsLost
<1>2. ~Idle /\ JobOK(job)
  BY <1>1, IdleMeansNoJob DEF Idle
<1>3. CASE RowsLost
  BY <1>3 DEF RowsLost, Truth
<1>4. SUFFICES ASSUME ~RowsLost, calm', ~cut' PROVE Told(job', graph')
  BY <1>3 DEF Truth
<1>5. calm' = calm /\ cut' = cut
  BY <1>4 DEF JobStep, FindSymbols, WalkCalls, QueryDetail, QueryStat, QueryList, QueryFails
<1>6. Told(job, graph)
  BY <1>2, <1>4, <1>5 DEF Truth
<1>7. CASE FindSymbols
  <2>1. graph' = graph
    BY <1>7 DEF FindSymbols
  <2> QED
    BY <1>2, <1>6, <1>7, <2>1, FindTold
<1>8. CASE WalkCalls
  <2>1. graph' = graph
    BY <1>8 DEF WalkCalls
  <2> QED
    BY <1>2, <1>6, <1>8, <2>1, WalkTold
<1>9. CASE QueryDetail
  <2>1. graph' = graph
    BY <1>9 DEF QueryDetail
  <2> QED
    BY <1>2, <1>6, <1>9, <2>1, DetailTold
<1>10. CASE QueryStat
  <2>1. graph' = graph
    BY <1>10 DEF QueryStat
  <2> QED
    BY <1>2, <1>6, <1>10, <2>1, StatTold
<1>11. CASE QueryList
  BY <1>2, <1>6, <1>11, ListTold
<1>12. CASE QueryFails
  BY <1>2, <1>12, FailsTold
<1> QED
  BY <1>4, <1>7, <1>8, <1>9, <1>10, <1>11, <1>12 DEF JobStep

\* So is what follows a step of anyone.
LEMMA TruthStep ==
  ASSUME SessionInv, GraphOK(graph), Truth, [Next]_vars
  PROVE  Truth'
<1>1. CASE JobStep
  BY <1>1, JobTold
<1>2. ASSUME NEW by \in {"cli", "mcp"}, NEW tool, NEW text, NEW opts, Begin(by, tool, text, opts)
      PROVE  Truth'
  <2>1. graph' = graph
    BY <1>2 DEF Begin
  <2>2. Told(job', graph)
    BY <1>2, BegunTold
  <2> QED
    BY <2>1, <2>2 DEF Truth
<1>3. CASE job' = NoJob
  BY <1>3 DEF Truth, Idle, NoJob
<1>4. CASE calm' = FALSE
  BY <1>4 DEF Truth
<1>5. CASE UNCHANGED jobVars
  BY <1>5 DEF Truth, jobVars, Idle
<1>6. CASE ReadMessage
  <2> DEFINE m == inbox[pos + 1]
             mcp == "mcp"
  <2>1. UNCHANGED jobVars \/ Begin(mcp, m.tool, m.text, m.opts)
    BY <1>6 DEF ReadMessage, jobVars
  <2>2. mcp \in {"cli", "mcp"}
    OBVIOUS
  <2> HIDE DEF m, mcp
  <2> QED
    BY <1>2, <1>5, <2>1, <2>2
<1>7. CASE \E r \in Requests : Type(r)
  <2> DEFINE cli == "cli"
  <2>1. PICK r \in Requests : Begin(cli, r.tool, r.text, r.opts)
    BY <1>7 DEF Type
  <2>2. cli \in {"cli", "mcp"}
    OBVIOUS
  <2> HIDE DEF cli
  <2> QED
    BY <1>2, <2>1, <2>2
<1>8. CASE ReplyTool \/ Exit
  BY <1>3, <1>8 DEF ReplyTool, Exit
<1>9. CASE (\E m \in Messages : Send(m)) \/ Close \/ UNCHANGED vars
  BY <1>5, <1>9 DEF Send, Close, vars
<1>10. CASE \E g \in Commits : OtherCommits(g) /\ UNCHANGED sessionVars
  BY <1>4, <1>10 DEF OtherCommits
<1> QED
  BY <1>1, <1>6, <1>7, <1>8, <1>9, <1>10 DEF Next, Work

\* What a job that nothing disturbed has found is true of the graph in the store.
THEOREM Telling == Spec => []Truth
<1>1. Init => Truth
  BY DEF Init, Truth, Idle, NoJob
<1>2. SessionInv /\ GraphOK(graph) /\ Truth /\ [Next]_vars => Truth'
  BY TruthStep
<1> QED
  BY <1>1, <1>2, Serving, Stored, PTL DEF Spec

\* A command that says "nothing found" looked at every symbol that matches, or at FindLimit
\* symbols of other kinds.
THEOREM NothingFound == Spec => []NothingMeansNothing
<1>1. Truth => NothingMeansNothing
  <2> SUFFICES ASSUME Truth, job.stage = "done", job.status = "nothing", calm, ~cut
               PROVE  LET matching == {n \in Listed(graph) : n.name \in Matches[job.text]}
                          rejected == {n \in matching : ~Accepts(job.by, job.tool, n.kind)}
                      IN  matching = rejected
                          \/ Cardinality(rejected) >= FindLimit[job.by, job.tool]
    BY Zenon DEF NothingMeansNothing
  <2>1. Told(job, graph)
    BY DEF Truth, Idle
  <2>2. \/ Matching(graph, job.text) = Rejected(graph, job.by, job.tool, job.text)
        \/ Cardinality(Rejected(graph, job.by, job.tool, job.text)) >= FindLimit[job.by, job.tool]
    BY <2>1, Zenon DEF Told, NothingIsRight
  <2> QED
    BY <2>2, Zenon DEF Matching, Rejected
<1> QED
  BY <1>1, Telling, PTL

\* The answer of a job that nothing disturbed is true of the graph.
THEOREM TrueAnswers == Spec => []AnswersAreTrue
<1> USE DEF Ends
<1>1. ASSUME Truth, job.stage = "done", job.status = "ok", calm, ~cut
      PROVE  Told(job, graph)
  BY <1>1 DEF Truth, Idle
<1>2. ASSUME Told(job, graph), job.stage = "done", job.status = "ok", job.tool = "call_chain"
      PROVE  {r.id : r \in job.rows} =
               {n.id : n \in {m \in graph.nodes : Walk(graph, TargetId, m.id, Depth)}}
  <2>1. job.rows = call_chain(graph, TargetId, Depth)
    BY <1>2 DEF Told, Walked, TargetId, IdOf
  <2>2. \A b : b \in Ends(job.rows) <=> Walk(graph, TargetId, b, Depth)
    BY <2>1, TraversalFacts, QueriesAssumption
  <2>3. \A b : Walk(graph, TargetId, b, Depth) => b \in IdsOf(graph)
    BY WalksEndInNodes, QueriesAssumption
  <2> QED
    BY <2>2, <2>3 DEF IdsOf
<1>3. ASSUME Told(job, graph), job.stage = "done", job.status = "ok", job.tool = "blast_radius"
      PROVE  {r.id : r \in job.rows} =
               {n.id : n \in {m \in graph.nodes : Walk(graph, m.id, TargetId, Depth)}}
  <2>1. job.rows = reverse_call_chain(graph, TargetId, Depth)
    BY <1>3 DEF Told, Walked, TargetId, IdOf
  <2>2. \A b : b \in Ends(job.rows) <=> Walk(graph, b, TargetId, Depth)
    BY <2>1, TraversalFacts, QueriesAssumption
  <2>3. \A b : Walk(graph, b, TargetId, Depth) => b \in IdsOf(graph)
    BY WalksEndInNodes, QueriesAssumption
  <2> QED
    BY <2>2, <2>3 DEF IdsOf
<1>4. ASSUME Told(job, graph), job.stage = "done", job.tool = "symbol", NEW r \in job.rows
      PROVE  TrueRow(graph, r)
  BY <1>4 DEF Told, Symbol
<1>5. ASSUME Told(job, graph), job.stage = "done", job.status = "ok", job.tool = "stats"
      PROVE  Cardinality({r.count : r \in {s \in job.rows :
                                             s.part \in {"nodes", "languages", "kinds"}}}) = 1
  <2>1. Counted(graph, job.todo, job.rows, 5)
    BY <1>5 DEF Told, Counting
  <2>2. job.rows = {CountRow(graph, i) : i \in 1 .. 5}
    BY <2>1 DEF Counted
  <2> DEFINE size == Cardinality(graph.nodes)
             shown == {s \in job.rows : s.part \in {"nodes", "languages", "kinds"}}
  <2>3. \A i \in 1 .. 5 : CountRow(graph, i).part = StatParts[i]
                          /\ CountRow(graph, i).count = Stat(graph, StatParts[i])
    BY DEF CountRow
  <2>4. ASSUME NEW s \in shown PROVE s.count = size
    <3>1. PICK i \in 1 .. 5 : s = CountRow(graph, i)
      BY <2>2
    <3>2. s.part \in {"nodes", "languages", "kinds"} /\ s.count = Stat(graph, s.part)
      BY <2>3, <3>1
    <3> QED
      BY <3>2 DEF Stat
  <2>5. CountRow(graph, 1) \in shown
    <3>1. 1 \in 1 .. 5 /\ StatParts[1] = "nodes"
      BY DEF StatParts
    <3> QED
      BY <2>2, <2>3, <3>1
  <2> HIDE DEF shown, size
  <2>6. {r.count : r \in shown} = {size}
    BY <2>4, <2>5
  <2>7. Cardinality({size}) = 1
    BY FS_Singleton
  <2> QED
    BY <2>6, <2>7 DEF shown
<1>6. Truth => AnswersAreTrue
  BY <1>1, <1>2, <1>3, <1>4, <1>5 DEF AnswersAreTrue, TrueRow
<1> QED
  BY <1>6, Telling, PTL

-----------------------------------------------------------------------------
\* Cypher's paths.

Single(E) == {<<e>> : e \in E}

\* A path of k edges of E: each starts where the one before ends, none comes twice.
Path(E, k, p) ==
    /\ p \in Seq(E) /\ Len(p) = k
    /\ \A i \in 1 .. k - 1 : p[i].dst = p[i + 1].src
    /\ \A i, j \in 1 .. k : p[i] = p[j] => i = j

\* What a step adds: an edge that starts where the path ends, not yet on it.
LEMMA ExtendedFacts ==
  ASSUME NEW E, NEW P \in SUBSET Seq(E)
  PROVE  /\ Falkor!Extended(P, E) \in SUBSET Seq(E)
         /\ \A s : s \in Falkor!Extended(P, E) <=>
              \E u \in P : \E e \in E :
                /\ s = Append(u, e) /\ Last(u).dst = e.src /\ ~Contains(u, e)
<1>1. \A s : s \in Falkor!Extended(P, E) <=>
        \E t \in P \X E :
          Last(t[1]).dst = t[2].src /\ ~Contains(t[1], t[2]) /\ s = Append(t[1], t[2])
  BY Zenon DEF Falkor!Extended, Falkor!Last, Falkor!Contains, Last, Contains
<1>2. ASSUME NEW s
      PROVE  s \in Falkor!Extended(P, E) <=>
              \E u \in P : \E e \in E :
                /\ s = Append(u, e) /\ Last(u).dst = e.src /\ ~Contains(u, e)
  <2>1. ASSUME NEW t \in P \X E,
               Last(t[1]).dst = t[2].src, ~Contains(t[1], t[2]), s = Append(t[1], t[2])
        PROVE  \E u \in P : \E e \in E :
                /\ s = Append(u, e) /\ Last(u).dst = e.src /\ ~Contains(u, e)
    <3>1. t[1] \in P /\ t[2] \in E
      OBVIOUS
    <3> QED
      BY ONLY <2>1, <3>1, Zenon
  <2>2. ASSUME NEW u \in P, NEW e \in E,
               s = Append(u, e), Last(u).dst = e.src, ~Contains(u, e)
        PROVE  \E t \in P \X E :
                 Last(t[1]).dst = t[2].src /\ ~Contains(t[1], t[2]) /\ s = Append(t[1], t[2])
    <3> DEFINE t == <<u, e>>
    <3>1. t \in P \X E /\ t[1] = u /\ t[2] = e
      OBVIOUS
    <3> HIDE DEF t
    <3>2. Last(t[1]).dst = t[2].src /\ ~Contains(t[1], t[2]) /\ s = Append(t[1], t[2])
      BY ONLY <2>2, <3>1, Zenon
    <3> QED
      BY ONLY <3>1, <3>2, Zenon
  <2> QED
    BY ONLY <1>1, <2>1, <2>2, Zenon
<1>3. Falkor!Extended(P, E) \in SUBSET Seq(E)
  <2> SUFFICES ASSUME NEW s \in Falkor!Extended(P, E) PROVE s \in Seq(E)
    OBVIOUS
  <2>1. PICK u \in P, e \in E : s = Append(u, e)
    BY <1>2
  <2> QED
    BY <2>1
<1> QED
  BY <1>2, <1>3

\* f[k] are the paths of k edges.
Grows(f, E, N) ==
  /\ \A k \in 1 .. N : f[k] \in SUBSET Seq(E)
  /\ N > 0 => f[1] = Single(E)
  /\ \A k \in 1 .. N - 1 : f[k + 1] = Falkor!Extended(f[k], E)

\* The recursion in Paths exists.
LEMMA PathsDefined ==
  ASSUME NEW E, NEW N \in Nat
  PROVE  \E f : Falkor!Paths(E, N) = UNION {f[k] : k \in 1 .. N} /\ Grows(f, E, N)
<1> DEFINE U == SUBSET Seq(E)
           A == Single(E)
           F == [P \in U |-> Falkor!Extended(P, E)]
           of[k \in 1 .. N] ==
             IF k = 1 THEN {<<e>> : e \in E} ELSE Falkor!Extended(of[k - 1], E)
           Fits(f) == f = [k \in 1 .. N |-> IF k = 1 THEN A ELSE Falkor!Extended(f[k - 1], E)]
<1>1. A \in U
  <2>1. \A e \in E : <<e>> \in Seq(E)
    OBVIOUS
  <2> QED
    BY <2>1 DEF Single
<1>2. \A P \in U : Falkor!Extended(P, E) \in U
  BY ExtendedFacts
<1> HIDE DEF U, A
<1>3. F \in [U -> U] /\ \A P \in U : F[P] = Falkor!Extended(P, E)
  BY <1>2
<1> HIDE DEF F
<1>4. PICK h : Iterates(h, U, A, F)
  BY <1>1, <1>3, IterationExists, Zenon
<1>5. h \in [Nat -> U] /\ h[0] = A /\ \A n \in Nat : h[n + 1] = Falkor!Extended(h[n], E)
  BY <1>3, <1>4 DEF Iterates
<1> DEFINE f == [k \in 1 .. N |-> h[k - 1]]
<1>6. \A k \in 1 .. N : h[k - 1] = IF k = 1 THEN A ELSE Falkor!Extended(f[k - 1], E)
  <2> TAKE k \in 1 .. N
  <2>1. CASE k = 1
    <3>1. k - 1 = 0
      BY <2>1
    <3> QED
      BY <1>5, <2>1, <3>1
  <2>2. CASE k # 1
    <3>1. k - 2 \in Nat /\ (k - 2) + 1 = k - 1 /\ k - 1 \in 1 .. N /\ (k - 1) - 1 = k - 2
      BY <2>2
    <3>2. f[k - 1] = h[k - 2] /\ h[k - 1] = Falkor!Extended(h[k - 2], E)
      BY <1>5, <3>1
    <3> QED
      BY <2>2, <3>2, Zenon
  <2> QED
    BY <2>1, <2>2
<1>7. Fits(f)
  BY <1>6, Zenon
<1>7a. \A k \in 1 .. N : f[k] = h[k - 1]
  OBVIOUS
<1> HIDE DEF f
<1>8. \E x : Fits(x)
  BY <1>7
<1>9. Fits(of)
  BY <1>8, Zenon DEF A, Single
<1> DEFINE K == [k \in 1 .. N |-> IF k = 1 THEN A ELSE Falkor!Extended(of[k - 1], E)]
<1>10. of = K
  BY <1>9, Zenon
<1>11. Falkor!Paths(E, N) = UNION {of[k] : k \in 1 .. N}
  BY Zenon DEF Falkor!Paths
<1> HIDE DEF of, Fits
<1>12. \A k \in 1 .. N : K[k] = IF k = 1 THEN A ELSE Falkor!Extended(of[k - 1], E)
  BY Zenon
<1> HIDE DEF K
<1>13. \A k \in 1 .. N : of[k] = IF k = 1 THEN A ELSE Falkor!Extended(of[k - 1], E)
  BY <1>10, <1>12, Zenon
<1>14. N > 0 => of[1] = A
  BY <1>13
<1>15. \A k \in 1 .. N - 1 : of[k + 1] = Falkor!Extended(of[k], E)
  <2> TAKE k \in 1 .. N - 1
  <2>1. k + 1 \in 1 .. N /\ k + 1 # 1 /\ (k + 1) - 1 = k
    OBVIOUS
  <2> QED
    BY <1>13, <2>1
<1> DEFINE T == {m \in Nat : m + 1 \in 1 .. N => of[m + 1] \in U}
<1>16. 0 \in T
  BY <1>1, <1>14
<1>17. \A m \in Nat : m \in T => m + 1 \in T
  <2> TAKE m \in Nat
  <2> HAVE m \in T
  <2>1. CASE (m + 1) + 1 \in 1 .. N
    <3>1. m + 1 \in 1 .. N - 1 /\ m + 1 \in 1 .. N
      BY <2>1
    <3>2. of[m + 1] \in U /\ of[(m + 1) + 1] = Falkor!Extended(of[m + 1], E)
      BY <1>15, <3>1
    <3> QED
      BY <1>2, <3>2
  <2>2. CASE (m + 1) + 1 \notin 1 .. N
    BY <2>2
  <2> QED
    BY <2>1, <2>2
<1> HIDE DEF T
<1>18. \A m \in Nat : m \in T
  BY <1>16, <1>17, Induct
<1>19. \A k \in 1 .. N : of[k] \in U
  <2> TAKE k \in 1 .. N
  <2>1. k - 1 \in T /\ (k - 1) + 1 = k
    BY <1>18
  <2> QED
    BY <2>1 DEF T
<1>20. Grows(of, E, N)
  BY <1>14, <1>15, <1>19 DEF Grows, A, U
<1> QED
  BY <1>11, <1>20, Zenon

\* A path and an edge more, and what a path is without its last edge.
LEMMA PathGrows ==
  ASSUME NEW E, NEW k \in Nat \ {0}
  PROVE  \A p : Path(E, k + 1, p) <=>
           \E u : \E e \in E : /\ Path(E, k, u) /\ p = Append(u, e)
                               /\ Last(u).dst = e.src /\ ~Contains(u, e)
<1> TAKE p
<1>1. ASSUME NEW u, NEW e \in E, Path(E, k, u), p = Append(u, e),
             Last(u).dst = e.src, ~Contains(u, e)
      PROVE  Path(E, k + 1, p)
  <2>1. /\ u \in Seq(E) /\ Len(u) = k /\ \A i \in 1 .. k - 1 : u[i].dst = u[i + 1].src
        /\ \A i, j \in 1 .. k : u[i] = u[j] => i = j
    BY <1>1 DEF Path
  <2>2. /\ p \in Seq(E) /\ Len(p) = k + 1 /\ p[k + 1] = e
        /\ \A i \in 1 .. k : p[i] = u[i]
    BY <1>1, <2>1
  <2>3. u[k].dst = e.src /\ \A i \in 1 .. k : u[i] # e
    BY <1>1, <2>1 DEF Last, Contains
  <2>4. ASSUME NEW i \in 1 .. (k + 1) - 1 PROVE p[i].dst = p[i + 1].src
    <3>1. CASE i = k
      BY <2>2, <2>3, <3>1
    <3>2. CASE i # k
      <4>1. i \in 1 .. k - 1 /\ i \in 1 .. k /\ i + 1 \in 1 .. k
        BY <3>2
      <4> QED
        BY <2>1, <2>2, <4>1
    <3> QED
      BY <3>1, <3>2
  <2>5. ASSUME NEW i \in 1 .. k + 1, NEW j \in 1 .. k + 1, p[i] = p[j] PROVE i = j
    <3>1. CASE i = k + 1 /\ j = k + 1
      BY <3>1
    <3>2. CASE i # k + 1 /\ j # k + 1
      <4>1. i \in 1 .. k /\ j \in 1 .. k
        BY <3>2
      <4> QED
        BY <2>1, <2>2, <2>5, <4>1
    <3>3. CASE i = k + 1 /\ j # k + 1
      <4>1. j \in 1 .. k
        BY <3>3
      <4> QED
        BY <2>2, <2>3, <2>5, <3>3, <4>1
    <3>4. CASE i # k + 1 /\ j = k + 1
      <4>1. i \in 1 .. k
        BY <3>4
      <4> QED
        BY <2>2, <2>3, <2>5, <3>4, <4>1
    <3> QED
      BY <3>1, <3>2, <3>3, <3>4
  <2> QED
    BY <2>2, <2>4, <2>5 DEF Path
<1>2. ASSUME Path(E, k + 1, p)
      PROVE  \E u : \E e \in E : /\ Path(E, k, u) /\ p = Append(u, e)
                                 /\ Last(u).dst = e.src /\ ~Contains(u, e)
  <2>1. /\ p \in Seq(E) /\ Len(p) = k + 1 /\ \A i \in 1 .. k : p[i].dst = p[i + 1].src
        /\ \A i, j \in 1 .. k + 1 : p[i] = p[j] => i = j
    BY <1>2 DEF Path
  <2> DEFINE u == [i \in 1 .. k |-> p[i]]
             e == p[k + 1]
  <2>2. u \in Seq(E) /\ Len(u) = k /\ \A i \in 1 .. k : u[i] = p[i]
    BY <2>1
  <2>3. e \in E
    BY <2>1
  <2> HIDE DEF u
  <2>4. p = Append(u, e)
    <3>1. /\ Append(u, e) \in Seq(E) /\ Len(Append(u, e)) = k + 1
          /\ \A i \in 1 .. k + 1 : Append(u, e)[i] = p[i]
      BY <2>2, <2>3
    <3> QED
      BY <2>1, <3>1
  <2>5. Last(u).dst = e.src
    BY <2>1, <2>2 DEF Last
  <2>6. ~Contains(u, e)
    <3>1. ASSUME NEW i \in 1 .. k, u[i] = e PROVE FALSE
      <4>1. p[i] = p[k + 1] /\ i \in 1 .. k + 1 /\ k + 1 \in 1 .. k + 1 /\ i # k + 1
        BY <2>2, <3>1
      <4> QED
        BY <2>1, <4>1
    <3> QED
      BY <2>2, <3>1 DEF Contains
  <2>7. Path(E, k, u)
    <3>1. ASSUME NEW i \in 1 .. k - 1 PROVE u[i].dst = u[i + 1].src
      <4>1. i \in 1 .. k /\ i + 1 \in 1 .. k
        OBVIOUS
      <4> QED
        BY <2>1, <2>2, <4>1
    <3>2. ASSUME NEW i \in 1 .. k, NEW j \in 1 .. k, u[i] = u[j] PROVE i = j
      <4>1. i \in 1 .. k + 1 /\ j \in 1 .. k + 1 /\ p[i] = p[j]
        BY <2>2, <3>2
      <4> QED
        BY <2>1, <4>1
    <3> QED
      BY <2>2, <3>1, <3>2 DEF Path
  <2> QED
    BY <2>3, <2>4, <2>5, <2>6, <2>7
<1> QED
  BY <1>1, <1>2

\* Paths returns the paths of 1..N edges.
LEMMA PathsFacts ==
  ASSUME NEW E, NEW N \in Nat
  PROVE  \A p : p \in Falkor!Paths(E, N) <=> \E k \in 1 .. N : Path(E, k, p)
<1>1. PICK f : Falkor!Paths(E, N) = UNION {f[k] : k \in 1 .. N} /\ Grows(f, E, N)
  BY PathsDefined
<1>2. /\ \A k \in 1 .. N : f[k] \in SUBSET Seq(E)
      /\ N > 0 => f[1] = Single(E)
      /\ \A k \in 1 .. N - 1 : f[k + 1] = Falkor!Extended(f[k], E)
  BY <1>1 DEF Grows
<1> DEFINE Is(k) == \A p : p \in f[k] <=> Path(E, k, p)
           T == {m \in Nat : m + 1 \in 1 .. N => Is(m + 1)}
<1>3. ASSUME 1 \in 1 .. N PROVE Is(1)
  <2>1. f[1] = Single(E)
    BY <1>2, <1>3
  <2>2. \A p : p \in Single(E) <=> \E e \in E : p = <<e>>
    BY DEF Single
  <2>3. \A p : Path(E, 1, p) <=> \E e \in E : p = <<e>>
    <3> TAKE p
    <3>1. ASSUME Path(E, 1, p) PROVE \E e \in E : p = <<e>>
      <4>1. p \in Seq(E) /\ Len(p) = 1
        BY <3>1 DEF Path
      <4>2. p[1] \in E /\ p = <<p[1]>>
        BY <4>1
      <4> QED
        BY <4>2
    <3>2. ASSUME NEW e \in E, p = <<e>> PROVE Path(E, 1, p)
      BY <3>2 DEF Path
    <3> QED
      BY <3>1, <3>2
  <2> QED
    BY ONLY <2>1, <2>2, <2>3, Zenon
<1>4. ASSUME NEW k \in 1 .. N - 1, Is(k) PROVE Is(k + 1)
  <2>1. k \in Nat \ {0} /\ k \in 1 .. N
    OBVIOUS
  <2>2. Is(k)
    BY <1>4
  <2>3. f[k] \in SUBSET Seq(E) /\ f[k + 1] = Falkor!Extended(f[k], E)
    BY <1>2, <2>1
  <2>4. \A s : s \in Falkor!Extended(f[k], E) <=>
          \E u \in f[k] : \E e \in E :
            /\ s = Append(u, e) /\ Last(u).dst = e.src /\ ~Contains(u, e)
    BY <2>3, ExtendedFacts
  <2>5. \A p : Path(E, k + 1, p) <=>
           \E u : \E e \in E : /\ Path(E, k, u) /\ p = Append(u, e)
                               /\ Last(u).dst = e.src /\ ~Contains(u, e)
    BY <2>1, PathGrows
  <2> QED
    BY ONLY <2>2, <2>3, <2>4, <2>5, Zenon
<1> HIDE DEF Is
<1>5. \A m \in Nat : m \in T
  <2>1. 0 \in T
    BY <1>3
  <2>2. \A m \in Nat : m \in T => m + 1 \in T
    <3> TAKE m \in Nat
    <3> HAVE m \in T
    <3>1. CASE (m + 1) + 1 \in 1 .. N
      <4>1. m + 1 \in 1 .. N - 1 /\ Is(m + 1)
        BY <3>1
      <4> QED
        BY <1>4, <4>1
    <3>2. CASE (m + 1) + 1 \notin 1 .. N
      BY <3>2
    <3> QED
      BY <3>1, <3>2
  <2> HIDE DEF T
  <2> QED
    BY <2>1, <2>2, Induct
<1>6. \A k \in 1 .. N : Is(k)
  <2> TAKE k \in 1 .. N
  <2>1. k - 1 \in T /\ (k - 1) + 1 = k
    <3>1. k - 1 \in Nat
      OBVIOUS
    <3> HIDE DEF T
    <3> QED
      BY <1>5, <3>1
  <2>2. Is((k - 1) + 1)
    BY <2>1
  <2> QED
    BY ONLY <2>1, <2>2, Zenon
<1> QED
  BY <1>1, <1>6 DEF Is

\* A path of edges is a walk.
LEMMA PathJoins ==
  ASSUME NEW E, NEW S, \A e \in E : e.src \in S /\ e.dst \in S,
         NEW k \in Nat \ {0}, NEW p, Path(E, k, p), NEW a, p[1].src = a, NEW b, Last(p).dst = b
  PROVE  Joins(S, Pairs(E), a, b, k)
<1> DEFINE R == Pairs(E)
<1>0. \A x, y : <<x, y>> \in R <=> \E e \in E : e.src = x /\ e.dst = y
  BY DEF Pairs
<1> HIDE DEF R
<1>1. /\ p \in Seq(E) /\ Len(p) = k /\ \A i \in 1 .. k - 1 : p[i].dst = p[i + 1].src
  BY DEF Path
<1>2. \A i \in 1 .. k : p[i] \in E
  BY <1>1
<1> DEFINE q == [i \in 0 .. k |-> IF i = 0 THEN p[1].src ELSE p[i].dst]
<1>3. q[0] = a /\ q[k] = b /\ \A i \in 1 .. k : q[i] = p[i].dst
  BY <1>1 DEF Last
<1>4. q \in [0 .. k -> S]
  <2>1. ASSUME NEW i \in 0 .. k PROVE (IF i = 0 THEN p[1].src ELSE p[i].dst) \in S
    <3>1. 1 \in 1 .. k /\ (i # 0 => i \in 1 .. k)
      OBVIOUS
    <3> QED
      BY <1>2, <3>1
  <2> QED
    BY <2>1
<1> HIDE DEF q
<1>5. ASSUME NEW i \in 1 .. k PROVE <<q[i - 1], q[i]>> \in R
  <2>1. q[i - 1] = p[i].src
    <3>1. CASE i = 1
      <4>1. i - 1 = 0
        BY <3>1
      <4> QED
        BY <1>3, <3>1, <4>1
    <3>2. CASE i # 1
      <4>1. i - 1 \in 1 .. k - 1 /\ i - 1 \in 1 .. k /\ (i - 1) + 1 = i
        BY <3>2
      <4> QED
        BY <1>1, <1>3, <4>1
    <3> QED
      BY <3>1, <3>2
  <2>2. p[i] \in E /\ q[i] = p[i].dst
    BY <1>2, <1>3
  <2> QED
    BY <1>0, <2>1, <2>2, Zenon
<1> QED
  BY <1>3, <1>4, <1>5 DEF Joins, R

\* Paths of 1..N edges lead from a to b just where walks of 1..N steps do.
LEMMA PathEnds ==
  ASSUME NEW E, NEW S, \A e \in E : e.src \in S /\ e.dst \in S,
         NEW N \in Nat, NEW a, NEW b
  PROVE  (\E p \in Falkor!Paths(E, N) : p[1].src = a /\ Last(p).dst = b) <=>
         \E k \in 1 .. N : Joins(S, Pairs(E), a, b, k)
<1> DEFINE R == Pairs(E)
<1>0. \A x, y : <<x, y>> \in R <=> \E e \in E : e.src = x /\ e.dst = y
  BY DEF Pairs
<1> HIDE DEF R
<1>1. ASSUME NEW k \in 1 .. N, NEW p, Path(E, k, p), p[1].src = a, Last(p).dst = b
      PROVE  Joins(S, R, a, b, k)
  <2>1. k \in Nat \ {0}
    OBVIOUS
  <2> QED
    BY <1>1, <2>1, PathJoins DEF R
<1>2. ASSUME \E k \in 1 .. N : Joins(S, R, a, b, k)
      PROVE  \E k \in 1 .. N : \E p : Path(E, k, p) /\ p[1].src = a /\ Last(p).dst = b
  <2> DEFINE T == {k \in 1 .. N : Joins(S, R, a, b, k)}
  <2>1. PICK k \in T : \A j \in T : k <= j
    <3>1. T \in SUBSET (1 .. N) /\ T # {} /\ 1 \in Int /\ N \in Int
      BY <1>2
    <3> HIDE DEF T
    <3> QED
      BY ONLY <3>1, BoundsExist, Zenon
  <2>2. k \in 1 .. N /\ k \in Nat /\ Joins(S, R, a, b, k)
    OBVIOUS
  <2>3. \A j \in 1 .. k - 1 : ~Joins(S, R, a, b, j)
    BY <2>1
  <2> HIDE DEF T
  <2>4. PICK q \in [0 .. k -> S] :
           q[0] = a /\ q[k] = b /\ \A i \in 1 .. k : <<q[i - 1], q[i]>> \in R
    BY <2>2 DEF Joins
  <2> DEFINE edge(i) == CHOOSE e \in E : e.src = q[i - 1] /\ e.dst = q[i]
             p == [i \in 1 .. k |-> edge(i)]
  <2>5. \A i \in 1 .. k : edge(i) \in E /\ edge(i).src = q[i - 1] /\ edge(i).dst = q[i]
    <3> TAKE i \in 1 .. k
    <3>1. \E e \in E : e.src = q[i - 1] /\ e.dst = q[i]
      BY <1>0, <2>4
    <3> QED
      BY <3>1, Zenon
  <2> HIDE DEF edge
  <2>6. /\ p \in Seq(E) /\ Len(p) = k
        /\ \A i \in 1 .. k : p[i].src = q[i - 1] /\ p[i].dst = q[i]
    BY <2>2, <2>5
  <2> HIDE DEF p
  <2>7. ASSUME NEW i \in 1 .. k, NEW j \in 1 .. k, p[i] = p[j], i < j PROVE FALSE
    <3>1. q[i] = q[j] /\ i \in 0 .. k /\ j \in 0 .. k /\ k - (j - i) \in 1 .. k - 1
      BY <2>2, <2>6, <2>7
    <3>2. Joins(S, R, a, b, k - (j - i))
      BY <2>2, <2>4, <2>7, <3>1, CutDetour
    <3> QED
      BY <2>3, <3>1, <3>2
  <2>8. \A i, j \in 1 .. k : p[i] = p[j] => i = j
    <3> TAKE i, j \in 1 .. k
    <3> HAVE p[i] = p[j]
    <3> SUFFICES ASSUME i # j PROVE FALSE
      OBVIOUS
    <3>1. i < j \/ j < i
      BY <2>2
    <3> QED
      BY <2>7, <3>1
  <2>9. \A i \in 1 .. k - 1 : p[i].dst = p[i + 1].src
    <3> TAKE i \in 1 .. k - 1
    <3>1. i \in 1 .. k /\ i + 1 \in 1 .. k /\ (i + 1) - 1 = i
      BY <2>2
    <3> QED
      BY <2>6, <3>1
  <2>10. Path(E, k, p)
    BY <2>6, <2>8, <2>9 DEF Path
  <2>11. p[1].src = a /\ Last(p).dst = b
    <3>1. 1 \in 1 .. k /\ k \in 1 .. k /\ 1 - 1 = 0
      BY <2>2
    <3> QED
      BY <2>4, <2>6, <3>1 DEF Last
  <2> QED
    BY <2>2, <2>10, <2>11
<1>3. \A p : p \in Falkor!Paths(E, N) <=> \E k \in 1 .. N : Path(E, k, p)
  BY PathsFacts
<1>4. (\E p \in Falkor!Paths(E, N) : p[1].src = a /\ Last(p).dst = b) <=>
      \E k \in 1 .. N : \E p : Path(E, k, p) /\ p[1].src = a /\ Last(p).dst = b
  BY ONLY <1>3, Zenon
<1>5. (\E p \in Falkor!Paths(E, N) : p[1].src = a /\ Last(p).dst = b) <=>
      \E k \in 1 .. N : Joins(S, R, a, b, k)
  BY ONLY <1>1, <1>2, <1>4, Zenon
<1> QED
  BY <1>5 DEF R

-----------------------------------------------------------------------------
\* The same answers.

\* Edges of a stored graph join its symbols.
LEMMA EdgesInside ==
  ASSUME NEW g, GraphOK(g)
  PROVE  \A kind : \A e \in Edges(g, kind) : e.src \in IdsOf(g) /\ e.dst \in IdsOf(g)
BY DEF Edges, GraphOK, IdsOf

\* The Cypher of both traversals names the symbols that walks of calls lead to, or from.
LEMMA CypherTraversals ==
  ASSUME NEW g, GraphOK(g), NEW a, NEW b, NEW d \in 1 .. 20
  PROVE  /\ b \in Ends(Falkor!call_chain(g, a, d)) <=> Walk(g, a, b, d)
         /\ a \in Ends(Falkor!reverse_call_chain(g, b, d)) <=> Walk(g, a, b, d)
<1> DEFINE E == Edges(g, "CALLS")
           P == Falkor!Paths(E, d)
           Down(p) == [id |-> Last(p).dst, depth |-> Len(p), path |-> Falkor!NodeNames(g, p),
                       call_lines |-> [i \in DOMAIN p |-> p[i].line]]
           Up(p) == [id |-> p[1].src, depth |-> Len(p), path |-> Falkor!NodeNames(g, p),
                     line |-> p[1].line]
<1>1. Falkor!Hops(d) = d
  BY DEF Falkor!Hops
<1>2. /\ Falkor!call_chain(g, a, d) = {Down(p) : p \in {q \in P : q[1].src = a}}
      /\ Falkor!reverse_call_chain(g, b, d) = {Up(p) : p \in {q \in P : Last(q).dst = b}}
  BY <1>1, Zenon DEF Falkor!call_chain, Falkor!reverse_call_chain, Falkor!Edges, Edges,
                     Falkor!Last, Last
<1>3. \A p : Down(p).id = Last(p).dst /\ Up(p).id = p[1].src
  OBVIOUS
<1> HIDE DEF Down, Up, P
<1>4. /\ b \in Ends(Falkor!call_chain(g, a, d)) <=> \E p \in P : p[1].src = a /\ Last(p).dst = b
      /\ a \in Ends(Falkor!reverse_call_chain(g, b, d)) <=>
           \E p \in P : p[1].src = a /\ Last(p).dst = b
  BY <1>2, <1>3 DEF Ends
<1>5. (\E p \in P : p[1].src = a /\ Last(p).dst = b) <=>
        \E k \in 1 .. d : Joins(IdsOf(g), Pairs(E), a, b, k)
  <2>1. \A e \in E : e.src \in IdsOf(g) /\ e.dst \in IdsOf(g)
    BY EdgesInside
  <2>2. d \in Nat
    OBVIOUS
  <2> HIDE DEF E
  <2> QED
    BY <2>1, <2>2, PathEnds DEF P
<1>6. Walk(g, a, b, d) <=> \E k \in 1 .. d : Joins(IdsOf(g), Pairs(E), a, b, k)
  BY WalkFacts
<1> QED
  BY ONLY <1>4, <1>5, <1>6, Zenon

\* The ids of the symbols that Cypher takes for the trait or for what is in it.
CypherTraits(g, trait) == {n.id : n \in {m \in g.nodes : Falkor!IsTrait(m.name, trait)}}

\* The Cypher of find_implementations names what chains of IMPLEMENTS join with those.
LEMMA CypherImplementationFacts ==
  ASSUME NEW g, GraphOK(g), NEW trait, NEW a
  PROVE  a \in Falkor!find_implementations(g, trait) <=>
           \E k \in 1 .. MaxImpl : \E c \in CypherTraits(g, trait) :
             Joins(IdsOf(g), Pairs(Edges(g, "IMPLEMENTS")), a, c, k)
<1> DEFINE E == Edges(g, "IMPLEMENTS")
           P == Falkor!Paths(E, MaxImpl)
           S == IdsOf(g)
           R == Pairs(E)
           C == CypherTraits(g, trait)
           Is(c) == Falkor!IsTrait(Falkor!NameOf(g, c), trait)
<1>0. MaxImpl \in Nat
  BY QueriesAssumption
<1>1. a \in Falkor!find_implementations(g, trait) <=>
        \E p \in P : p[1].src = a /\ Is(Last(p).dst)
  <2>1. Falkor!find_implementations(g, trait) =
          {p[1].src : p \in {q \in P : Is(Last(q).dst)}}
    BY Zenon DEF Falkor!find_implementations, Falkor!Edges, Edges, Falkor!Last, Last
  <2> HIDE DEF P, Is
  <2> QED
    BY <2>1, Zenon
<1>2. \A c \in S : Is(c) <=> c \in C
  <2> TAKE c \in S
  <2>1. PICK n \in g.nodes : n.id = c
    BY DEF IdsOf
  <2>2. \A m \in g.nodes : m.id = c <=> m = n
    BY <2>1 DEF GraphOK
  <2>3. (CHOOSE m \in g.nodes : m.id = c) = n
    BY <2>1, <2>2
  <2>4. Is(c) <=> Falkor!IsTrait(n.name, trait)
    BY <2>3, Zenon DEF Falkor!NameOf
  <2>5. c \in C <=> \E m \in g.nodes : Falkor!IsTrait(m.name, trait) /\ m.id = c
    BY DEF CypherTraits
  <2> QED
    BY ONLY <2>1, <2>2, <2>4, <2>5, Zenon
<1>3. \A e \in E : e.src \in S /\ e.dst \in S
  BY EdgesInside
<1>4. C \subseteq S
  BY DEF CypherTraits, IdsOf
<1> HIDE DEF E, S, C
<1>5. \A p \in P : Last(p).dst \in S
  <2> TAKE p \in P
  <2>1. PICK k \in 1 .. MaxImpl : Path(E, k, p)
    BY <1>0, PathsFacts
  <2>2. p \in Seq(E) /\ Len(p) = k /\ k \in 1 .. k
    BY <1>0, <2>1 DEF Path
  <2>3. Last(p) \in E
    BY <2>2 DEF Last
  <2> QED
    BY <1>3, <2>3
<1>6. \A c : (\E p \in P : p[1].src = a /\ Last(p).dst = c) <=>
               \E k \in 1 .. MaxImpl : Joins(S, R, a, c, k)
  BY <1>0, <1>3, PathEnds
<1> HIDE DEF P, R, Is
<1>7. (\E p \in P : p[1].src = a /\ Is(Last(p).dst)) <=>
        \E c \in C : \E p \in P : p[1].src = a /\ Last(p).dst = c
  BY ONLY <1>2, <1>4, <1>5, Zenon
<1>8. a \in Falkor!find_implementations(g, trait) <=>
        \E k \in 1 .. MaxImpl : \E c \in C : Joins(S, R, a, c, k)
  BY ONLY <1>1, <1>6, <1>7, Zenon
<1> QED
  BY <1>8 DEF E, S, R, C

\* They are among the types SQL names, and all of them where LIKE finds no name that
\* STARTS WITH does not.
LEMMA CypherImplementations ==
  ASSUME NEW g, GraphOK(g), NEW trait \in Names
  PROVE  /\ Falkor!find_implementations(g, trait) \subseteq Ends(find_implementations(g, trait))
         /\ (\A n \in g.nodes : n.name \in Liked[trait] => n.name \in Prefixed[trait]) =>
              SameImplementations(g, trait)
<1> DEFINE Joined(a, c) == \E k \in 1 .. MaxImpl :
                              Joins(IdsOf(g), Pairs(Edges(g, "IMPLEMENTS")), a, c, k)
           SqlC == Traits(g, trait)
           CypherC == CypherTraits(g, trait)
<1>1. \A a : a \in Ends(find_implementations(g, trait)) <=> \E c \in SqlC : Joined(a, c)
  <2> TAKE a
  <2>1. a \in Ends(find_implementations(g, trait)) <=>
           \E k \in 1 .. MaxImpl : \E c \in SqlC :
             Joins(IdsOf(g), Pairs(Edges(g, "IMPLEMENTS")), a, c, k)
    BY ImplementationFacts
  <2> QED
    BY ONLY <2>1, Zenon
<1>2. \A a : a \in Falkor!find_implementations(g, trait) <=> \E c \in CypherC : Joined(a, c)
  <2> TAKE a
  <2>1. a \in Falkor!find_implementations(g, trait) <=>
           \E k \in 1 .. MaxImpl : \E c \in CypherC :
             Joins(IdsOf(g), Pairs(Edges(g, "IMPLEMENTS")), a, c, k)
    BY CypherImplementationFacts
  <2> QED
    BY ONLY <2>1, Zenon
<1> HIDE DEF Joined
<1>3. CypherC \subseteq SqlC
  BY LikeAssumption DEF CypherTraits, Traits, Falkor!IsTrait, IsTrait
<1>4. (\A n \in g.nodes : n.name \in Liked[trait] => n.name \in Prefixed[trait]) =>
        SqlC \subseteq CypherC
  BY DEF CypherTraits, Traits, Falkor!IsTrait, IsTrait
<1> HIDE DEF SqlC, CypherC
<1>5. Falkor!find_implementations(g, trait) \subseteq Ends(find_implementations(g, trait))
  BY <1>1, <1>2, <1>3
<1>6. SqlC \subseteq CypherC => SameImplementations(g, trait)
  BY <1>1, <1>2, <1>5 DEF SameImplementations
<1> QED
  BY <1>4, <1>5, <1>6

\* Listings and the ends of one edge.
LEMMA SameTake ==
  \A rows, rank, n : Falkor!Sql!Take(rows, rank, n) = Take(rows, rank, n)
  BY Zenon DEF Falkor!Sql!Take, Take, Falkor!Sql!Nth, Nth, Falkor!Sql!Before, Before,
               Falkor!Sql!Cardinality, Cardinality

\* The degree of a symbol is a number.
LEMMA DegreesAreNumbers ==
  ASSUME NEW g, GraphOK(g), NEW n \in g.nodes
  PROVE  /\ -(Cardinality({e \in g.edges : e.src = n.id})
                + Cardinality({e \in g.edges : e.dst = n.id})) \in Int
         /\ -(Cardinality({e.dst : e \in {x \in g.edges : x.src = n.id}})
                + Cardinality({e.src : e \in {x \in g.edges : x.dst = n.id}})) \in Int
<1> DEFINE Out == {e \in g.edges : e.src = n.id}
           In == {e \in g.edges : e.dst = n.id}
           To == {e.dst : e \in {x \in g.edges : x.src = n.id}}
           From == {e.src : e \in {x \in g.edges : x.dst = n.id}}
<1>1. IsFiniteSet(Out) /\ IsFiniteSet(In)
  BY FS_Subset DEF GraphOK
<1>2. To \subseteq Ids /\ From \subseteq Ids
  BY DEF GraphOK
<1>3. IsFiniteSet(To) /\ IsFiniteSet(From)
  BY <1>2, QueriesAssumption, FS_Subset
<1> HIDE DEF Out, In, To, From
<1>4. /\ Cardinality(Out) \in Nat /\ Cardinality(In) \in Nat
      /\ Cardinality(To) \in Nat /\ Cardinality(From) \in Nat
  BY <1>1, <1>3, FS_CardinalityType
<1>5. /\ -(Cardinality(Out) + Cardinality(In)) \in Int
      /\ -(Cardinality(To) + Cardinality(From)) \in Int
  BY <1>4
<1> QED
  BY <1>5 DEF Out, In, To, From

LEMMA CypherListings ==
  ASSUME NEW g, GraphOK(g), NEW a
  PROVE  /\ Falkor!symbol_callers(g, a) = Ends(symbol_callers(g, a))
         /\ Falkor!symbol_callees(g, a) = Ends(symbol_callees(g, a))
         /\ \A limit \in Nat \ {0} : Falkor!dead_symbols(g, Callables, {}, limit) =
                                     dead_symbols(g, Callables, {}, limit)
<1> DEFINE E == Edges(g, "CALLS")
<1>1. \A e \in E : (\E n \in g.nodes : n.id = e.src) /\ (\E n \in g.nodes : n.id = e.dst)
  BY DEF Edges, GraphOK
<1>2. /\ Falkor!symbol_callers(g, a) = {e.src : e \in {x \in E : x.dst = a}}
      /\ Falkor!symbol_callees(g, a) = {e.dst : e \in {x \in E : x.src = a}}
  BY DEF Falkor!symbol_callers, Falkor!symbol_callees, Falkor!Edges, Edges
<1>3. /\ symbol_callers(g, a) = {n \in g.nodes : \E e \in E : e.dst = a /\ e.src = n.id}
      /\ symbol_callees(g, a) = {n \in g.nodes : \E e \in E : e.src = a /\ e.dst = n.id}
  BY DEF symbol_callers, symbol_callees
<1> HIDE DEF E
<1>4. Falkor!symbol_callers(g, a) = Ends(symbol_callers(g, a))
  BY <1>1, <1>2, <1>3 DEF Ends
<1>5. Falkor!symbol_callees(g, a) = Ends(symbol_callees(g, a))
  BY <1>1, <1>2, <1>3 DEF Ends
<1>6. \A limit \in Nat \ {0} : Falkor!dead_symbols(g, Callables, {}, limit) =
                               dead_symbols(g, Callables, {}, limit)
  BY SameTake DEF Falkor!dead_symbols, dead_symbols, Falkor!Edges, Edges, Falkor!AtLeastOne
<1> QED
  BY <1>4, <1>5, <1>6

\* What LIMIT cuts nothing from is all of its rows, whatever their order.
LEMMA Uncut ==
  ASSUME NEW g, GraphOK(g), NEW rows \in SUBSET g.nodes, NEW rank,
         \A n \in rows : rank[n] \in Int, NEW limit \in Nat
  PROVE  /\ Len(Take(rows, rank, limit)) < limit => Cardinality(rows) <= limit
         /\ Cardinality(rows) <= limit => ToSet(Take(rows, rank, limit)) = rows
<1>1. Rankable(rows, rank) /\ Cardinality(rows) \in Nat
  BY StoredFacts
<1>2. Len(Take(rows, rank, limit)) = IF limit < Cardinality(rows) THEN limit ELSE Cardinality(rows)
  BY <1>1, TakeFacts
<1>3. Cardinality(rows) <= limit => \A a : a \in ToSet(Take(rows, rank, limit)) <=> a \in rows
  BY <1>1, TakeFacts
<1>4. Len(Take(rows, rank, limit)) < limit => Cardinality(rows) <= limit
  BY <1>1, <1>2
<1>5. Cardinality(rows) <= limit => ToSet(Take(rows, rank, limit)) = rows
  BY <1>3
<1> QED
  BY <1>4, <1>5

\* Where LIMIT cuts nothing the backends list the same symbols, found symbols if LIKE
\* finds no name that CONTAINS does not.
LEMMA CypherFinds ==
  ASSUME NEW g, GraphOK(g), NEW limit \in Nat \ {0}
  PROVE  SameListings(g, limit)
<1> DEFINE L == Listed(g)
<1>1. L \in SUBSET g.nodes /\ Falkor!Listed(g) = L
  BY DEF Listed, Falkor!Listed
<1>2. Len(hotspots(g, limit)) < limit =>
        ToSet(Falkor!hotspots(g, limit)) = ToSet(hotspots(g, limit))
  <2> DEFINE near == [n \in L |-> Cardinality({e.dst : e \in {x \in g.edges : x.src = n.id}})
                                 + Cardinality({e.src : e \in {x \in g.edges : x.dst = n.id}})]
             all == [n \in L |-> Cardinality({e \in g.edges : e.src = n.id})
                                + Cardinality({e \in g.edges : e.dst = n.id})]
             rank == [n \in L |-> -near[n]]
             rankF == [n \in L |-> -all[n]]
  <2>1. hotspots(g, limit) = Take(L, rank, limit)
    BY DEF hotspots
  <2>2. Falkor!hotspots(g, limit) = Take(L, rankF, limit)
    <3>1. Falkor!AtLeastOne(limit) = limit
      BY DEF Falkor!AtLeastOne
    <3>2. Falkor!hotspots(g, limit) = Falkor!Sql!Take(L, rankF, Falkor!AtLeastOne(limit))
      BY <1>1 DEF Falkor!hotspots, Falkor!Cardinality, Cardinality
    <3> QED
      BY <3>1, <3>2, SameTake
  <2>3. \A n \in L : rank[n] \in Int
    BY <1>1, DegreesAreNumbers
  <2>4. \A n \in L : rankF[n] \in Int
    BY <1>1, DegreesAreNumbers
  <2> HIDE DEF L, rank, rankF
  <2>5. Len(hotspots(g, limit)) < limit => Cardinality(L) <= limit
    BY <1>1, <2>1, <2>3, Uncut
  <2>6. Cardinality(L) <= limit => ToSet(hotspots(g, limit)) = L
    BY <1>1, <2>1, <2>3, Uncut
  <2>7. Cardinality(L) <= limit => ToSet(Falkor!hotspots(g, limit)) = L
    BY <1>1, <2>2, <2>4, Uncut
  <2> QED
    BY <2>5, <2>6, <2>7
<1>3. ASSUME NEW p \in Patterns, Len(find_symbols(g, p, limit)) < limit
      PROVE
        /\ ToSet(Falkor!find_symbols(g, p, limit)) \subseteq ToSet(find_symbols(g, p, limit))
        /\ (\A n \in g.nodes : n.name \in Matches[p] => n.name \in Containing[p]) =>
              ToSet(Falkor!find_symbols(g, p, limit)) = ToSet(find_symbols(g, p, limit))
  <2> DEFINE M == {n \in L : n.name \in Matches[p]}
             C == {n \in L : n.name \in Containing[p]}
             rank == [n \in M |-> 1000 * KindRank(n.kind) + NameLength[n.name]]
             rankF == [n \in C |-> NameLength[n.name]]
  <2>1. find_symbols(g, p, limit) = Take(M, rank, limit)
    BY DEF find_symbols
  <2>2. Falkor!find_symbols(g, p, limit) = Take(C, rankF, limit)
    BY <1>1, SameTake DEF Falkor!find_symbols
  <2>3. M \in SUBSET g.nodes /\ C \in SUBSET M
    BY <1>1, LikeAssumption
  <2>4. \A n \in M : rank[n] \in Int
    <3>1. \A n \in M : 1000 * KindRank(n.kind) + NameLength[n.name] \in Int
      BY <2>3, RanksAreNumbers
    <3> HIDE DEF M
    <3> QED
      BY <3>1
  <2>5. \A n \in C : rankF[n] \in Int
    <3>1. \A n \in g.nodes : NameLength[n.name] \in Int
      BY QueriesAssumption DEF GraphOK
    <3>2. \A n \in C : NameLength[n.name] \in Int
      BY <1>1, <3>1
    <3> HIDE DEF C
    <3> QED
      BY <3>2
  <2>6. (\A n \in g.nodes : n.name \in Matches[p] => n.name \in Containing[p]) => C = M
    BY <2>3
  <2> HIDE DEF L, M, C, rank, rankF
  <2>7. Cardinality(M) <= limit
    BY <1>3, <2>1, <2>3, <2>4, Uncut
  <2>8. Cardinality(C) <= limit
    <3>1. IsFiniteSet(M) /\ Cardinality(M) \in Nat /\ Cardinality(C) \in Nat
      BY <2>3, StoredFacts
    <3>2. Cardinality(C) <= Cardinality(M)
      BY <2>3, <3>1, FS_Subset
    <3> QED
      BY <2>7, <3>1, <3>2
  <2>9. ToSet(find_symbols(g, p, limit)) = M
    BY <2>1, <2>3, <2>4, <2>7, Uncut
  <2>10. ToSet(Falkor!find_symbols(g, p, limit)) = C
    <3>1. C \in SUBSET g.nodes
      BY <2>3
    <3> QED
      BY <2>2, <2>5, <2>8, <3>1, Uncut
  <2> QED
    BY <2>3, <2>6, <2>9, <2>10
<1> QED
  BY <1>2, <1>3 DEF SameListings

\* No relationship comes twice, in whatever direction.
Once(p) == \A i, j \in DOMAIN p : p[i].rel = p[j].rel => i = j

\* Steps join neighbours, and those of one relationship have the same ends.
LEMMA StepsFacts ==
  ASSUME NEW g, GraphOK(g)
  PROVE  /\ Pairs(Falkor!Steps(g)) = Near(g)
         /\ \A e \in Falkor!Steps(g) : e.src \in IdsOf(g) /\ e.dst \in IdsOf(g)
         /\ \A e, f \in Falkor!Steps(g) : e.rel = f.rel =>
              (e.src = f.src /\ e.dst = f.dst) \/ (e.src = f.dst /\ e.dst = f.src)
<1> DEFINE There(e) == [src |-> e.src, dst |-> e.dst, rel |-> e]
           Back(e) == [src |-> e.dst, dst |-> e.src, rel |-> e]
<1>1. \A s : s \in Falkor!Steps(g) <=> \E e \in g.edges : s = There(e) \/ s = Back(e)
  BY DEF Falkor!Steps
<1>2. \A e : /\ There(e).src = e.src /\ There(e).dst = e.dst /\ There(e).rel = e
             /\ Back(e).src = e.dst /\ Back(e).dst = e.src /\ Back(e).rel = e
  OBVIOUS
<1> HIDE DEF There, Back
<1>3. Pairs(Falkor!Steps(g)) \subseteq Near(g)
  BY <1>1, <1>2 DEF Pairs, Near
<1>4. Near(g) \subseteq Pairs(Falkor!Steps(g))
  <2> SUFFICES ASSUME NEW e \in g.edges
               PROVE  /\ <<e.src, e.dst>> \in Pairs(Falkor!Steps(g))
                      /\ <<e.dst, e.src>> \in Pairs(Falkor!Steps(g))
    BY DEF Near
  <2>1. There(e) \in Falkor!Steps(g) /\ Back(e) \in Falkor!Steps(g)
    BY <1>1
  <2>2. \A s \in Falkor!Steps(g) : <<s.src, s.dst>> \in Pairs(Falkor!Steps(g))
    BY DEF Pairs
  <2> QED
    BY <1>2, <2>1, <2>2
<1>5. \A e \in g.edges : e.src \in IdsOf(g) /\ e.dst \in IdsOf(g)
  BY DEF GraphOK, IdsOf
<1>6. \A e \in Falkor!Steps(g) : e.src \in IdsOf(g) /\ e.dst \in IdsOf(g)
  BY <1>1, <1>2, <1>5
<1>7. \A e, f \in Falkor!Steps(g) : e.rel = f.rel =>
        (e.src = f.src /\ e.dst = f.dst) \/ (e.src = f.dst /\ e.dst = f.src)
  BY <1>1, <1>2
<1> QED
  BY <1>3, <1>4, <1>6, <1>7

\* A walk between two symbols that could not be shorter is a path that uses no
\* relationship twice.
LEMMA LeastPath ==
  ASSUME NEW g, GraphOK(g), NEW a, NEW b, NEW k \in Nat, Joins(IdsOf(g), Near(g), a, b, k),
         \A j \in 0 .. k - 1 : ~Joins(IdsOf(g), Near(g), a, b, j)
  PROVE  \E p : Path(Falkor!Steps(g), k, p) /\ Once(p)
                /\ (k > 0 => p[1].src = a /\ Last(p).dst = b)
<1> DEFINE S == IdsOf(g)
           R == Near(g)
           E == Falkor!Steps(g)
<1>1. \A x, y : <<x, y>> \in R <=> \E e \in E : e.src = x /\ e.dst = y
  BY StepsFacts DEF Pairs
<1>2. \A e, f \in E : e.rel = f.rel =>
        (e.src = f.src /\ e.dst = f.dst) \/ (e.src = f.dst /\ e.dst = f.src)
  BY StepsFacts
<1>3. PICK q : SimpleWalk(S, R, a, b, k, q)
  BY ShortestIsSimple
<1> HIDE DEF S, R, E
<1>4. /\ q[0] = a /\ q[k] = b
      /\ \A i \in 1 .. k : <<q[i - 1], q[i]>> \in R
      /\ \A i, j \in 0 .. k : q[i] = q[j] => i = j
  BY <1>3 DEF SimpleWalk
<1> DEFINE step(i) == CHOOSE e \in E : e.src = q[i - 1] /\ e.dst = q[i]
           p == [i \in 1 .. k |-> step(i)]
<1>5. \A i \in 1 .. k : step(i) \in E /\ step(i).src = q[i - 1] /\ step(i).dst = q[i]
  <2> TAKE i \in 1 .. k
  <2>1. \E e \in E : e.src = q[i - 1] /\ e.dst = q[i]
    BY <1>1, <1>4
  <2> QED
    BY <2>1, Zenon
<1> HIDE DEF step
<1>6. /\ p \in Seq(E) /\ Len(p) = k /\ DOMAIN p = 1 .. k
      /\ \A i \in 1 .. k : p[i] \in E /\ p[i].src = q[i - 1] /\ p[i].dst = q[i]
  BY <1>5
<1> HIDE DEF p
<1>7. ASSUME NEW i \in 1 .. k, NEW j \in 1 .. k, p[i].rel = p[j].rel PROVE i = j
  <2>1. i \in 0 .. k /\ j \in 0 .. k /\ i - 1 \in 0 .. k /\ j - 1 \in 0 .. k
    OBVIOUS
  <2>2. (q[i] = q[j]) \/ (q[i - 1] = q[j] /\ q[i] = q[j - 1])
    BY <1>2, <1>6, <1>7
  <2>3. (i = j) \/ (i - 1 = j /\ i = j - 1)
    BY <1>4, <2>1, <2>2
  <2> QED
    BY <2>3
<1>8. \A i \in 1 .. k - 1 : p[i].dst = p[i + 1].src
  <2> TAKE i \in 1 .. k - 1
  <2>1. i \in 1 .. k /\ i + 1 \in 1 .. k /\ (i + 1) - 1 = i
    OBVIOUS
  <2> QED
    BY <1>6, <2>1
<1>9. Once(p)
  BY <1>6, <1>7 DEF Once
<1>10. Path(E, k, p)
  BY <1>6, <1>7, <1>8 DEF Path
<1>11. k > 0 => p[1].src = a /\ Last(p).dst = b
  <2> HAVE k > 0
  <2>1. 1 \in 1 .. k /\ k \in 1 .. k /\ 1 - 1 = 0
    OBVIOUS
  <2> QED
    BY <1>4, <1>6, <2>1 DEF Last
<1> QED
  BY <1>9, <1>10, <1>11 DEF E

PathsBetween(g, a, b) ==
    {p \in Falkor!Paths(Falkor!Steps(g), MaxPath) : p[1].src = a /\ Last(p).dst = b /\ Once(p)}
Shortest(ends) == CHOOSE p \in ends : \A q \in ends : Len(p) <= Len(q)

\* Between two symbols both find a path or neither does, and paths of the same length.
LEMMA CypherPaths ==
  ASSUME NEW g, GraphOK(g), NEW a, NEW b, a # b
  PROVE  SamePaths(g, a, b)
<1> DEFINE S == IdsOf(g)
           R == Near(g)
           E == Falkor!Steps(g)
           lengths == Lengths(g, a, b)
           ends == PathsBetween(g, a, b)
           Answer(p) == <<a>> \o [i \in DOMAIN p |-> p[i].dst]
<1>0. MaxPath \in Nat
  BY QueriesAssumption
<1>1. Falkor!shortest_path(g, a, b) = IF ends = {} THEN {} ELSE {Answer(Shortest(ends))}
  BY Zenon DEF Falkor!shortest_path, PathsBetween, Once, Shortest, Falkor!Last, Last
<1>2. \A p : p \in ends <=>
        /\ \E k \in 1 .. MaxPath : Path(E, k, p)
        /\ p[1].src = a /\ Last(p).dst = b /\ Once(p)
  BY <1>0, PathsFacts DEF PathsBetween
<1>3. /\ lengths \in SUBSET Nat
      /\ \A k : k \in lengths <=> k \in 0 .. MaxPath /\ Joins(S, R, a, b, k)
  BY <1>0 DEF Lengths
<1>4. 0 \notin lengths
  <2>1. ~Joins(S, R, a, b, 0)
    BY JoinsZero
  <2> QED
    BY <1>3, <2>1
<1>5. \A p \in ends : p \in Seq(E) /\ Len(p) \in lengths
  <2> TAKE p \in ends
  <2>1. PICK k \in 1 .. MaxPath : Path(E, k, p)
    BY <1>2
  <2>2. p[1].src = a /\ Last(p).dst = b
    BY <1>2
  <2>3. k \in Nat \ {0} /\ k \in 0 .. MaxPath
    BY <1>0
  <2>4. \A e \in E : e.src \in S /\ e.dst \in S
    BY StepsFacts
  <2>5. R = Pairs(E)
    BY StepsFacts
  <2> HIDE DEF S, R, E
  <2>6. Joins(S, Pairs(E), a, b, k)
    BY <2>1, <2>2, <2>3, <2>4, PathJoins
  <2>7. Len(p) = k /\ p \in Seq(E)
    BY <2>1 DEF Path
  <2> QED
    BY <1>3, <2>3, <2>5, <2>6, <2>7
<1>6. ASSUME lengths # {} PROVE \E p \in ends : Len(p) = Least(lengths)
  <2> DEFINE k == Least(lengths)
  <2>1. k \in lengths /\ \A j \in lengths : k <= j
    BY <1>3, <1>6, LeastFacts
  <2> HIDE DEF k
  <2>2. k \in Nat /\ k > 0 /\ k \in 1 .. MaxPath /\ Joins(S, R, a, b, k)
    <3> HIDE DEF lengths, S, R
    <3> QED
      BY <1>0, <1>3, <1>4, <2>1
  <2>3. \A j \in 0 .. k - 1 : ~Joins(S, R, a, b, j)
    <3> HIDE DEF lengths, S, R
    <3> QED
      BY <1>0, <1>3, <2>1, <2>2
  <2>4. PICK p : Path(E, k, p) /\ Once(p) /\ p[1].src = a /\ Last(p).dst = b
    BY <2>2, <2>3, LeastPath
  <2>5. p \in ends
    BY <1>2, <2>2, <2>4
  <2>6. Len(p) = k
    BY <2>4 DEF Path
  <2> QED
    BY <2>5, <2>6 DEF k
<1>7. /\ lengths = {} => shortest_path(g, a, b) = {}
      /\ lengths # {} => \E p : shortest_path(g, a, b) = {p} /\ p \in Seq(S)
                                /\ Len(p) - 1 = Least(lengths)
  BY ShortestPathFacts
<1>8. \A p \in Seq(E) : Len(Answer(p)) = Len(p) + 1
  <2> TAKE p \in Seq(E)
  <2> DEFINE rest == [i \in DOMAIN p |-> p[i].dst]
  <2>1. rest \in Seq({p[i].dst : i \in DOMAIN p}) /\ Len(rest) = Len(p)
    BY DOMAIN p = 1 .. Len(p) /\ Len(p) \in Nat
  <2> HIDE DEF rest
  <2>2. Len(<<a>> \o rest) = Len(p) + 1
    BY <2>1
  <2> QED
    BY <2>2 DEF rest
<1> HIDE DEF lengths, ends, S, R, E, Answer
<1>9. CASE lengths = {}
  <2>1. ends = {}
    BY <1>5, <1>9
  <2> QED
    BY <1>1, <1>7, <1>9, <2>1 DEF SamePaths
<1>10. CASE lengths # {}
  <2>1. PICK s \in ends : Len(s) = Least(lengths)
    BY <1>6, <1>10
  <2>2. Least(lengths) \in Nat /\ \A j \in lengths : Least(lengths) <= j
    BY <1>3, <1>10, LeastFacts
  <2>3. \A q \in ends : Len(s) <= Len(q)
    BY <1>5, <2>1, <2>2
  <2> DEFINE p == Shortest(ends)
  <2>4. p \in ends /\ \A q \in ends : Len(p) <= Len(q)
    BY <2>3, Zenon DEF Shortest
  <2>5. Falkor!shortest_path(g, a, b) = {Answer(p)}
    BY <1>1, <2>1
  <2> HIDE DEF p
  <2>6. Len(p) = Least(lengths)
    <3>1. Len(p) <= Len(s) /\ Len(s) <= Len(p) /\ Len(p) \in Nat /\ Len(s) \in Nat
      BY <1>3, <1>5, <2>1, <2>3, <2>4
    <3> QED
      BY <2>1, <3>1
  <2>7. Len(Answer(p)) = Least(lengths) + 1
    BY <1>5, <1>8, <2>4, <2>6
  <2>8. PICK q : shortest_path(g, a, b) = {q} /\ q \in Seq(S) /\ Len(q) - 1 = Least(lengths)
    BY <1>7, <1>10
  <2>9. Len(q) = Len(Answer(p))
    <3>1. Len(q) \in Nat
      BY <2>8
    <3> QED
      BY <2>2, <2>7, <2>8, <3>1
  <2> QED
    BY <2>5, <2>8, <2>9 DEF SamePaths
<1> QED
  BY <1>9, <1>10

\* On a stored graph whose CONTAINS edges say what parent_id says, both backends name
\* the same symbols, to any depth the Cypher allows.
LEMMA BackendsAnswerAlike ==
  ASSUME NEW g, GraphOK(g), MembersContained(g), NEW d \in 1 .. 20
  PROVE  SameAnswers(g, d)
<1>0. d \in Nat
  OBVIOUS
<1>1. ASSUME NEW a \in IdsOf(g)
      PROVE
        /\ Ends(Falkor!call_chain(g, a, d)) = Ends(call_chain(g, a, d))
        /\ Ends(Falkor!reverse_call_chain(g, a, d)) = Ends(reverse_call_chain(g, a, d))
        /\ Falkor!symbol_callers(g, a) = Ends(symbol_callers(g, a))
        /\ Falkor!symbol_callees(g, a) = Ends(symbol_callees(g, a))
        /\ Falkor!symbol_members(g, a) = symbol_members(g, a)
        /\ \A b \in IdsOf(g) \ {a} : SamePaths(g, a, b)
  <2>1. Ends(Falkor!call_chain(g, a, d)) = Ends(call_chain(g, a, d))
    <3>1. \A b : b \in Ends(Falkor!call_chain(g, a, d)) <=> b \in Ends(call_chain(g, a, d))
      BY <1>0, CypherTraversals, TraversalFacts
    <3> QED
      BY <3>1
  <2>2. Ends(Falkor!reverse_call_chain(g, a, d)) = Ends(reverse_call_chain(g, a, d))
    <3>1. \A c : c \in Ends(Falkor!reverse_call_chain(g, a, d)) <=>
                 c \in Ends(reverse_call_chain(g, a, d))
      BY <1>0, CypherTraversals, TraversalFacts
    <3> QED
      BY <3>1
  <2>3. Falkor!symbol_members(g, a) = symbol_members(g, a)
    <3>1. \A n \in g.nodes : n.parent = a <=>
                             \E e \in Edges(g, "CONTAINS") : e.src = a /\ e.dst = n.id
      BY DEF MembersContained, IdsOf
    <3> QED
      BY <3>1 DEF Falkor!symbol_members, Falkor!Edges, Edges, symbol_members
  <2>4. \A b \in IdsOf(g) \ {a} : SamePaths(g, a, b)
    BY CypherPaths
  <2> QED
    BY <2>1, <2>2, <2>3, <2>4, CypherListings
<1>2. \A limit \in 1 .. Cardinality(Ids) :
        /\ Falkor!dead_symbols(g, Callables, {}, limit) = dead_symbols(g, Callables, {}, limit)
        /\ SameListings(g, limit)
  <2> TAKE limit \in 1 .. Cardinality(Ids)
  <2>1. limit \in Nat \ {0}
    BY StoredFacts
  <2> QED
    BY <2>1, CypherListings, CypherFinds
<1>3. \A trait \in Names :
        /\ Falkor!find_implementations(g, trait) \subseteq Ends(find_implementations(g, trait))
        /\ (\A n \in g.nodes : n.name \in Liked[trait] => n.name \in Prefixed[trait]) =>
              SameImplementations(g, trait)
  BY CypherImplementations
<1> QED
  BY <1>1, <1>2, <1>3, Zenon DEF SameAnswers, IdsOf

\* BackendsAgree: what SameAnswers compares does not depend on the backend, to any depth
\* that Cypher does not clamp (--depth.clamp(1, 20)); the SQL walks on beyond.
THEOREM Alike == ASSUME Depth \in 1 .. 20 PROVE Spec => []BackendsAgree
<1>1. ASSUME graph \in Graphs PROVE SameAnswers(graph, Depth)
  BY <1>1, GraphsAssumption, MembersAssumption, BackendsAnswerAlike
<1>2. BackendsAgree
  BY <1>1 DEF BackendsAgree
<1> QED
  BY <1>2, PTL
==============================================================================
