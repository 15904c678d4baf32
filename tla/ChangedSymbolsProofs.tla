------------------------ MODULE ChangedSymbolsProofs ------------------------
(***************************************************************************)
(* Proofs about ChangedSymbols, for any files, edits, commits and scans: a  *)
(* symbol with a changed line before its last is listed, and nothing is     *)
(* listed that is not next to a changed line.  First what parse_hunks reads *)
(* in a diff, piece by piece; then which ranges git prints for two texts;   *)
(* last the command beside its environment.                                 *)
(***************************************************************************)
EXTENDS ChangedSymbols, PureLemmas, FiniteSetTheorems, TLAPS

-----------------------------------------------------------------------------
(* The parser *)

HunkRecord == [file : Files \cup {Stray}, start : Int, end : Int]

Parser == [at : SUBSET (Files \cup {Stray}), hunks : Seq(HunkRecord)]

GitRange == [start : Nat, count : Nat]

DiffLine ==
  [tag : {"+++"}, gone : BOOLEAN, path : Files]
  \cup [tag : {"@@"}, range : GitRange]
  \cup [tag : {"+"}, plus : BOOLEAN]

Unread == [at |-> {}, hunks |-> <<>>]

\* The hunk a range of a file asks for.
HunkOf(f, r) == [file |-> f, start |-> r.start, end |-> r.start + r.count - 1]

\* What a line of the diff does, one case at a time.
LEMMA LineRead ==
  ASSUME NEW acc \in Parser
  PROVE  /\ \A gone \in BOOLEAN, f \in Files :
              ParseLine(acc, [tag |-> "+++", gone |-> gone, path |-> f])
                = [at |-> IF gone THEN {} ELSE {f}, hunks |-> acc.hunks]
         /\ \A r \in GitRange :
              ParseLine(acc, [tag |-> "@@", range |-> r])
                = IF acc.at # {} /\ r.count # 0
                  THEN [at |-> acc.at,
                        hunks |-> Append(acc.hunks, HunkOf(CHOOSE f \in acc.at : TRUE, r))]
                  ELSE acc
         /\ ParseLine(acc, [tag |-> "+", plus |-> FALSE]) = acc
         /\ ParseLine(acc, [tag |-> "+", plus |-> TRUE])
              = [at |-> {Stray}, hunks |-> acc.hunks]
<1>1. acc = [at |-> acc.at, hunks |-> acc.hunks]
  BY DEF Parser
<1>2. ASSUME NEW gone \in BOOLEAN, NEW f \in Files
      PROVE  ParseLine(acc, [tag |-> "+++", gone |-> gone, path |-> f])
                = [at |-> IF gone THEN {} ELSE {f}, hunks |-> acc.hunks]
  <2>1. CASE gone = TRUE
    BY <1>1, <2>1 DEF ParseLine, Parser
  <2>2. CASE gone = FALSE
    BY <1>1, <2>2 DEF ParseLine, Parser
  <2> QED
    BY <2>1, <2>2
<1>3. ASSUME NEW r \in GitRange
      PROVE  ParseLine(acc, [tag |-> "@@", range |-> r])
                = IF acc.at # {} /\ r.count # 0
                  THEN [at |-> acc.at,
                        hunks |-> Append(acc.hunks, HunkOf(CHOOSE f \in acc.at : TRUE, r))]
                  ELSE acc
  <2>1. CASE acc.at # {} /\ r.count # 0
    <3> DEFINE line == [tag |-> "@@", range |-> r]
               h == HunkOf(CHOOSE f \in acc.at : TRUE, r)
    <3>1. line.tag = "@@" /\ line.range = r
      OBVIOUS
    <3>2. h = [file |-> CHOOSE f \in acc.at : TRUE, start |-> r.start,
               end |-> r.start + r.count - 1]
      BY DEF HunkOf
    <3> HIDE DEF line, h
    <3>3. ParseLine(acc, line) = [acc EXCEPT !.hunks = Append(acc.hunks, h)]
      BY <2>1, <3>1, <3>2 DEF ParseLine
    <3>4. [acc EXCEPT !.hunks = Append(acc.hunks, h)] = [at |-> acc.at, hunks |-> Append(acc.hunks, h)]
      BY <1>1
    <3> QED
      BY <2>1, <3>3, <3>4 DEF line, h
  <2>2. CASE ~ (acc.at # {} /\ r.count # 0)
    <3> DEFINE line == [tag |-> "@@", range |-> r]
    <3>1. line.tag = "@@" /\ line.range = r
      OBVIOUS
    <3> HIDE DEF line
    <3>2. ParseLine(acc, line) = acc
      BY <2>2, <3>1 DEF ParseLine
    <3> QED
      BY <2>2, <3>2 DEF line
  <2> QED
    BY <2>1, <2>2
<1>4. ParseLine(acc, [tag |-> "+", plus |-> FALSE]) = acc
  BY <1>1 DEF ParseLine
<1>5. ParseLine(acc, [tag |-> "+", plus |-> TRUE]) = [at |-> {Stray}, hunks |-> acc.hunks]
  BY <1>1 DEF ParseLine, Parser
<1> QED
  BY <1>2, <1>3, <1>4, <1>5

LEMMA ParseLineType ==
  ASSUME NEW acc \in Parser, NEW line \in DiffLine
  PROVE  ParseLine(acc, line) \in Parser
<1>1. acc.at \in SUBSET (Files \cup {Stray}) /\ acc.hunks \in Seq(HunkRecord)
  BY DEF Parser
<1>2. CASE line \in [tag : {"+++"}, gone : BOOLEAN, path : Files]
  <2>1. PICK gone \in BOOLEAN, f \in Files : line = [tag |-> "+++", gone |-> gone, path |-> f]
    BY <1>2
  <2>2. ParseLine(acc, line) = [at |-> IF gone THEN {} ELSE {f}, hunks |-> acc.hunks]
    BY <2>1, LineRead, Zenon
  <2>3. (IF gone THEN {} ELSE {f}) \in SUBSET (Files \cup {Stray})
    OBVIOUS
  <2> QED
    BY <1>1, <2>2, <2>3 DEF Parser
<1>3. CASE line \in [tag : {"@@"}, range : GitRange]
  <2>1. PICK r \in GitRange : line = [tag |-> "@@", range |-> r]
    BY <1>3
  <2>2. CASE acc.at # {} /\ r.count # 0
    <3> DEFINE f == CHOOSE x \in acc.at : TRUE
    <3>1. f \in acc.at
      BY <2>2
    <3>2. HunkOf(f, r) \in HunkRecord
      BY <1>1, <2>1, <3>1 DEF HunkOf, HunkRecord, GitRange
    <3>3. ParseLine(acc, line) = [at |-> acc.at, hunks |-> Append(acc.hunks, HunkOf(f, r))]
      BY <2>1, <2>2, LineRead, Zenon
    <3> HIDE DEF f
    <3>4. Append(acc.hunks, HunkOf(f, r)) \in Seq(HunkRecord)
      BY <1>1, <3>2
    <3> QED
      BY <1>1, <3>3, <3>4 DEF Parser
  <2>3. CASE ~ (acc.at # {} /\ r.count # 0)
    BY <2>1, <2>3, LineRead, Zenon
  <2> QED
    BY <2>2, <2>3
<1>4. CASE line \in [tag : {"+"}, plus : BOOLEAN]
  <2>1. PICK plus \in BOOLEAN : line = [tag |-> "+", plus |-> plus]
    BY <1>4
  <2>2. CASE plus = TRUE
    <3>1. ParseLine(acc, line) = [at |-> {Stray}, hunks |-> acc.hunks]
      BY <2>1, <2>2, LineRead
    <3> QED
      BY <1>1, <3>1 DEF Parser
  <2>3. CASE plus = FALSE
    BY <2>1, <2>3, LineRead
  <2> QED
    BY <2>1, <2>2, <2>3
<1> QED
  BY <1>2, <1>3, <1>4 DEF DiffLine

\* Reading the lines of s one by one leads the parser from acc to r.
Parses(acc, s, r) ==
  \E f \in [0 .. Len(s) -> Parser] :
    /\ f[0] = acc /\ f[Len(s)] = r
    /\ \A i \in 1 .. Len(s) : f[i] = ParseLine(f[i - 1], s[i])

\* That is what the recursive function of parse_hunks does.
LEMMA DiffParses ==
  ASSUME NEW s \in Seq(DiffLine)
  PROVE  \E r \in Parser : Parses(Unread, s, r) /\ ParseHunks(s) = r.hunks
<1> DEFINE n == Len(s)
           F == [p \in Nat \X Parser |->
                   IF p[1] + 1 \in 1 .. n THEN ParseLine(p[2], s[p[1] + 1]) ELSE p[2]]
           parsed[i \in 0 .. Len(s)] ==
             IF i = 0 THEN [at |-> {}, hunks |-> <<>>] ELSE ParseLine(parsed[i - 1], s[i])
           Fits(f) == f = [i \in 0 .. Len(s) |->
             IF i = 0 THEN [at |-> {}, hunks |-> <<>>] ELSE ParseLine(f[i - 1], s[i])]
<1>1. n \in Nat /\ \A i \in 1 .. n : s[i] \in DiffLine
  OBVIOUS
<1>2. Unread \in Parser
  BY DEF Unread, Parser
<1>3. F \in [Nat \X Parser -> Parser]
  <2>1. ASSUME NEW p \in Nat \X Parser
        PROVE  (IF p[1] + 1 \in 1 .. n THEN ParseLine(p[2], s[p[1] + 1]) ELSE p[2]) \in Parser
    <3>1. p[1] \in Nat /\ p[2] \in Parser
      OBVIOUS
    <3>2. CASE p[1] + 1 \in 1 .. n
      <4>1. ParseLine(p[2], s[p[1] + 1]) \in Parser
        BY <1>1, <3>1, <3>2, ParseLineType
      <4> QED
        BY <3>2, <4>1
    <3>3. CASE ~ (p[1] + 1 \in 1 .. n)
      BY <3>1, <3>3
    <3> QED
      BY <3>2, <3>3
  <2> QED
    BY <2>1
<1>4. ASSUME NEW i \in Nat, NEW u \in Parser, i + 1 \in 1 .. n
      PROVE  F[<<i, u>>] = ParseLine(u, s[i + 1])
  <2>1. <<i, u>> \in Nat \X Parser
    OBVIOUS
  <2>2. \A p \in Nat \X Parser :
           F[p] = IF p[1] + 1 \in 1 .. n THEN ParseLine(p[2], s[p[1] + 1]) ELSE p[2]
    BY Zenon
  <2> HIDE DEF F
  <2> QED
    BY <1>4, <2>1, <2>2
<1> HIDE DEF F
<1>5. PICK h : Recurs(h, Parser, Unread, F)
  BY <1>2, <1>3, RecursionExists, Zenon
<1>6. h \in [Nat -> Parser] /\ h[0] = Unread /\ \A i \in Nat : h[i + 1] = F[<<i, h[i]>>]
  BY <1>5 DEF Recurs
<1> DEFINE f == [i \in 0 .. Len(s) |-> h[i]]
<1>7. ASSUME NEW i \in 0 .. Len(s), i # 0 PROVE h[i] = ParseLine(f[i - 1], s[i])
  <2>1. i - 1 \in Nat /\ (i - 1) + 1 = i /\ i - 1 \in 0 .. Len(s) /\ i \in 1 .. n
    BY <1>7
  <2>2. f[i - 1] = h[i - 1] /\ h[i - 1] \in Parser /\ h[i] = F[<<i - 1, h[i - 1]>>]
    BY <1>6, <2>1
  <2> QED
    BY <1>4, <2>1, <2>2
<1>8. \A i \in 0 .. Len(s) :
        h[i] = IF i = 0 THEN [at |-> {}, hunks |-> <<>>] ELSE ParseLine(f[i - 1], s[i])
  BY <1>6, <1>7, Zenon DEF Unread
<1>9. Fits(f)
  BY <1>8, Zenon
<1> HIDE DEF f
<1>10. \E x : Fits(x)
  BY <1>9
<1>11. Fits(parsed)
  BY <1>10, Zenon
<1>12. ParseHunks(s) = parsed[Len(s)].hunks
  BY Zenon DEF ParseHunks
<1> HIDE DEF parsed
<1>13. /\ DOMAIN parsed = 0 .. Len(s) /\ parsed = [i \in 0 .. Len(s) |-> parsed[i]]
       /\ parsed[0] = Unread
       /\ \A i \in 1 .. Len(s) : parsed[i] = ParseLine(parsed[i - 1], s[i])
  <2>1. /\ parsed = [i \in DOMAIN parsed |-> parsed[i]] /\ DOMAIN parsed = 0 .. Len(s)
        /\ \A i \in 0 .. Len(s) : parsed[i] =
             IF i = 0 THEN [at |-> {}, hunks |-> <<>>] ELSE ParseLine(parsed[i - 1], s[i])
    <3> DEFINE K == [i \in 0 .. Len(s) |->
             IF i = 0 THEN [at |-> {}, hunks |-> <<>>] ELSE ParseLine(parsed[i - 1], s[i])]
    <3>1. parsed = K
      BY <1>11, Zenon
    <3>2. /\ K = [i \in DOMAIN K |-> K[i]] /\ DOMAIN K = 0 .. Len(s)
          /\ \A i \in 0 .. Len(s) : K[i] =
               IF i = 0 THEN [at |-> {}, hunks |-> <<>>] ELSE ParseLine(parsed[i - 1], s[i])
      OBVIOUS
    <3> HIDE DEF K
    <3> QED
      BY <3>1, <3>2, Zenon
  <2>2. 0 \in 0 .. Len(s) /\ \A i \in 1 .. Len(s) : i \in 0 .. Len(s) /\ i # 0
    OBVIOUS
  <2> QED
    BY <2>1, <2>2, Zenon DEF Unread
<1> DEFINE S == {i \in Nat : parsed[i] \in Parser}
<1>14. 0 \in S
  BY <1>2, <1>13
<1>15. ASSUME NEW i \in 0 .. n - 1, i \in S PROVE i + 1 \in S
  <2>1. i + 1 \in 1 .. Len(s) /\ (i + 1) - 1 = i /\ i + 1 \in Nat
    BY <1>1
  <2>2. parsed[i + 1] = ParseLine(parsed[i], s[i + 1])
    BY <1>13, <2>1
  <2>3. parsed[i] \in Parser /\ s[i + 1] \in DiffLine
    BY <1>1, <1>15, <2>1
  <2> QED
    BY <2>1, <2>2, <2>3, ParseLineType
<1> HIDE DEF S
<1>16. \A i \in 0 .. n : i \in S
  BY <1>1, <1>14, <1>15, InductUpTo
<1>17. \A i \in 0 .. Len(s) : parsed[i] \in Parser
  BY <1>16 DEF S
<1>18. parsed \in [0 .. Len(s) -> Parser] /\ parsed[Len(s)] \in Parser
  <2>1. Len(s) \in 0 .. Len(s)
    OBVIOUS
  <2> QED
    BY <1>13, <1>17, <2>1
<1>19. Parses(Unread, s, parsed[Len(s)])
  BY <1>13, <1>18 DEF Parses
<1> QED
  BY <1>12, <1>18, <1>19, Zenon

\* Two parts are read one after the other.
LEMMA ParseSplit ==
  ASSUME NEW s \in Seq(DiffLine), NEW t \in Seq(DiffLine), NEW acc, NEW r,
         Parses(acc, s \o t, r)
  PROVE  \E q \in Parser : Parses(acc, s, q) /\ Parses(q, t, r)
<1> DEFINE m == Len(s)
           n == Len(t)
<1>1. /\ Len(s \o t) = m + n /\ m \in Nat /\ n \in Nat
      /\ \A i \in 1 .. m : (s \o t)[i] = s[i]
      /\ \A i \in 1 .. n : (s \o t)[m + i] = t[i]
  OBVIOUS
<1>2. PICK f \in [0 .. m + n -> Parser] :
        /\ f[0] = acc /\ f[m + n] = r
        /\ \A i \in 1 .. m + n : f[i] = ParseLine(f[i - 1], (s \o t)[i])
  BY <1>1 DEF Parses
<1> DEFINE g == [i \in 0 .. m |-> f[i]]
           h == [i \in 0 .. n |-> f[m + i]]
<1>3. Parses(acc, s, f[m])
  <2>1. g \in [0 .. m -> Parser] /\ g[0] = acc /\ g[m] = f[m]
    BY <1>1, <1>2
  <2>2. \A i \in 1 .. m : g[i] = ParseLine(g[i - 1], s[i])
    <3> TAKE i \in 1 .. m
    <3>1. i \in 1 .. m + n /\ i \in 0 .. m /\ i - 1 \in 0 .. m
      BY <1>1
    <3> QED
      BY <1>1, <1>2, <3>1
  <2> HIDE DEF g
  <2> QED
    BY <2>1, <2>2 DEF Parses
<1>4. Parses(f[m], t, r)
  <2>1. h \in [0 .. n -> Parser] /\ h[0] = f[m] /\ h[n] = r
    BY <1>1, <1>2
  <2>2. \A i \in 1 .. n : h[i] = ParseLine(h[i - 1], t[i])
    <3> TAKE i \in 1 .. n
    <3>1. /\ m + i \in 1 .. m + n /\ i \in 0 .. n /\ i - 1 \in 0 .. n
          /\ (m + i) - 1 = m + (i - 1)
      BY <1>1
    <3> QED
      BY <1>1, <1>2, <3>1
  <2> HIDE DEF h
  <2> QED
    BY <2>1, <2>2 DEF Parses
<1>5. f[m] \in Parser
  BY <1>1, <1>2
<1> QED
  BY <1>3, <1>4, <1>5, Zenon

-----------------------------------------------------------------------------
(* What the parser reads *)

\* s is a piece of a diff.  Read where the current file is in A, it asks for the
\* hunks H and leaves a current file in B.
Reads(s, A, B, H) ==
  /\ s \in Seq(DiffLine)
  /\ \A acc, r \in Parser :
       (acc.at \in A /\ Parses(acc, s, r)) =>
         (r.at \in B /\ ToSet(r.hunks) = ToSet(acc.hunks) \cup H)

AnyFile == SUBSET (Files \cup {Stray})

LEMMA ReadsNothing ==
  ASSUME NEW A PROVE Reads(<<>>, A, A, {})
<1>1. <<>> \in Seq(DiffLine) /\ Len(<<>>) = 0
  OBVIOUS
<1>2. ASSUME NEW acc \in Parser, NEW r \in Parser, Parses(acc, <<>>, r) PROVE r = acc
  BY <1>1, <1>2 DEF Parses
<1> QED
  BY <1>1, <1>2 DEF Reads

LEMMA ReadsOne ==
  ASSUME NEW line \in DiffLine, NEW A, NEW B, NEW H,
         \A acc \in Parser : acc.at \in A =>
            /\ ParseLine(acc, line).at \in B
            /\ ToSet(ParseLine(acc, line).hunks) = ToSet(acc.hunks) \cup H
  PROVE  Reads(<<line>>, A, B, H)
<1>1. <<line>> \in Seq(DiffLine) /\ Len(<<line>>) = 1 /\ <<line>>[1] = line
  OBVIOUS
<1>2. ASSUME NEW acc \in Parser, NEW r \in Parser, Parses(acc, <<line>>, r)
      PROVE  r = ParseLine(acc, line)
  <2>1. PICK f \in [0 .. 1 -> Parser] :
          f[0] = acc /\ f[1] = r /\ \A i \in 1 .. 1 : f[i] = ParseLine(f[i - 1], <<line>>[i])
    BY <1>1, <1>2 DEF Parses
  <2>2. 1 \in 1 .. 1 /\ 1 - 1 = 0
    OBVIOUS
  <2> QED
    BY <1>1, <2>1, <2>2
<1> QED
  BY <1>1, <1>2 DEF Reads

LEMMA ReadsBoth ==
  ASSUME NEW s, NEW t, NEW A, NEW B, NEW C, NEW H, NEW K,
         Reads(s, A, B, H), Reads(t, B, C, K)
  PROVE  Reads(s \o t, A, C, H \cup K)
<1>1. s \in Seq(DiffLine) /\ t \in Seq(DiffLine)
  BY DEF Reads
<1>2. s \o t \in Seq(DiffLine)
  BY <1>1
<1>3. ASSUME NEW acc \in Parser, NEW r \in Parser, acc.at \in A, Parses(acc, s \o t, r)
      PROVE  r.at \in C /\ ToSet(r.hunks) = ToSet(acc.hunks) \cup (H \cup K)
  <2>1. PICK q \in Parser : Parses(acc, s, q) /\ Parses(q, t, r)
    BY <1>1, <1>3, ParseSplit
  <2>2. q.at \in B /\ ToSet(q.hunks) = ToSet(acc.hunks) \cup H
    BY <1>3, <2>1 DEF Reads
  <2>3. r.at \in C /\ ToSet(r.hunks) = ToSet(q.hunks) \cup K
    BY <2>1, <2>2 DEF Reads
  <2> QED
    BY <2>2, <2>3
<1> QED
  BY <1>2, <1>3 DEF Reads

\* Added lines that do not look like headers change nothing.
LEMMA ReadsAdded ==
  ASSUME NEW s \in Seq(DiffLine), NEW A,
         \A i \in 1 .. Len(s) : s[i] = [tag |-> "+", plus |-> FALSE]
  PROVE  Reads(s, A, A, {})
<1>1. ASSUME NEW acc \in Parser, NEW r \in Parser, Parses(acc, s, r) PROVE r = acc
  <2>1. PICK f \in [0 .. Len(s) -> Parser] :
          /\ f[0] = acc /\ f[Len(s)] = r
          /\ \A i \in 1 .. Len(s) : f[i] = ParseLine(f[i - 1], s[i])
    BY <1>1 DEF Parses
  <2> DEFINE S == {i \in Nat : f[i] = acc}
             n == Len(s)
  <2>2. n \in Nat /\ 0 \in S
    BY <2>1
  <2>3. ASSUME NEW i \in 0 .. n - 1, i \in S PROVE i + 1 \in S
    <3>1. i + 1 \in 1 .. n /\ (i + 1) - 1 = i /\ i + 1 \in Nat
      BY <2>2
    <3>2. f[i + 1] = ParseLine(acc, s[i + 1]) /\ s[i + 1] = [tag |-> "+", plus |-> FALSE]
      BY <2>1, <2>3, <3>1
    <3>3. f[i + 1] = acc
      BY <3>2, LineRead
    <3> QED
      BY <3>1, <3>3
  <2> HIDE DEF S, n
  <2>4. \A i \in 0 .. n : i \in S
    BY <2>2, <2>3, InductUpTo
  <2>5. n \in S
    BY <2>2, <2>4
  <2> QED
    BY <2>1, <2>5 DEF S, n
<1> QED
  BY <1>1 DEF Reads

\* Pieces that are read one after the other ask for what each of them asks for.
LEMMA ReadsAll ==
  ASSUME NEW N \in Nat \ {0}, NEW ss \in [1 .. N -> Seq(DiffLine)], NEW A, NEW H,
         \A k \in 1 .. N : Reads(ss[k], A, A, H[k]),
         NEW K, K = UNION {H[k] : k \in 1 .. N}
  PROVE  Reads(FlattenSeq(ss), A, A, K)
<1>1. PICK f : FlattenSeq(ss) = f[N] /\ Flattens(f, DiffLine, N, ss)
  BY FlattenDefined
<1>2. /\ FlattenSeq(ss) = f[N] /\ f[1] = ss[1]
      /\ \A i \in 2 .. N : f[i] = f[i - 1] \o ss[i]
  BY <1>1 DEF Flattens
<1> DEFINE G(i) == UNION {H[k] : k \in 1 .. i}
           S == {i \in Nat : Reads(f[i + 1], A, A, G(i + 1))}
           m == N - 1
<1>3. m \in Nat /\ m + 1 = N
  OBVIOUS
<1>4. 0 \in S
  <2>1. 1 \in 1 .. N /\ 0 + 1 = 1 /\ G(1) = H[1]
    <3>1. \A k : k \in 1 .. 1 <=> k = 1
      OBVIOUS
    <3> QED
      BY <3>1
  <2>2. Reads(f[1], A, A, G(1))
    <3> HIDE DEF G
    <3> QED
      BY <1>2, <2>1
  <2> HIDE DEF G
  <2>3. Reads(f[0 + 1], A, A, G(0 + 1))
    BY <2>1, <2>2
  <2> QED
    BY <2>3
<1>5. ASSUME NEW i \in 0 .. m - 1, i \in S PROVE i + 1 \in S
  <2> DEFINE j == i + 1
  <2>1. /\ j \in Nat /\ j + 1 \in 2 .. N /\ j + 1 \in 1 .. N /\ (j + 1) - 1 = j
        /\ \A k : k \in 1 .. j + 1 <=> k \in 1 .. j \/ k = j + 1
    BY <1>3
  <2>2. Reads(f[j], A, A, G(j))
    BY <1>5
  <2> HIDE DEF j
  <2>3. f[j + 1] = f[j] \o ss[j + 1] /\ Reads(ss[j + 1], A, A, H[j + 1])
    BY <1>2, <2>1
  <2>4. Reads(f[j + 1], A, A, G(j) \cup H[j + 1])
    <3> HIDE DEF G
    <3> QED
      BY <2>2, <2>3, ReadsBoth
  <2>5. G(j + 1) = G(j) \cup H[j + 1]
    BY <2>1
  <2> HIDE DEF G
  <2>6. Reads(f[j + 1], A, A, G(j + 1))
    BY <2>4, <2>5
  <2>7. j \in S
    BY <2>1, <2>6
  <2> QED
    BY <2>7 DEF j
<1> HIDE DEF G
<1>6. \A i \in 0 .. m : i \in S
  <2> HIDE DEF S, m
  <2> QED
    BY <1>3, <1>4, <1>5, InductUpTo
<1> HIDE DEF m, S
<1>7. m \in S
  BY <1>3, <1>6
<1>8. Reads(f[m + 1], A, A, G(m + 1))
  BY <1>7 DEF S
<1>9. Reads(f[N], A, A, G(N))
  BY <1>3, <1>8
<1> QED
  BY <1>2, <1>9 DEF G

LEMMA ReadsMore ==
  ASSUME NEW s, NEW A, NEW B, NEW C, NEW D, NEW H, Reads(s, A, B, H), C \subseteq A, B \subseteq D
  PROVE  Reads(s, C, D, H)
  BY DEF Reads

-----------------------------------------------------------------------------
(* The ranges of a diff *)

LEMMA LowHighFacts ==
  ASSUME NEW m \in Int, NEW n \in Int, NEW S \in SUBSET (m .. n), S # {}
  PROVE  /\ Low(S) \in S /\ \A y \in S : Low(S) <= y
         /\ High(S) \in S /\ \A y \in S : High(S) >= y
<1>1. \E x \in S : \A y \in S : x <= y
  BY BoundsExist
<1>2. \E x \in S : \A y \in S : x >= y
  BY BoundsExist
<1>3. Low(S) \in S /\ \A y \in S : Low(S) <= y
  BY <1>1, Zenon DEF Low
<1>4. High(S) \in S /\ \A y \in S : High(S) >= y
  BY <1>2, Zenon DEF High
<1> QED
  BY <1>3, <1>4

RunStarts(old, new) == {i \in Added(old, new) : i - 1 \notin Added(old, new)}

RunEnd(old, new, i) == Low({j \in i .. Len(new) : j + 1 \notin Added(old, new)})

Gone(old, new) == {j \in DOMAIN old : \A i \in DOMAIN new : new[i].id # old[j].id}

Gaps(old, new) ==
  {a \in {Anchor(old, new, j) : j \in Gone(old, new)} : a + 1 \notin Added(old, new)}

RunRange(old, new, i) == [start |-> i, count |-> RunEnd(old, new, i) - i + 1]

GapRange(k) == [start |-> k, count |-> 0]

LEMMA RangesAre ==
  ASSUME NEW old, NEW new
  PROVE  Ranges(old, new) = {RunRange(old, new, i) : i \in RunStarts(old, new)}
                            \cup {GapRange(k) : k \in Gaps(old, new)}
  BY DEF Ranges, RunStarts, RunEnd, Gone, Gaps, RunRange, GapRange

\* Added lines are lines; a run of them ends, and all between are added.
LEMMA RunFacts ==
  ASSUME NEW old \in Seq(Line), NEW new \in Seq(Line)
  PROVE  /\ Added(old, new) \subseteq 1 .. Len(new)
         /\ \A i \in RunStarts(old, new) :
              /\ i \in Added(old, new) /\ RunEnd(old, new, i) \in i .. Len(new)
              /\ RunEnd(old, new, i) + 1 \notin Added(old, new)
              /\ i .. RunEnd(old, new, i) \subseteq Added(old, new)
         /\ \A a \in Gaps(old, new) : a \in 0 .. Len(new) /\ a \notin Added(old, new)
<1> DEFINE added == Added(old, new)
           n == Len(new)
<1>1. n \in Nat /\ added \subseteq 1 .. n
  BY DEF Added
<1>2. ASSUME NEW i \in RunStarts(old, new)
      PROVE  /\ i \in added /\ RunEnd(old, new, i) \in i .. n
             /\ RunEnd(old, new, i) + 1 \notin added
             /\ i .. RunEnd(old, new, i) \subseteq added
  <2> DEFINE T == {j \in i .. n : j + 1 \notin added}
             e == Low(T)
  <2>1. i \in added /\ i \in 1 .. n
    BY <1>1 DEF RunStarts
  <2>2. n \in T
    BY <1>1, <2>1
  <2>3. i \in Int /\ n \in Int /\ T \subseteq i .. n /\ T # {}
    BY <1>1, <2>1, <2>2
  <2>4. e \in T /\ \A y \in T : e <= y
    <3> HIDE DEF T
    <3> QED
      BY <2>3, LowHighFacts
  <2>5. RunEnd(old, new, i) = e
    BY DEF RunEnd
  <2> HIDE DEF e
  <2>6. e \in i .. n /\ e + 1 \notin added
    BY <2>4
  <2>7. ASSUME NEW k \in i .. e PROVE k \in added
    <3>1. CASE k = i
      BY <2>1, <3>1
    <3>2. CASE k # i
      <4>1. k - 1 \in i .. n /\ ~ (e <= k - 1) /\ (k - 1) + 1 = k
        BY <1>1, <2>1, <2>6, <3>2
      <4>2. k - 1 \notin T
        BY <2>4, <4>1
      <4> QED
        BY <4>1, <4>2
    <3> QED
      BY <3>1, <3>2
  <2> QED
    BY <2>1, <2>5, <2>6, <2>7
<1>3. ASSUME NEW a \in Gaps(old, new) PROVE a \in 0 .. n /\ a \notin added
  <2>1. PICK j \in Gone(old, new) : a = Anchor(old, new, j)
    BY DEF Gaps
  <2> DEFINE K == {i \in Kept(old, new) : \E k \in 1 .. (j - 1) : old[k].id = new[i].id}
  <2>2. K \subseteq Kept(old, new) /\ Kept(old, new) \subseteq 1 .. n
    BY DEF Kept
  <2>3. a = High({0} \cup K)
    BY <2>1 DEF Anchor
  <2> HIDE DEF K
  <2>4. {0} \cup K \subseteq 0 .. n /\ {0} \cup K # {} /\ 0 \in Int
    BY <1>1, <2>2
  <2>5. a \in {0} \cup K
    <3> DEFINE V == {0} \cup K
    <3>1. V \subseteq 0 .. n /\ V # {} /\ 0 \in Int /\ n \in Int
      BY <1>1, <2>4
    <3>2. a = High(V)
      BY <2>3
    <3> HIDE DEF V, n
    <3>3. High(V) \in V
      BY <3>1, LowHighFacts
    <3> QED
      BY <3>2, <3>3 DEF V
  <2>6. 0 \notin added /\ \A i \in Kept(old, new) : i \notin added
    BY <1>1 DEF Added
  <2> QED
    BY <2>2, <2>4, <2>5, <2>6
<1> QED
  BY <1>1, <1>2, <1>3

\* The ranges cover the added lines, and nothing else; no two of them start at the
\* same line.
LEMMA RangesFacts ==
  ASSUME NEW old \in Seq(Line), NEW new \in Seq(Line)
  PROVE  /\ \A r \in Ranges(old, new) :
              /\ r \in GitRange /\ r.start \in 0 .. Len(new)
              /\ \A i \in r.start .. r.start + r.count - 1 : i \in Added(old, new)
         /\ \A i \in Added(old, new) : \E r \in Ranges(old, new) :
              i \in r.start .. r.start + r.count - 1
         /\ \A r, q \in Ranges(old, new) : r.start = q.start => r = q
<1> DEFINE added == Added(old, new)
           n == Len(new)
<1>1. n \in Nat /\ added \subseteq 1 .. n
  BY RunFacts
<1>2. ASSUME NEW i \in RunStarts(old, new)
      PROVE  LET r == RunRange(old, new, i)
             IN  /\ r \in GitRange /\ r.start = i /\ r.count # 0
                 /\ r.start + r.count - 1 = RunEnd(old, new, i)
  <2>1. i \in 1 .. n /\ RunEnd(old, new, i) \in i .. n
    BY <1>1, RunFacts
  <2> QED
    BY <1>1, <2>1 DEF RunRange, GitRange
<1>3. ASSUME NEW k \in Gaps(old, new)
      PROVE  GapRange(k) \in GitRange /\ GapRange(k).start = k /\ GapRange(k).count = 0
             /\ k \in 0 .. n
  <2>1. k \in 0 .. n
    BY RunFacts
  <2> QED
    BY <1>1, <2>1 DEF GapRange, GitRange
<1>4. ASSUME NEW r \in Ranges(old, new)
      PROVE  /\ r \in GitRange /\ r.start \in 0 .. n
             /\ \A i \in r.start .. r.start + r.count - 1 : i \in added
  <2>1. CASE \E i \in RunStarts(old, new) : r = RunRange(old, new, i)
    <3>1. PICK i \in RunStarts(old, new) : r = RunRange(old, new, i)
      BY <2>1
    <3>2. r \in GitRange /\ r.start = i /\ r.start + r.count - 1 = RunEnd(old, new, i)
      BY <1>2, <3>1
    <3>3. i .. RunEnd(old, new, i) \subseteq added /\ i \in added
      BY RunFacts
    <3>4. i \in 0 .. n
      BY <1>1, <3>3
    <3> QED
      BY <3>2, <3>3, <3>4
  <2>2. CASE \E k \in Gaps(old, new) : r = GapRange(k)
    <3>1. PICK k \in Gaps(old, new) : r = GapRange(k)
      BY <2>2
    <3>2. r \in GitRange /\ r.start = k /\ r.count = 0 /\ k \in 0 .. n
      BY <1>3, <3>1
    <3> QED
      BY <1>1, <3>2
  <2> QED
    BY <2>1, <2>2, RangesAre
<1>5. ASSUME NEW i \in added
      PROVE  \E r \in Ranges(old, new) : i \in r.start .. r.start + r.count - 1
  <2> DEFINE T == {k \in 1 .. i : k - 1 \notin added}
             s == High(T)
  <2>1. i \in 1 .. n
    BY <1>1
  <2>2. 1 \in T
    BY <1>1, <2>1
  <2>3. T \subseteq 1 .. i /\ T # {} /\ 1 \in Int /\ i \in Int
    <3>1. T \subseteq 1 .. i /\ T # {}
      BY <2>2
    <3> QED
      BY <1>1, <2>1, <3>1
  <2>4. s \in T /\ \A y \in T : s >= y
    <3> HIDE DEF T
    <3> QED
      BY <2>3, LowHighFacts
  <2> HIDE DEF s
  <2>5. s \in 1 .. i /\ s - 1 \notin added
    BY <2>4
  <2>6. ASSUME NEW x \in s .. i PROVE x \in added
    <3>1. CASE x = i
      BY <3>1
    <3>2. CASE x # i
      <4>1. x + 1 \in 1 .. i /\ ~ (s >= x + 1) /\ (x + 1) - 1 = x
        BY <2>1, <2>5, <3>2
      <4>2. x + 1 \notin T
        BY <2>4, <4>1
      <4> QED
        BY <4>1, <4>2
    <3> QED
      BY <3>1, <3>2
  <2>7. s \in RunStarts(old, new)
    BY <2>1, <2>5, <2>6 DEF RunStarts
  <2> DEFINE e == RunEnd(old, new, s)
  <2>8. e \in s .. n /\ e + 1 \notin added
    BY <2>7, RunFacts
  <2>9. i <= e
    <3>1. CASE e < i
      <4>1. e + 1 \in s .. i
        BY <2>1, <2>5, <2>8, <3>1
      <4> QED
        BY <2>6, <2>8, <4>1
    <3> QED
      BY <2>1, <2>5, <2>8, <3>1
  <2>10. /\ RunRange(old, new, s) \in Ranges(old, new)
         /\ RunRange(old, new, s).start = s
         /\ RunRange(old, new, s).start + RunRange(old, new, s).count - 1 = e
    BY <1>2, <2>7, RangesAre
  <2> HIDE DEF e
  <2> QED
    BY <2>1, <2>5, <2>8, <2>9, <2>10
<1>6. ASSUME NEW r \in Ranges(old, new), NEW q \in Ranges(old, new), r.start = q.start
      PROVE  r = q
  <2>1. \A x \in Ranges(old, new) :
           \/ x.start \in added /\ x = RunRange(old, new, x.start)
           \/ x.start \notin added /\ x = GapRange(x.start)
    <3> TAKE x \in Ranges(old, new)
    <3>1. CASE \E i \in RunStarts(old, new) : x = RunRange(old, new, i)
      <4>1. PICK i \in RunStarts(old, new) : x = RunRange(old, new, i)
        BY <3>1
      <4> QED
        BY <1>2, <4>1, RunFacts
    <3>2. CASE \E k \in Gaps(old, new) : x = GapRange(k)
      <4>1. PICK k \in Gaps(old, new) : x = GapRange(k)
        BY <3>2
      <4> QED
        BY <1>3, <4>1, RunFacts
    <3> QED
      BY <3>1, <3>2, RangesAre
  <2> QED
    BY <1>6, <2>1
<1> QED
  BY <1>4, <1>5, <1>6

-----------------------------------------------------------------------------
(* What the diff asks for *)

\* No added line reads as a file header.
Plain(old, new) == \A i \in Added(old, new) : ~ new[i].plus

Counted(old, new) == {r \in Ranges(old, new) : r.count # 0}

\* The hunks of a file.
AskedIn(f, old, new) == {HunkOf(f, r) : r \in Counted(old, new)}

LEMMA AppendRange ==
  ASSUME NEW A, NEW s \in Seq(A), NEW x \in A
  PROVE  ToSet(Append(s, x)) = ToSet(s) \cup {x}
<1> DEFINE u == Append(s, x)
           n == Len(s)
<1>1. /\ u \in Seq(A) /\ Len(u) = n + 1 /\ n \in Nat /\ u[n + 1] = x
      /\ \A i \in 1 .. n : u[i] = s[i]
  OBVIOUS
<1>2. \A y : y \in ToSet(s) <=> \E i \in 1 .. n : s[i] = y
  BY RangeFacts
<1> HIDE DEF u
<1>3. \A y : y \in ToSet(u) <=> \E i \in 1 .. n + 1 : u[i] = y
  <2>1. \A y : y \in ToSet(u) <=> \E i \in 1 .. Len(u) : u[i] = y
    BY <1>1, RangeFacts
  <2> QED
    BY <1>1, <2>1
<1> HIDE DEF n
<1>4. n + 1 \in 1 .. n + 1 /\ \A i : i \in 1 .. n + 1 <=> i \in 1 .. n \/ i = n + 1
  BY <1>1
<1>5. \A y : y \in ToSet(u) <=> y \in ToSet(s) \/ y = x
  BY <1>1, <1>2, <1>3, <1>4
<1> QED
  BY <1>5 DEF u

\* The current file while the lines of f are read: none when f has been deleted.
Current(f, new) == IF new = <<>> THEN {} ELSE {f}

LEMMA HunkReads ==
  ASSUME NEW f \in Files, NEW old \in Seq(Line), NEW new \in Seq(Line), Plain(old, new),
         NEW r \in Ranges(old, new)
  PROVE  Reads(Hunk(new, r), {Current(f, new)}, {Current(f, new)},
               {HunkOf(f, q) : q \in {p \in {r} : p.count # 0}})
<1> DEFINE line == [tag |-> "@@", range |-> r]
           rest == [i \in 1 .. r.count |-> [tag |-> "+", plus |-> new[r.start + i - 1].plus]]
           a == Current(f, new)
           H == {HunkOf(f, q) : q \in {p \in {r} : p.count # 0}}
<1>1. r \in GitRange /\ \A i \in r.start .. r.start + r.count - 1 : i \in Added(old, new)
  BY RangesFacts
<1>2. r.start \in Nat /\ r.count \in Nat
  BY <1>1 DEF GitRange
<1>3. ASSUME NEW i \in 1 .. r.count
      PROVE  [tag |-> "+", plus |-> new[r.start + i - 1].plus] = [tag |-> "+", plus |-> FALSE]
  <2> DEFINE j == r.start + i - 1
  <2>1. j \in r.start .. r.start + r.count - 1
    BY <1>2
  <2>2. j \in Added(old, new) /\ j \in 1 .. Len(new)
    BY <1>1, <2>1, RunFacts
  <2>3. ~ new[j].plus /\ new[j].plus \in BOOLEAN
    <3>1. ~ new[j].plus
      BY <2>2 DEF Plain
    <3>2. new[j] \in Line
      <4> HIDE DEF j
      <4> QED
        BY <2>2
    <3> HIDE DEF j
    <3> QED
      BY <3>1, <3>2 DEF Line
  <2>4. new[j].plus = FALSE
    BY <2>3
  <2> QED
    BY <2>4
<1>4. rest \in Seq(DiffLine) /\ Len(rest) = r.count
      /\ \A i \in 1 .. Len(rest) : rest[i] = [tag |-> "+", plus |-> FALSE]
  <2>1. [tag |-> "+", plus |-> FALSE] \in DiffLine
    BY DEF DiffLine
  <2>2. \A i \in 1 .. r.count : rest[i] = [tag |-> "+", plus |-> FALSE]
    BY <1>3
  <2>3. rest \in [1 .. r.count -> DiffLine]
    BY <1>3, <2>1
  <2> HIDE DEF rest
  <2> QED
    BY <1>2, <2>2, <2>3
<1>5. Reads(rest, {a}, {a}, {})
  <2> HIDE DEF rest
  <2> QED
    BY <1>4, ReadsAdded
<1>6. line \in DiffLine
  BY <1>1 DEF DiffLine
<1>7. a = {} => r.count = 0
  <2>1. CASE new = <<>>
    <3>1. \A i : i \notin Added(old, new)
      <4>1. Len(new) = 0
        BY <2>1
      <4>2. Added(old, new) \subseteq 1 .. Len(new)
        BY RunFacts
      <4> QED
        BY <4>1, <4>2
    <3>2. r.count # 0 => r.start \in r.start .. r.start + r.count - 1
      BY <1>2
    <3> QED
      BY <1>1, <3>1, <3>2
  <2>2. CASE new # <<>>
    BY <2>2 DEF Current
  <2> QED
    BY <2>1, <2>2
<1>8. ASSUME NEW acc \in Parser, acc.at \in {a}
      PROVE  /\ ParseLine(acc, line).at \in {a}
             /\ ToSet(ParseLine(acc, line).hunks) = ToSet(acc.hunks) \cup H
  <2>1. ParseLine(acc, line)
          = IF acc.at # {} /\ r.count # 0
            THEN [at |-> acc.at,
                  hunks |-> Append(acc.hunks, HunkOf(CHOOSE x \in acc.at : TRUE, r))]
            ELSE acc
    BY <1>1, LineRead, Zenon
  <2> HIDE DEF line
  <2>2. CASE r.count = 0
    <3>1. H = {}
      BY <2>2
    <3> HIDE DEF H
    <3> QED
      BY <1>8, <2>1, <2>2, <3>1
  <2>3. CASE r.count # 0
    <3>1. acc.at = {f}
      BY <1>7, <1>8, <2>3 DEF Current
    <3>2. (CHOOSE x \in acc.at : TRUE) = f
      BY <3>1
    <3>3. ParseLine(acc, line) = [at |-> acc.at, hunks |-> Append(acc.hunks, HunkOf(f, r))]
      BY <2>1, <2>3, <3>1, <3>2, Zenon
    <3>4. acc.hunks \in Seq(HunkRecord) /\ HunkOf(f, r) \in HunkRecord
      BY <1>2 DEF Parser, HunkOf, HunkRecord
    <3>5. ToSet(Append(acc.hunks, HunkOf(f, r))) = ToSet(acc.hunks) \cup {HunkOf(f, r)}
      BY <3>4, AppendRange
    <3>6. H = {HunkOf(f, r)}
      BY <2>3
    <3> HIDE DEF H
    <3> QED
      BY <1>8, <3>3, <3>5, <3>6
  <2> QED
    BY <2>2, <2>3
<1> HIDE DEF line, a, H
<1>9. Reads(<<line>>, {a}, {a}, H)
  BY <1>6, <1>8, ReadsOne
<1>10. Hunk(new, r) = <<line>> \o rest
  BY DEF Hunk, line
<1> HIDE DEF rest
<1>11. Reads(<<line>> \o rest, {a}, {a}, H \cup {})
  BY <1>5, <1>9, ReadsBoth
<1>12. H \cup {} = H
  OBVIOUS
<1> QED
  BY <1>10, <1>11, <1>12, Zenon DEF a, H

LEMMA HunkAtReads ==
  ASSUME NEW f \in Files, NEW old \in Seq(Line), NEW new \in Seq(Line), Plain(old, new),
         NEW k
  PROVE  Reads(HunkAt(new, Ranges(old, new), k), {Current(f, new)}, {Current(f, new)},
               {HunkOf(f, q) : q \in {p \in Counted(old, new) : p.start = k}})
<1> DEFINE H == {HunkOf(f, q) : q \in {p \in Counted(old, new) : p.start = k}}
           a == Current(f, new)
<1>1. CASE \E r \in Ranges(old, new) : r.start = k
  <2> DEFINE r == CHOOSE r \in Ranges(old, new) : r.start = k
  <2>1. r \in Ranges(old, new) /\ r.start = k
    BY <1>1
  <2>2. HunkAt(new, Ranges(old, new), k) = Hunk(new, r)
    BY <1>1 DEF HunkAt
  <2> HIDE DEF r
  <2>3. {p \in Counted(old, new) : p.start = k} = {p \in {r} : p.count # 0}
    BY <2>1, RangesFacts DEF Counted
  <2>4. Reads(Hunk(new, r), {a}, {a}, {HunkOf(f, q) : q \in {p \in {r} : p.count # 0}})
    BY <2>1, HunkReads
  <2> QED
    BY <2>2, <2>3, <2>4
<1>2. CASE ~ \E r \in Ranges(old, new) : r.start = k
  <2>1. H = {} /\ HunkAt(new, Ranges(old, new), k) = <<>>
    BY <1>2 DEF Counted, HunkAt
  <2> HIDE DEF H, a
  <2>2. Reads(HunkAt(new, Ranges(old, new), k), {a}, {a}, H)
    BY <2>1, ReadsNothing
  <2> QED
    BY <2>2 DEF H, a
<1> QED
  BY <1>1, <1>2

\* The diff of a file asks for the hunks of this file.
LEMMA FileDiffReads ==
  ASSUME NEW f \in Files, NEW old \in Seq(Line), NEW new \in Seq(Line), Plain(old, new)
  PROVE  Reads(FileDiff(f, old, new), AnyFile, AnyFile, AskedIn(f, old, new))
<1> DEFINE ranges == Ranges(old, new)
           a == Current(f, new)
           N == Len(new) + 1
           head1 == [tag |-> "+++", gone |-> new = <<>>, path |-> f]
           ss == [i \in 1 .. (Len(new) + 1) |-> HunkAt(new, ranges, i - 1)]
           H == [i \in 1 .. N |-> {HunkOf(f, q) : q \in {p \in Counted(old, new) : p.start = i - 1}}]
<1>1. CASE ranges = {}
  <2>1. FileDiff(f, old, new) = <<>> /\ AskedIn(f, old, new) = {}
    BY <1>1 DEF FileDiff, AskedIn, Counted
  <2> QED
    BY <2>1, ReadsNothing
<1>2. CASE ranges # {}
  <2>1. N \in Nat \ {0} /\ Len(new) \in Nat
    OBVIOUS
  <2>2. \A i \in 1 .. N : Reads(HunkAt(new, ranges, i - 1), {a}, {a}, H[i])
    <3> TAKE i \in 1 .. N
    <3>1. H[i] = {HunkOf(f, q) : q \in {p \in Counted(old, new) : p.start = i - 1}}
      OBVIOUS
    <3>2. \A k : Reads(HunkAt(new, ranges, k), {a}, {a},
                       {HunkOf(f, q) : q \in {p \in Counted(old, new) : p.start = k}})
      BY HunkAtReads, Zenon
    <3> HIDE DEF H, a, ranges
    <3> QED
      BY <3>1, <3>2
  <2>3. ss \in [1 .. N -> Seq(DiffLine)] /\ \A i \in 1 .. N : Reads(ss[i], {a}, {a}, H[i])
    <3> HIDE DEF H, a, ranges
    <3>1. \A i \in 1 .. N : HunkAt(new, ranges, i - 1) \in Seq(DiffLine)
      BY <2>2 DEF Reads
    <3> QED
      BY <2>2, <3>1
  <2>4. UNION {H[i] : i \in 1 .. N} = AskedIn(f, old, new)
    <3>1. ASSUME NEW r \in Counted(old, new) PROVE r.start + 1 \in 1 .. N /\ (r.start + 1) - 1 = r.start
      BY <3>1, RangesFacts DEF Counted
    <3>2. \A i \in 1 .. N : H[i] = {HunkOf(f, q) : q \in {p \in Counted(old, new) : p.start = i - 1}}
      OBVIOUS
    <3> HIDE DEF H, N
    <3>3. ASSUME NEW r \in Counted(old, new) PROVE HunkOf(f, r) \in UNION {H[i] : i \in 1 .. N}
      <4>1. HunkOf(f, r) \in H[r.start + 1]
        BY <3>1, <3>2
      <4> QED
        BY <3>1, <4>1
    <3>4. ASSUME NEW i \in 1 .. N, NEW h \in H[i] PROVE h \in AskedIn(f, old, new)
      BY <3>2 DEF AskedIn
    <3> QED
      BY <3>3, <3>4 DEF AskedIn
  <2>5. Reads(FlattenSeq(ss), {a}, {a}, AskedIn(f, old, new))
    <3> HIDE DEF H, a, ss, N
    <3> QED
      BY <2>1, <2>3, <2>4, ReadsAll
  <2>6. Reads(<<head1>>, AnyFile, {a}, {})
    <3>1. head1 \in DiffLine
      BY DEF DiffLine
    <3>2. ASSUME NEW acc \in Parser
          PROVE  ParseLine(acc, head1) = [at |-> a, hunks |-> acc.hunks]
      <4>1. (new = <<>>) \in BOOLEAN
        OBVIOUS
      <4>2. ParseLine(acc, head1) = [at |-> IF new = <<>> THEN {} ELSE {f}, hunks |-> acc.hunks]
        BY <4>1, LineRead, Zenon
      <4> QED
        BY <4>2, Zenon DEF Current
    <3> HIDE DEF head1, a
    <3>3. ASSUME NEW acc \in Parser
          PROVE  /\ ParseLine(acc, head1).at \in {a}
                 /\ ToSet(ParseLine(acc, head1).hunks) = ToSet(acc.hunks) \cup {}
      BY <3>2
    <3> QED
      BY <3>1, <3>3, ReadsOne
  <2>7. FileDiff(f, old, new) = <<head1>> \o FlattenSeq(ss)
    BY <1>2 DEF FileDiff
  <2>8. {a} \subseteq AnyFile
    BY DEF AnyFile, Current
  <2> HIDE DEF a, head1, ss, H, N
  <2>9. Reads(<<head1>> \o FlattenSeq(ss), AnyFile, {a}, {} \cup AskedIn(f, old, new))
    BY <2>5, <2>6, ReadsBoth
  <2>10. {} \cup AskedIn(f, old, new) = AskedIn(f, old, new)
    OBVIOUS
  <2>11. Reads(FileDiff(f, old, new), AnyFile, {a}, AskedIn(f, old, new))
    BY <2>7, <2>9, <2>10
  <2> QED
    BY <2>8, <2>11, ReadsMore
<1> QED
  BY <1>1, <1>2

\* The sequence of the files has each of them.
LEMMA FilesInOrder ==
  /\ Cardinality(Files) \in Nat
  /\ SetToSeq(Files) \in [1 .. Cardinality(Files) -> Files]
  /\ \A f \in Files : \E k \in 1 .. Cardinality(Files) : SetToSeq(Files)[k] = f
<1> DEFINE n == Cardinality(Files)
           g == SetToSeq(Files)
<1>1. IsFiniteSet(Files)
  BY FilesAssumption
<1>2. n \in Nat /\ ExistsBijection(1 .. n, Files)
  BY <1>1, FS_CardinalityType
<1>3. PICK b : b \in Bijection(1 .. n, Files)
  BY <1>2 DEF ExistsBijection
<1>4. \E h \in [1 .. n -> Files] : IsInjective(h)
  BY <1>3 DEF Bijection, Injection, IsInjective
<1>5. g \in [1 .. n -> Files] /\ IsInjective(g)
  BY <1>4 DEF SetToSeq
<1>6. g \in Injection(1 .. n, Files)
  BY <1>5 DEF Injection, IsInjective
<1>7. Cardinality(1 .. n) = n
  <2>1. 1 \in Int /\ n \in Int
    BY <1>2
  <2>2. Cardinality(1 .. n) = IF 1 > n THEN 0 ELSE n - 1 + 1
    BY <2>1, FS_Interval
  <2> QED
    BY <1>2, <2>2
<1>8. g \in Surjection(1 .. n, Files)
  BY <1>1, <1>6, <1>7, FS_Injection
<1> QED
  BY <1>2, <1>5, <1>8 DEF Surjection

\* The hunks of a diff.
AskedBy(old, new) == UNION {AskedIn(f, old[f], new[f]) : f \in Files}

LEMMA DiffReads ==
  ASSUME NEW old \in [Files -> Seq(Line)], NEW new \in [Files -> Seq(Line)],
         \A f \in Files : Plain(old[f], new[f])
  PROVE  Reads(Diff(old, new), AnyFile, AnyFile, AskedBy(old, new))
<1> DEFINE n == Cardinality(Files)
           g == SetToSeq(Files)
           ss == [k \in 1 .. Cardinality(Files) |->
                    LET f == SetToSeq(Files)[k] IN FileDiff(f, old[f], new[f])]
           H == [k \in 1 .. n |-> AskedIn(g[k], old[g[k]], new[g[k]])]
<1>1. n \in Nat /\ \A k \in 1 .. n : g[k] \in Files
  BY FilesInOrder
<1>2. Diff(old, new) = FlattenSeq(ss)
  BY DEF Diff
<1>3. CASE n = 0
  <2>1. ss = <<>>
    BY <1>3
  <2>2. FlattenSeq(<<>>) = <<>>
    BY DEF FlattenSeq
  <2>3. AskedBy(old, new) = {}
    <3>1. \A f : f \notin Files
      BY <1>3, FilesInOrder
    <3> QED
      BY <3>1 DEF AskedBy
  <2> QED
    BY <1>2, <2>1, <2>2, <2>3, ReadsNothing
<1>4. CASE n # 0
  <2>1. n \in Nat \ {0}
    BY <1>1, <1>4
  <2>2. \A k \in 1 .. n : /\ ss[k] = FileDiff(g[k], old[g[k]], new[g[k]])
                          /\ H[k] = AskedIn(g[k], old[g[k]], new[g[k]])
    OBVIOUS
  <2>3. DOMAIN ss = 1 .. n /\ ss = [k \in DOMAIN ss |-> ss[k]]
    OBVIOUS
  <2> HIDE DEF ss, H, n, g
  <2>4. \A k \in 1 .. n : Reads(ss[k], AnyFile, AnyFile, H[k])
    <3> TAKE k \in 1 .. n
    <3> DEFINE f == g[k]
    <3>1. f \in Files
      BY <1>1
    <3> HIDE DEF f
    <3>2. old[f] \in Seq(Line) /\ new[f] \in Seq(Line) /\ Plain(old[f], new[f])
      BY <3>1
    <3>3. Reads(FileDiff(f, old[f], new[f]), AnyFile, AnyFile, AskedIn(f, old[f], new[f]))
      BY <3>1, <3>2, FileDiffReads
    <3> QED
      BY <2>2, <3>3 DEF f
  <2>5. ss \in [1 .. n -> Seq(DiffLine)]
    <3>1. \A k \in 1 .. n : ss[k] \in Seq(DiffLine)
      BY <2>4 DEF Reads
    <3> QED
      BY <2>3, <3>1
  <2>6. UNION {H[k] : k \in 1 .. n} = AskedBy(old, new)
    <3>1. \A f \in Files : \E k \in 1 .. n : g[k] = f
      BY FilesInOrder DEF n, g
    <3>2. ASSUME NEW f \in Files PROVE AskedIn(f, old[f], new[f]) \subseteq UNION {H[k] : k \in 1 .. n}
      <4>1. PICK k \in 1 .. n : g[k] = f
        BY <3>1
      <4> QED
        BY <2>2, <4>1
    <3>3. ASSUME NEW k \in 1 .. n PROVE H[k] \subseteq AskedBy(old, new)
      BY <1>1, <2>2 DEF AskedBy
    <3> QED
      BY <3>2, <3>3 DEF AskedBy
  <2>7. Reads(FlattenSeq(ss), AnyFile, AnyFile, AskedBy(old, new))
    BY <2>1, <2>4, <2>5, <2>6, ReadsAll
  <2> QED
    BY <1>2, <2>7
<1> QED
  BY <1>3, <1>4

\* parse_hunks finds in a diff the hunks of its files, when no added line reads as
\* a header.
LEMMA HunksFound ==
  ASSUME NEW old \in [Files -> Seq(Line)], NEW new \in [Files -> Seq(Line)],
         \A f \in Files : Plain(old[f], new[f])
  PROVE  /\ ParseHunks(Diff(old, new)) \in Seq(AskedBy(old, new))
         /\ ToSet(ParseHunks(Diff(old, new))) = AskedBy(old, new)
<1>1. Reads(Diff(old, new), AnyFile, AnyFile, AskedBy(old, new))
  BY DiffReads
<1>2. PICK r \in Parser : Parses(Unread, Diff(old, new), r) /\ ParseHunks(Diff(old, new)) = r.hunks
  BY <1>1, DiffParses DEF Reads
<1>3. Unread \in Parser /\ Unread.at \in AnyFile /\ ToSet(Unread.hunks) = {}
  BY DEF Unread, Parser, AnyFile, ToSet
<1>4. ToSet(r.hunks) = ToSet(Unread.hunks) \cup AskedBy(old, new)
  BY <1>1, <1>2, <1>3 DEF Reads
<1>5. r.hunks \in Seq(HunkRecord)
  BY DEF Parser
<1>6. r.hunks \in Seq(ToSet(r.hunks))
  BY <1>5, RangeFacts
<1>7. ToSet(r.hunks) = AskedBy(old, new)
  BY <1>3, <1>4
<1> QED
  BY <1>2, <1>6, <1>7

-----------------------------------------------------------------------------
(* The rows of the symbols *)

Trees == [Files -> Seq(Line)]

\* A stored row, where the files f and the name s are.
RowOf(f, s, text) ==
  [file |-> f, name |-> s, first |-> Low(Span(text, s)) - 1, last |-> High(Span(text, s)) - 1,
   sig |-> text[Low(Span(text, s))].id]

\* Rows lie in files, begin before they end, and no two have the same id.
Keyed(rows) ==
  /\ \A r \in rows : r.file \in Files /\ r.first \in Int /\ r.last \in Int /\ r.first <= r.last
  /\ \A r, q \in rows : SameId(r, q) => r = q

LEMMA SymbolsFacts ==
  ASSUME NEW tree \in Trees, NEW r \in Symbols(tree)
  PROVE  LET span == Span(tree[r.file], r.name)
         IN  /\ r.file \in Files /\ r = RowOf(r.file, r.name, tree[r.file])
             /\ span \in SUBSET (1 .. Len(tree[r.file])) /\ span # {}
             /\ r.first = Low(span) - 1 /\ r.last = High(span) - 1
             /\ Low(span) \in span /\ High(span) \in span
             /\ \A i \in span : i \in Int /\ Low(span) <= i /\ High(span) >= i
<1>1. PICK f \in Files, s \in Names : Span(tree[f], s) # {} /\ r = RowOf(f, s, tree[f])
  BY DEF Symbols, RowOf
<1>2. r.file = f /\ r.name = s /\ r.first = Low(Span(tree[f], s)) - 1
      /\ r.last = High(Span(tree[f], s)) - 1
  BY <1>1 DEF RowOf
<1> DEFINE span == Span(tree[f], s)
           n == Len(tree[f])
<1>3. tree[f] \in Seq(Line) /\ n \in Nat
  BY DEF Trees
<1>4. span \in SUBSET (1 .. n) /\ span # {} /\ 1 \in Int /\ n \in Int
  BY <1>1, <1>3 DEF Span
<1>5. /\ Low(span) \in span /\ High(span) \in span
      /\ \A i \in span : Low(span) <= i /\ High(span) >= i
  <2> HIDE DEF span, n
  <2> QED
    BY <1>4, LowHighFacts
<1>6. \A i \in span : i \in Int
  BY <1>4
<1> QED
  BY <1>1, <1>2, <1>4, <1>5, <1>6

LEMMA SymbolsKeyed ==
  ASSUME NEW tree \in Trees
  PROVE  Keyed(Symbols(tree))
<1>1. ASSUME NEW r \in Symbols(tree)
      PROVE  r.file \in Files /\ r.first \in Int /\ r.last \in Int /\ r.first <= r.last
  <2> DEFINE span == Span(tree[r.file], r.name)
             n == Len(tree[r.file])
  <2>1. /\ r.file \in Files /\ span \in SUBSET (1 .. n)
        /\ r.first = Low(span) - 1 /\ r.last = High(span) - 1
        /\ Low(span) <= High(span)
    BY SymbolsFacts
  <2>2. Low(span) \in Int /\ High(span) \in Int
    BY SymbolsFacts
  <2> HIDE DEF span
  <2> QED
    BY <2>1, <2>2
<1>2. ASSUME NEW r \in Symbols(tree), NEW q \in Symbols(tree), SameId(r, q) PROVE r = q
  <2>1. r = RowOf(r.file, r.name, tree[r.file]) /\ q = RowOf(q.file, q.name, tree[q.file])
    BY SymbolsFacts
  <2>2. r.file = q.file /\ r.name = q.name
    BY <1>2 DEF SameId
  <2> QED
    BY <2>1, <2>2
<1> QED
  BY <1>1, <1>2, Zenon DEF Keyed

LEMMA ReplaceKeyed ==
  ASSUME NEW rows, NEW new, Keyed(rows), Keyed(new)
  PROVE  Keyed(Replace(rows, new))
<1>1. \A r, q : SameId(r, q) => SameId(q, r)
  BY DEF SameId
<1> QED
  BY <1>1 DEF Keyed, Replace

\* Rows of a store are not dropped from the report for other rows of it.
LEMMA ReplaceKeeps ==
  ASSUME NEW rows, Keyed(rows), NEW found \in SUBSET rows, NEW new \in SUBSET rows
  PROVE  Replace(found, new) = found \cup new
<1>1. ASSUME NEW r \in found, NEW q \in new, SameId(r, q) PROVE r \in new
  BY <1>1 DEF Keyed
<1> QED
  BY <1>1 DEF Replace

-----------------------------------------------------------------------------
(* The invariant *)

InRange(rows, h) ==
  {r \in rows : r.file \in Within[h.file] /\ r.first <= h.end /\ r.last >= h.start}

\* How far the command has come: hs is what it has still to look up of the diff
\* from old to new, found what it has found.
Answering(old, new, rows, hs, found, at) ==
  /\ hs \in Seq(AskedBy(old, new))
  /\ \A h \in AskedBy(old, new) : h \in ToSet(hs) \/ InRange(rows, h) \subseteq found
  /\ \A r \in found : r \in rows /\ \E h \in AskedBy(old, new) : r \in InRange(rows, h)
  /\ at \in {"callers", "done"} => hs = <<>>

Readable(old, new) == \A f \in Files : Plain(old[f], new[f])

New == IF mode = "base" THEN head ELSE work

SourceInv ==
  /\ base \in Trees /\ head \in Trees /\ work \in Trees
  /\ edits \in Nat
  /\ Keyed(stored)

CommandInv ==
  /\ pc \in {"idle", "query", "callers", "done"}
  /\ mode \in {"worktree", "base"}
  /\ pc = "idle" => report = {}
  /\ (calm /\ pc # "idle" /\ Readable(Old, New)) => Answering(Old, New, stored, hunks, report, pc)

IInv == SourceInv /\ CommandInv

LEMMA InitHolds == Init => IInv
<1> SUFFICES ASSUME Init PROVE IInv
  OBVIOUS
<1>1. First \in Trees
  BY FilesAssumption DEF Trees
<1>2. SourceInv
  BY <1>1, SymbolsKeyed DEF Init, SourceInv
<1>3. CommandInv
  BY DEF Init, CommandInv
<1> QED
  BY <1>2, <1>3 DEF IInv

\* An edit leaves sequences of lines.
LEMMA EditTypes ==
  ASSUME NEW s \in Seq(Line), NEW line \in Line
  PROVE  /\ \A i \in 1 .. Len(s) : [s EXCEPT ![i] = line] \in Seq(Line)
         /\ \A i \in 1 .. Len(s) : RemoveAt(s, i) \in Seq(Line)
         /\ \A i \in 0 .. Len(s) : InsertAt(s, i + 1, line) \in Seq(Line)
<1>1. \A i \in 1 .. Len(s) : [s EXCEPT ![i] = line] \in Seq(Line)
  OBVIOUS
<1>2. ASSUME NEW i \in 1 .. Len(s) PROVE RemoveAt(s, i) \in Seq(Line)
  <2>1. SubSeq(s, 1, i - 1) \in Seq(Line) /\ SubSeq(s, i + 1, Len(s)) \in Seq(Line)
    OBVIOUS
  <2> QED
    BY <2>1 DEF RemoveAt
<1>3. ASSUME NEW i \in 0 .. Len(s) PROVE InsertAt(s, i + 1, line) \in Seq(Line)
  <2>1. SubSeq(s, 1, (i + 1) - 1) \in Seq(Line) /\ SubSeq(s, i + 1, Len(s)) \in Seq(Line)
        /\ <<line>> \in Seq(Line)
    OBVIOUS
  <2> QED
    BY <2>1 DEF InsertAt
<1> QED
  BY <1>1, <1>2, <1>3

LEMMA SourceStep ==
  ASSUME IInv, [Next]_vars
  PROVE  SourceInv'
<1> USE DEF IInv, SourceInv
<1> DEFINE Same == UNCHANGED <<gitVars, storeVars>>
<1>1. CASE Same
  BY <1>1 DEF gitVars, storeVars
<1>2. ASSUME NEW f \in Files, NEW text \in Seq(Line), Edit(f, text) PROVE SourceInv'
  <2>1. work' = [work EXCEPT ![f] = text] /\ UNCHANGED <<base, head, stored>> /\ edits' = edits + 1
    BY <1>2 DEF Edit, storeVars
  <2>2. work' \in Trees
    BY <2>1 DEF Trees
  <2> QED
    BY <2>1, <2>2
<1>3. \A symbols \in SUBSET Names, plus \in BOOLEAN : NewLine(symbols, plus) \in Line
  BY DEF NewLine, Line
<1>4. CASE Command
  <2>1. Same
    BY <1>4 DEF Command, Start, QueryHunk, Listing, QueryCallers, Again
  <2> QED
    BY <1>1, <2>1
<1>5. ASSUME NEW f \in Files, NEW i \in DOMAIN work[f], ChangeLine(f, i) PROVE SourceInv'
  <2>1. work[f] \in Seq(Line) /\ i \in 1 .. Len(work[f])
    BY DEF Trees
  <2>2. NewLine(work[f][i].in, FALSE) \in Line
    <3>1. work[f][i] \in Line
      BY <2>1
    <3>2. work[f][i].in \in SUBSET Names
      BY <3>1 DEF Line
    <3> QED
      BY <1>3, <3>2
  <2> DEFINE text == [work[f] EXCEPT ![i] = NewLine(work[f][i].in, FALSE)]
  <2>3. text \in Seq(Line)
    BY <2>1, <2>2, EditTypes
  <2>4. Edit(f, text)
    BY <1>5 DEF ChangeLine
  <2> HIDE DEF text
  <2> QED
    BY <1>2, <2>3, <2>4
<1>6. ASSUME NEW f \in Files, NEW i \in DOMAIN work[f], DeleteLine(f, i) PROVE SourceInv'
  <2>1. work[f] \in Seq(Line) /\ i \in 1 .. Len(work[f])
    BY DEF Trees
  <2>2. NewLine({}, FALSE) \in Line
    BY <1>3
  <2>3. RemoveAt(work[f], i) \in Seq(Line)
    BY <2>1, <2>2, EditTypes
  <2>4. Edit(f, RemoveAt(work[f], i))
    BY <1>6 DEF DeleteLine
  <2> QED
    BY <1>2, <2>3, <2>4
<1>7. ASSUME NEW f \in Files, NEW b \in BOOLEAN, NEW S \in SUBSET Names,
             NEW i \in 0 .. Len(work[f]), InsertLine(f, i, S, b)
      PROVE  SourceInv'
  <2>1. work[f] \in Seq(Line)
    BY DEF Trees
  <2>2. NewLine(S, b) \in Line
    BY <1>3
  <2>3. InsertAt(work[f], i + 1, NewLine(S, b)) \in Seq(Line)
    BY <2>1, <2>2, EditTypes
  <2>4. Edit(f, InsertAt(work[f], i + 1, NewLine(S, b)))
    BY <1>7 DEF InsertLine
  <2> QED
    BY <1>2, <2>3, <2>4
<1>8. CASE Commit
  BY <1>8 DEF Commit, storeVars
<1>9. CASE ScanClear
  BY <1>9 DEF ScanClear, gitVars, Keyed
<1>10. CASE ScanSave
  <2>1. stored' = Replace(stored, Symbols(work)) /\ UNCHANGED <<base, head, work, edits>>
    BY <1>10 DEF ScanSave, gitVars
  <2>2. Keyed(Symbols(work)) /\ Keyed(stored)
    BY SymbolsKeyed
  <2>3. Keyed(Replace(stored, Symbols(work)))
    BY <2>2, ReplaceKeyed
  <2> QED
    BY <2>1, <2>3
<1>11. CASE UNCHANGED vars
  <2>1. Same
    BY <1>11 DEF vars
  <2> QED
    BY <1>1, <2>1
<1> QED
  BY <1>4, <1>5, <1>6, <1>7, <1>8, <1>9, <1>10, <1>11 DEF Next, Environment

LEMMA StartAnswers ==
  ASSUME NEW old \in Trees, NEW new \in Trees, NEW rows, Readable(old, new)
  PROVE  LET hs == ParseHunks(Diff(old, new))
         IN  Answering(old, new, rows, hs, {}, IF hs = <<>> THEN "done" ELSE "query")
<1> DEFINE hs == ParseHunks(Diff(old, new))
<1>1. hs \in Seq(AskedBy(old, new)) /\ ToSet(hs) = AskedBy(old, new)
  BY HunksFound DEF Readable, Trees
<1> HIDE DEF hs
<1>2. Answering(old, new, rows, hs, {}, IF hs = <<>> THEN "done" ELSE "query")
  BY <1>1 DEF Answering
<1> QED
  BY <1>2 DEF hs

LEMMA HunkAnswers ==
  ASSUME NEW old, NEW new, NEW rows, Keyed(rows), NEW hs, NEW found, hs # <<>>,
         Answering(old, new, rows, hs, found, "query")
  PROVE  Answering(old, new, rows, Tail(hs), Replace(found, InRange(rows, Head(hs))), "query")
<1> DEFINE A == AskedBy(old, new)
           h == Head(hs)
           t == Tail(hs)
           new1 == InRange(rows, h)
<1>1. /\ hs \in Seq(A) /\ \A g \in A : g \in ToSet(hs) \/ InRange(rows, g) \subseteq found
      /\ \A r \in found : r \in rows /\ \E g \in A : r \in InRange(rows, g)
  BY DEF Answering
<1> HIDE DEF A
<1>2. h \in A /\ t \in Seq(A) /\ \A g : g \in ToSet(hs) => g = h \/ g \in ToSet(t)
  <2>1. h \in A /\ h = hs[1] /\ t \in Seq(A) /\ Len(t) = Len(hs) - 1
        /\ \A i \in 1 .. Len(hs) - 1 : t[i] = hs[i + 1]
    BY <1>1
  <2>2. ASSUME NEW g, g \in ToSet(hs), g # h PROVE g \in ToSet(t)
    <3>1. PICK i \in 1 .. Len(hs) : hs[i] = g
      BY <1>1, <2>2, RangeFacts
    <3>2. i - 1 \in 1 .. Len(t) /\ (i - 1) + 1 = i /\ i - 1 \in 1 .. Len(hs) - 1
      BY <1>1, <2>1, <2>2, <3>1
    <3>3. t[i - 1] = g
      BY <2>1, <3>1, <3>2
    <3> HIDE DEF t
    <3> QED
      BY <2>1, <3>2, <3>3, RangeFacts
  <2> QED
    BY <2>1, <2>2
<1> HIDE DEF h, t
<1>3. new1 \subseteq rows /\ found \subseteq rows
  BY <1>1 DEF InRange
<1>4. Replace(found, new1) = found \cup new1
  BY <1>3, ReplaceKeeps
<1>5. \A g \in A : g \in ToSet(t) \/ InRange(rows, g) \subseteq found \cup new1
  BY <1>1, <1>2
<1>6. \A r \in found \cup new1 : r \in rows /\ \E g \in A : r \in InRange(rows, g)
  BY <1>1, <1>2, <1>3
<1>7. Answering(old, new, rows, t, Replace(found, new1), "query")
  BY <1>2, <1>4, <1>5, <1>6 DEF Answering, A
<1> QED
  BY <1>7 DEF t, h

LEMMA CommandStep ==
  ASSUME IInv, [Next]_vars
  PROVE  CommandInv'
<1>1. CASE Disturb
  BY <1>1 DEF Disturb, IInv, CommandInv
<1>2. CASE UNCHANGED vars
  BY <1>2 DEF vars, gitVars, storeVars, cmdVars, IInv, CommandInv, Old, New
<1>3. ASSUME NEW m \in {"worktree", "base"}, Start(m) PROVE CommandInv'
  <2> DEFINE old == IF m = "base" THEN base ELSE head
             new == IF m = "base" THEN head ELSE work
             hs == ParseHunks(Diff(old, new))
  <2>1. old \in Trees /\ new \in Trees
    BY DEF IInv, SourceInv
  <2>2. DiffOf(m) = Diff(old, new)
    BY DEF DiffOf
  <2>3. /\ mode' = m /\ hunks' = hs /\ report' = report /\ stored' = stored
        /\ pc' = (IF hs = <<>> THEN "done" ELSE "query") /\ Old' = old /\ New' = new
        /\ report = {}
    BY <1>3, <2>2 DEF Start, gitVars, storeVars, Old, New, IInv, CommandInv
  <2> HIDE DEF old, new
  <2>4. ASSUME Readable(old, new)
        PROVE  Answering(old, new, stored, hs, {}, IF hs = <<>> THEN "done" ELSE "query")
    BY <2>1, <2>4, StartAnswers, Zenon
  <2> HIDE DEF hs
  <2>5. (calm' /\ pc' # "idle" /\ Readable(Old', New'))
          => Answering(Old', New', stored', hunks', report', pc')
    BY <2>3, <2>4
  <2>6. pc' \in {"query", "done"} /\ mode' \in {"worktree", "base"}
    BY <2>3
  <2> QED
    BY <2>5, <2>6 DEF CommandInv
<1>4. CASE QueryHunk
  <2>1. /\ Old' = Old /\ New' = New /\ stored' = stored /\ calm' = calm /\ pc = "query"
        /\ pc' = pc /\ mode' = mode /\ hunks # <<>> /\ hunks' = Tail(hunks)
    BY <1>4 DEF QueryHunk, gitVars, storeVars, Old, New
  <2>2. report' = Replace(report, InRange(stored, Head(hunks)))
    BY <1>4 DEF QueryHunk, SymbolsInRange, InRange
  <2>3. ASSUME calm, Readable(Old, New)
        PROVE  Answering(Old, New, stored, hunks', report', "query")
    <3>1. Answering(Old, New, stored, hunks, report, "query") /\ Keyed(stored)
      BY <2>1, <2>3 DEF IInv, CommandInv, SourceInv
    <3> QED
      BY <2>1, <2>2, <3>1, HunkAnswers
  <2> QED
    BY <2>1, <2>3 DEF IInv, CommandInv
<1>5. ASSUME NEW b \in BOOLEAN, Listing(b) PROVE CommandInv'
  <2>1. /\ Old' = Old /\ New' = New /\ stored' = stored /\ calm' = calm /\ pc = "query"
        /\ mode' = mode /\ hunks = <<>> /\ hunks' = hunks /\ report' = report
        /\ pc' \in {"callers", "done"}
    BY <1>5 DEF Listing, gitVars, storeVars, Old, New
  <2> QED
    BY <2>1 DEF IInv, CommandInv, Answering
<1>6. CASE QueryCallers
  <2>1. /\ Old' = Old /\ New' = New /\ stored' = stored /\ calm' = calm /\ pc = "callers"
        /\ mode' = mode /\ hunks' = hunks /\ report' = report
        /\ pc' \in {"callers", "done"}
    BY <1>6 DEF QueryCallers, gitVars, storeVars, Old, New
  <2> QED
    BY <2>1 DEF IInv, CommandInv, Answering
<1>7. CASE Again
  BY <1>7 DEF Again, CommandInv
<1>8. CASE Environment
  <2>1. Disturb
    BY <1>8 DEF Environment, ChangeLine, DeleteLine, InsertLine, Edit, Commit, ScanClear, ScanSave
  <2> QED
    BY <1>1, <2>1
<1> QED
  BY <1>2, <1>3, <1>4, <1>5, <1>6, <1>7, <1>8 DEF Next, Command

\* Source and command together, in every state: what the two theorems below rest on.
THEOREM Reporting == Spec => []IInv
<1>1. IInv /\ [Next]_vars => IInv'
  BY SourceStep, CommandStep DEF IInv
<1> QED
  BY InitHolds, <1>1, PTL DEF Spec

-----------------------------------------------------------------------------
(* The report *)

LEMMA SettledFacts ==
  ASSUME IInv, Settled
  PROVE  /\ Old \in Trees /\ work \in Trees /\ Keyed(stored)
         /\ Answering(Old, work, stored, <<>>, report, pc)
         /\ \A f \in Files : Old[f] \in Seq(Line) /\ work[f] \in Seq(Line)
<1>1. pc \in {"callers", "done"} /\ pc # "idle" /\ calm /\ (mode = "base" => head = work)
  BY DEF Settled
<1>2. New = work
  BY <1>1 DEF New
<1>3. Old \in Trees /\ work \in Trees /\ Keyed(stored)
  BY DEF IInv, SourceInv, Old
<1>4. Readable(Old, work)
  BY DEF Settled, Readable, Plain
<1>5. Answering(Old, work, stored, hunks, report, pc)
  BY <1>1, <1>2, <1>4 DEF IInv, CommandInv
<1>6. hunks = <<>>
  BY <1>1, <1>5 DEF Answering
<1>7. \A f \in Files : Old[f] \in Seq(Line) /\ work[f] \in Seq(Line)
  BY <1>3 DEF Trees
<1> QED
  BY <1>3, <1>5, <1>6, <1>7

LEMMA TouchedHolds == IInv => TouchedAreReported
<1> SUFFICES ASSUME IInv, Settled, NEW r \in Symbols(work),
                    NEW i \in Span(work[r.file], r.name) \cap Added(Old[r.file], work[r.file]),
                    i # High(Span(work[r.file], r.name))
             PROVE  r \in report
  BY DEF TouchedAreReported
<1> DEFINE f == r.file
           span == Span(work[f], r.name)
<1>1. /\ Old \in Trees /\ work \in Trees
      /\ Answering(Old, work, stored, <<>>, report, pc)
      /\ \A g \in Files : Old[g] \in Seq(Line) /\ work[g] \in Seq(Line)
  BY SettledFacts
<1>2. /\ f \in Files /\ span \in SUBSET (1 .. Len(work[f]))
      /\ r.first = Low(span) - 1 /\ r.last = High(span) - 1
      /\ Low(span) \in span /\ High(span) \in span
      /\ \A k \in span : k \in Int /\ Low(span) <= k /\ High(span) >= k
  BY <1>1, SymbolsFacts
<1>3. i \in span /\ i \in Added(Old[f], work[f]) /\ i # High(span)
  OBVIOUS
<1>4. r \in stored
  BY DEF Settled
<1> HIDE DEF span, f
<1>5. PICK q \in Ranges(Old[f], work[f]) : i \in q.start .. q.start + q.count - 1
  <2>1. Old[f] \in Seq(Line) /\ work[f] \in Seq(Line)
    BY <1>1, <1>2
  <2> QED
    BY <1>3, <2>1, RangesFacts
<1>6. q.start \in Nat /\ q.count \in Nat
  <2>1. Old[f] \in Seq(Line) /\ work[f] \in Seq(Line)
    BY <1>1, <1>2
  <2>2. q \in GitRange
    BY <2>1, RangesFacts
  <2> QED
    BY <2>2 DEF GitRange
<1>7. i \in Int /\ Low(span) \in Int /\ High(span) \in Int /\ Low(span) <= i /\ i < High(span)
  <2>1. /\ i \in Int /\ Low(span) \in Int /\ High(span) \in Int
        /\ Low(span) <= i /\ High(span) >= i /\ i # High(span)
    BY <1>2, <1>3, Zenon
  <2> QED
    BY <2>1
<1> DEFINE h == HunkOf(f, q)
<1>8. h.file = f /\ h.start = q.start /\ h.end = q.start + q.count - 1
  BY DEF HunkOf
<1>9. h \in AskedBy(Old, work)
  <2>1. q \in Counted(Old[f], work[f])
    BY <1>5, <1>6 DEF Counted
  <2>2. h \in AskedIn(f, Old[f], work[f])
    BY <2>1 DEF AskedIn
  <2> QED
    BY <1>2, <2>2 DEF AskedBy
<1> HIDE DEF h
<1>10. r \in InRange(stored, h)
  <2>1. r.file \in Within[h.file]
    BY <1>2, <1>8, FilesAssumption DEF f
  <2>2. r.first <= h.end /\ r.last >= h.start
    BY <1>2, <1>5, <1>6, <1>7, <1>8
  <2> QED
    BY <1>4, <2>1, <2>2 DEF InRange
<1>11. InRange(stored, h) \subseteq report
  <2>1. ToSet(<<>>) = {}
    BY DEF ToSet
  <2> QED
    BY <1>1, <1>9, <2>1 DEF Answering
<1> QED
  BY <1>10, <1>11

LEMMA ReportedHolds == IInv => ReportedAreNear
<1> SUFFICES ASSUME IInv, Settled, NEW r \in report
             PROVE  \E f \in Files :
                      r.file \in Within[f] /\ Added(Old[f], work[f]) \cap (r.first .. r.last) # {}
  BY DEF ReportedAreNear
<1>1. /\ Keyed(stored) /\ Answering(Old, work, stored, <<>>, report, pc)
      /\ \A g \in Files : Old[g] \in Seq(Line) /\ work[g] \in Seq(Line)
  BY SettledFacts
<1>2. PICK h \in AskedBy(Old, work) : r \in InRange(stored, h)
  BY <1>1 DEF Answering
<1>3. PICK f \in Files : h \in AskedIn(f, Old[f], work[f])
  BY <1>2 DEF AskedBy
<1>4. PICK q \in Counted(Old[f], work[f]) : h = HunkOf(f, q)
  BY <1>3 DEF AskedIn
<1>5. h.file = f /\ h.start = q.start /\ h.end = q.start + q.count - 1
  BY <1>4 DEF HunkOf
<1>6. /\ q.start \in Nat /\ q.count \in Nat /\ q.count # 0
      /\ \A i \in q.start .. q.start + q.count - 1 : i \in Added(Old[f], work[f])
  <2>1. q \in Ranges(Old[f], work[f]) /\ q.count # 0
    BY <1>4 DEF Counted
  <2>2. Old[f] \in Seq(Line) /\ work[f] \in Seq(Line)
    BY <1>1
  <2>3. q \in GitRange /\ \A i \in q.start .. q.start + q.count - 1 : i \in Added(Old[f], work[f])
    BY <2>1, <2>2, RangesFacts
  <2> QED
    BY <2>1, <2>3 DEF GitRange
<1>7. r \in stored /\ r.file \in Within[f] /\ r.first <= q.start + q.count - 1 /\ r.last >= q.start
  BY <1>2, <1>5 DEF InRange
<1>8. r.first \in Int /\ r.last \in Int /\ r.first <= r.last
  BY <1>1, <1>7 DEF Keyed
<1> DEFINE k == IF r.first <= q.start THEN q.start ELSE r.first
<1>9. k \in q.start .. q.start + q.count - 1 /\ k \in r.first .. r.last
  BY <1>6, <1>7, <1>8
<1> QED
  BY <1>6, <1>7, <1>9

\* Whatever the files, the edits, the commits and the scans: when the list is
\* printed and nothing interfered, a symbol with a changed or new line that is not
\* its last is in it (parse_hunks, symbols_in_range, the map by_file).
THEOREM Touched == Spec => []TouchedAreReported
  BY Reporting, TouchedHolds, PTL

\* And nothing is in it but symbols next to a new line of a file whose path theirs
\* contains.
THEOREM Near == Spec => []ReportedAreNear
  BY Reporting, ReportedHolds, PTL
=============================================================================
