--------------------------- MODULE ChangedSymbols ---------------------------
(***************************************************************************)
(* `ast-graph changed-symbols`: a git diff mapped to the symbols it        *)
(* touches (cli commands/changed_symbols.rs and git.rs, storage            *)
(* symbols_in_range and symbol_callers), while the files are edited and    *)
(* committed and another process scans.                                    *)
(*                                                                         *)
(* A file is a sequence of lines.  A line knows the symbols it lies in,    *)
(* an identity no other line has (what git compares) and whether its text  *)
(* starts with "++ ", so that adding it prints "+++ ".  git counts lines   *)
(* from 1; the extractors store the rows of tree-sitter, which count from  *)
(* 0; the storage query compares the two as they are.                      *)
(***************************************************************************)
EXTENDS Integers, Sequences, FiniteSets, SequencesExt

CONSTANTS
    Files,      \* the files of the repository
    Stray,      \* what a line "++ ..." names as a path
    Names,      \* the names of symbols
    Within,     \* Within[p]: files whose stored path is LIKE '%p%'
    First,      \* First[f]: the lines of f at the start
    Callable,   \* the names of functions, methods and constructors
    CallersOf,  \* CallersOf[s]: the symbols that call s
    MaxEdits,   \* bound: edits of lines
    MaxScans    \* bound: scans

Line == [in : SUBSET Names, id : Nat, plus : BOOLEAN]

ASSUME FilesAssumption ==
    /\ IsFiniteSet(Files) /\ Stray \notin Files
    /\ Within \in [Files \cup {Stray} -> SUBSET Files]
    /\ \A f \in Files : f \in Within[f]
    /\ Callable \subseteq Names
    /\ CallersOf \in [Names -> SUBSET Names]
    /\ First \in [Files -> Seq(Line)]
    /\ MaxEdits \in Nat /\ MaxScans \in Nat

VARIABLES
    base, head, work,   \* the files at the base ref, at HEAD, on disk
    edits,              \* edits made; numbers the new lines
    stored,             \* rows of table nodes [file, name, first, last, sig]
    scanning,           \* a scan has emptied the store and not yet saved
    scans,              \* scans so far
    pc,                 \* the command: "idle", "query", "callers", "done"
    mode,               \* "worktree", or "base" with --base
    hunks,              \* hunks [file, start, end] still to look up
    report,             \* rows found so far (by_file)
    asked,              \* changed symbols whose callers were looked up
    callers,            \* the callers printed: pairs <<row, caller>>
    calm                \* history: nothing but the command has happened since
                        \* it started

gitVars == <<base, head, work, edits>>
storeVars == <<stored, scanning, scans>>
cmdVars == <<pc, mode, hunks, report, asked, callers, calm>>
vars == <<gitVars, storeVars, cmdVars>>

-----------------------------------------------------------------------------
(* git, and what a scan finds *)

Span(text, s) == {i \in DOMAIN text : s \in text[i].in}
Low(S) == CHOOSE x \in S : \A y \in S : x <= y
High(S) == CHOOSE x \in S : \A y \in S : x >= y

\* The symbols of the files, with 0-based rows.  The signature is the text of
\* the first line.
Symbols(tree) ==
    {LET f == p[1]  s == p[2]  span == Span(tree[f], s)
     IN  [file |-> f, name |-> s, first |-> Low(span) - 1, last |-> High(span) - 1,
          sig |-> tree[f][Low(span)].id] :
        p \in {q \in Files \X Names : Span(tree[q[1]], q[2]) # {}}}

\* NodeId::new_with_sig: file, name, first line, and the signature of a
\* callable.
SameId(r, q) ==
    /\ r.file = q.file /\ r.name = q.name /\ r.first = q.first
    /\ r.name \in Callable => r.sig = q.sig

\* Rows inserted by id, as the table nodes and the map by_file do.
Replace(rows, new) == {r \in rows : \A q \in new : ~SameId(r, q)} \cup new

Kept(old, new) == {i \in DOMAIN new : \E j \in DOMAIN old : old[j].id = new[i].id}
Added(old, new) == DOMAIN new \ Kept(old, new)

\* The line of the new file after which old line j was deleted.
Anchor(old, new, j) ==
    High({0} \cup {i \in Kept(old, new) :
                     \E k \in 1..(j - 1) : old[k].id = new[i].id})

\* The ranges "+start,count" of `git diff --unified=0`.
Ranges(old, new) ==
    LET added == Added(old, new)
        runs == {i \in added : i - 1 \notin added}
        RunEnd(i) == Low({j \in i..Len(new) : j + 1 \notin added})
        deleted == {j \in DOMAIN old : \A i \in DOMAIN new : new[i].id # old[j].id}
    IN  {[start |-> i, count |-> RunEnd(i) - i + 1] : i \in runs}
        \cup {[start |-> k, count |-> 0] :
                k \in {a \in {Anchor(old, new, j) : j \in deleted} : a + 1 \notin added}}

\* A hunk: its header and the lines that are added.
Hunk(new, r) ==
    <<[tag |-> "@@", range |-> r]>>
    \o [i \in 1..r.count |-> [tag |-> "+", plus |-> new[r.start + i - 1].plus]]

HunkAt(new, ranges, line) ==
    IF \E r \in ranges : r.start = line
    THEN Hunk(new, CHOOSE r \in ranges : r.start = line) ELSE <<>>

\* The lines of the diff of one file that parse_hunks looks at, from its top down.
FileDiff(f, old, new) ==
    LET ranges == Ranges(old, new)
    IN  IF ranges = {} THEN <<>>
        ELSE <<[tag |-> "+++", gone |-> new = <<>>, path |-> f]>>
             \o FlattenSeq([i \in 1..(Len(new) + 1) |-> HunkAt(new, ranges, i - 1)])

Diff(old, new) ==
    FlattenSeq([k \in 1..Cardinality(Files) |->
        LET f == SetToSeq(Files)[k] IN FileDiff(f, old[f], new[f])])

\* Which of the two diffs a mode asks git for.
DiffOf(m) == IF m = "base" THEN Diff(base, head) ELSE Diff(head, work)

-----------------------------------------------------------------------------
(* The command *)

\* One line of the diff.  at: the current file, if there is one.
\* Mutant: the file is forgotten after a hunk.
ParseLine_OneHunk(acc, line) ==
    CASE line.tag = "+++" -> [acc EXCEPT !.at = {line.path}]
      [] line.tag = "@@" /\ acc.at # {} /\ line.range.count # 0 ->
            [at |-> {}, hunks |-> Append(acc.hunks,
                [file |-> CHOOSE f \in acc.at : TRUE, start |-> line.range.start,
                 end |-> line.range.start + line.range.count - 1])]
      [] OTHER -> acc

ParseLine(acc, line) ==
    CASE line.tag = "+++" /\ line.gone -> [acc EXCEPT !.at = {}]
      [] line.tag = "+++" /\ ~line.gone -> [acc EXCEPT !.at = {line.path}]
      [] line.tag = "+" /\ line.plus -> [acc EXCEPT !.at = {Stray}]
      [] line.tag = "@@" /\ acc.at # {} /\ line.range.count # 0 ->
            [acc EXCEPT !.hunks = Append(@,
                [file |-> CHOOSE f \in acc.at : TRUE, start |-> line.range.start,
                 end |-> line.range.start + line.range.count - 1])]
      [] OTHER -> acc

ParseHunks(diff) ==
    LET parsed[i \in 0..Len(diff)] ==
          IF i = 0 THEN [at |-> {}, hunks |-> <<>>] ELSE ParseLine(parsed[i - 1], diff[i])
    IN  parsed[Len(diff)].hunks

\* Mutant: half of the test of overlap.
SymbolsInRange_Before(path, start, end) ==
    {r \in stored : r.file \in Within[path] /\ r.first <= end}

SymbolsInRange(path, start, end) ==
    {r \in stored : r.file \in Within[path] /\ r.first <= end /\ r.last >= start}

SymbolCallers(row) ==
    {q.name : q \in {c \in stored : /\ \E r \in stored : SameId(r, row)
                                    /\ c.name \in CallersOf[row.name]}}

Init ==
    /\ base = First /\ head = First /\ work = First
    /\ edits = 0
    /\ stored = Symbols(First)
    /\ scanning = FALSE /\ scans = 0
    /\ pc = "idle" /\ mode = "worktree"
    /\ hunks = <<>> /\ report = {} /\ asked = {} /\ callers = {}
    /\ calm = TRUE

\* The command asks git for the diff.
Start(m) ==
    /\ pc = "idle"
    /\ mode' = m
    /\ hunks' = ParseHunks(DiffOf(m))
    /\ pc' = IF hunks' = <<>> THEN "done" ELSE "query"
    /\ calm' = TRUE
    /\ UNCHANGED <<gitVars, storeVars, report, asked, callers>>

\* One query per hunk, each under the storage lock on its own.
QueryHunk ==
    /\ pc = "query" /\ hunks # <<>>
    /\ LET h == Head(hunks)
       IN  report' = Replace(report, SymbolsInRange(h.file, h.start, h.end))
    /\ hunks' = Tail(hunks)
    /\ UNCHANGED <<gitVars, storeVars, pc, mode, asked, callers, calm>>

\* The listing, and with --callers the second part.
Listing(showCallers) ==
    /\ pc = "query" /\ hunks = <<>>
    /\ pc' = IF report # {} /\ showCallers THEN "callers" ELSE "done"
    /\ UNCHANGED <<gitVars, storeVars, mode, hunks, report, asked, callers, calm>>

\* One query per listed symbol, in the order of the map.
QueryCallers ==
    /\ pc = "callers"
    /\ LET row == CHOOSE r \in report \ asked : TRUE
       IN  /\ callers' = callers \cup {<<row, c>> : c \in SymbolCallers(row)}
           /\ asked' = asked \cup {row}
    /\ pc' = IF asked' = report THEN "done" ELSE "callers"
    /\ UNCHANGED <<gitVars, storeVars, mode, hunks, report, calm>>

\* The next invocation.
Again ==
    /\ pc = "done"
    /\ pc' = "idle" /\ mode' = "worktree"
    /\ hunks' = <<>> /\ report' = {} /\ asked' = {} /\ callers' = {}
    /\ calm' = TRUE
    /\ UNCHANGED <<gitVars, storeVars>>

-----------------------------------------------------------------------------
(* The environment: the editor, git, and scans *)

Disturb == calm' = FALSE /\ UNCHANGED <<pc, mode, hunks, report, asked, callers>>

Edit(f, text) ==
    /\ edits < MaxEdits
    /\ edits' = edits + 1
    /\ work' = [work EXCEPT ![f] = text]
    /\ UNCHANGED <<base, head, storeVars>>
    /\ Disturb

NewLine(symbols, plus) == [in |-> symbols, id |-> 1000 + edits, plus |-> plus]

ChangeLine(f, i) ==
    i \in DOMAIN work[f] /\ Edit(f, [work[f] EXCEPT ![i] = NewLine(@.in, FALSE)])

DeleteLine(f, i) == i \in DOMAIN work[f] /\ Edit(f, RemoveAt(work[f], i))

\* A line put after line i: in every symbol that goes on below, in no symbol
\* that neither neighbour is in.
InsertLine(f, i, symbols, plus) ==
    LET above == IF i = 0 THEN {} ELSE work[f][i].in
        below == IF i = Len(work[f]) THEN {} ELSE work[f][i + 1].in
    IN  /\ i \in 0..Len(work[f]) /\ work[f] # <<>>
        /\ above \cap below \subseteq symbols /\ symbols \subseteq above \cup below
        /\ Edit(f, InsertAt(work[f], i + 1, NewLine(symbols, plus)))

Commit ==
    /\ head # work
    /\ head' = work
    /\ UNCHANGED <<base, work, edits, storeVars>>
    /\ Disturb

\* `ast-graph scan --clean` in another process empties the store first.
ScanClear ==
    /\ ~scanning /\ scans < MaxScans
    /\ stored' = {} /\ scanning' = TRUE
    /\ UNCHANGED <<gitVars, scans>>
    /\ Disturb

\* A scan saves what it parsed; without --clean it starts here.
ScanSave ==
    /\ scans < MaxScans /\ scans' = scans + 1
    /\ stored' = Replace(stored, Symbols(work)) /\ scanning' = FALSE
    /\ UNCHANGED gitVars
    /\ Disturb

Command ==
    \/ \E m \in {"worktree", "base"} : Start(m)
    \/ QueryHunk
    \/ \E b \in BOOLEAN : Listing(b)
    \/ QueryCallers
    \/ Again

Environment ==
    \/ \E f \in Files : \E i \in DOMAIN work[f] : ChangeLine(f, i)
    \/ \E f \in Files : \E i \in DOMAIN work[f] : DeleteLine(f, i)
    \/ \E f \in Files, b \in BOOLEAN, S \in SUBSET Names :
         \E i \in 0..Len(work[f]) : InsertLine(f, i, S, b)
    \/ Commit \/ ScanClear \/ ScanSave

Next == Command \/ Environment

Spec == Init /\ [][Next]_vars

-----------------------------------------------------------------------------
(* Properties *)

Old == IF mode = "base" THEN base ELSE head

\* The list is printed, the store has what is on disk, the diff ends there too,
\* nothing interfered, and no added line reads as a file header.  What earlier
\* scans without --clean left may be in the store too.
Settled ==
    /\ pc \in {"callers", "done"} /\ calm
    /\ Symbols(work) \subseteq stored /\ ~scanning
    /\ mode = "base" => head = work
    /\ \A f \in Files : \A i \in Added(Old[f], work[f]) : ~work[f][i].plus

\* A symbol with a changed or new line that is not its last line is in the
\* list with its rows of now, whatever other hunks the diff has (the diff
\* parser, and the query's test of overlap) and whatever rows of symbols that
\* have moved or gone are in the way.
TouchedAreReported ==
    Settled =>
      \A r \in Symbols(work) :
        LET span == Span(work[r.file], r.name)
        IN  (\E i \in span \cap Added(Old[r.file], work[r.file]) : i # High(span))
              => r \in report

\* A listed symbol has, in the rows that are stored for it or right above them,
\* a new line of its own file or of one whose path is part of its path; lines
\* that were only deleted list nothing.
ReportedAreNear ==
    Settled =>
      \A r \in report : \E f \in Files :
          r.file \in Within[f] /\ Added(Old[f], work[f]) \cap (r.first..r.last) # {}

\* "Map a git diff to symbols -- shows every symbol the diff hunks actually
\* touched" (cli main.rs): the symbols with a changed or new line, and no
\* others.
ReportIsExact ==
    Settled /\ stored = Symbols(work) =>
      {<<r.file, r.name>> : r \in report} =
      {p \in Files \X Names :
         Span(work[p[1]], p[2]) \cap Added(Old[p[1]], work[p[1]]) # {}}
=============================================================================
