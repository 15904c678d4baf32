--------------------------- MODULE IncrementalScan ---------------------------
(***************************************************************************)
(* The graph that parse_project and incremental_update of                   *)
(* ast-graph-parse/src/parser.rs build from files that somebody goes on     *)
(* editing.  Either one reads every file twice: discover_files reads it to  *)
(* hash it, parse_single_file to parse it, and an edit may fall between.    *)
(* The edges come afterwards, from resolve_edges of ast-graph-resolve.      *)
(*                                                                          *)
(* A content is the symbols that a file defines and the calls between a     *)
(* symbol and a name; files that cannot be read count as absent.            *)
(***************************************************************************)
EXTENDS CodeGraph, Naturals

CONSTANTS
    Absent,         \* no such file, or one that cannot be read
    LastSegment,    \* the last segment of each name
    AlwaysResolve,  \* whether resolve_edges is called after each scan, as the scan command does
    MaxEdits, MaxScans

Def == [name : Names, line : Lines]

ASSUME ContentsAssumption ==
    /\ \A c \in Contents :
        /\ c.defs \subseteq Def
        /\ \A k \in c.calls : k.from \in c.defs /\ k.target \in Names
    /\ Absent \notin Contents
    /\ LastSegment \in [Names -> Names]
    /\ AlwaysResolve \in BOOLEAN

VARIABLES
    disk,       \* what each file holds
    graph,      \* the CodeGraph
    pc,         \* "idle", "discover", "detect", "parse" or "merge"
    mode,       \* "full" or "update"
    walked,     \* files that discover_files has passed
    found,      \* what it read, current_hashes
    to_parse,   \* files still to be parsed
    parsed,     \* what the parser read
    edits, scans,
    \* What the properties compare with.
    raced,      \* files that the parser did not find as they were hashed
    calm,       \* no edit during this scan nor any since the last full one
    quiet,      \* no edit during this scan
    before,     \* the edges when the last scan began
    reparsed,   \* files parsed by the last scan
    asOf        \* the disk when the last scan ended

scan == <<pc, mode, walked, found, to_parse, parsed>>
history == <<raced, calm, quiet, before, reparsed, asOf>>
vars == <<disk, graph, scan, edits, scans, history>>

Nothing == [f \in Files |-> Absent]
OnDisk == Contents \cup {Absent}

Init ==
    /\ disk \in [Files -> OnDisk]
    /\ graph = EmptyGraph
    /\ pc = "idle" /\ mode = "full"
    /\ walked = {} /\ found = Nothing /\ to_parse = {} /\ parsed = Nothing
    /\ edits = 0 /\ scans = 0
    /\ raced = {} /\ calm = TRUE /\ quiet = TRUE /\ before = {}
    /\ reparsed = {} /\ asOf = Nothing

\* The extractor: a file's symbols and its calls.
Symbols(f, c) ==
    IF c = Absent THEN {} ELSE {[file |-> f, name |-> d.name, line |-> d.line] : d \in c.defs}
Calls(f, c) ==
    IF c = Absent THEN {}
    ELSE {[source |-> [file |-> f, name |-> k.from.name, line |-> k.from.line],
           target |-> k.target] : k \in c.calls}

\* Somebody writes, deletes or restores a file.
Edit(f, c) ==
    /\ edits < MaxEdits
    /\ disk[f] # c
    /\ disk' = [disk EXCEPT ![f] = c]
    /\ edits' = edits + 1
    /\ calm' = (calm /\ pc = "idle")
    /\ quiet' = (quiet /\ pc = "idle")
    /\ UNCHANGED <<graph, scan, scans, raced, before, reparsed, asOf>>

\* parse_project starts from a new graph, incremental_update from this one.
Start(m) ==
    /\ pc = "idle" /\ scans < MaxScans
    /\ m = "update" => scans > 0
    /\ AlwaysResolve => graph.raw_edges = {}
    /\ pc' = "discover" /\ mode' = m
    /\ scans' = scans + 1
    /\ walked' = {} /\ found' = Nothing /\ to_parse' = {} /\ parsed' = Nothing
    /\ quiet' = TRUE /\ calm' = (m = "full" \/ calm)
    /\ raced' = IF m = "full" THEN {} ELSE raced
    /\ before' = EdgesOf(graph)
    /\ UNCHANGED <<disk, graph, edits, reparsed, asOf>>

\* discover_files hashes one more file; one it cannot read is left out.
Discover(f) ==
    /\ pc = "discover"
    /\ f \notin walked
    /\ walked' = walked \cup {f}
    /\ found' = [found EXCEPT ![f] = disk[f]]
    /\ pc' = IF walked' = Files THEN "detect" ELSE pc
    /\ UNCHANGED <<disk, graph, mode, to_parse, parsed, edits, scans, history>>

\* Mutant: a file that was not read gets a hash too.
Hash_Always(c) == c
Hash(c) == IF c = Absent THEN NoHash ELSE c

\* detect_changes.
Added == {f \in Files : found[f] # Absent /\ graph.file_hashes[f] = NoHash}
Modified ==
    {f \in Files : found[f] # Absent /\ graph.file_hashes[f] \notin {NoHash, Hash(found[f])}}
\* Mutant: nothing is ever removed.
Removed_Never == {}
Removed == {f \in Files : found[f] = Absent /\ graph.file_hashes[f] # NoHash}

AfterDetect == IF to_parse' = {} THEN "merge" ELSE "parse"

DetectChanges ==
    /\ pc = "detect" /\ mode = "update"
    /\ graph' = RemoveFiles(graph, Removed \cup Modified)
    /\ to_parse' = Added \cup Modified
    /\ raced' = raced \ (Removed \cup Added \cup Modified)
    /\ reparsed' = to_parse'
    /\ pc' = AfterDetect
    /\ UNCHANGED <<disk, mode, walked, found, parsed, edits, scans, calm, quiet, before, asOf>>

NewGraph ==
    /\ pc = "detect" /\ mode = "full"
    /\ graph' = [EmptyGraph EXCEPT !.file_hashes = [f \in Files |-> Hash(found[f])]]
    /\ to_parse' = {f \in Files : found[f] # Absent}
    /\ reparsed' = to_parse'
    /\ pc' = AfterDetect
    /\ UNCHANGED <<disk, mode, walked, found, parsed, edits, scans, raced, calm, quiet,
                   before, asOf>>

\* parse_single_file reads the file again.  One that is gone by now is
\* dropped: nothing is merged for it.
Parse(f) ==
    /\ pc = "parse"
    /\ f \in to_parse
    /\ to_parse' = to_parse \ {f}
    /\ parsed' = [parsed EXCEPT ![f] = disk[f]]
    /\ raced' = IF disk[f] = found[f] THEN raced ELSE raced \cup {f}
    /\ pc' = IF to_parse' = {} THEN "merge" ELSE pc
    /\ UNCHANGED <<disk, graph, mode, walked, found, edits, scans, calm, quiet, before,
                   reparsed, asOf>>

Merged ==
    AddRawEdges(AddNodes(graph, UNION {Symbols(f, parsed[f]) : f \in Files}),
                UNION {Calls(f, parsed[f]) : f \in Files})

\* The results are added, and what was found becomes the file_hashes, parsed
\* or not.  Mutant: an update keeps the hashes it started with.
Merge_OldHashes ==
    /\ pc = "merge"
    /\ graph' = Merged
    /\ asOf' = disk
    /\ pc' = "idle"
    /\ UNCHANGED <<disk, mode, walked, found, to_parse, parsed, edits, scans,
                   raced, calm, quiet, before, reparsed>>
Merge ==
    /\ pc = "merge"
    /\ graph' = [Merged EXCEPT !.file_hashes = [f \in Files |-> Hash(found[f])]]
    /\ asOf' = disk
    /\ pc' = "idle"
    /\ UNCHANGED <<disk, mode, walked, found, to_parse, parsed, edits, scans,
                   raced, calm, quiet, before, reparsed>>

\* The name index has a symbol under its name and under its last segment; a
\* call goes to all that the index has for the name, or else for its last
\* segment.
Hits(nodes, name) == {n \in nodes : name \in {n.name, LastSegment[n.name]}}
CallTargets(nodes, name) ==
    IF Hits(nodes, name) # {} THEN Hits(nodes, name) ELSE Hits(nodes, LastSegment[name])

EdgesFor(nodes, raws) ==
    UNION {{[source |-> r.source, target |-> n] : n \in CallTargets(nodes, r.target)} : r \in raws}

\* resolve_edges takes the raw edges.  Mutant: only those of new symbols' own
\* files are searched.
Resolve_OwnFile ==
    /\ pc = "idle" /\ graph.raw_edges # {}
    /\ graph' = [AddEdges(graph, {e \in EdgesFor(graph.nodes, graph.raw_edges) :
                                    e.source.file = e.target.file})
                 EXCEPT !.raw_edges = {}]
    /\ UNCHANGED <<disk, scan, edits, scans, history>>
Resolve ==
    /\ pc = "idle" /\ graph.raw_edges # {}
    /\ graph' = [AddEdges(graph, EdgesFor(graph.nodes, graph.raw_edges)) EXCEPT !.raw_edges = {}]
    /\ UNCHANGED <<disk, scan, edits, scans, history>>

Next ==
    \/ \E f \in Files, c \in OnDisk : Edit(f, c)
    \/ \E m \in {"full", "update"} : Start(m)
    \/ \E f \in Files : Discover(f) \/ Parse(f)
    \/ NewGraph \/ DetectChanges \/ Merge \/ Resolve

Spec == Init /\ [][Next]_vars

-----------------------------------------------------------------------------
\* The variables have their types.
TypeOK ==
    /\ disk \in [Files -> OnDisk] /\ asOf \in [Files -> OnDisk]
    /\ found \in [Files -> OnDisk] /\ parsed \in [Files -> OnDisk]
    /\ graph \in Graph
    /\ pc \in {"idle", "discover", "detect", "parse", "merge"} /\ mode \in {"full", "update"}
    /\ walked \subseteq Files /\ to_parse \subseteq Files
    /\ raced \subseteq Files /\ reparsed \subseteq Files
    /\ before \subseteq Edge
    /\ calm \in BOOLEAN /\ quiet \in BOOLEAN
    /\ edits \in Nat /\ scans \in Nat

\* Whatever is scanned, updated and resolved in whatever order of edits, the
\* forward and reverse maps hold the same edges, no edge has an end that was
\* removed with its file, and the file index has the symbols there are.
GraphIsWellFormed == WellFormed(graph)

Done == pc = "idle" /\ graph.raw_edges = {} /\ scans > 0

\* The stored hash of a file describes the symbols the graph has of it, unless
\* the file changed between hashing and parsing.  (graph.file_hashes is
\* replaced as a whole at the end, parser.rs:184.)
HashesDescribeSymbols ==
    pc = "idle" /\ scans > 0 =>
        \A f \in Files \ raced :
            NodesOf(graph, f) =
                IF graph.file_hashes[f] = NoHash THEN {} ELSE Symbols(f, graph.file_hashes[f])

\* If no scan since the last full one was disturbed, an update leaves the
\* symbols that scanning everything again would give.
UpdateEqualsRescan ==
    pc = "idle" /\ scans > 0 /\ calm =>
        graph.nodes = UNION {Symbols(f, asOf[f]) : f \in Files}

\* The calls of a file parsed in this scan lead where they would lead in a
\* full scan, into files that were not parsed too.
FreshCallsAreResolved ==
    Done /\ calm =>
        \A f \in reparsed :
            {e \in EdgesOf(graph) : e.source.file = f} =
                EdgesFor(graph.nodes, Calls(f, asOf[f]))

Untouched(f) == graph.file_hashes[f] # NoHash /\ f \notin reparsed

\* An edge between files that an update neither removes nor parses again is
\* there afterwards, whatever happened to the other files.
UpdateKeepsOtherEdges ==
    Done /\ mode = "update" =>
        \A e \in before :
            Untouched(e.source.file) /\ Untouched(e.target.file) => e \in EdgesOf(graph)
=============================================================================
