# ast-graph in TLA+

ast-graph parses a source tree with tree-sitter into a graph of symbols,
resolves references between files, traces execution flows, stores the result in
SQLite or FalkorDB, and answers queries about it from a command line and an MCP
server. This directory holds TLA+ models of its components, the TLC runs that
check them, and TLAPS proofs. Source paths below are relative to `src/crates/`.

## 1. Inventory

| Component | State | Operations | What is hard | What makes it correct |
|---|---|---|---|---|
| `ast-graph-core` `CodeGraph` (graph.rs) | nodes, forward and reverse adjacency, file index, file hashes, raw edges | add_node, add_edge, remove_file, refresh_metadata | two adjacency maps and an index kept by hand; remove_file while other files point in | both maps hold the same edges; no edge to a removed node |
| change detection (core hash.rs, parse incremental.rs) | stored and current hashes | discover_files, build_hash_map, detect_changes | a file changes between hashing and parsing | every changed file is parsed again |
| parser (parse parser.rs, lang/*) | none between files | parse_project, parse_single_file, incremental_update | failed parses; files that change meanwhile | the graph after an update is the graph a full scan gives |
| resolver (resolve resolver.rs, mro.rs) | name and file indexes, the raw edges | resolve_edges, c3_linearize, lookup_super_method | two passes over data that the first one changes; inheritance order, cycles | calls go to the nearest candidate; no guess where the rule has an answer |
| processes (resolve processes.rs) | the graph | trace_processes, detect_entry_points | breadth-first search with three bounds | bounds kept, steps numbered, second run adds nothing |
| SQLite store (storage sqlite/*) | tables nodes, edges, symbol_fts, file_hashes, schema_version | open, save_graph, remove_file_nodes, clear, queries | order of statements, REPLACE with foreign keys and triggers, crashes, other processes, migration | referential integrity; a save is atomic and replaces its own part; index covers the nodes |
| FalkorDB store (storage falkor/mod.rs) | a remote graph, one connection | connect, save_graph in batches, remove_file_nodes, clear, queries | lost connections and retries, no transaction | a retried batch is not applied twice; reported counts are real |
| scan (cli commands/scan.rs) | none | clear, parse, resolve, trace, save | failure between clear and save; edits while scanning | the store ends up with the scanned project |
| MCP server (cli commands/mcp.rs) | the session on stdin and stdout | initialize, tools/list, tools/call | framing, notifications, a scan by another process between two queries | one answer per request, in order; answers true of the graph they were read from |
| commands (cli commands/*, git.rs) | none | blast_radius, changed_symbols, dead_code, ... | hunk ranges, deduplication, limits | answers match the stored graph |
| extractors (parse lang/*, routes.rs) | the syntax tree walk | nine extractors, for eleven languages, and the routes of Rails | the class that `self` means is carried down the walk; route texts are matched without the tree | edges start where they originate; members belong to the enclosing type |
| git (cli git.rs) | none | git_diff_hunks, file_churn | hunks with count 0, texts that look like headers | every hunk of the new file is found |
| export, in-memory queries, command line | none | export, GraphQuery, main | none | not modelled |
| docs, release and CI files | none | none | none | not modelled |

Components meet in three places. `scan` calls parser, resolver, process tracer
and store in turn, handing one `CodeGraph` along. The commands and the MCP
server read the store through the `GraphStorage` trait. Several processes (an
MCP server that an editor keeps alive, a scan from a shell or a hook) share the
database file and meet only in SQLite's locks.

Some code has no caller in the program today: `load_graph`, `load_file_hashes`,
`remove_file_nodes` and `incremental_update` are public operations of their
crates that no command uses. They are modelled, since the trait offers them.

## 2. The modules

| Module | Models | State and actions |
|---|---|---|
| `AtomicStore` | the `GraphStorage` trait (storage lib.rs), operations that write | one value `store`; `Save`, `RemoveFile` and the three steps of clear, each atomic |
| `SqliteStore` | sqlite/mod.rs `save_graph`, `remove_file_nodes`, `clear`; the tables and triggers of schema.rs | `db` is committed, `work` the open transaction, `writer` the lock; one action per loop iteration or statement (`SaveBegin`, `SaveNode`, `SaveEdge`, `SaveContains`, `SaveHashes`, `Commit`, ...), failures and crashes between any two |
| `SchemaMigration` | `SqliteStorage::open`, `create_schema`, `migrate_schema` | the objects, columns and stamp of the file; one action per statement |
| `CodeGraph` | core graph.rs | operators on a record with both adjacency maps, file index, hashes, raw edges |
| `IncrementalScan` | parse parser.rs and incremental.rs, `resolve_edges` as one step | `disk` that anyone may edit, the graph, the phase of a scan; `Discover` and `Parse` read the disk separately |
| `ProcessTrace` | resolve processes.rs | the queue, `seen`, `step_index` and budget of a walk; one action per callee |
| `C3Mro` | `c3_linearize` of resolve mro.rs, and Python's own rule as reference | operators |
| `SourceFile` | extractor.rs and routes.rs; what a file is to an extractor | a file is a sequence of syntax nodes with the node around each; `qualify_member_call`, `Handlers`, `AddRoutes` |
| `PythonExtractor`, `RustExtractor`, `JavaScriptExtractor`, `GoExtractor`, `JavaExtractor`, `CSharpExtractor`, `PhpExtractor`, `RubyExtractor`, `SwiftExtractor` | lang/python.rs, rust.rs, javascript.rs, go.rs, java.rs, csharp.rs, php.rs, ruby.rs with ruby_rails.rs, swift.rs | operators from a file to symbols and raw edges: `...Kind`, `...Name`, `...Parent` and `...Caller` of a line, `...Edges` of a line, `Extract...` of the file |
| `RailsRoutes` | lang/ruby_rails_routes.rs | the actions that `resources`, `scope`, `member` and verbs route to, as CALLS edges |
| `Resolver` | parser.rs `parse_project`, resolve resolver.rs and mro.rs | `at` is the raw edge that the current pass looks at next; an edge carries the position of the raw edge it is made of; `ResolveStructure`, `StartCalls`, `ResolveCalls`, `Finish` |
| `ChangedSymbols` | cli changed_symbols.rs, git.rs hunks, `symbols_in_range`, scan.rs's clear and save | files at base, HEAD and on disk; the stored rows; one action per query of the command |
| `GraphQueries` | the queries of sqlite/mod.rs | operators on one committed graph |
| `FalkorQueries` | the queries of falkor/mod.rs, but `search_symbols` | the same, by the rules of Cypher |
| `Commands` | cli commands/*.rs that read, and the tools of mcp.rs | a `job` with its queries done so far; commits of other processes between them |
| `McpServer` | cli mcp.rs | `inbox`, `outbox`; one message is handled to its end before the next is read |
| `FalkorStore` | falkor/mod.rs `run_cypher`, `connect` and every operation but symbols_in_range and run_raw_query | the server's store and each client's list of queries to send; a query may run, be lost, run twice or be refused |

`Resolver` composes the extractors, `SourceFile` and `C3Mro`. `McpServer`
composes `Commands`, which is built on `GraphQueries`, and compares with
`FalkorQueries`. `IncrementalScan` is built on `CodeGraph`. `SqliteStore` is shown
to implement `AtomicStore`. Modules named `MC...` give constants their values for
one or two runs each; `...Proofs` hold proofs, and `PureLemmas` those about what has no state: natural
numbers, recursive functions, sequences and C3.

Some correspondences are less direct than the names suggest.

- Iteration over a hash map is a choice of order: `SaveNode` takes any node,
  `SetToSeqs` in `Resolver!Init` and `FalkorStore` gives every order.
- A statement that waits for SQLite's lock is an action that is not enabled; the
  failure of a first statement after the busy timeout changes nothing and is not a
  step.
- `INSERT OR REPLACE` is its delete, with `SET NULL`, `CASCADE` and the triggers
  these fire, and its insert, in one step, since a statement is atomic. Triggers for
  the rows that REPLACE itself deletes do not fire (recursive_triggers is off).
- A name is a pair of a separator and its segments. The resolver compares names,
  and takes apart their segments, nothing else. A NodeId is the tuple that
  is hashed: collisions are left out.
- A file for an extractor has one syntax node per line, so that an id, which has
  the line in it, names a node. Two symbols of one kind and name on one line, which
  the code gives one id, are left out.
- The regular expressions of routes.rs, LIKE patterns and full-text matching are
  constants: which text matches is data. Of `find_implementations`, `Liked[t]` are the names that
  `LIKE t || '::%'` finds, in either case of letters, and `Prefixed[t]` those that start with `t::`;
  of `find_symbols`, `Matches[p]` are the names LIKE p and `Containing[p]` those with p in them.

## 3. The runs

All finish within five minutes with two workers.

| Run | Instance | What it shows |
|---|---|---|
| `sqlite_store` | 2 processes, 4 symbols in 2 files, graphs `Whole`, `Edited`, `Part`, 3 operations; 24 thousand states | Committed tables are referentially intact and searchable after every interleaving, failure and crash; COMMIT never fails; a save replaces the edges of its own nodes and nothing else; the count it returns is that of the rows at its nodes; every operation returns; all of it implements `AtomicStore` |
| `sqlite_parents_lost` (violated) | 1 process, 2 operations | A second save can set `parent_id` to NULL |
| `schema_open` | 2 processes, files of 7 origins; 62 thousand states | The stamp is not ahead of the columns; whoever is let in finds every table, index and trigger and, unless a migration was disturbed, a full index |
| `schema_old_files` (violated) | 1 process, versions 1, 2, 3 | Files of these versions cannot be opened at all |
| `incremental` | 2 files, 4 contents or none, 2 edits, 3 scans; 213 thousand states | Forward and reverse maps agree, hashes describe symbols but in raced files, an undisturbed update equals a full scan, calls of re-parsed files reach unchanged ones |
| `trace` | 6 symbols, all subsets of 8 calls, depth 3, 5 steps, 2 runs; 41 thousand states | Steps are 1 to k, each called by an earlier one, nearest first, none missing within the bounds; a second run adds nothing |
| `resolver` | every hierarchy of 4 Python classes from the lists of bases below; 17,265 projects: for each of nine languages, and the routes of Rails, all files that grow by two or three nodes from a type with its member; imports by path, alias, id and name; 121 thousand states | C3 gives the order Python computes, or none if there is none; super() leads to the class in which Python finds the method; tier 0.9 goes to what alone has its name and 0.5 to one of several; a call of an own member leads to that member; edges start where they originate |
| `resolver_super_init` (violated) | the same | `super().__init__()` is connected to every `__init__` |
| `changed_symbols` | 2 files, one path part of the other, 2 edits, 1 scan; 473 thousand states | Every symbol with a changed line before its last one is reported, also beside rows of symbols that moved or went; no row is reported that is farther than a line from a change |
| `changed_symbols_exact` (violated) | the same | A change of a symbol's last line is missed |
| `readers` | all 512 call graphs on 3 symbols and a few richer ones, 2 messages, depth 3; 82 thousand states | Requests are answered once and in order; answers are true of some moment; traversals equal reachability; both backends name the same callers, callees, members, dead code and symbols up and down, and list the same where no LIMIT cuts; a session drains |
| `falkor` | 2 clients, 2 operations, batches of 2 and 1, 1 retry; 119 thousand states | What ran alone is exact though queries are sent twice; hashes vouch for stored files, whatever died; every operation returns |

Each property that passes is also checked against a mutated definition of the
code it is about, which must violate it; the mutants stand beside the definitions
they change.

### Why the bounds suffice

- `sqlite_store`: three operations are enough for a save, a save of an edited graph
  over it, and another process's save or clear between the steps of a clear. The
  graphs contain each case that the loops tell apart: parent stored or not, in the
  graph or not, dangling edge, duplicate CONTAINS edge, changed text, a node that
  is gone, a partial graph. The proofs remove the bounds for every property of this run
  but liveness.
- `schema_open`: statements of a batch are idempotent, so two processes show every
  overlap of two opens. All layouts that the code's comments name are origins. The proofs remove the
  bounds for both invariants.
- `incremental`: one file to be edited and one to stay; two edits are a race in
  each of the two reads, or an edit and its reversal; three scans are a full one and two
  updates. The proofs remove the bounds for all properties of this run.
- `trace`: the eight calls contain a diamond, a cycle, recursion, and chains longer
  than either bound; both bounds bite. `ProcessTraceProofs` removes the bounds
  for all properties of this run.
- `resolver`: four classes are needed for a diamond and for a contradictory order
  over two levels; the lists of bases are 2 x 2 x 3 x 11 with five choices of who has
  the member. The files of a language start from a type with its member (also one in a
  namespace, in a class without a name, in an extension or in `class << self`, where the
  language has these) and grow by every node of a list in every place the grammar has for it:
  four and five nodes reach functions in functions in classes, members of two classes,
  and a call below each of them. Constants `...Places` of `MCResolver` say what may stand where.
  `ResolverProofs` removes the bounds for all properties of this run.
- `changed_symbols`: two edits make two hunks, in one file or in two, an added and a
  deleted line, or an edit and its commit; the line counts are the
  smallest with a symbol inside another and room before, between and after.
- `readers`: three symbols have all shapes of recursion that differ (of one, two
  and three symbols) and a shortcut beside a path; depth 3 is beyond the longest simple path.
  The richer graphs have one case each of what the queries tell apart, among them traits with
  what is in them, in the letters of the trait and in others.
  `McpServerProofs` removes the bounds for all invariants of this run; for `BackendsAgree`
  the depth stays between 1 and 20, where Cypher's is cut off.
- `falkor`: batches of 2 and 1 split a graph of three nodes and two or three edges; one
  retry is enough for a query that runs twice, runs once unnoticed, or never runs.
  `FalkorStoreProofs` removes the bounds for both invariants.

### Fairness

- `sqlite_store` assumes that each process that is inside an operation goes on
  (weak fairness of its next statement, and of a failing statement where it waits for the
  lock: the busy timeout). A process that crashed is idle. Nothing is assumed of
  starting operations.
- `readers` assumes that the server, which is one loop, takes its next step when it
  has one (weak fairness of `Work`). It is not assumed that clients send.
- `falkor` assumes that a query is answered or fails (weak fairness of each
  client's `Step`): the client library has a timeout, and retries are bounded.
- The other specifications state safety only.

## 4. What is proved

TLAPS checks the following for every value of the constants that satisfies the
named assumptions, so for any number of processes, symbols, files and operations.

**`SqliteStoreProofs`** (from `ConstantsAssumption`, `ParentsAssumption`):
`TypeCorrect`, `TablesAreIntact` (`ReferentialIntegrity`), `CommitNeverFails`
(`CommitSucceeds`) and `SearchIsExact` (`SearchCoversStore`). Referential integrity
of `db` is not inductive alone: a commit copies `work`, in which parents may be
missing while nodes are inserted. The invariant `IInv` is the conjunction of
`TypeOK`; `InOrder(db, {})`, tables with no missing parent, no dangling edge and a
current index row per node; `LockHeld`, the writer is the one process in a
transaction; and `Transaction`, `work` is in order but for parents among the
nodes of the graph, each of which is inserted or still to be visited. What a save
does to a table is stated once per statement (`ReplaceNodeInOrder` and its
siblings), and cited per action.

On top of it: `StaleEdgesLeave`
(`SaveReplacesEdges`), `OthersAreLeftAlone` (`SaveIsLocal`), `FreshParentsAreKept`
(`FreshSaveKeepsParents`), `CountIsExact` (`ReportedCountIsExact`) and
`Implementation` (`ImplementsAtomicStore`). These need to know what the open
transaction has written so far, where `IInv` only knows that it is in order: `RInv`
adds `Written`, which gives for each phase of a save the nodes, edges and hashes of
`work` in terms of `db` and of the part of the graph that is done; `Unstored`, that a
symbol that is not stored has no parent; and `ResultInv`, that a save under way has
returned nothing. `CountInv` says that the counter is the number of rows the save
has inserted, each new when it was; they are all rows at the saved nodes, the earlier ones having gone with
their nodes. The COMMIT of a save maps
to one abstract save, with the parents that were in fact lost as the abstract choice
`lost`; a removal and each of the three statements of a clear map to the abstract
step of that name; every other step maps to a stutter.

The same module proves of `SchemaMigration` (from `OriginsAssumption`, that the files given to open are
among the seven layouts of `OriginFiles`, which the code's comments name) `SchemaTypeCorrect`, `StampIsHonest`
(`StampMeansColumns`), `LetInMeansUsable` (`OpenedIsUsable`) and
`OldFilesAreNotMigrated`. `LayoutInv` says that an index stands on its columns, that a
file with an old stamp has an edges table of the first layout, and that whoever got
through `create_schema` has all columns and so never reads version 1 or 2: no
migration from before version 3 is ever completed, which is what the run
`schema_old_files` shows, for every number of processes. `UsableInv` follows one process that migrates alone: the
statements it has behind it have had their effect.

**`IncrementalScanProofs`** (from `NoHashAssumption`, `ContentsAssumption`, and
`AlwaysResolve`, that the edges are resolved after each scan as the scan command
does): `TypeCorrect`, `GraphStaysWellFormed`, `HashesAreHonest`,
`UpdatesAreExact`. `IInv` is `TypeOK`; `GraphInv`, both maps agree and raw edges
start at nodes; `ScanInv`, which says for every file what the graph and the hashes hold
in each phase of a scan; and `CalmInv`, that what was read is what is on disk
while nobody edits. Without `AlwaysResolve` the raw edges of a removed file can
become edges from symbols that are gone.

Of the edges, also under `AlwaysResolve`: `FreshCallsAreExact`
(`FreshCallsAreResolved`) and `OtherEdgesAreKept` (`UpdateKeepsOtherEdges`). `EInv` adds to `IInv` that the calls of a file that was
parsed again wait in `raw_edges` while it has no edge, or are exactly the edges that
leave it (`FreshInv`), and what has become of the edges of `before` in each phase of
an update (`KeepInv`): they stay while discovered files are merged, since
`remove_file` drops an edge only with one of its two files.

**`ProcessTraceProofs`** (from `BoundsAssumption`): `TypeCorrect`, `Numbering`
(`StepsAreNumbered`), `Calling` (`StepsAreCalled`), `Searching`, `Completeness`
(`ProcessesAreComplete`), `Order` (`NearerStepsFirst`) and `Idempotence` (`RerunAddsNothing`).
The first three rest on `IInv`: `TypeOK`; `Apart`, new
processes are not old ones; every finished and every new process is numbered and
called; and `Walking`, the process being walked is numbered up to `step_index`, and
what is queued or expanded is one of its steps. What the walk finds needs more, since a
process is complete only when its queue is empty. `SearchInv` is the breadth-first search
between two callees: `QueueInv`, the queue is in order of distance and spans two levels at
most; `ExpandInv`, while the process has room the callees of whatever has left the queue are
steps, but for those pending; and `BudgetInv`, the steps counted so far are at most MaxSteps for each
process, so that the budget of a run ends no walk before the bound on one process does. Distance is `Away`, the first level of the recursive function `ReachIn` that has
the symbol, the function in which the invariants of the run are stated; a queued symbol's
depth is proved to be its distance. `RerunInv` says that a later run
starts from what the first one left, and finds the same entry points, since tracing adds
no calls.

**`FalkorStoreProofs`** (from `BatchAssumption`; `KindsAssumption`, edge kinds are a list
without repetition that has CONTAINS, and there is an index; and `GraphsAssumption`, saved graphs
are finite and their edges are of these kinds): `Storing`, `Vouching`
(`HashesVouchForFiles`) and `Exactness` (`LoneOperationsAreExact`). Neither invariant is
inductive. A hash is sent after nodes and edges and vouches for what those
queries did; and a query that is sent again may have run already. `IInv` is

- `TypeInv`, with the shape of what is left to send: queries are ordered by what they do
  (`Rank`: a deletion, nodes, edges, hashes, then what only reads), and no count is asked
  twice;
- `VouchInv`: while nothing is removed, what a save's graph has is stored or still to be
  sent, for every client, also for those whose save has failed or died half-way through;
- `LoneInv`: what an operation that nobody disturbed has done so far, in terms of the
  store it began with and of what is left to send. `Merging` bounds a table between
  the rows before and the rows sent, which a second run of a query does not change; `Counting`
  says that all counts come after all changes and what the sum of the answers is.

The lists of queries are built with `FlattenSeq` from batches of any size; that each row is in a
batch, and that the lists are ordered, is `ConcatRange`, `ChunksFacts`, `FlattenFacts` and
`TodoConcat`, by induction.

**`McpServerProofs`** (from `QueriesAssumption`, finitely many ids, an order on them and bounds that are
numbers; `GraphsAssumption`, that what scans commit satisfies `GraphOK`: ids are the
primary key of `nodes`, and an edge references two of them; `SessionAssumption`; and, for
`Alike` alone, `LikeAssumption`, that LIKE finds what STARTS WITH and CONTAINS find, and
`MembersAssumption`, of which below):

- `Answering` (`RequestsAnsweredInOrder`). The inductive invariant is `SessionInv`, a job
  under way belongs to the message at `pos`, which is a tool call, with `InOrder`: the replies that carry an id
  match the requests among the messages dealt with, one by one. What that says of the next message
  is `OneMore`; what filtering does to one message more is `KeptAppend`.
- `Stored`: `GraphOK` holds of every graph a query reads. With it the queries are pure functions on stored
  graphs, and lemmas on them become theorems about the server. `TakeFacts`
  says what ORDER BY and LIMIT return: that a row has a place of its own is shown by
  counting the rows before it, since the provers know nothing of sorting.
- `TraversalsExact` (`TraversalsAreExact`). Level k of each recursive statement holds exactly what a walk of
  k edges joins with where it began (`CallLevelsReach`, `CallerLevelsReach`, `ImplLevelsReach`,
  by induction on k, through cycles). That of implementations starts at the traits of the name and
  at what is in them. For `shortest_path`, whose trails come nowhere twice, a walk that could
  not be shorter is one (`ShortestIsSimple`: a detour between two visits is cut out), so the
  first level that has the target is at the distance.
- `Agreeing` (`QueriesAgree`), from the first level of both traversals.
- `NothingFound` (`NothingMeansNothing`) and `TrueAnswers` (`AnswersAreTrue`), from the inductive invariant
  `Truth`: what a job that nobody disturbs has found so far is `Told` of the graph, part by part: the
  details of a symbol that were read, the first k counts, the walk, and that
  an empty choice came from matches of other kinds only, or from as many of them as the limit.
- `Alike` (`BackendsAgree`, for a `Depth` of 1 to 20: Cypher's is clamped to that, the SQL's
  is not, so beyond it the backends differ). `PathsFacts` says what a pattern of variable length matches: chains
  of edges, none used twice. The SQL walks through cycles as often as the depth allows. They lead
  to the same symbols (`PathEnds`) because the shortest walk of one edge or more that
  leads there uses no edge twice: between two uses lies a detour, and `CutDetour`, the lemma that
  serves `shortest_path` too, leaves it out and still leaves an edge. `shortestPath` walks relationships in
  either direction and uses none twice, where the recursive SELECT comes to no symbol twice
  (`CypherPaths`). Between two different symbols a walk that could not be shorter
  does neither (`LeastPath`); from a symbol to itself the SELECT has a path of no edges and the pattern
  has none, so the theorem leaves that out. `CypherImplementations`: Cypher names no implementation that SQL
  does not, and all of them in a graph where LIKE finds no name that does not start so. `CypherFinds`: where LIMIT
  cuts nothing, `hotspots` lists the same symbols, and `find_symbols` too, but for what LIKE alone finds.
  Members are what `MembersAssumption` is for: SQLite compares `parent_id` where
  Cypher follows CONTAINS. Both saves add a CONTAINS edge for each parent, and the Rust extractor, the only one
  that emits the edge itself, does it from the parent. It is a statement about first scans: a second
  save can lose a `parent_id` in SQLite and keeps the edge (`sqlite_parents_lost`), and two
  symbols of one name on one line share an id, hence a parent but not their edges. In both cases the
  backends may list different members.

**`ChangedSymbolsProofs`** (from `FilesAssumption`: finitely many files, a path contains itself):
`Reporting`, `Touched` (`TouchedAreReported`) and `Near` (`ReportedAreNear`), in three parts.

- What `parse_hunks` reads. `Reads(s, A, B, H)` says of a piece `s` of a diff that, read where the
  current file is in `A`, it asks for the hunks `H` and leaves a current file in `B`. It holds of each
  kind of line (`LineRead`), and of pieces one after the other (`ReadsBoth`, `ReadsAll`), hence of a
  hunk, a file and a diff: `HunksFound`, the hunks are those of all files and no others,
  if no added line reads as a header.
- What git prints. `RangesFacts`: the ranges cover the added lines and nothing else, and no two
  start at the same line.
- The command. `IInv`: stored rows are one for an id (`Keyed`), so that collecting rows
  by id drops none that is still stored; and while nothing interferes (`Answering`) each hunk of
  the diff is still to be looked up or all rows in its range are found, and what is found is
  in the range of one. Before it settles, an edit or a scan may break any of it, which is
  why the invariant is conditional on `calm`.

The step from rows to lines, with its offset of one, is the arithmetic at the end of both
theorems; it is where a symbol's last line falls out.

**`ResolverProofs`** and **`PureLemmas`** (from `NodesAssumption`, `NoNode` is no id, and
`ProjectsAssumption`, what extractors promise of the files of a project: finitely many symbols, each
with the file's language and with a parent of the same file, and well-formed raw edges, and what a
parser gives them: `IsRows`, the nodes of a file in the order of the text, each in the one before it
or in one around that; `Placed`, what stands where: in Go named functions at the top of a file, in
PHP methods in classes, in Java bodies of anonymous classes in types, in C# no namespace in a
type; `Spelled`, what names are: none is empty, types of Java, C# and JavaScript have a name of one segment, and
no Python class is named `super()`. TLC evaluates all of it on every project of the run):
`TypeCorrect`, `OneOrder`, `Linearizing` (`MroIsPythons`), `Supers` (`SuperFollowsPython`), `Honest`
(`TiersAreHonest`), `Starting` (`EdgesStartAround`) and `Qualifying` (`OwnMembersAreCalled`). The
first part, in `PureLemmas`, is about C3 alone, for any finite set of classes with any bases:

- The merge. `MergeState` is the invariant of its loop: what was removed from the lists is what
  the result has, once and in the order of the lists. So a result is an order of all classes of the
  lists (`MergeSound`). If there is such an order, the first of its classes that is still in a list
  is in no tail (`CandidateExists`), so every round takes a class and the merge ends with all of
  them (`MergeComplete`), in as many rounds as there are classes.
- The recursion. What linearize finds at a depth of n calls is the n-th iterate of `Linearized` from
  nothing found. Iterates only grow (`LevelsGrow`), and a step that finds no class more changes nothing
  any more (`MoreOrSame`), so a depth of as many calls as there are classes is a fixed point
  (`LinearizeFixed`), which is all that the order of the calls and the memo come to. At the fixed point
  `LinearizeIsPythons` compares what is found with what Python promises.
- Which order. That a list keeps the order of all lists that are merged does not make it Python's,
  since several may. `FirstListsFirst` is the rest of the rule, that each class is taken from the first
  list whose next class waits for no other; every round keeps to it (`Round`'s lemmas on `Waits`), so the
  order found is `IsPythonsMro`, and `OneOrder` shows that no other is. The class in which Python finds a
  method is therefore one, the first of that order behind the caller's that has it.

The second part is the invariant of the passes. `IInv` is `TypeOK`; `ClassesKeepLanguage`; `EdgesAreOfRaws`,
an edge is of a raw edge that a pass has been over, so that what a raw edge adds is all it has;
`TiersAreHonest`; and `SupersFollowPython`, the calls of `super()` resolved so far follow Python.
The last needs that calls leave the bases as they are (`ParentsStay`, since a CALLS edge
is a blank in what is flattened), which is what the second pass is for.

The third part is about where edges start, in files of any length with nodes nested in any way:

- Trees. `Around` is what a node is in, and what an extractor carries down in its walk (the class
  around, the caller, the module) is a recursive function on rows; `DescentExists` is that
  there is one. Lemmas on it give the smallest node of some kinds around a row (`Innermost`), and
  that lines nest as nodes do.
- Extractors. A lemma for each of the nine languages (`PythonFits`, `RustFits`, ...) says that each of its raw edges is
  from the symbol that the walk has around the edge's line, or from the file, that ids stand for one
  row, and that functions do not share lines in part; `RoutesFit` says it of routes, which
  are found by lines and not by the walk. `ExtractFits` joins them, and `FilesFit` is that they hold of
  all files of a project.
- The passes. `RouteLeads`, each resolved route leads from the function around it to its own node, is the part
  of the invariant (`StartInv`) that needs more than what an edge is of (`EdgesAreOfRaws`).
  `EdgesStart` draws the conclusion: the caller that the resolver looks up by lines is the one that
  the walk had.

The fourth part is about the calls of a type's own members:

- Names. An extractor makes a member's name and a call's target in two different walks. For each
  language a lemma (`PythonOwn`, `GoOwn`, ...) says that a call x.m() whose x is the type's `self`
  gets just the name that each own m has, and that the line gives no call of another name. So the class that
  the walk qualifies the call with must be the one that the member was found in: `SelfFacts` gives the
  member around the call and that the same type is innermost around both, and lemmas on functions in
  functions (`InnermostOfFewer`, `OutermostIs`, `JsMember`, `RbMember`) follow each walk's own rule from the one
  to the other. In PHP a call is emitted once for each class around (`PhpOwnSearches`), of which one is right
  (`PhpRight`). `OwnFits` is what all languages have in common. Of Rust it says nothing: `self.m()` keeps no trace of its
  type there, and `SelfWords` is empty.
- Resolution. `CallsAre`: the raw edges of a line are those its extractor made, wherever its file stands in the
  order. `CallLeads`, the other part of `StartInv`: a resolved call that is not of `super()`
  leads to all targets of its name. A name of two or more segments is indexed
  as it is only (`MemberHits`) and tried first (`FirstIsOwn`), so that all targets have it.

The attempt corrected `OwnMembersAreCalled` itself, where no file of the run told the difference: the member that the call
is in must be in the graph, a constructor is no target of a call in Java and C#, and what has no name none in PHP.
That of where edges start corrected two definitions where no file of the run tells the difference: only methods of PHP
are constructors by their name (php.rs:439), and what Rails' macros give is no arm for other nodes. Two are
written for the provers, which have neither powers nor `SelectSeq`: edges doubled by the namespaces of
C# (`CsEdges`) and the actions of `resources`.

Shared by all proofs, in **`PureLemmas`**: least and greatest elements, induction over a set of numbers, and
that a function defined by recursion on the natural numbers exists and is the only one
(`RecursionExists`, `IterationExists`). The library's theorems on induction take an operator for a
parameter, which the provers cannot instantiate; here a set of numbers takes its place, and a
function on pairs the place of the step. Also here: what concatenated and flattened sequences hold.

Only model-checked: liveness under fairness (`OperationsReturn` of both stores, `SessionDrains`), which
the prover does not do; and the properties that the code violates.

## 5. Where the code and its documentation disagree

Four runs are expected to end with a violation:

1. **Parents are lost on a second save** (`sqlite_parents_lost`). A child
   that is inserted before its parent's row is replaced has its `parent_id` set to
   NULL by that replacement.
2. **Old files cannot be opened** (`schema_old_files`). `create_schema` runs before
   `migrate_schema` and indexes columns that only the migration adds.
3. **`super().__init__()` fans out** (`resolver_super_init`). The lookup only takes
   methods and functions; `__init__` is a constructor.
4. **Off by one in changed-symbols** (`changed_symbols_exact`). git counts lines from
   one, the stored rows from zero.

These sentences of the repository do not hold either. No run is expected to violate them; the property
named with each says what does hold.

5. **The count of edges is the save's, not the table's.** sqlite/mod.rs:85-87 says that it
   "matches `SELECT COUNT(*) FROM edges`". `save_graph` counts the rows it inserts and knows nothing of edges
   between symbols outside its graph: the scan of a part without `--clean` can report 0 where the table holds 2
   (graphs `Whole` and `Part` of the run). `ReportedCountIsExact` is about the rows at the saved nodes.
6. **The full-text index is not in sync.** schema.rs:47 and :86 say that triggers keep it so.
   REPLACE does not fire the delete trigger, so each save of a stored node adds a row; searches
   join, so results repeat, and old texts are found. `SearchCoversStore` lets such rows through.
7. **A stamp without its migration.** schema.rs:238 says that existing nodes are filled into the index, but
   version 4 is stamped before (schema.rs:231): a process that dies in between leaves it empty, and no later open
   fills it. `OpenedIsUsable` excepts migrations that were disturbed.
8. **Edges of removed symbols.** graph.rs:72 says that `remove_file` removes a file's
   edges; its raw edges stay. Who updates twice before resolving gets edges from
   symbols that are gone. The scan command does not; hence `AlwaysResolve`.
9. **Tier 0.9 is not import-scoped.** relation.rs:83 says that the target's file is imported
   and the comment at resolver.rs:129-132 promises 0.5 for a single global hit; `pick_confidence` gives 0.9 to
   any single hit, imported or not. `TiersAreHonest` says what 0.9 means: no other symbol has the name.
10. **Tier 0.95 is ambiguous.** relation.rs:82 says "no ambiguity within the file";
    every target in the caller's file gets it, however many there are. `TiersAreHonest` says nothing of 0.95.
11. **Answers depend on the backend.** storage lib.rs:18-19 says they do not. A path from a
    symbol to itself has no edges in SQL and one or more in Cypher (falkor/mod.rs:920). Implementations and
    symbols are found by LIKE, which knows no case, in SQL, and by STARTS WITH and CONTAINS, which do, in Cypher
    (sqlite/mod.rs:607, :682, falkor/mod.rs:960, :1016). `find_symbols` ranks kinds first only in SQL, `hotspots`
    counts neighbours in SQL and relationships in Cypher, so that LIMIT cuts other rows. `search_symbols` is a
    full-text search in SQL and a search for substrings in Cypher. `BackendsAgree` is about the rest, and
    compares sets, as rows of one query may repeat and come in another order.
12. **A clear that drops nothing.** falkor/mod.rs:647 means to ignore that there is no graph;
    the code ignores every error of GRAPH.DELETE, and does not send it again as other queries are. If the connection
    is lost, `clear` reports success over a full store. `LoneOperationsAreExact` excepts a clear that gave up.

Other observations made while modelling. The models contain the behaviour, and no
property claims the contrary.

Extraction and resolution:
- Swift extensions give IMPLEMENTS edges and the parents of their members an id with line 0
  (swift.rs:153), where the comment hopes for the class: only a class on the file's first
  line has that id, so the edges dangle.
- Calls in a PHP class without a name are emitted twice (php.rs:821): for its own method and, since the
  walk of the method around goes on, for that method; `$this->m()` is also taken for the outer class's m.
  In Java and C# `this.m()` in such a class is the outer class's, too.
- A C# using or call in n namespaces is emitted several times, as the walk descends twice into each
  (csharp.rs:111). The resolver drops the copies when it adds edges.
- Initialisers of Java fields and C# properties emit no CALLS edges; neither do Rails's `get :x` directly in
  `resources`. In PHP, functions and classes in a block or in a function are not symbols.
- Ruby's `private def m` switches visibility and loses m. A receiver that a Go closure
  declares again still means the method's receiver.
- Calls without a receiver in Java, C# and Ruby go to every function of the name.
- Rust IMPLEMENTS edges start at a struct on line 0 (rust.rs:357), so `save_graph` drops
  nearly all of them, though README.md:609 lists them. Methods of an impl have the file or
  module for a parent, not their type.
- A decorated Python handler, and a Rust one with an attribute, starts after the line with
  its route, so that its HANDLES_ROUTE edge is missing or goes to the function around
  (routes.rs:144; README.md:291 promises one).
- In JavaScript `const x = f()` and `const g = () => f()` outside functions give no CALLS edge to `f`:
  `extract_js_calls` only looks below the node it is given (javascript.rs:535).
- `self.m()` of an inherited m falls back to every m by name. A class in a method is not
  a symbol, and `self` in it is qualified with the outer class.
- Python `from` imports carry a dotted module, which no key of the file index equals. The
  index of imports by their last segment lets calls and types hit Import nodes.
- The fallback for bases with dots cannot be reached (resolver.rs:560), and two files that differ in
  their extension share a key of the file index (resolver.rs:484).

- `load_path_aliases` (resolver.rs:30, not modelled) takes the first target of an alias only and
  reads a second one as the next key, which swallows the alias after it. An alias is matched as a
  prefix of the path, without a `/` after it, and the first one wins, not the longest.

Storage:
- A scan without `--clean` leaves rows of symbols that moved or went; in FalkorDB the
  old edges of nodes that are saved again stay too.
- `load_graph` reads with three SELECTs outside a transaction; `get_stats` with five.
- In FalkorDB `init_schema` swallows all errors, where its comment calls the others
  fatal (:103); edge counts that fail read as zero (:412).

Incremental update:
- A file that changes between hashing and parsing keeps the hash of what was hashed
  (parser.rs:184) and is not parsed again until it changes once more.
- An update drops calls from unchanged files into a file that was parsed again
  (graph.rs:81), and nothing resolves them anew.

Commands:
- MCP's `call_chain` takes the first row of any kind, the command line the first function
  (mcp.rs:302). A notification with an unknown method gets an error reply (mcp.rs:103).
- `LIMIT` is applied before the filter on kinds (call_chain.rs:10). `blast-radius`
  counts rows, not callers (blast_radius.rs:136).
- `call-chain` and `blast-radius` look a symbol up in one query and walk in another. A scan that commits in
  between makes the id stale, and the answer is empty, as if nothing depended on the symbol (mcp.rs:303).
  `AnswersAreTrue` is about commands that no commit disturbs.
- A line that starts with `{` and does not parse ends the server, and with it the requests behind it
  (mcp.rs:56). `SessionDrains` excepts these.
- Rows that fail to decode are dropped silently (sqlite/mod.rs:708).
- changed-symbols skips hunks that only delete (git.rs:93), takes an added line `++ x` for
  a header (git.rs:72), and matches paths by substring (sqlite/mod.rs:512).
- Not modelled: truncation of long texts slices bytes and panics inside a character (symbol.rs:184,
  hotspots.rs:36).

## 6. What is not modelled

- Visibility, signatures, comments and generic parameters in all languages, and the inflections
  (`users` to `User`) of Rails: data that no property tells apart.
- One composed model of a scan. Its stages are modelled where they are hard: clear and save as
  two steps beside edits (`ChangedSymbols`) and beside other processes (`SqliteStore`),
  parsing beside edits (`IncrementalScan`), resolving and tracing alone, as they only see the
  graph that the scan owns. What they hand on is one `CodeGraph` value, so that the composition
  adds no interleaving.
- Export, churn and recency of files, the command line and the in-memory queries: no state,
  or no caller.
- `load_path_aliases`: its result is the constant `Alias`.
- FalkorDB: escaping of literals, conversion of values, `symbols_in_range`, `search_symbols`,
  `run_raw_query`, and a query that runs after its retry has been answered.
- Contents of raw queries: a raw query is nothing or a write.
- Printing.

## 7. Plan

Done, in the order of the plan: the SQLite store with its refinement and proofs; opening
and migration; incremental scans with proofs; process tracing with proofs; C3 and the
resolver; changed symbols; queries, commands and the MCP server; FalkorDB; the extractors of
all languages, with the routes of Rails. Proved: all safety properties of the SQLite store, of
migration, of incremental scans, of process tracing and of the FalkorDB store; the refinement
of the SQLite store; changed symbols, where they hold; the readers, with the agreement of the backends;
all of the resolver, in nine languages.

What could follow, the model:
1. `load_path_aliases`, with `extends` chains of tsconfig.json.
2. `symbols_in_range` of FalkorDB beside the one of SQLite.
3. `ScanPipeline`, a refinement of one atomic scan.
