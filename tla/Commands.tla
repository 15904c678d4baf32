------------------------------ MODULE Commands ------------------------------
(***************************************************************************)
(* The commands that read the store: the ones of the command line (cli     *)
(* commands/*.rs) and the tools of the MCP server (dispatch in mcp.rs).    *)
(* Both make the same queries, one at a time, each on the graph of its     *)
(* moment; another process may commit in between.  A job is one command    *)
(* under way.  A query can fail; a failure after its statement was         *)
(* prepared is swallowed (filter_map(|r| r.ok())) and looks like fewer     *)
(* rows.                                                                   *)
(***************************************************************************)
EXTENDS GraphQueries

CONSTANTS
    Commits,     \* what other processes' commits can leave in the store
    Exact,       \* Exact[p]: the names equal to p but for case
    Depth,       \* --depth of call-chain and blast-radius
    Limit,       \* the limit of a listing
    FindLimit    \* FindLimit[by, tool]: rows asked of find_symbols

\* A stored graph: the primary key of nodes is the id, and edges, finitely many,
\* reference nodes.
GraphOK(g) ==
    /\ g = [nodes |-> g.nodes, edges |-> g.edges]
    /\ \A n \in g.nodes : n.id \in Ids /\ n.name \in Names
    /\ \A n, m \in g.nodes : n.id = m.id => n = m
    /\ IsFiniteSet(g.edges)
    /\ \A e \in g.edges : \E a, b \in g.nodes : e.src = a.id /\ e.dst = b.id

ASSUME QueriesAssumption ==
    /\ Ids \subseteq Int /\ IsFiniteSet(Ids)
    /\ NameLength \in [Names -> Nat]
    /\ MaxPath \in Nat /\ MaxImpl \in Nat /\ Depth \in Nat /\ Limit \in Nat
    /\ FindLimit \in [{"cli", "mcp"} \X {"symbol", "call_chain", "blast_radius"} -> Nat]

VARIABLES
    graph,  \* the committed tables
    job,    \* the command under way
    calm,   \* history: no other process has committed since the job began
    cut     \* history: a query of the job lost rows

jobVars == <<graph, job, calm, cut>>

Callers == {"callers", "callees", "members"}
NoJob == [stage |-> "idle"]
Idle == job.stage = "idle"

Begin(by, tool, text, opts) ==
    /\ Idle
    /\ job' = [by |-> by, tool |-> tool, text |-> text, opts |-> opts,
               stage |-> CASE tool \in {"symbol", "call_chain", "blast_radius"} -> "find"
                           [] tool = "unknown" -> "done"
                           [] OTHER -> "query",
               todo |-> IF tool = "stats" THEN StatParts ELSE <<>>,
               target |-> {}, rows |-> {},
               status |-> IF tool = "unknown" THEN "error" ELSE "ok"]
    /\ calm' = TRUE /\ cut' = FALSE
    /\ UNCHANGED graph

Done(status, rows) == [job EXCEPT !.stage = "done", !.status = status, !.rows = rows]

\* What filter() keeps of a sequence: the elements that are in S.
Kept(s, S) ==
    LET kept[i \in 0..Len(s)] ==
          IF i = 0 THEN <<>>
          ELSE IF s[i] \in S THEN Append(kept[i - 1], s[i]) ELSE kept[i - 1]
    IN  kept[Len(s)]

-----------------------------------------------------------------------------
(* The target by name *)

\* The kinds a command accepts; the tools of the server take the first row.
Accepts(by, tool, kind) ==
    CASE by = "mcp" \/ tool = "symbol" -> TRUE
      [] by = "cli" /\ tool = "call_chain" -> kind \in Callables
      [] by = "cli" /\ tool = "blast_radius" ->
           kind \in Callables \cup (Types \ {"Enum"})

\* `symbol` prints the exact match, or the first, in detail when asked to or
\* when there is no doubt; without options it prints every section, members
\* only of a type.
CliSections(m, opts) ==
    LET sections == IF opts = {} THEN Callers ELSE opts
    IN  Kept(<<"members", "callers", "callees">>,
             {s \in sections : s = "members" => m.kind \in Types})

CliDetails(found) ==
    LET exact == Kept(found, {m \in graph.nodes : m.name \in Exact[job.text]})
        m == IF exact = <<>> THEN found[1] ELSE exact[1]
        sections == CliSections(m, job.opts)
    IN  IF job.opts # {} \/ Len(found) = 1 \/ exact # <<>>
        THEN [k \in DOMAIN sections |-> <<m.id, sections[k]>>] ELSE <<>>

\* The tool decorates every match with what was asked for.
McpDetails(found) ==
    LET wanted == Kept(<<"callers", "callees", "members">>, job.opts)
    IN  FlattenSeq([k \in DOMAIN found |->
                      [j \in DOMAIN wanted |-> <<found[k].id, wanted[j]>>]])

FindSymbols ==
    /\ job.stage = "find"
    /\ \E answer \in {find_symbols(graph, job.text, FindLimit[job.by, job.tool])} :
       \E found \in {Kept(answer, {m \in graph.nodes : Accepts(job.by, job.tool, m.kind)})} :
       LET details == IF job.by = "cli" THEN CliDetails(found) ELSE McpDetails(found)
       IN  job' = CASE found = <<>> ->
                         Done(IF job.by = "cli" \/ job.tool = "symbol"
                              THEN "nothing" ELSE "error", {})
                    [] found # <<>> /\ job.tool = "symbol" ->
                         [job EXCEPT !.target = ToSet(found), !.todo = details,
                                     !.stage = IF details = <<>> THEN "done" ELSE "query"]
                    [] OTHER -> [job EXCEPT !.target = {found[1]}, !.stage = "query"]
    /\ UNCHANGED <<graph, calm, cut>>

-----------------------------------------------------------------------------
(* The queries on it *)

TargetId == (CHOOSE n \in job.target : TRUE).id

WalkCalls ==
    /\ job.stage = "query" /\ job.tool \in {"call_chain", "blast_radius"}
    /\ job' = Done("ok", IF job.tool = "call_chain"
                         THEN call_chain(graph, TargetId, Depth)
                         ELSE reverse_call_chain(graph, TargetId, Depth))
    /\ UNCHANGED <<graph, calm, cut>>

\* The command line leaves vendored callers and callees out.
Section(id, section) ==
    LET shown == IF job.by = "cli" THEN {n \in graph.nodes : n.file \notin Vendored}
                 ELSE graph.nodes
    IN  CASE section = "callers" -> symbol_callers(graph, id) \cap shown
          [] section = "callees" -> symbol_callees(graph, id) \cap shown
          [] section = "members" -> symbol_members(graph, id)

NextPart(rows) ==
    [job EXCEPT !.rows = @ \cup rows, !.todo = Tail(@),
                !.stage = IF Len(job.todo) = 1 THEN "done" ELSE "query"]

QueryDetail ==
    /\ job.stage = "query" /\ job.tool = "symbol"
    /\ LET of == Head(job.todo)
       IN  job' = NextPart({[of |-> of[1], section |-> of[2], id |-> n.id] :
                              n \in Section(of[1], of[2])})
    /\ UNCHANGED <<graph, calm, cut>>

QueryStat ==
    /\ job.stage = "query" /\ job.tool = "stats"
    /\ LET part == Head(job.todo)
       IN  job' = NextPart({[part |-> part, count |-> Stat(graph, part)]})
    /\ UNCHANGED <<graph, calm, cut>>

\* Tools of one query.  opts: --include-all, and for `query` a statement that
\* writes, which run_raw_query executes like any other.
Listing(tool) ==
    CASE tool = "hotspots" -> hotspots(graph, Limit)
      [] tool = "dead_code" ->
           dead_symbols(graph, Callables, IF job.opts = {} THEN Vendored ELSE {}, Limit)
      [] tool = "search" -> search_symbols(graph, job.text, Limit)
      [] tool = "routes" -> CountInto(graph, "Route", "HANDLES_ROUTE", Limit)
      [] tool = "processes" -> CountInto(graph, "Process", "STEP_IN_PROCESS", Limit)
      [] tool = "query" -> <<>>

QueryList ==
    /\ job.stage = "query"
    /\ job.tool \in {"hotspots", "dead_code", "search", "routes", "processes", "query"}
    /\ job' = Done("ok", ToSet(Listing(job.tool)))
    /\ graph' = IF job.tool = "query" /\ job.opts # {}
                THEN [graph EXCEPT !.edges = {}] ELSE graph
    /\ UNCHANGED <<calm, cut>>

\* Preparing fails, or a row that the caller insists on.
QueryFails ==
    /\ job.stage \in {"find", "query"}
    /\ job' = Done("error", {})
    /\ UNCHANGED <<graph, calm, cut>>

\* Stepping fails: the rows so far, here none, pass for the answer.  The raw
\* query and the three counts of get_stats report it instead.
RowsLost ==
    /\ job.stage \in {"find", "query"}
    /\ job.tool \notin {"query", "routes", "processes"}
    /\ job.tool = "stats" => Head(job.todo) \in {"languages", "kinds"}
    /\ cut' = TRUE
    /\ job' = CASE job.stage = "find" ->
                     Done(IF job.by = "cli" \/ job.tool = "symbol"
                          THEN "nothing" ELSE "error", {})
                [] job.stage = "query" /\ job.todo # <<>> -> NextPart({})
                [] OTHER -> Done("ok", {})
    /\ UNCHANGED <<graph, calm>>

JobStep ==
    FindSymbols \/ WalkCalls \/ QueryDetail \/ QueryStat \/ QueryList
    \/ QueryFails \/ RowsLost

\* A save, clear or removal by another process.
OtherCommits(g) ==
    /\ graph # g
    /\ graph' = g /\ calm' = FALSE
    /\ UNCHANGED <<job, cut>>

-----------------------------------------------------------------------------

\* A finished job that nothing disturbed tells the truth about the graph in the
\* store: what depends on a symbol, who calls it, and totals that add up.
AnswersAreTrue ==
    job.stage = "done" /\ job.status = "ok" /\ calm /\ ~cut =>
      /\ job.tool = "call_chain" =>
           {r.id : r \in job.rows} =
             {n.id : n \in {m \in graph.nodes : Walk(graph, TargetId, m.id, Depth)}}
      /\ job.tool = "blast_radius" =>
           {r.id : r \in job.rows} =
             {n.id : n \in {m \in graph.nodes : Walk(graph, m.id, TargetId, Depth)}}
      /\ job.tool = "symbol" =>
           \A r \in job.rows :
             /\ r.section = "callers" => Walk(graph, r.id, r.of, 1)
             /\ r.section = "callees" => Walk(graph, r.of, r.id, 1)
             /\ r.section = "members" =>
                  \E n \in graph.nodes : n.id = r.id /\ n.parent = r.of
      /\ job.tool = "stats" =>
           Cardinality({r.count : r \in {s \in job.rows :
                          s.part \in {"nodes", "languages", "kinds"}}}) = 1

\* "Nothing found" is only said when no symbol the command accepts matches, or
\* when find_symbols returned as many others as it was asked for.
NothingMeansNothing ==
    job.stage = "done" /\ job.status = "nothing" /\ calm /\ ~cut =>
      LET matching == {n \in Listed(graph) : n.name \in Matches[job.text]}
          rejected == {n \in matching : ~Accepts(job.by, job.tool, n.kind)}
      IN  matching = rejected \/ Cardinality(rejected) >= FindLimit[job.by, job.tool]
=============================================================================
