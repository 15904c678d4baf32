------------------------------ MODULE McpServer ------------------------------
(***************************************************************************)
(* The MCP server (cli commands/mcp.rs): one session of JSON-RPC messages  *)
(* over stdin and stdout, each handled to its end before the next is read, *)
(* while other processes commit; and, without a session, the commands of   *)
(* the command line on the same store.                                     *)
(***************************************************************************)
EXTENDS Commands

CONSTANTS
    Graphs,       \* the store at the start, after a first scan
    Messages,     \* what a client sends
    Requests,     \* the commands typed: [tool, text, opts]
    Prefixed,     \* Cypher: Prefixed[t], the names that start with t + '::'
    Containing,   \* Cypher: Containing[p], the names with the pattern p in them
    MaxMessages,  \* bound: messages of a session
    NoId          \* a message without an id

ASSUME SessionAssumption == MaxMessages \in Nat

\* LIKE knows no case and takes _ and % in the argument for wildcards: it finds
\* what STARTS WITH and CONTAINS find, and may find more.  (No pattern has a quote,
\* which sqlite/mod.rs:678 doubles.)
ASSUME LikeAssumption ==
    /\ \A t \in Names : Prefixed[t] \subseteq Liked[t]
    /\ \A p \in Patterns : Containing[p] \subseteq Matches[p]
ASSUME GraphsAssumption == \A g \in Graphs \cup Commits : GraphOK(g)

\* A symbol's members are the ones its CONTAINS edges lead to: save_graph adds the
\* edge for every parent it stores, and the extractor that emits the edge itself
\* does it for the parent.  SQLite's parent_id can go missing when a file is saved
\* again (SaveKeepsParents of SqliteStore): Graphs are first scans.
MembersContained(g) ==
    \A a, n \in g.nodes :
        n.parent = a.id <=> \E e \in Edges(g, "CONTAINS") : e.src = a.id /\ e.dst = n.id

ASSUME MembersAssumption == \A g \in Graphs : MembersContained(g)

Falkor == INSTANCE FalkorQueries

VARIABLES
    inbox,   \* every message sent
    pos,     \* messages read so far
    outbox,  \* every reply
    server   \* "up", "stopped", or "none": no session

sessionVars == <<inbox, pos, outbox, server>>
vars == <<jobVars, sessionVars>>

Init ==
    /\ graph \in Graphs
    /\ job = NoJob /\ calm = TRUE /\ cut = FALSE
    /\ inbox = <<>> /\ pos = 0 /\ outbox = <<>>
    /\ server \in {"up", "none"}

Send(m) ==
    /\ server # "none" /\ Len(inbox) < MaxMessages
    /\ inbox' = Append(inbox, m)
    /\ UNCHANGED <<jobVars, pos, outbox, server>>

Reply(id, kind) == outbox' = Append(outbox, [id |-> id, kind |-> kind])

\* Methods answered at once.
Simple == {"initialize", "ping", "tools/list", "resources/list", "prompts/list"}
Silent == {"notifications/initialized", "_skip"}

\* A message that does not parse ends the server: read_message returns the
\* error out of run.
ReadMessage ==
    /\ server = "up" /\ Idle /\ pos < Len(inbox)
    /\ pos' = pos + 1
    /\ LET m == inbox[pos + 1]
       IN  \/ /\ m.framing = "broken"
              /\ server' = "stopped"
              /\ UNCHANGED <<jobVars, outbox>>
           \/ /\ m.framing = "other" \/ m.method \in Silent
              /\ m.framing # "broken"
              /\ UNCHANGED <<jobVars, outbox, server>>
           \/ /\ m.framing \in {"line", "header"} /\ m.method = "tools/call"
              /\ Begin("mcp", m.tool, m.text, m.opts)
              /\ UNCHANGED <<outbox, server>>
           \/ /\ m.framing \in {"line", "header"}
              /\ m.method \notin Silent \cup {"tools/call"}
              /\ Reply(m.id, IF m.method \in Simple THEN "result" ELSE "error")
              /\ UNCHANGED <<jobVars, server>>
    /\ UNCHANGED inbox

\* A tool that failed is a result too, with isError.
\* Mutants: no reply when it failed; the failure stops the loop.
ReplyTool_NoError ==
    /\ server = "up" /\ job.stage = "done"
    /\ IF job.status = "error" THEN UNCHANGED outbox ELSE Reply(inbox[pos].id, "result")
    /\ job' = NoJob /\ calm' = TRUE /\ cut' = FALSE
    /\ UNCHANGED <<graph, inbox, pos, server>>
ReplyTool_Stuck ==
    /\ server = "up" /\ job.stage = "done" /\ job.status # "error"
    /\ Reply(inbox[pos].id, "result")
    /\ job' = NoJob /\ calm' = TRUE /\ cut' = FALSE
    /\ UNCHANGED <<graph, inbox, pos, server>>
ReplyTool ==
    /\ server = "up" /\ job.stage = "done"
    /\ Reply(inbox[pos].id, IF job.status = "error" THEN "toolError" ELSE "result")
    /\ job' = NoJob /\ calm' = TRUE /\ cut' = FALSE
    /\ UNCHANGED <<graph, inbox, pos, server>>

\* End of input.
Close ==
    /\ server = "up" /\ Idle /\ pos = Len(inbox)
    /\ server' = "stopped"
    /\ UNCHANGED <<jobVars, inbox, pos, outbox>>

\* A command typed in a shell prints its answer and exits.
Type(r) ==
    server = "none" /\ Begin("cli", r.tool, r.text, r.opts) /\ UNCHANGED sessionVars

Exit ==
    /\ server = "none" /\ job.stage = "done"
    /\ job' = NoJob /\ calm' = TRUE /\ cut' = FALSE
    /\ UNCHANGED <<graph, sessionVars>>

Work == ReadMessage \/ (JobStep /\ UNCHANGED sessionVars) \/ ReplyTool \/ Exit

Next ==
    \/ Work
    \/ \E m \in Messages : Send(m)
    \/ Close
    \/ \E r \in Requests : Type(r)
    \/ \E g \in Commits : OtherCommits(g) /\ UNCHANGED sessionVars

\* A process that has something to do runs; the other processes need not.
Fairness == WF_vars(Work)

Spec == Init /\ [][Next]_vars /\ Fairness

-----------------------------------------------------------------------------
(* Properties *)

\* Messages dealt with.
Handled == IF Idle THEN pos ELSE pos - 1

\* Messages that ask for a reply, and replies under an id.
Asking ==
    {m \in Messages :
       m.framing \in {"line", "header"} /\ m.id # NoId /\ m.method \notin Silent}
Identified ==
    {r \in [id : {m.id : m \in Messages}, kind : {"result", "error", "toolError"}] :
       r.id # NoId}

\* Every request the server has dealt with has one reply, in order and under
\* its id, whatever failed; a message without an id is never answered under
\* one (handle, handle_tool_call).
RequestsAnsweredInOrder ==
    server # "none" =>
      LET requests == Kept(SubSeq(inbox, 1, Handled), Asking)
          replies == Kept(outbox, Identified)
      IN  [i \in DOMAIN replies |-> replies[i].id] =
          [i \in DOMAIN requests |-> requests[i].id]

Start == Idle /\ inbox = <<>> /\ calm

\* The recursive statements compute what they stand for on every graph: walks
\* of calls through cycles and recursion, chains of IMPLEMENTS, shortest paths.
TraversalsAreExact ==
    Start => /\ WalksAreExact(graph, Depth)
             /\ ImplementationsAreExact(graph)
             /\ PathsAreShortest(graph)

\* Queries written apart tell the same story: callers, callees and the first
\* level of the traversals; dead code and an empty blast radius.
QueriesAgree == Start => EndsAgree(graph) /\ DeadIsUnreached(graph)

Ends(rows) == {r.id : r \in rows}

SamePaths(g, a, b) == {Len(p) : p \in Falkor!shortest_path(g, a, b)} =
                      {Len(p) : p \in shortest_path(g, a, b)}

SameImplementations(g, trait) ==
    Falkor!find_implementations(g, trait) = Ends(find_implementations(g, trait))

\* The order of rows, and so what LIMIT cuts, is the backend's own.  Where it cuts
\* nothing, hotspots names the same symbols; find_symbols of Cypher names no other
\* than SQL's, and all of them where a LIKE is none but for what the name contains.
SameListings(g, limit) ==
    /\ Len(hotspots(g, limit)) < limit =>
          ToSet(Falkor!hotspots(g, limit)) = ToSet(hotspots(g, limit))
    /\ \A p \in Patterns : Len(find_symbols(g, p, limit)) < limit =>
          /\ ToSet(Falkor!find_symbols(g, p, limit)) \subseteq ToSet(find_symbols(g, p, limit))
          /\ (\A n \in g.nodes : n.name \in Matches[p] => n.name \in Containing[p]) =>
                ToSet(Falkor!find_symbols(g, p, limit)) = ToSet(find_symbols(g, p, limit))

\* Both backends name the same symbols, for ids in g and depths 1..d: callers,
\* callees and members, what the traversals lead to, dead code, the length of a
\* shortest path between two symbols, listings.  For a trait Cypher names no type that SQL
\* does not, and all of them where no stored name is LIKE the trait's but does
\* not start with it.
SameAnswers(g, d) ==
    /\ \A a \in {n.id : n \in g.nodes} :
        /\ Ends(Falkor!call_chain(g, a, d)) = Ends(call_chain(g, a, d))
        /\ Ends(Falkor!reverse_call_chain(g, a, d)) = Ends(reverse_call_chain(g, a, d))
        /\ Falkor!symbol_callers(g, a) = Ends(symbol_callers(g, a))
        /\ Falkor!symbol_callees(g, a) = Ends(symbol_callees(g, a))
        /\ Falkor!symbol_members(g, a) = symbol_members(g, a)
        /\ \A b \in {n.id : n \in g.nodes} \ {a} : SamePaths(g, a, b)
    /\ \A limit \in 1..Cardinality(Ids) :
        /\ Falkor!dead_symbols(g, Callables, {}, limit) = dead_symbols(g, Callables, {}, limit)
        /\ SameListings(g, limit)
    /\ \A trait \in Names :
        /\ Falkor!find_implementations(g, trait) \subseteq Ends(find_implementations(g, trait))
        /\ (\A n \in g.nodes : n.name \in Liked[trait] => n.name \in Prefixed[trait]) =>
              SameImplementations(g, trait)

\* These answers do not depend on the backend: Cypher's paths, which use no
\* relationship twice, lead to the symbols the recursive SQL finds, and
\* CONTAINS edges to the members that parent_id names (lib.rs, GraphStorage).
\* That is for graphs a save stored; a raw query may leave anything.  "The CLI
\* and query layers are independent of the physical storage engine" (lib.rs:18-19)
\* for these answers.  They are not for the path from a symbol to itself (no edge
\* in SQL, one or more in Cypher), for what LIKE alone finds, for the rows that
\* LIMIT cuts from find_symbols and hotspots, which rank by other things, for how
\* often a row comes and in which order, and for search_symbols, a full-text search
\* in one and a search for substrings in the other (falkor/mod.rs:1124-1126).
BackendsAgree == Start /\ graph \in Graphs => SameAnswers(graph, Depth)

\* The server gets to every message, however often others commit, unless a
\* broken message ended it.
SessionDrains ==
    \A k \in 1..MaxMessages :
      (Len(inbox) >= k /\ server = "up") ~> (Handled >= k \/ server = "stopped")
=============================================================================
