----------------------------- MODULE MCMcpServer -----------------------------
(*************************************************************************)
(* Two functions, a class with one of them as a member, a route and a    *)
(* process.  Sessions start on a few graphs, commands on every graph of  *)
(* calls between the three symbols.                                      *)
(*************************************************************************)
EXTENDS McpServer

N(id, name, kind, file, parent) ==
    [id |-> id, name |-> name, kind |-> kind, file |-> file, parent |-> parent]
E(src, dst, kind) == [src |-> src, dst |-> dst, kind |-> kind, line |-> src]

MCNodes == {N(1, "Parser", "Class", "src", 0), N(2, "parse", "Method", "src", 1),
            N(3, "main", "Function", "vendor", 0)}
Others == {N(4, "/parse", "Route", "src", 0), N(5, "flow", "Process", "src", 0)}

Member == E(1, 2, "CONTAINS")
AllCalls == {[nodes |-> MCNodes, edges |-> calls \cup {Member}] :
               calls \in SUBSET {E(i, j, "CALLS") : i \in 1..3, j \in 1..3}}
Calls == {E(3, 2, "CALLS"), E(2, 2, "CALLS"), E(2, 3, "CALLS")}
Rich == [nodes |-> MCNodes \cup Others,
         edges |-> Calls \cup {E(3, 4, "HANDLES_ROUTE"), E(3, 5, "STEP_IN_PROCESS"),
                               E(2, 5, "STEP_IN_PROCESS"), Member}]
Impls == [nodes |-> MCNodes,
          edges |-> {E(1, 2, "IMPLEMENTS"), E(2, 3, "IMPLEMENTS"), E(3, 1, "IMPLEMENTS"),
                     Member}]
\* A trait and one in it, in the trait's case or another, and what implements that.
Scoped(name) == [nodes |-> {N(1, "Parser", "Trait", "src", 0), N(2, name, "Trait", "src", 0),
                            N(3, "main", "Struct", "src", 0)},
                 edges |-> {E(3, 2, "IMPLEMENTS")}]
MCGraphs == AllCalls \cup {Rich, Impls, Scoped("Parser::Next"), Scoped("parser::Next"), EmptyGraph}
MCCommits == {EmptyGraph, Rich}

MCMatches == [p \in {"pars", "main", "none"} |->
               CASE p = "pars" -> {"Parser", "parse", "/parse", "Parser::Next", "parser::Next"}
                 [] p = "main" -> {"main"}
                 [] OTHER -> {}]
MCContaining == [p \in {"pars", "main", "none"} |->
                  CASE p = "pars" -> {"parse", "/parse", "parser::Next"}
                    [] p = "main" -> {"main"}
                    [] OTHER -> {}]
MCExact == [p \in {"pars", "main", "none"} |-> IF p = "main" THEN {"main"} ELSE {}]
MCNames == {"Parser", "parse", "main", "/parse", "flow", "Parser::Next", "parser::Next"}
MCLength == [n \in MCNames |->
               CASE n \in {"Parser::Next", "parser::Next"} -> 12 [] n = "Parser" -> 6
                 [] n = "parse" -> 5 [] n = "/parse" -> 6 [] OTHER -> 4]
MCLiked == [t \in MCNames |-> IF t = "Parser" THEN {"Parser::Next", "parser::Next"} ELSE {}]
MCPrefixed == [t \in MCNames |-> IF t = "Parser" THEN {"Parser::Next"} ELSE {}]
MCFindLimit == [by \in {"cli", "mcp"}, tool \in {"symbol", "call_chain", "blast_radius"} |->
                  IF by = "mcp" /\ tool # "symbol" THEN 1
                  ELSE IF tool = "call_chain" THEN 2 ELSE 3]

R(tool, text, opts) == [tool |-> tool, text |-> text, opts |-> opts]
Msg(framing, id, method, r) ==
    [framing |-> framing, id |-> id, method |-> method,
     tool |-> r.tool, text |-> r.text, opts |-> r.opts]
NoCall == R("", "", {})

MCRequests == {R("symbol", "pars", {}), R("symbol", "pars", {"callers", "members"}),
    R("symbol", "main", {}), R("call_chain", "pars", {}), R("call_chain", "main", {}),
    R("blast_radius", "pars", {}), R("blast_radius", "main", {}), R("stats", "", {}),
    R("dead_code", "", {}), R("dead_code", "", {"include_all"}), R("hotspots", "", {}),
    R("search", "pars", {}), R("routes", "", {}), R("processes", "", {}),
    R("query", "", {}), R("query", "", {"write"})}

MCMessages == {Msg("line", 1, "initialize", NoCall), Msg("line", 0, "notifications/initialized", NoCall),
    Msg("line", 0, "notifications/cancelled", NoCall), Msg("other", 2, "ping", NoCall),
    Msg("broken", 3, "ping", NoCall), Msg("header", 4, "ping", NoCall),
    Msg("line", 5, "tools/call", R("call_chain", "pars", {})),
    Msg("line", 6, "tools/call", R("blast_radius", "none", {})),
    Msg("line", 7, "tools/call", R("symbol", "pars", {"callers", "callees"})),
    Msg("header", 8, "tools/call", R("stats", "", {})),
    Msg("line", 9, "tools/call", R("unknown", "", {})),
    Msg("line", 10, "tools/call", R("query", "", {"write"}))}

MCInit == Init /\ (server = "up" => graph \in {EmptyGraph, Rich, Impls})
MCSpec == MCInit /\ [][Next]_vars /\ Fairness
==============================================================================
