---------------------------- MODULE MCFalkorStore ----------------------------
(*************************************************************************)
(* Two clients and two versions of a project: in `Old` a class with a    *)
(* member in file lib, which file src calls; in `New` the member is gone *)
(* and the call of it dangles.                                           *)
(*************************************************************************)
EXTENDS FalkorStore

CONSTANTS src, lib, none

MCFileOf == <<lib, lib, src>>
MCLineOf == <<1, 2, 1>>

Edge(a, kind, b) == [src |-> a, kind |-> kind, dst |-> b, line |-> a]
Old == [nodes |-> {1, 2, 3}, text |-> <<"a", "a", "a">>, parent |-> <<none, 1, none>>,
        edges |-> {Edge(3, "CALLS", 2)}, hashes |-> (lib :> "a") @@ (src :> "a")]
New == [nodes |-> {1, 3}, text |-> <<"b", "a", "a">>, parent |-> <<none, none, none>>,
        edges |-> {Edge(3, "CALLS", 1), Edge(3, "CALLS", 2)},
        hashes |-> (lib :> "b") @@ (src :> "a")]
MCGraphs == {Old, New}
MCKinds == <<"CONTAINS", "CALLS">>
MCIndexes == <<"id">>

\* An earlier scan may have saved `Old`.
Scanned == [nodes |-> SymbolRows(Old), edges |-> EdgeRows(Old), hashes |-> Old.hashes,
            indexes |-> {"id"}]
MCInit == /\ db \in {EmptyStore, Scanned}
          /\ client = [c \in Clients |-> Idle]
          /\ removed = FALSE /\ ops = 0
MCSpec == MCInit /\ [][Next]_vars /\ \A c \in Clients : WF_vars(Step(c))
==============================================================================
