--------------------------- MODULE MCProcessTrace ---------------------------
(***************************************************************************)
(* ProcessTrace on six symbols with every subset of eight calls, among      *)
(* which there are two cycles, a shortcut and a chain longer than MaxDepth; *)
(* all of them together are more steps than MaxSteps.                       *)
(***************************************************************************)
EXTENDS ProcessTrace

CONSTANTS a, b, c, d, e, f, r1, r2

MCCalls == {<<a, b>>, <<a, c>>, <<b, f>>, <<c, d>>, <<d, e>>, <<a, d>>, <<e, b>>, <<f, a>>}
MCCallGraphs == SUBSET MCCalls
MCHandlers ==
    {[s \in Symbols |-> {}], [s \in Symbols |-> IF s = b THEN {r1, r2} ELSE {}]}
=============================================================================
