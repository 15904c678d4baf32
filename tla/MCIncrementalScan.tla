-------------------------- MODULE MCIncrementalScan --------------------------
(***************************************************************************)
(* Two files and a few contents: a function, a method of that name, both in *)
(* one file, and a function that calls the method and itself.               *)
(***************************************************************************)
EXTENDS IncrementalScan, TLC

At(n, l) == [name |-> n, line |-> l]
MCNames == {"f", "K.f", "main"}
MCLastSegment == [n \in MCNames |-> IF n = "K.f" THEN "f" ELSE n]

Function == [defs |-> {At("f", 1)}, calls |-> {}]
Both == [defs |-> {At("K.f", 1), At("f", 2)}, calls |-> {}]
Method == [defs |-> {At("K.f", 1)}, calls |-> {}]
Caller ==
    [defs |-> {At("main", 1)},
     calls |-> {[from |-> At("main", 1), target |-> t] : t \in {"K.f", "main"}}]

MCContents == {Function, Both, Method, Caller}
MCFewContents == {Function, Both, Caller}

FileSymmetry == Permutations(Files)
=============================================================================
