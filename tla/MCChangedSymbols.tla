-------------------------- MODULE MCChangedSymbols --------------------------
(* A class with a method in one file, a function in another whose path ends  *)
(* like the first one's, so that a hunk of the first file matches both.      *)
EXTENDS ChangedSymbols

L(symbols, id) == [in |-> symbols, id |-> id, plus |-> FALSE]

MCFirst == [f \in {"lib.py", "api/lib.py"} |->
    IF f = "lib.py"
    THEN <<L({"Class"}, 1), L({"Class", "method"}, 2), L({"Class", "method"}, 3)>>
    ELSE <<L({"main"}, 1)>>]

MCWithin == [p \in {"lib.py", "api/lib.py", "stray"} |->
    CASE p = "lib.py" -> {"lib.py", "api/lib.py"}
      [] p = "api/lib.py" -> {"api/lib.py"}
      [] OTHER -> {}]

MCCallers == [s \in {"Class", "method", "main"} |->
    IF s = "method" THEN {"main"} ELSE {}]
=============================================================================
