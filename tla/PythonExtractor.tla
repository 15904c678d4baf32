--------------------------- MODULE PythonExtractor ---------------------------
(***************************************************************************)
(* ast-graph-parse/src/lang/python.rs.  The nodes are functions, classes,   *)
(* both kinds of import and calls; "route" is a definition whose decorator  *)
(* declares a route.  It and "other" ones, blocks among them, are only      *)
(* walked through.                                                          *)
(***************************************************************************)
EXTENDS SourceFile

PyNodes == {"function", "class", "import", "from", "call", "route", "other"}

\* walk_python does not enter functions.
PyWalked(rows, r) == AroundOfKind(rows, r, {"function"}) = {}

PySymbols(rows) ==
    {r \in DOMAIN rows : rows[r].node \in {"function", "class", "import", "from"} /\
                         PyWalked(rows, r)}

\* The class whose body the walk is in, 0 for the file.
PyClass(rows, r) == Innermost(rows, r, {"class"})

\* Methods are qualified with the class.
PyName(rows, r) ==
    IF rows[r].node = "function" /\ PyClass(rows, r) # 0
    THEN Dotted(<<Last(rows[PyClass(rows, r)].name.path), Last(rows[r].name.path)>>)
    ELSE rows[r].name

PyKind(rows, r) ==
    CASE rows[r].node = "class" -> "Class"
      [] rows[r].node \in {"import", "from"} -> "Import"
      [] rows[r].node = "function" /\ PyClass(rows, r) = 0 -> "Function"
      [] rows[r].node = "function" /\ PyClass(rows, r) # 0 ->
             IF rows[r].name = Simple("__init__") THEN "Constructor" ELSE "Method"

PyId(file, rows, r) == Id(file, PyName(rows, r), PyKind(rows, r), r - 1)

PyParent(file, rows, r) ==
    IF PyClass(rows, r) = 0 THEN FileId(file, "py") ELSE PyId(file, rows, PyClass(rows, r))

\* The function in whose body a call is found: the outermost one, nested
\* functions and classes are only searched for calls.
PyCaller(rows, r) == Outermost(rows, r, {"function"})

PyCallTarget(rows, r) ==
    LET class == PyClass(rows, PyCaller(rows, r))
    IN IF class = 0 THEN rows[r].name ELSE qualify_member_call(rows[r].name, rows[class].name)

\* The raw edges that come from line r: a class Extends each of its arguments,
\* an import starts at the class or file it is in and has its own text for a
\* target.
PyEdges(file, rows, r) ==
    CASE rows[r].node = "class" /\ PyWalked(rows, r) ->
             EdgesTo(PyId(file, rows, r), "Extends", rows[r].bases, r)
      [] rows[r].node \in {"import", "from"} /\ PyWalked(rows, r) ->
             <<[Edge(PyParent(file, rows, r), "Imports", rows[r].name, r - 1)
                   EXCEPT !.path = IF rows[r].node = "from" THEN rows[r].module ELSE NoPath]>>
      [] rows[r].node = "call" /\ PyCaller(rows, r) # 0 ->
             <<Edge(PyId(file, rows, PyCaller(rows, r)), "Calls", PyCallTarget(rows, r), r - 1)>>
      [] OTHER -> <<>>

ExtractPython(file, rows) ==
    Extracted(file, "py", "python", [r \in PySymbols(rows) |-> PyId(file, rows, r)],
              [r \in PySymbols(rows) |-> PyParent(file, rows, r)],
              [r \in DOMAIN rows |-> PyEdges(file, rows, r)])
=============================================================================
