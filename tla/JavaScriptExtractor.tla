------------------------- MODULE JavaScriptExtractor -------------------------
(***************************************************************************)
(* ast-graph-parse/src/lang/javascript.rs, of TypeScript too.  A declaration*)
(* has one declarator: "arrow" if its value is an arrow function, "new",    *)
(* which names its class, or "variable".  Members of a class are "method",  *)
(* "field", or "arrow" again; methods of an object are "method" too.        *)
(*                                                                          *)
(* A "whole" is a call that is all of a declarator's value or of an arrow   *)
(* function's body: `const x = f()`, `const g = () => f()`.                 *)
(***************************************************************************)
EXTENDS SourceFile

CONSTANT constructor    \* the segment

JsKindOf == [function |-> "Function", arrow |-> "Function", class |-> "Class",
             import |-> "Import", interface |-> "Interface", type |-> "TypeAlias",
             enum |-> "Enum", variable |-> "Constant", new |-> "Constant"]
JsNodes == DOMAIN JsKindOf \cup {"method", "field", "call", "whole", "route", "other"}

\* walk_js goes through exports, statements and what it does not know.
JsWalked(rows, r) ==
    AroundOfKind(rows, r, {"function", "arrow", "class", "variable", "new"}) = {}

JsItems(rows) == {r \in DOMAIN rows : rows[r].node \in DOMAIN JsKindOf /\ JsWalked(rows, r)}

\* Only what stands in the body of the class itself.
JsMembers(rows) ==
    {r \in DOMAIN rows : /\ rows[r].node \in {"method", "field", "arrow"}
                         /\ rows[r].up # 0 /\ rows[rows[r].up].node = "class"
                         /\ JsWalked(rows, rows[r].up)}

JsSymbols(rows) == JsItems(rows) \cup JsMembers(rows)

JsName(rows, r) ==
    IF r \in JsMembers(rows) THEN Dotted(rows[rows[r].up].name.path \o rows[r].name.path)
    ELSE rows[r].name

JsKind(rows, r) ==
    CASE r \in JsItems(rows) -> JsKindOf[rows[r].node]
      [] r \in JsMembers(rows) ->
             IF rows[r].name = Simple(constructor) THEN "Constructor"
             ELSE IF rows[r].node = "method" THEN "Method" ELSE "Property"

JsId(file, rows, r) == Id(file, JsName(rows, r), JsKind(rows, r), r - 1)

JsParent(file, rows, r) ==
    IF r \in JsMembers(rows) THEN JsId(file, rows, rows[r].up) ELSE FileId(file, "js")

\* The symbol whose body or value is searched for the call, 0 if there is none.
JsCaller(rows, r) ==
    LET searched == AroundOfKind(rows, r, {"function", "method", "arrow", "variable", "new"})
                        \cap JsSymbols(rows)
    IN IF searched = {} THEN 0 ELSE Min(searched)

JsCallTarget(rows, r) ==
    LET caller == JsCaller(rows, r)
    IN IF caller \in JsMembers(rows)
       THEN qualify_member_call(rows[r].name, rows[rows[caller].up].name) ELSE rows[r].name

\* extract_js_calls looks below the node it is given, so that it misses a call
\* that is the whole of what the caller gives it.
JsFound(rows, r) ==
    /\ rows[r].node \in {"call", "whole"} /\ JsCaller(rows, r) # 0
    /\ rows[r].node = "whole" => rows[r].up # JsCaller(rows, r)

JsEdges(file, rows, r) ==
    CASE rows[r].node = "class" /\ JsWalked(rows, r) ->
             Inherits(JsId(file, rows, r), rows[r], r)
      [] rows[r].node = "import" /\ JsWalked(rows, r) ->
             <<[Edge(FileId(file, "js"), "Imports", Head(rows[r].bases), r - 1)
                   EXCEPT !.path = rows[r].module]>>
      [] rows[r].node = "new" /\ JsWalked(rows, r) ->
             <<Edge(JsId(file, rows, r), "References", Head(rows[r].bases), r - 1)>>
      [] JsFound(rows, r) ->
             <<Edge(JsId(file, rows, JsCaller(rows, r)), "Calls", JsCallTarget(rows, r), r - 1)>>
      [] OTHER -> <<>>

ExtractJavaScript(file, rows) ==
    Extracted(file, "js", "javascript", [r \in JsSymbols(rows) |-> JsId(file, rows, r)],
              [r \in JsSymbols(rows) |-> JsParent(file, rows, r)],
              [r \in DOMAIN rows |-> JsEdges(file, rows, r)])
=============================================================================
