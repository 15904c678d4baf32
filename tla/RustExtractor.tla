---------------------------- MODULE RustExtractor ----------------------------
(***************************************************************************)
(* ast-graph-parse/src/lang/rust.rs.  Functions, types, impls, modules, uses*)
(* and fields; a "route" is an attribute or a call that declares one.  It   *)
(* and "other" nodes are only walked through.                               *)
(***************************************************************************)
EXTENDS SourceFile

RsKindOf == [fn |-> "Function", struct |-> "Struct", enum |-> "Enum", trait |-> "Trait",
             mod |-> "Module", use |-> "Import", const |-> "Constant", static |-> "Static",
             type |-> "TypeAlias"]
RsNodes == DOMAIN RsKindOf \cup {"impl", "field", "call", "route", "other"}

\* walk_node enters traits, modules and what it does not know.
RsWalked(rows, r) ==
    AroundOfKind(rows, r, {"fn", "struct", "enum", "impl", "use", "const", "static", "type"}) = {}

RsItems(rows) == {r \in DOMAIN rows : rows[r].node \in DOMAIN RsKindOf /\ RsWalked(rows, r)}

\* What stands in the body of something the walk has reached: functions of an
\* impl, which are methods, and fields of a struct.
RsInside(rows, node, within) ==
    {r \in DOMAIN rows : /\ rows[r].node = node
                         /\ rows[r].up # 0 /\ rows[rows[r].up].node = within
                         /\ RsWalked(rows, rows[r].up)}
RsMethods(rows) == RsInside(rows, "fn", "impl")
RsFields(rows) == RsInside(rows, "field", "struct")

RsSymbols(rows) == RsItems(rows) \cup RsMethods(rows) \cup RsFields(rows)

RsName(rows, r) ==
    IF r \in RsMethods(rows)
    THEN [sep |-> "::", path |-> rows[rows[r].up].name.path \o rows[r].name.path]
    ELSE rows[r].name

RsKind(rows, r) ==
    IF r \in RsMethods(rows) THEN "Method"
    ELSE IF r \in RsFields(rows) THEN "Field" ELSE RsKindOf[rows[r].node]

\* The id of a field has the struct's id in it too, which its line stands for.
RsId(file, rows, r) == Id(file, RsName(rows, r), RsKind(rows, r), r - 1)

\* The trait, module or file the walk is in.  Methods belong to it, not to
\* their type.
RsParent(file, rows, r) ==
    LET around == Innermost(rows, r, {"trait", "mod"})
    IN IF r \in RsFields(rows) THEN RsId(file, rows, rows[r].up)
       ELSE IF around = 0 THEN FileId(file, "rs") ELSE RsId(file, rows, around)

\* The function or method in which a call is found, 0 if it is no symbol.
RsCaller(rows, r) ==
    LET functions == AroundOfKind(rows, r, {"fn"}) \cap RsSymbols(rows)
    IN IF functions = {} THEN 0 ELSE Min(functions)

\* An impl of a trait starts at a struct of the type's name on line 0.
RsImplementor(file, name) == Id(file, name, "Struct", 0)

\* Only functions and structs are contained by an edge.
RsEdges(file, rows, r) ==
    CASE rows[r].node \in {"fn", "struct"} /\ r \in RsItems(rows) ->
             <<[Edge(RsParent(file, rows, r), "Contains", rows[r].name, r - 1)
                   EXCEPT !.id = RsId(file, rows, r)]>>
      [] rows[r].node = "impl" /\ RsWalked(rows, r) ->
             EdgesTo(RsImplementor(file, rows[r].name), "Implements", rows[r].traits, r)
      [] rows[r].node = "use" /\ RsWalked(rows, r) ->
             <<Edge(RsParent(file, rows, r), "Imports", rows[r].name, r - 1)>>
      [] r \in RsFields(rows) ->
             EdgesTo(RsId(file, rows, r), "References", rows[r].bases, r)
      [] rows[r].node = "call" /\ RsCaller(rows, r) # 0 ->
             <<Edge(RsId(file, rows, RsCaller(rows, r)), "Calls", rows[r].name, r - 1)>>
      [] OTHER -> <<>>

ExtractRust(file, rows) ==
    Extracted(file, "rs", "rust", [r \in RsSymbols(rows) |-> RsId(file, rows, r)],
              [r \in RsSymbols(rows) |-> RsParent(file, rows, r)],
              [r \in DOMAIN rows |-> RsEdges(file, rows, r)])
=============================================================================
