----------------------------- MODULE GoExtractor -----------------------------
(***************************************************************************)
(* ast-graph-parse/src/lang/go.rs.  "spec" is a method of an interface, and *)
(* "type" any type that is neither a struct nor an interface.  The bases of *)
(* a method are the type of its receiver and, if that is named, its         *)
(* variable; those of a field its type, if it starts with a capital; those  *)
(* of a "closure" its parameters.                                           *)
(***************************************************************************)
EXTENDS SourceFile

GoKindOf == [package |-> "Module", import |-> "Import", function |-> "Function",
             method |-> "Method", struct |-> "Struct", interface |-> "Interface",
             type |-> "TypeAlias", const |-> "Constant"]
GoNodes == DOMAIN GoKindOf \cup {"field", "spec", "closure", "call", "route", "other"}

\* walk_go looks at the children of the file only.
GoItems(rows) == {r \in DOMAIN rows : rows[r].node \in DOMAIN GoKindOf /\ rows[r].up = 0}

GoMembers(rows) ==
    {r \in DOMAIN rows : /\ rows[r].up \in GoItems(rows)
                         /\ <<rows[rows[r].up].node, rows[r].node>> \in
                                {<<"struct", "field">>, <<"interface", "spec">>}}

GoSymbols(rows) == GoItems(rows) \cup GoMembers(rows)

\* Methods are qualified with their receiver, members with their type.
GoName(rows, r) ==
    CASE r \in GoMembers(rows) -> Dotted(rows[rows[r].up].name.path \o rows[r].name.path)
      [] rows[r].node = "method" -> Dotted(Head(rows[r].bases).path \o rows[r].name.path)
      [] OTHER -> rows[r].name

GoKind(rows, r) ==
    CASE rows[r].node = "field" -> "Field"
      [] rows[r].node = "spec" -> "Method"
      [] OTHER -> GoKindOf[rows[r].node]

GoId(file, rows, r) == Id(file, GoName(rows, r), GoKind(rows, r), r - 1)

\* A method belongs to the file, not to the type of its receiver.
GoParent(file, rows, r) ==
    IF r \in GoMembers(rows) THEN GoId(file, rows, rows[r].up) ELSE FileId(file, "go")

GoCaller(rows, r) == Outermost(rows, r, {"function", "method"})

\* qualify_go_self_call.
GoCallTarget(rows, r) ==
    LET names == rows[GoCaller(rows, r)].bases
        target == rows[r].name
    IN IF Len(names) = 2 /\ Len(target.path) = 2 /\ Head(target.path) = Head(names[2].path)
       THEN Dotted(names[1].path \o Tail(target.path)) ELSE target

GoEdges(file, rows, r) ==
    CASE rows[r].node = "import" -> EdgesTo(FileId(file, "go"), "Imports", <<rows[r].name>>, r)
      [] rows[r].node = "field" /\ r \in GoMembers(rows) ->
             EdgesTo(GoId(file, rows, r), "References", rows[r].bases, r)
      [] rows[r].node = "call" /\ GoCaller(rows, r) # 0 ->
             EdgesTo(GoId(file, rows, GoCaller(rows, r)), "Calls", <<GoCallTarget(rows, r)>>, r)
      [] OTHER -> <<>>

ExtractGo(file, rows) ==
    Extracted(file, "go", "go", [r \in GoSymbols(rows) |-> GoId(file, rows, r)],
              [r \in GoSymbols(rows) |-> GoParent(file, rows, r)],
              [r \in DOMAIN rows |-> GoEdges(file, rows, r)])
=============================================================================
