--------------------------- MODULE CSharpExtractor ---------------------------
(***************************************************************************)
(* ast-graph-parse/src/lang/csharp.rs.  A "namespace" is one with braces, a *)
(* "filescoped" one has nothing in it; "using" is an import and "new"       *)
(* creates an object.  Only classes have bases; the traits are those that   *)
(* start with an I and another capital.                                     *)
(***************************************************************************)
EXTENDS SourceFile

CsTypes == {"class", "struct", "interface", "record"}
CsNamespaces == {"namespace", "filescoped"}
CsKindOf == [class |-> "Class", struct |-> "Struct", interface |-> "Interface",
             record |-> "Record", enum |-> "Enum", namespace |-> "Namespace",
             filescoped |-> "Namespace", using |-> "Import", method |-> "Method",
             constructor |-> "Constructor", property |-> "Property"]
CsNodes == DOMAIN CsKindOf \cup {"call", "new", "route", "other"}

\* walk_csharp goes through types, namespaces and what it does not know.
CsWalked(rows, r) ==
    AroundOfKind(rows, r, {"enum", "using", "method", "constructor", "property"}) = {}

CsSymbols(rows) == {r \in DOMAIN rows : rows[r].node \in DOMAIN CsKindOf /\ CsWalked(rows, r)}

\* The type or namespace the walk is in, 0 for the file.
CsScope(rows, r) == Innermost(rows, r, CsTypes \cup CsNamespaces)

\* What members are qualified with: a type within no namespace of its own.
CsClass(rows, r) ==
    IF CsScope(rows, r) # 0 /\ rows[CsScope(rows, r)].node \in CsTypes THEN CsScope(rows, r) ELSE 0

CsName(rows, r) ==
    LET class == CsClass(rows, r)
    IN CASE class # 0 /\ rows[r].node = "method" -> Dotted(rows[class].name.path \o rows[r].name.path)
         [] class # 0 /\ rows[r].node = "constructor" -> Dotted(rows[class].name.path \o <<"", "ctor">>)
         [] OTHER -> rows[r].name

CsId(file, rows, r) == Id(file, CsName(rows, r), CsKindOf[rows[r].node], r - 1)

CsParent(file, rows, r) ==
    IF CsScope(rows, r) = 0 THEN FileId(file, "cs") ELSE CsId(file, rows, CsScope(rows, r))

CsCaller(rows, r) ==
    LET outermost == Outermost(rows, r, {"method", "constructor"})
    IN IF outermost \in CsSymbols(rows) THEN outermost ELSE 0

CsCallTarget(rows, r) ==
    LET class == CsClass(rows, CsCaller(rows, r))
    IN IF class = 0 THEN rows[r].name ELSE qualify_member_call(rows[r].name, rows[class].name)

\* A using's edge has its own node for a target.
CsOnce(file, rows, r) ==
    CASE rows[r].node = "class" /\ CsWalked(rows, r) -> Inherits(CsId(file, rows, r), rows[r], r)
      [] rows[r].node = "using" /\ CsWalked(rows, r) ->
             <<[Edge(CsParent(file, rows, r), "Imports", rows[r].name, r - 1)
                   EXCEPT !.id = CsId(file, rows, r)]>>
      [] rows[r].node = "call" /\ CsCaller(rows, r) # 0 ->
             EdgesTo(CsId(file, rows, CsCaller(rows, r)), "Calls", <<CsCallTarget(rows, r)>>, r)
      [] rows[r].node = "new" /\ CsCaller(rows, r) # 0 ->
             EdgesTo(CsId(file, rows, CsCaller(rows, r)), "References", <<rows[r].name>>, r)
      [] OTHER -> <<>>

\* extract_cs_namespace walks the body, and then the namespace with the body
\* in it: each namespace around a line doubles its edges, and its symbols too,
\* which have the same ids.
CsEdges(file, rows, r) ==
    LET edges[k \in 0..Len(rows)] ==
          CASE k = 0 -> CsOnce(file, rows, r)
            [] k # 0 /\ rows[k].node = "namespace" -> edges[rows[k].up] \o edges[rows[k].up]
            [] OTHER -> edges[rows[k].up]
    IN edges[rows[r].up]

ExtractCSharp(file, rows) ==
    Extracted(file, "cs", "csharp", [r \in CsSymbols(rows) |-> CsId(file, rows, r)],
              [r \in CsSymbols(rows) |-> CsParent(file, rows, r)],
              [r \in DOMAIN rows |-> CsEdges(file, rows, r)])
=============================================================================
