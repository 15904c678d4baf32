---------------------------- MODULE PhpExtractor ----------------------------
(***************************************************************************)
(* ast-graph-parse/src/lang/php.rs.  A "namespace" is one with braces, a    *)
(* "filescoped" one has nothing in it, a "block" is a statement in braces;  *)
(* "mixin" is a use of traits in a class, "case" one of an enum, "callable" *)
(* a first-class callable like f(...).  A call has dots for -> and ::; it   *)
(* is "whole" if it is all of an arrow function's body, where it is missed. *)
(***************************************************************************)
EXTENDS SourceFile

PhpClasses == {"class", "interface", "trait", "enum"}
PhpItemOf == [class |-> "Class", interface |-> "Interface", trait |-> "Trait", enum |-> "Enum",
              function |-> "Function", const |-> "Constant", use |-> "Import",
              namespace |-> "Namespace", filescoped |-> "Namespace"]
PhpMemberOf == [method |-> "Method", property |-> "Property", const |-> "Constant",
                case |-> "EnumVariant"]
PhpInlineOf == [arrow |-> "Function", anonymous |-> "Class"]
PhpNodes == DOMAIN PhpItemOf \cup DOMAIN PhpMemberOf \cup DOMAIN PhpInlineOf
                \cup {"block", "mixin", "call", "whole", "callable", "other"}

\* walk_top enters braces only; another statement is searched for calls.
PhpWalked(rows, r) == \A k \in Around(rows, r) \ {0} : rows[k].node \in {"namespace", "block"}

PhpItems(rows) == {r \in DOMAIN rows : rows[r].node \in DOMAIN PhpItemOf /\ PhpWalked(rows, r)}

\* The namespace of what stands at line r, a sequence of at most one name: the
\* last one without braces before it in the same block, or that of the block.
PhpNamespace(rows, r) ==
    LET namespace[k \in 1..Len(rows)] ==
          LET up == rows[k].up
              before == {i \in 1..(k - 1) : rows[i].node = "filescoped" /\ rows[i].up = up}
          IN CASE before # {} -> <<rows[Max(before)].name>>
               [] before = {} /\ up = 0 -> <<>>
               [] before = {} /\ up # 0 /\ rows[up].node = "namespace" -> <<rows[up].name>>
               [] OTHER -> namespace[up]
    IN namespace[r]

\* extract_calls: as which caller in which class what is in line r is searched,
\* in the order of the searches; 0 is the file, or no class.  An anonymous class
\* is searched as a class, and then once more as a part of the code around it.
PhpSearches(rows, r) ==
    LET searches[k \in 0..Len(rows)] ==
          IF k = 0 THEN <<[caller |-> 0, class |-> 0]>>
          ELSE LET outer == searches[rows[k].up]
                   own == [caller |-> k, class |-> rows[k].up]
               IN CASE rows[k].node = "arrow" ->
                           [n \in DOMAIN outer |-> [caller |-> k, class |-> outer[n].class]]
                    [] rows[k].node = "method" /\ rows[rows[k].up].node = "anonymous" ->
                           FlattenSeq([n \in DOMAIN outer |-> <<own, outer[n]>>])
                    [] rows[k].node = "method" /\ rows[k].up \in PhpItems(rows) -> <<own>>
                    [] rows[k].node = "function" /\ k \in PhpItems(rows) ->
                           <<[caller |-> k, class |-> 0]>>
                    [] rows[k].node \in PhpClasses /\ k \in PhpItems(rows) -> <<>>
                    [] OTHER -> outer
    IN searches[r]

\* Arrow functions and anonymous classes in what is searched.
PhpInline(rows) ==
    {r \in DOMAIN rows :
        rows[r].node \in DOMAIN PhpInlineOf /\ PhpSearches(rows, rows[r].up) # <<>>}

\* An enum has cases and methods, other classes all but cases.
PhpIsMember(rows, r, nodes) ==
    /\ rows[r].node \in nodes /\ rows[r].up # 0
    /\ \/ rows[r].up \in PhpItems(rows) /\ rows[rows[r].up].node \in PhpClasses
       \/ rows[r].up \in PhpInline(rows) /\ rows[rows[r].up].node = "anonymous"
    /\ IF rows[rows[r].up].node = "enum" THEN rows[r].node \in {"case", "method"}
       ELSE rows[r].node # "case"
PhpMembers(rows) == {r \in DOMAIN rows : PhpIsMember(rows, r, DOMAIN PhpMemberOf)}

PhpSymbols(rows) == PhpItems(rows) \cup PhpInline(rows) \cup PhpMembers(rows)

\* qualify_with_ns, and the names made up for what has none.
PhpOwnName(file, rows, r) ==
    LET namespace == PhpNamespace(rows, r)
        InNamespace(sep) ==
            IF namespace = <<>> THEN rows[r].name
            ELSE IF sep = "\\" THEN Simple(Head(namespace[1].path) \o "\\" \o Head(rows[r].name.path))
            ELSE [sep |-> sep, path |-> namespace[1].path \o rows[r].name.path]
    IN CASE rows[r].node = "arrow" -> Simple("__arrow_" \o file \o "_L" \o ToString(r - 1))
         [] rows[r].node = "anonymous" -> Simple("__AnonClass_" \o file \o "_L" \o ToString(r - 1))
         [] rows[r].node \in PhpClasses \cup {"function"} -> InNamespace("\\")
         [] rows[r].node = "const" -> InNamespace("::")
         [] OTHER -> rows[r].name

PhpName(file, rows, r) ==
    IF r \in PhpMembers(rows)
    THEN [sep |-> IF rows[r].node = "const" THEN "::" ELSE ".",
          path |-> PhpOwnName(file, rows, rows[r].up).path \o rows[r].name.path]
    ELSE PhpOwnName(file, rows, r)

PhpKind(rows, r) ==
    CASE r \in PhpInline(rows) -> PhpInlineOf[rows[r].node]
      [] r \in PhpItems(rows) -> PhpItemOf[rows[r].node]
      [] OTHER -> IF rows[r].node = "method" /\ rows[r].name = Simple("__construct")
                  THEN "Constructor" ELSE PhpMemberOf[rows[r].node]

\* r = 0 is the file.
PhpId(file, rows, r) ==
    IF r = 0 THEN FileId(file, "php") ELSE Id(file, PhpName(file, rows, r), PhpKind(rows, r), r - 1)

\* Of two symbols with one id the last one stays.
PhpParent(file, rows, r) ==
    CASE r \in PhpMembers(rows) -> PhpId(file, rows, rows[r].up)
      [] r \in PhpInline(rows) -> PhpId(file, rows, Last(PhpSearches(rows, rows[r].up)).caller)
      [] OTHER -> FileId(file, "php")

PhpCallTarget(file, rows, r, class) ==
    LET path == rows[r].name.path
    IN IF class # 0 /\ Len(path) = 2 /\ Head(path) \in {"$this", "self", "static"}
       THEN Dotted(PhpOwnName(file, rows, class).path \o Tail(path)) ELSE rows[r].name

PhpEdges(file, rows, r) ==
    CASE rows[r].node \in PhpClasses \ {"enum"} /\ r \in PhpItems(rows) ->
             Inherits(PhpId(file, rows, r), rows[r], r)
      [] rows[r].node = "anonymous" ->
             FlattenSeq([n \in DOMAIN PhpSearches(rows, rows[r].up) |->
                            Inherits(PhpId(file, rows, r), rows[r], r)])
      [] PhpIsMember(rows, r, {"mixin"}) ->
             EdgesTo(PhpId(file, rows, rows[r].up), "Implements", rows[r].traits, r)
      [] rows[r].node = "use" /\ r \in PhpItems(rows) ->
             EdgesTo(FileId(file, "php"), "Imports", <<rows[r].name>>, r)
      [] rows[r].node \in {"call", "callable"} ->
             LET searches == PhpSearches(rows, rows[r].up)
             IN [n \in DOMAIN searches |->
                   Edge(PhpId(file, rows, searches[n].caller),
                        IF rows[r].node = "call" THEN "Calls" ELSE "References",
                        PhpCallTarget(file, rows, r, searches[n].class), r - 1)]
      [] OTHER -> <<>>

ExtractPhp(file, rows) ==
    Extracted(file, "php", "php", [r \in PhpSymbols(rows) |-> PhpId(file, rows, r)],
              [r \in PhpSymbols(rows) |-> PhpParent(file, rows, r)],
              [r \in DOMAIN rows |-> PhpEdges(file, rows, r)])
=============================================================================
