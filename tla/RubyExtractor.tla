---------------------------- MODULE RubyExtractor ----------------------------
(***************************************************************************)
(* ast-graph-parse/src/lang/ruby.rs and ruby_rails.rs.  "singleton" is a    *)
(* def on an object, "eigen" a class << object, with the object as a base;  *)
(* "ivar" assigns to @x or @@x.  In the body of a class the calls that      *)
(* Rails knows are an "attr", an "association", a "generated" method (of    *)
(* scope, delegate to:, or enum), a "mixin", a "callback" or a "validation".*)
(* Visibility is left out.                                                  *)
(***************************************************************************)
EXTENDS RailsRoutes

CONSTANT
    initialize,     \* the segment
    ClassCase       \* names of associations with the classes they mean

RbClasses == {"class", "module"}
RbDefs == {"method", "singleton"}
RailsNodes == {"attr", "association", "generated"}
RbKindOf == [class |-> "Class", module |-> "Module", method |-> "Method", singleton |-> "Method",
             const |-> "Constant", require |-> "Import", routes |-> "Module",
             ivar |-> "Property", attr |-> "Property", association |-> "Property",
             generated |-> "Method"]
RbNodes == DOMAIN RbKindOf \cup RoutesNodes
               \cup {"eigen", "mixin", "callback", "validation", "call", "other"}

\* What stands right in the file or in the body of a class or module that does.
RbWalked(rows, r) == \A k \in Around(rows, r) \ {0} : rows[k].node \in RbClasses

\* Of `class << object` in a class only the methods are looked at.
RbInEigen(rows, r) ==
    /\ rows[r].node = "method" /\ rows[r].up # 0 /\ rows[rows[r].up].node = "eigen"
    /\ rows[rows[r].up].up # 0 /\ RbWalked(rows, rows[r].up)

\* What a call that Rails knows adds to the class.
RailsDefined(rows) ==
    {r \in DOMAIN rows :
        rows[r].node \in RailsNodes /\ rows[r].up # 0 /\ RbWalked(rows, r)}

RbDefined(rows) ==
    {r \in DOMAIN rows :
        \/ rows[r].node \in RbClasses \cup RbDefs \cup {"const", "require"} /\ RbWalked(rows, r)
        \/ rows[r].node = "routes" /\ rows[r].up = 0
        \/ r \in RailsDefined(rows)
        \/ RbInEigen(rows, r)}

\* The class or module whose body the walk is in, 0 for the file.
RbClass(rows, r) == Innermost(rows, r, RbClasses)

\* The def whose body a line is searched in, 0 if there is none.
RbCaller(rows, r) ==
    LET outermost == Outermost(rows, r, RbDefs) IN IF outermost \in RbDefined(rows) THEN outermost ELSE 0

\* Assignments in the methods of a class, but not of its eigenclass.
RbAssigned(rows, class) ==
    {r \in DOMAIN rows : /\ rows[r].node = "ivar" /\ RbCaller(rows, r) # 0
                         /\ rows[RbCaller(rows, r)].node = "method"
                         /\ class # 0 /\ rows[RbCaller(rows, r)].up = class}
RbVariables(rows) ==
    {r \in DOMAIN rows :
        LET assigned == RbAssigned(rows, RbClass(rows, r))
        IN r \in assigned /\ \A k \in assigned : rows[k].name = rows[r].name => r <= k}

RbSymbols(rows) == RbDefined(rows) \cup RbVariables(rows)

\* The container_name in a def, a sequence of at most one name.
RbContainer(rows, r) ==
    LET object == rows[rows[r].up].bases
    IN CASE RbClass(rows, r) = 0 -> <<>>
         [] RbInEigen(rows, r) /\ object # <<Simple("self")>> -> object
         [] OTHER -> <<rows[RbClass(rows, r)].name>>

RbName(rows, r) ==
    LET container == RbContainer(rows, r)
        In(names, sep) == IF names = <<>> THEN rows[r].name
                          ELSE [sep |-> sep, path |-> Head(names).path \o rows[r].name.path]
    IN CASE rows[r].node \in RbClasses \cup {"require"} -> rows[r].name
         [] rows[r].node = "routes" -> Simple("Routes")
         [] rows[r].node = "const" -> In(container, "::")
         [] rows[r].node = "singleton" ->
                In(IF rows[r].bases = <<Simple("self")>> THEN container ELSE rows[r].bases, ".")
         [] OTHER -> In(container, ".")

RbKind(rows, r) ==
    CASE rows[r].node = "method" /\ RbClass(rows, r) = 0 -> "Function"
      [] rows[r].node = "method" /\ RbClass(rows, r) # 0 /\ rows[r].name = Simple(initialize) -> "Constructor"
      [] OTHER -> RbKindOf[rows[r].node]

RbId(file, rows, r) == Id(file, RbName(rows, r), RbKind(rows, r), r - 1)

RbParent(file, rows, r) ==
    IF RbClass(rows, r) = 0 THEN FileId(file, "rb") ELSE RbId(file, rows, RbClass(rows, r))

RbCallTarget(rows, r) ==
    LET container == RbContainer(rows, RbCaller(rows, r))
        path == rows[r].name.path
    IN IF Len(path) = 2 /\ Head(path) = "self" /\ container # <<>>
       THEN Dotted(Head(container).path \o Tail(path)) ELSE rows[r].name

\* recognize_rails_pattern: the edges of a call in the body of a class.
RailsEdges(file, rows, r) ==
    LET class == RbId(file, rows, RbClass(rows, r))
        member == <<Dotted(rows[RbClass(rows, r)].name.path \o rows[r].name.path)>>
    IN CASE rows[r].node = "association" ->
                EdgesTo(RbId(file, rows, r), "References",
                        IF rows[r].bases # <<>> THEN rows[r].bases
                        ELSE <<Simple(ClassCase[Head(rows[r].name.path)])>>, r)
         [] rows[r].node = "mixin" -> EdgesTo(class, "Implements", rows[r].traits, r)
         [] rows[r].node = "callback" -> EdgesTo(class, "Calls", member, r)
         [] rows[r].node = "validation" -> EdgesTo(class, "References", member, r)

RbEdges(file, rows, r) ==
    CASE rows[r].node = "class" /\ RbWalked(rows, r) ->
             EdgesTo(RbId(file, rows, r), "Extends", rows[r].bases, r)
      [] rows[r].node = "require" /\ RbWalked(rows, r) ->
             EdgesTo(RbParent(file, rows, r), "Imports", <<rows[r].name>>, r)
      [] rows[r].node = "call" /\ RbCaller(rows, r) # 0 ->
             EdgesTo(RbId(file, rows, RbCaller(rows, r)), "Calls", <<RbCallTarget(rows, r)>>, r)
      [] rows[r].node \in RoutesNodes ->
             EdgesTo(RbId(file, rows, Outermost(rows, r, {"routes"})), "Calls",
                     RoutedActions(rows, r), r)
      [] /\ rows[r].node \in {"association", "mixin", "callback", "validation"}
         /\ rows[r].up # 0 /\ RbWalked(rows, r) -> RailsEdges(file, rows, r)
      [] OTHER -> <<>>

ExtractRuby(file, rows) ==
    Extracted(file, "rb", "ruby", [r \in RbSymbols(rows) |-> RbId(file, rows, r)],
              [r \in RbSymbols(rows) |-> RbParent(file, rows, r)],
              [r \in DOMAIN rows |-> RbEdges(file, rows, r)])
=============================================================================
