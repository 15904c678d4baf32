----------------------------- MODULE RailsRoutes -----------------------------
(***************************************************************************)
(* ast-graph-parse/src/lang/ruby_rails_routes.rs: what stands in a block    *)
(* `routes.draw do`, the "routes" node.  "resources" and "resource" have    *)
(* rows below them for their arguments only:, except: and controller:, with *)
(* the actions as bases; "scope" is a namespace too and "member" a          *)
(* collection too.  A "verb", like get or root, has a controller and an     *)
(* action in its name, a "symbol" is one with an action only.               *)
(***************************************************************************)
EXTENDS SourceFile

CONSTANT
    Controllers     \* the controllers of resources: their plurals, camelized

RoutesNodes == {"routes", "resources", "resource", "only", "except", "controller", "scope",
                "member", "verb", "symbol"}

RoutesActions == <<"index", "show", "new", "create", "edit", "update", "destroy">>

\* The "routes" node whose block walk_routes_body has reached line r in, 0 if
\* there is none.
RoutesOf(rows, r) ==
    LET of[k \in 1..Len(rows)] ==
          LET up == rows[k].up
          IN CASE up = 0 -> 0
               [] up # 0 /\ rows[up].node = "routes" -> IF rows[up].up = 0 THEN up ELSE 0
               [] up # 0 /\ rows[up].node \in {"resources", "resource", "scope"} -> of[up]
               [] OTHER -> 0
    IN of[r]

Arguments(rows, r, node) == {k \in DOMAIN rows : rows[k].up = r /\ rows[k].node = node}

\* The last argument of a name is the one that counts.
ResourceController(rows, r) ==
    LET given == Arguments(rows, r, "controller")
    IN IF given = {} THEN Simple(Controllers[Head(rows[r].name.path)]) ELSE rows[Max(given)].name

ResourceActions(rows, r) ==
    LET listed(node) == {Head(rows[Max(Arguments(rows, r, node))].bases[n].path) :
                            n \in DOMAIN rows[Max(Arguments(rows, r, node))].bases}
        all == IF rows[r].node = "resources" THEN RoutesActions ELSE Tail(RoutesActions)
        routed(a) == /\ Arguments(rows, r, "only") # {} => a \in listed("only")
                     /\ Arguments(rows, r, "except") # {} => a \notin listed("except")
    IN FlattenSeq([n \in DOMAIN all |-> IF routed(all[n]) THEN <<all[n]>> ELSE <<>>])

\* current_resource at line r, 0 if there is none: namespaces keep it.
CurrentResource(rows, r) == Innermost(rows, r, {"resources", "resource"})

Action(controller, a) == Dotted(controller.path \o <<a>>)

\* The actions that line r routes to.  In a member block a verb with a symbol
\* routes to the resource around it, elsewhere to nothing.
RoutedActions(rows, r) ==
    LET inMember == rows[r].up # 0 /\ rows[rows[r].up].node = "member"
        walked == RoutesOf(rows, IF inMember THEN rows[r].up ELSE r) # 0
                  /\ (inMember => CurrentResource(rows, r) # 0)
    IN CASE walked /\ ~inMember /\ rows[r].node \in {"resources", "resource"} ->
                LET actions == ResourceActions(rows, r)
                IN [n \in DOMAIN actions |-> Action(ResourceController(rows, r), actions[n])]
         [] walked /\ rows[r].node = "verb" -> <<rows[r].name>>
         [] walked /\ inMember /\ rows[r].node = "symbol" ->
                <<Action(ResourceController(rows, CurrentResource(rows, r)), Head(rows[r].name.path))>>
         [] OTHER -> <<>>
=============================================================================
