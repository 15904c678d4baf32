----------------------------- MODULE SourceFile -----------------------------
(***************************************************************************)
(* A source file as the extractors of ast-graph-parse/src/lang see it, and  *)
(* the symbols and raw edges they make of it.                               *)
(*                                                                          *)
(* A file is the syntax nodes that an extractor looks at, in the order of   *)
(* the text, one on each line: `up` is the line of the smallest of them     *)
(* around a node, 0 if there is none.  Line k of the sequence is row k - 1. *)
(* A name is its segments with the separator between them; generic          *)
(* parameters are left out, and so are the calls in parameter lists.  A     *)
(* NodeId is what is hashed to make it.                                     *)
(***************************************************************************)
EXTENDS Integers, Sequences, FiniteSets, SequencesExt

CONSTANTS
    Files,
    Segments,       \* parts of names
    Paths,          \* import paths
    NoPath,         \* no target_module
    NoNode

Dotted(path) == [sep |-> ".", path |-> path]
Simple(s) == Dotted(<<s>>)

Name == [sep : {".", "::", "\\"}, path : Seq(Segments)]
Kinds == {"File", "Module", "Class", "Struct", "Enum", "Trait", "Method", "Constructor",
          "Function", "Constant", "Static", "TypeAlias", "Field", "Property", "Interface",
          "Package", "Namespace", "Record", "EnumVariant", "Import", "Route"}
EdgeKinds ==
    {"Contains", "Imports", "Extends", "Implements", "References", "HandlesRoute", "Calls"}
NodeId == [file : Files, name : Name, kind : Kinds, line : Nat]
SymbolNode == [name : Name, kind : Kinds, file : Files, language : STRING,
               parent : NodeId \cup {NoNode}]

\* `id` is the target_name as a hexadecimal NodeId, NoNode if it is none, and
\* `path` the target_module.
RawEdge == [source : NodeId, kind : EdgeKinds, target : Name, id : NodeId \cup {NoNode},
            path : Paths \cup {NoPath}, line : Nat]

\* `bases` are the other names in a node: base classes, the type of a field,
\* what an import is from; `traits` the traits or interfaces it implements.
Row == [node : STRING, name : Name, up : Nat, bases : Seq(Name), traits : Seq(Name),
        module : Paths \cup {NoPath}]

-----------------------------------------------------------------------------
Id(file, name, kind, line) == [file |-> file, name |-> name, kind |-> kind, line |-> line]

FileId(file, extension) == Id(file, Dotted(<<file, extension>>), "File", 0)

FileNode(file, extension, language) ==
    [name |-> Dotted(<<file, extension>>), kind |-> "File", file |-> file,
     language |-> language, parent |-> NoNode]

Edge(source, kind, target, line) ==
    [source |-> source, kind |-> kind, target |-> target, id |-> NoNode, path |-> NoPath,
     line |-> line]

\* The lines of the nodes around line r, and 0.
Around(rows, r) ==
    LET around[k \in 0..Len(rows)] ==
          IF k = 0 THEN {} ELSE {rows[k].up} \cup around[rows[k].up]
    IN around[r]

\* Those of these kinds.
AroundOfKind(rows, r, kinds) == {k \in Around(rows, r) \ {0} : rows[k].node \in kinds}

\* The innermost of them, 0 for the file.
Innermost(rows, r, kinds) == Max(AroundOfKind(rows, r, kinds) \cup {0})
Outermost(rows, r, kinds) ==
    IF AroundOfKind(rows, r, kinds) = {} THEN 0 ELSE Min(AroundOfKind(rows, r, kinds))

\* "self.save" and "this.save" get the name of the class; "self.a.b" does not.
\* Mutant: targets stay as they are written.
qualify_member_call_Plain(target, class) == target
qualify_member_call(target, class) ==
    IF target.sep = "." /\ Len(target.path) = 2 /\ Head(target.path) \in {"self", "this"}
    THEN Dotted(<<Last(class.path), Last(target.path)>>) ELSE target

\* An edge from the symbol on line r to each of the names.
EdgesTo(source, kind, names, r) == [k \in DOMAIN names |-> Edge(source, kind, names[k], r - 1)]

Inherits(source, row, r) ==
    EdgesTo(source, "Extends", row.bases, r) \o EdgesTo(source, "Implements", row.traits, r)

\* What an extractor makes of a file: its symbols, given by the ids of those
\* on some of the lines and by their parents, and the raw edges of each line.
Extracted(file, extension, language, ids, parents, raws) ==
    [nodes |->
        [i \in {FileId(file, extension)} \cup {ids[r] : r \in DOMAIN ids} |->
            IF i.kind = "File" THEN FileNode(file, extension, language)
            ELSE [name |-> i.name, kind |-> i.kind, file |-> file, language |-> language,
                  parent |-> parents[i.line + 1]]],
     raws |-> FlattenSeq(raws)]

-----------------------------------------------------------------------------
(* routes.rs: a node of kind "route" is a text that a pattern matches. *)

FunctionKinds == {"Function", "Method", "Constructor"}

LastLine(rows, r) == Max({r} \cup {k \in DOMAIN rows : r \in Around(rows, k)})

RouteId(file, rows, r) == Id(file, rows[r].name, "Route", r - 1)

\* The smallest function whose lines, decorators not included, have the route.
\* Mutant: the last line is left out.
Handlers_OpenEnd(rows, r, nodes) ==
    LET span(i) == LastLine(rows, i.line + 1) - i.line
        around == {i \in DOMAIN nodes : /\ i.kind \in FunctionKinds
                                        /\ r \in (i.line + 1)..(LastLine(rows, i.line + 1) - 1)}
    IN {i \in around : \A j \in around : span(i) <= span(j)}
Handlers(rows, r, nodes) ==
    LET span(i) == LastLine(rows, i.line + 1) - i.line
        around == {i \in DOMAIN nodes : /\ i.kind \in FunctionKinds
                                        /\ r \in (i.line + 1)..LastLine(rows, i.line + 1)}
    IN {i \in around : \A j \in around : span(i) <= span(j)}

\* What an extractor got, with the routes; a route has no parent.
AddRoutes(file, language, rows, got) ==
    LET route(i) == [name |-> i.name, kind |-> "Route", file |-> file,
                     language |-> language, parent |-> NoNode]
        routes == {r \in DOMAIN rows : rows[r].node = "route"}
        handling(r) ==
            [k \in 1..Cardinality(Handlers(rows, r, got.nodes)) |->
               [Edge(SetToSeq(Handlers(rows, r, got.nodes))[k], "HandlesRoute", rows[r].name, r - 1)
                   EXCEPT !.id = RouteId(file, rows, r)]]
    IN [nodes |-> [i \in {RouteId(file, rows, r) : r \in routes} \cup DOMAIN got.nodes |->
                     IF i.kind = "Route" THEN route(i) ELSE got.nodes[i]],
        raws |-> got.raws \o FlattenSeq([r \in DOMAIN rows |->
                                           IF r \in routes THEN handling(r) ELSE <<>>])]
=============================================================================
