------------------------------ MODULE Resolver ------------------------------
(***************************************************************************)
(* Resolution of raw edges, ast-graph-resolve/src/resolver.rs and mro.rs,   *)
(* on what the extractors make of the files of a project: a pass over the   *)
(* raw edges of all kinds but CALLS, then one over CALLS, which looks up    *)
(* Python's super() in the EXTENDS edges of the first.                      *)
(*                                                                          *)
(* Generic parameters, which a type's target is stripped of, and letter     *)
(* case but for Upper are left out of names, and external calls, which are  *)
(* only counted.  Files are parsed in any order; a file's edges keep theirs.*)
(***************************************************************************)
EXTENDS C3Mro, PythonExtractor, RustExtractor, JavaScriptExtractor, GoExtractor,
        JavaExtractor, CSharpExtractor, PhpExtractor, RubyExtractor, SwiftExtractor

CONSTANTS
    Upper,          \* lower-case segments with their capitalised forms
    super,          \* the segment "super()"
    Projects,       \* functions from files to what they hold
    Probes,         \* for each import path, the keys of file_index to try
    Keys,           \* for each file, its keys in file_index
    Alias           \* names that an alias of tsconfig.json makes paths

\* get_extractor.
ExtractBy(file, language, rows) ==
    CASE language = "python" -> ExtractPython(file, rows)
      [] language = "rust" -> ExtractRust(file, rows)
      [] language = "javascript" -> ExtractJavaScript(file, rows)
      [] language = "go" -> ExtractGo(file, rows)
      [] language = "java" -> ExtractJava(file, rows)
      [] language = "csharp" -> ExtractCSharp(file, rows)
      [] language = "php" -> ExtractPhp(file, rows)
      [] language = "ruby" -> ExtractRuby(file, rows)
      [] language = "swift" -> ExtractSwift(file, rows)

\* parse_single_file; three languages have no patterns of routes.
Extract(file, content) ==
    LET got == ExtractBy(file, content.language, content.rows)
    IN IF content.language \in {"php", "ruby", "swift"} THEN got
       ELSE AddRoutes(file, content.language, content.rows, got)

NodesOf == [python |-> PyNodes, rust |-> RsNodes, javascript |-> JsNodes, go |-> GoNodes,
            java |-> JavaNodes, csharp |-> CsNodes, php |-> PhpNodes, ruby |-> RbNodes,
            swift |-> SwNodes]

\* The nodes of a file, in the order of the text: each is in the one before it
\* or in one around that.
IsRows(rows, kinds) ==
    /\ rows \in Seq(Row)
    /\ \A r \in DOMAIN rows :
          /\ rows[r].up \in 0..(r - 1) /\ rows[r].node \in kinds
          /\ rows[r].up \in {r - 1} \cup Around(rows, r - 1)

\* Where the grammars put nodes: functions of Go that have a name stand in no
\* other node, the methods of PHP in classes, bodies of anonymous classes of
\* Java in types, and namespaces of C# in no type.
Placed(language, rows) ==
    \A r \in DOMAIN rows :
        /\ language = "go" /\ rows[r].node \in {"function", "method"} => rows[r].up = 0
        /\ language = "php" /\ rows[r].node = "method" =>
              rows[r].up # 0 /\ rows[rows[r].up].node \in PhpClasses \cup {"anonymous"}
        /\ language = "java" /\ rows[r].node = "body" => JavaType(rows, r) # 0
        /\ language = "csharp" /\ rows[r].node \in CsNamespaces =>
              AroundOfKind(rows, r, CsTypes) = {}

\* How they name them: no name is empty, in three languages those of types are
\* identifiers, and super() names no class.
Spelled(language, rows) ==
    \A r \in DOMAIN rows :
        /\ rows[r].name.path # <<>>
        /\ language = "go" => \A n \in ToSet(rows[r].bases) : n.path # <<>>
        /\ language \in {"java", "csharp", "javascript"} /\ rows[r].node \in JavaTypes \cup CsTypes =>
              Len(rows[r].name.path) = 1
        /\ language = "python" /\ rows[r].node = "class" => Last(rows[r].name.path) # super

ASSUME PathsAssumption ==
    /\ DOMAIN Probes = Paths /\ NoPath \notin Paths /\ \A n \in DOMAIN Alias : Alias[n] \in Paths
    /\ DOMAIN Keys = Files
ASSUME NodesAssumption == NoNode \notin NodeId
\* An extractor gives its nodes its own language and parents in the same file.
ASSUME ProjectsAssumption ==
    \A p \in Projects : IsFiniteSet(DOMAIN p) /\ \A f \in DOMAIN p :
        /\ f \in Files
        /\ p[f].language \in DOMAIN NodesOf
        /\ IsRows(p[f].rows, NodesOf[p[f].language])
        /\ Placed(p[f].language, p[f].rows) /\ Spelled(p[f].language, p[f].rows)
        /\ LET got == Extract(f, p[f])
           IN /\ IsFiniteSet(DOMAIN got.nodes)
              /\ \A i \in DOMAIN got.nodes :
                    /\ i \in NodeId /\ i.file = f /\ got.nodes[i] \in SymbolNode
                    /\ got.nodes[i].language = p[f].language
                    /\ got.nodes[i].parent # NoNode => got.nodes[i].parent.file = f
              /\ got.raws \in Seq(RawEdge)

VARIABLES
    project,
    nodes,      \* graph.nodes, a function on the ids it has
    raw_edges,
    adjacency,  \* graph.adjacency; an edge [source, target, kind, confidence]
                \* carries the position of the raw edge it is made of
    pc,         \* "first", "second", "done"
    at          \* the raw edge that the pass looks at next

vars == <<project, nodes, raw_edges, adjacency, pc, at>>

Init ==
    /\ project \in Projects
    /\ \E got \in {[f \in DOMAIN project |-> Extract(f, project[f])]} :
          /\ nodes = [i \in UNION {DOMAIN got[f].nodes : f \in DOMAIN project} |->
                         got[i.file].nodes[i]]
          /\ \E order \in SetToSeqs(DOMAIN project) :
                raw_edges = FlattenSeq([k \in DOMAIN order |-> got[order[k]].raws])
    /\ adjacency = [i \in DOMAIN nodes \cup {raw_edges[k].source : k \in DOMAIN raw_edges} |-> <<>>]
    /\ pc = "first" /\ at = 1

-----------------------------------------------------------------------------
\* What rsplit(sep).next() gives.
LastSegment(n, sep) == IF n.sep = sep THEN Simple(Last(n.path)) ELSE n

IndexNames(n) == {n, LastSegment(n, "::"), LastSegment(n, ".")}
Hits(n) == {i \in DOMAIN nodes : n \in IndexNames(nodes[i].name)}

\* The hits of the first name that has any.
FirstHits(names) ==
    LET found == {k \in DOMAIN names : Hits(names[k]) # {}}
    IN IF found = {} THEN {} ELSE Hits(names[Min(found)])

\* "userService.X" is tried as "UserService.X".
Capitalised(t) ==
    IF t.sep = "." /\ Len(t.path) > 1 /\ Head(t.path) \in DOMAIN Upper
    THEN <<[t EXCEPT !.path[1] = Upper[@]]>> ELSE <<>>

CallTargets(t) ==
    FirstHits(<<t>> \o Capitalised(t) \o <<LastSegment(t, "."), LastSegment(t, "::")>>)

\* Of types and imports; rsplit always has a last item, so that "." is never
\* tried.
NameTargets(t) == FirstHits(<<t, LastSegment(t, "::")>>)

\* The File nodes with the first key that is in file_index; when two files
\* have the same key the index holds either.
PathTargets(path) ==
    LET having(k) == {i \in DOMAIN nodes : nodes[i].kind = "File" /\ k \in Keys[i.file]}
        found == {k \in DOMAIN Probes[path] : having(Probes[path][k]) # {}}
    IN IF found = {} THEN {} ELSE having(Probes[path][Min(found)])

\* Mutant: a lone hit in another file is as good as one in the same file.
Confidence_NoCount(source, target, hits) ==
    IF source \in DOMAIN nodes /\ nodes[source].file = nodes[target].file THEN "same_file"
    ELSE "import_scoped"
Confidence(source, target, hits) ==
    IF source \in DOMAIN nodes /\ nodes[source].file = nodes[target].file THEN "same_file"
    ELSE IF Cardinality(hits) = 1 THEN "import_scoped"
    ELSE "global"

EdgeTo(k, target, confidence) ==
    [source |-> raw_edges[k].source, target |-> target, kind |-> raw_edges[k].kind,
     confidence |-> confidence, of |-> k]

\* add_edge for each target, with its tier, in any order, which only the bases
\* of a class depend on.
AddEdges(k, tier) ==
    \E order \in IF raw_edges[k].kind = "Extends" THEN SetToSeqs(DOMAIN tier)
                ELSE {SetToSeq(DOMAIN tier)} :
        adjacency' = [adjacency EXCEPT ![raw_edges[k].source] =
            @ \o [n \in DOMAIN order |-> EdgeTo(k, order[n], tier[order[n]])]]

AddByName(k, hits) ==
    AddEdges(k, [t \in hits |-> Confidence(raw_edges[k].source, t, hits)])

AddExact(k, targets) == AddEdges(k, [t \in targets |-> "exact"])

\* An import by name has no tier for the same file.
AddImports(k, hits) ==
    AddEdges(k, [t \in hits |-> IF Cardinality(hits) = 1 THEN "import_scoped" ELSE "global"])

-----------------------------------------------------------------------------
IsPythonClass(i) == i \in DOMAIN nodes /\ nodes[i].kind = "Class" /\ nodes[i].language = "python"

\* python_parents_map.
Parents ==
    [c \in {i \in DOMAIN nodes : IsPythonClass(i)} |->
        FlattenSeq([k \in DOMAIN adjacency[c] |->
            IF adjacency[c][k].kind = "Extends" /\ IsPythonClass(adjacency[c][k].target)
            THEN <<adjacency[c][k].target>> ELSE <<>>])]

\* The node of the class that has the method, or NoNode.
EnclosingClass(i) ==
    IF nodes[i].parent \in DOMAIN nodes /\ nodes[nodes[i].parent].kind = "Class"
    THEN nodes[i].parent ELSE NoNode

IsSuperCall(t) == t.sep = "." /\ Len(t.path) = 2 /\ Head(t.path) = super

MembersNamed(c, s) ==
    {i \in DOMAIN nodes : nodes[i].parent = c /\ Last(nodes[i].name.path) = s}

\* Constructors, which __init__ methods are, are not looked at.
MethodsNamed(c, s) ==
    {i \in MembersNamed(c, s) : nodes[i].kind \in {"Method", "Function"}}

\* The methods of the first class after c that has one.
SuperMethods(c, s) ==
    LET mro == Linearize(c, Parents)
        having == {k \in 2 .. Len(mro) : MethodsNamed(mro[k], s) # {}}
    IN IF having = {} THEN {} ELSE MethodsNamed(mro[Min(having)], s)

\* The class whose order super() in this raw edge's source follows.
SuperClass(raw) ==
    IF IsSuperCall(raw.target) /\ raw.source \in DOMAIN nodes /\ nodes[raw.source].language = "python"
    THEN EnclosingClass(raw.source) ELSE NoNode

ResolveCall(k) ==
    LET raw == raw_edges[k]
        cls == SuperClass(raw)
        supers == IF cls = NoNode THEN {} ELSE SuperMethods(cls, Last(raw.target.path))
    IN \/ \E m \in supers : AddExact(k, {m})
       \/ supers = {} /\ AddByName(k, CallTargets(raw.target))

-----------------------------------------------------------------------------
Known(id) == {id} \cap DOMAIN nodes

\* An alias counts only without a target_module.
ImportPath(raw) ==
    IF raw.path = NoPath /\ raw.target \in DOMAIN Alias THEN Alias[raw.target] ELSE raw.path

\* Mutant: calls are resolved at once.
ResolveRaw_OnePass(k) ==
    LET raw == raw_edges[k]
    IN \/ raw.kind = "Calls" /\ ResolveCall(k)
       \/ raw.kind = "Extends" /\ AddByName(k, NameTargets(raw.target))
       \/ raw.kind \notin {"Calls", "Extends"} /\ UNCHANGED adjacency
ResolveImport(k) ==
    LET raw == raw_edges[k]
        byId == IF raw.path = NoPath THEN Known(raw.id) ELSE {}
        path == ImportPath(raw)
        byPath == IF path = NoPath THEN {} ELSE PathTargets(path)
    IN \/ byId # {} /\ AddExact(k, byId)
       \/ byId = {} /\ \E f \in byPath : AddExact(k, {f})
       \/ byId = {} /\ byPath = {} /\ AddImports(k, NameTargets(raw.target))
ResolveRaw(k) ==
    LET raw == raw_edges[k]
    IN \/ raw.kind = "Calls" /\ UNCHANGED adjacency
       \/ raw.kind \in {"Contains", "HandlesRoute"} /\ AddExact(k, Known(raw.id))
       \/ /\ raw.kind \in {"Extends", "Implements", "References"}
          /\ AddByName(k, NameTargets(raw.target))
       \/ raw.kind = "Imports" /\ ResolveImport(k)

ResolveStructure ==
    /\ pc = "first" /\ at \in DOMAIN raw_edges
    /\ ResolveRaw(at)
    /\ at' = at + 1
    /\ UNCHANGED <<project, nodes, raw_edges, pc>>

StartCalls ==
    /\ pc = "first" /\ at \notin DOMAIN raw_edges
    /\ pc' = "second" /\ at' = 1
    /\ UNCHANGED <<project, nodes, raw_edges, adjacency>>

ResolveCalls ==
    /\ pc = "second" /\ at \in DOMAIN raw_edges
    /\ IF raw_edges[at].kind = "Calls" THEN ResolveCall(at) ELSE UNCHANGED adjacency
    /\ at' = at + 1
    /\ UNCHANGED <<project, nodes, raw_edges, pc>>

Finish ==
    /\ pc = "second" /\ at \notin DOMAIN raw_edges
    /\ pc' = "done"
    /\ UNCHANGED <<project, nodes, raw_edges, adjacency, at>>

Next == ResolveStructure \/ StartCalls \/ ResolveCalls \/ Finish

Spec == Init /\ [][Next]_vars

-----------------------------------------------------------------------------

EdgesOf(k) == {e \in ToSet(adjacency[raw_edges[k].source]) : e.of = k}

\* A linearization is the order that Python computes, and there is one whenever
\* Python has one ("same diamond conflict that real Python rejects", mro.rs:13),
\* with ambiguous names, repeated bases and cycles too.
MroIsPythons ==
    pc = "second" /\ at = 1 =>
        \A c \in DOMAIN Parents :
            IF HasMro(c, Parents) THEN IsPythonsMro(Linearize(c, Parents), c, Parents)
            ELSE Linearize(c, Parents) = None

Definers(c, s, members(_, _)) == {d \in Ancestors(c, Parents) : members(d, s) # {}}

\* t belongs to the first class after c, in the order of an instance of c, that
\* has such a member.
Found(t, c, s, members(_, _)) ==
    \E mro \in SetToSeqs(Ancestors(c, Parents) \cup {c}) :
        /\ IsPythonsMro(mro, c, Parents)
        /\ \E j \in 2 .. Len(mro) : /\ t \in members(mro[j], s)
                                   /\ \A i \in 2 .. j - 1 : members(mro[i], s) = {}

FollowsPython(k, members(_, _)) ==
    LET raw == raw_edges[k]
        cls == SuperClass(raw)
        s == Last(raw.target.path)
    IN cls # NoNode /\ HasMro(cls, Parents) /\ Definers(cls, s, members) # {} =>
          \E e \in EdgesOf(k) :
              /\ EdgesOf(k) = {e} /\ e.confidence = "exact"
              /\ Found(e.target, cls, s, members)

SuperCalls ==
    {k \in DOMAIN raw_edges : raw_edges[k].kind = "Calls" /\ IsSuperCall(raw_edges[k].target)}

\* super() in a Python method leads to one method and nothing else, in the class
\* in which Python finds it for an instance of the method's own class, if an
\* ancestor has it, wherever in the files the bases are declared, even after the
\* call (mro.rs:132-168).
SuperFollowsPython ==
    pc = "done" => \A k \in SuperCalls : FollowsPython(k, MethodsNamed)

\* The same for __init__: "`super().method()` resolves to the correct ancestor
\* via C3 linearization, not a name-fan-out across the codebase" (README.md:20).
SuperInitFollowsPython ==
    pc = "done" => \A k \in SuperCalls : FollowsPython(k, MembersNamed)

\* What README.md:248-251 makes of the tiers: an edge of 1.0 or 0.9 is the only
\* one that its raw edge became, one of 0.9 leads to a symbol whose name no other
\* symbol of the project has, and one of 0.5 is one of several.  relation.rs:83
\* asks more of 0.9, that the target's file is imported, and resolver.rs:129-132
\* gives a lone global hit 0.5; relation.rs:82 lets 0.95 be without ambiguity.
\* The resolver keeps no imports: a lone hit has 0.9, and each hit in the file 0.95.
TiersAreHonest ==
    \A k \in DOMAIN raw_edges : \A e \in EdgesOf(k) :
        /\ e.confidence \in {"exact", "import_scoped"} => EdgesOf(k) = {e}
        /\ e.confidence = "import_scoped" =>
              \A i \in DOMAIN nodes : nodes[i].name = nodes[e.target].name => i = e.target
        /\ e.confidence = "global" => EdgesOf(k) # {e}

\* The nodes of a language that have a `self` of their own, the functions that
\* have one of the type around them, and what it is called.
SelfTypes(language) ==
    CASE language \in {"python", "javascript"} -> {"class"}
      [] language = "java" -> JavaTypes \cup {"body"}
      [] language = "csharp" -> CsTypes
      [] language = "php" -> PhpClasses \cup {"anonymous"}
      [] language = "ruby" -> RbClasses
      [] language = "swift" -> SwTypes
      [] OTHER -> {}
SelfFunctions(language) ==
    CASE language = "python" -> {"function"}
      [] language = "javascript" -> {"method", "arrow"}
      [] language \in {"java", "csharp"} -> {"method", "constructor"}
      [] language = "php" -> {"method"}
      [] language = "ruby" -> RbDefs
      [] language = "swift" -> {"function", "init", "computed", "subscript"}
      [] OTHER -> {}
SelfWords(language) ==
    CASE language \in {"python", "ruby", "swift"} -> {"self"}
      [] language \in {"javascript", "java", "csharp"} -> {"this"}
      [] language = "php" -> {"$this", "self", "static"}
      [] OTHER -> {}

TypeAround(language, rows, r) == Innermost(rows, r, SelfTypes(language))

\* In JavaScript functions and methods of objects have a `this` of their own.
OfObject(rows, r, class) ==
    \E k \in AroundOfKind(rows, r, {"function", "method"}) :
        k > class /\ ~(rows[k].node = "method" /\ rows[k].up = class)

\* Of Ruby: whether a line is in a method of another object than the class.
OfOther(rows, r) ==
    \E k \in ({r} \cup Around(rows, r)) \ {0} :
        rows[k].node \in {"singleton", "eigen"} /\ rows[k].bases # <<Simple("self")>>

\* The type that `self` is of on a line in one of its functions, 0 if there is
\* none; `members` are the lines of the members that are in the graph.
SelfType(language, rows, members, r) ==
    LET type == TypeAround(language, rows, r)
    IN IF /\ \E k \in AroundOfKind(rows, r, SelfFunctions(language)) \cap members : k > type
          /\ ~(language = "javascript" /\ OfObject(rows, r, type))
          /\ ~OfOther(rows, r)
       THEN type ELSE 0

\* In Go, whether the call on a line is on the receiver of the method around it
\* and not on a parameter of a closure with the same name.
OnReceiver(rows, r) ==
    LET names == rows[GoCaller(rows, r)].bases
    IN /\ GoCaller(rows, r) # 0 /\ Len(names) = 2 /\ Simple(Head(rows[r].name.path)) = names[2]
       /\ \A k \in AroundOfKind(rows, r, {"closure"}) : names[2] \notin ToSet(rows[k].bases)

\* The calls x.m(), with the line that has the node around their arrow function
\* if they are all of it.
CallsOf(language, rows) ==
    {r \in DOMAIN rows : /\ rows[r].name.sep = "." /\ Len(rows[r].name.path) = 2
                         /\ \/ rows[r].node = "call"
                            \/ rows[r].node = "whole" /\ language = "javascript"}
CallLine(rows, r) == IF rows[r].node = "whole" THEN rows[r].up ELSE r

\* The lines of what is in the type whose member the call on a line is of: an
\* extension of Swift is in the type of its name.
MemberLines(language, rows, members, r) ==
    LET type == SelfType(language, rows, members, CallLine(rows, r))
        around(k) == TypeAround(language, rows, k)
    IN CASE language = "go" ->
                {k \in DOMAIN rows : /\ rows[k].node = "method" /\ OnReceiver(rows, r)
                                     /\ Head(rows[k].bases) = Head(rows[GoCaller(rows, r)].bases)}
         [] language # "go" /\ Head(rows[r].name.path) \in SelfWords(language) /\ type # 0 ->
                {k \in DOMAIN rows :
                    \/ around(k) = type /\ ~OfOther(rows, k)
                    \/ language = "swift" /\ around(k) # 0 /\ rows[around(k)].name = rows[type].name}
         [] OTHER -> {}

\* The members among some symbols of a file: its methods, and what may be
\* called like one.
MembersIn(language, symbols) ==
    {i \in symbols : i.kind \in FunctionKinds \cup
                         IF language \in {"javascript", "ruby", "swift"} THEN {"Property"} ELSE {}}

\* Those that the call on a line may mean, under whatever conditions they are
\* defined: not constructors of Java and C#, which are called by new, nor what
\* has no name.
OwnMembers(language, rows, symbols, r) ==
    LET members == MembersIn(language, symbols)
        lines == MemberLines(language, rows, {i.line + 1 : i \in members}, r)
    IN {i \in members :
          /\ i.line + 1 \in lines
          /\ rows[i.line + 1].node # "constructor"
          /\ ~(language = "php" /\ rows[i.line + 1].node = "arrow")
          /\ rows[i.line + 1].name = Simple(rows[r].name.path[2])}

\* The symbols whose text has a line, the file's own included.
SymbolsAround(f, line) ==
    {i \in DOMAIN nodes :
        /\ i.file = f
        /\ i.kind # "File" => i.line + 1 \in {line + 1} \cup Around(project[f].rows, line + 1)}
FunctionsAround(f, line) == {i \in SymbolsAround(f, line) : i.kind \in FunctionKinds}

CallerKinds(language) ==
    FunctionKinds \cup CASE language = "javascript" -> {"Constant", "Property"}
                         [] language = "swift" -> {"Property"}
                         [] language = "php" -> {"File"}
                         [] language = "ruby" -> {"File", "Class", "Module"}
                         [] OTHER -> {}
CallersAround(f, line) ==
    {i \in SymbolsAround(f, line) : i.kind \in CallerKinds(project[f].language)}
InnermostCaller(f, line) ==
    {i \in CallersAround(f, line) :
        \A j \in CallersAround(f, line) \ {i} : i.kind # "File" /\ (j.kind = "File" \/ j.line < i.line)}

\* What the innermost caller on a line calls there.
Called(f, line) ==
    {e.target : e \in {e \in UNION {ToSet(adjacency[i]) : i \in InnermostCaller(f, line)} :
                          e.kind = "Calls" /\ raw_edges[e.of].line = line}}

\* self.m(), this.m() or, in Go, r.m() on the receiver, in a member of a type
\* that has an m lead to it and to no m of a type of another name, "not every
\* method with that name across the codebase" (README.md:17), if both members
\* are in the graph.  The exceptions are a call that is the whole body of an
\* arrow function, which the JavaScript extractor does not see if that is in no
\* other member and the PHP extractor never does, and an anonymous class of PHP,
\* whose calls may lead to the class around it too.
OwnMembersAreCalled ==
    pc = "done" =>
      \A f \in DOMAIN project :
        LET rows == project[f].rows
            language == project[f].language
        IN \A r \in CallsOf(language, rows) :
             LET own == OwnMembers(language, rows, {i \in DOMAIN nodes : i.file = f}, r)
             IN own # {} =>
                  /\ own \subseteq Called(f, r - 1)
                  /\ AroundOfKind(rows, r, {"anonymous"}) = {} =>
                        \A t \in Called(f, r - 1) : \E i \in own : nodes[t].name = nodes[i].name

\* Whether a symbol is where an edge of a kind that comes from a line starts.
StartsAt(i, kind, line) ==
    LET language == project[i.file].language
        row == project[i.file].rows[line + 1]
    IN CASE kind = "Implements" /\ (language = "rust" \/ row.node = "extension") ->
                i.kind \in {"Struct", "Class"} /\ i.line = 0
         [] kind = "Calls" ->
                \/ i \in InnermostCaller(i.file, line)
                \/ /\ AroundOfKind(project[i.file].rows, line + 1, {"anonymous"}) # {}
                   /\ i \in CallersAround(i.file, line)
         [] kind = "HandlesRoute" -> FunctionsAround(i.file, line) = {i}
         [] OTHER -> i \in SymbolsAround(i.file, line)

\* An edge starts at a symbol around "the source line where the relationship
\* originates" (README.md:586), a call at the innermost function, variable or
\* property there, a route at the function, and each route in a function has a
\* handler.  The exceptions are IMPLEMENTS edges of Rust and of Swift's
\* extensions: they start at a struct or class on line 0, which need not exist,
\* so that save_graph skips them (sqlite/mod.rs:97); and calls in anonymous
\* classes of PHP, which are ascribed to the functions around too.
EdgesStartAround ==
    pc = "done" =>
      /\ \A i \in DOMAIN adjacency : \A k \in DOMAIN adjacency[i] :
           StartsAt(i, adjacency[i][k].kind, raw_edges[adjacency[i][k].of].line)
      /\ \A r \in {n \in DOMAIN nodes : n.kind = "Route"} :
             {i \in DOMAIN adjacency : \E k \in DOMAIN adjacency[i] :
                 adjacency[i][k].kind = "HandlesRoute" /\ adjacency[i][k].target = r}
             = FunctionsAround(r.file, r.line)
=============================================================================
