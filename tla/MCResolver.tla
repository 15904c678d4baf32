----------------------------- MODULE MCResolver -----------------------------
(***************************************************************************)
(* Three kinds of project:                                                  *)
(*   - Python classes A, B and C with their method or constructor m in one  *)
(*     file, and D with a super().m() in another, with bases that are       *)
(*     chained, joined, repeated or circular; there may be a second class   *)
(*     named A;                                                             *)
(*   - for each of the nine languages, the files that grow by two or three  *)
(*     nodes from a type with its m or another beginning of interest;       *)
(*   - Python next to another language, with the other kinds of raw edge.   *)
(***************************************************************************)
EXTENDS Resolver

MCFiles == {"lib", "use", "index"}
MCSegments == STRING
MCPaths == {"dir", "index"}
MCUpper == [s \in {"x"} |-> "X"]
MCProbes == [p \in MCPaths |-> IF p = "dir" THEN <<"dir", "index">> ELSE <<"index">>]
MCKeys == [f \in MCFiles |-> CASE f = "lib" -> {"dir"} [] f = "index" -> {"index"} [] OTHER -> {}]
MCAlias == [n \in {Simple("import")} |-> "dir"]
MCClassCase == [x |-> "A"]
MCControllers == [x |-> "XController"]

Line(node, path, up) ==
    [node |-> node, name |-> Dotted(path), up |-> up, bases |-> <<>>, traits |-> <<>>,
     module |-> NoPath]
Named(node, s) == Line(node, <<s>>, 0)
WithBases(row, names) == [row EXCEPT !.bases = [k \in DOMAIN names |-> Simple(names[k])]]
WithTraits(row, names) == [row EXCEPT !.traits = [k \in DOMAIN names |-> Simple(names[k])]]
Class(name, bases) == WithBases(Named("class", name), bases)
In(language, rows) == [language |-> language, rows |-> rows]

-----------------------------------------------------------------------------
\* Files one after the other.
Join(blocks) ==
    FoldLeft(LAMBDA all, rows : all \o
                 [k \in DOMAIN rows |-> [rows[k] EXCEPT !.up = IF @ = 0 THEN 0 ELSE @ + Len(all)]],
             <<>>, blocks)

WithMember(class, member) == <<class, Line("function", <<member>>, 1)>>

\* The classes in `present` have the member; a second A does if it is there.
Family(member, present, bases, twin) ==
    LET block(c, k) == IF c \in present THEN WithMember(Class(c, bases[k]), member)
                       ELSE <<Class(c, bases[k])>>
    IN [f \in {"lib", "use"} |->
          IF f = "lib" THEN In("python", Join(<<block("A", 1), block("B", 2), block("C", 3)>>))
          ELSE In("python", Join(<<WithMember(Class("D", bases[4]), member)
                                 \o <<Line("call", <<"super()", member>>, 2)>>>>
                           \o IF twin THEN <<<<Class("A", <<>>)>>>> ELSE <<>>))]

BaseLists == {<<>>, <<"D">>} \X {<<>>, <<"A">>} \X {<<>>, <<"A">>, <<"A", "B">>} \X
             {<<>>, <<"A">>, <<"B">>, <<"C">>, <<"A", "B">>, <<"B", "A">>, <<"A", "C">>,
              <<"C", "A">>, <<"B", "C">>, <<"C", "B">>, <<"B", "B">>}

Families ==
    {Family("m", present, bases, FALSE) :
        present \in {{"A"}, {"A", "B"}, {"A", "C"}, {"A", "B", "C"}}, bases \in BaseLists}
    \cup {Family("m", {"A", "B"}, bases, TRUE) : bases \in BaseLists}
    \cup {Family("__init__", {"A", "B"}, bases, FALSE) :
        bases \in {<<<<>>, <<"A">>, <<>>, <<"B">>>>, <<<<>>, <<>>, <<>>, <<"A", "B">>>>}}

-----------------------------------------------------------------------------
\* The files with one more node, in or after a node around the end; `places`
\* has, for each kind of node, the kinds that it may stand in.
Longer(files, lines, places) ==
    {Append(p[1], [p[2] EXCEPT !.up = p[3]]) :
        p \in {q \in files \X lines \X (0..5) :
                 /\ q[3] \in {Len(q[1])} \cup Around(q[1], Len(q[1]))
                 /\ (IF q[3] = 0 THEN "file" ELSE q[1][q[3]].node) \in places[q[2].node]}}

\* Each node in the one before it.
Nested(rows) == [k \in DOMAIN rows |-> [rows[k] EXCEPT !.up = k - 1]]

Calls(lines) == {l \in lines : l.node \in {"call", "whole"}}
Receiver(s) == Line("call", <<s, "m">>, 0)

PyLines == {Named("class", "B"), Named("function", "m"), Named("function", "x"),
            Receiver("self"), Named("route", "/")}
PyPlaces ==
    LET places == {"file", "class", "function"}
    IN [class |-> places, function |-> places, call |-> places \cup {"call"}, route |-> places]
PyFiles ==
    Longer(Longer(Longer({WithMember(Class("A", <<>>), "m")}, PyLines, PyPlaces),
                  PyLines, PyPlaces), Calls(PyLines), PyPlaces)

RsLines == {Named("struct", "S"), Named("trait", "T"), Named("mod", "X"), Named("fn", "m"),
            Named("use", "T"), Named("const", "T"), WithTraits(Named("impl", "S"), <<"T">>),
            WithBases(Named("field", "x"), <<"S">>), [Receiver("S") EXCEPT !.name.sep = "::"],
            Receiver("x"), Named("route", "/")}
RsPlaces ==
    LET places == {"file", "mod", "fn"}
    IN [struct |-> places, trait |-> places, mod |-> places, use |-> places, const |-> places,
        impl |-> places, fn |-> places \cup {"trait", "impl"}, route |-> places \cup {"impl"},
        field |-> {"struct"}, call |-> {"fn", "const", "call"}]
RsFiles ==
    Longer(Longer(Longer({<<Named("struct", "S")>>, <<Named("trait", "T")>>}, RsLines, RsPlaces),
                  RsLines, RsPlaces), RsLines, RsPlaces)

JsLines == {Named("class", "B"), Named("method", "m"), Named("arrow", "x"),
            WithBases(Named("new", "x"), <<"B">>), Named("function", "m"), Named("route", "/"),
            Receiver("this"), Line("whole", <<"this", "m">>, 0)}
JsPlaces ==
    LET places == {"file", "function", "method", "arrow", "call", "route"}
    IN [class |-> places, new |-> places, function |-> places, route |-> places, call |-> places,
        arrow |-> places \cup {"class"}, whole |-> {"arrow"}, method |-> {"class", "new"}]
JsFiles ==
    {rows \in Longer(Longer(Longer(
                 {Nested(<<Class("A", <<>>), Named("method", s)>>) : s \in {"m", "constructor"}},
                 JsLines \ Calls(JsLines), JsPlaces), JsLines \ Calls(JsLines), JsPlaces),
                 Calls(JsLines), JsPlaces) :
        \A r, k \in DOMAIN rows : rows[r].node = "whole" /\ rows[k].up = rows[r].up => k = r}

GoLines == {WithBases(Named("method", "m"), <<"S", "r">>), WithBases(Named("method", "x"), <<"S", "r">>),
            WithBases(Named("method", "m"), <<"T", "r">>), WithBases(Named("method", "m"), <<"S">>),
            Named("function", "m"), WithBases(Named("closure", "x"), <<"r">>),
            WithBases(Named("closure", "x"), <<"x">>), Named("interface", "T"), Named("spec", "m"),
            WithBases(Named("field", "x"), <<"T">>), Named("type", "T"), Named("const", "x"),
            Named("package", "x"), Named("import", "x"), Receiver("r"), Named("call", "m"),
            Named("route", "/")}
GoPlaces ==
    LET top == {"file"} bodies == {"function", "method", "closure"}
    IN [method |-> top, function |-> top, package |-> top, import |-> top,
        interface |-> top \cup bodies, type |-> top \cup bodies, const |-> top \cup bodies,
        spec |-> {"interface"}, field |-> {"struct"}, closure |-> bodies \cup {"call"},
        call |-> bodies \cup {"call"}, route |-> bodies]
GoFiles ==
    Longer(Longer(Longer({<<Named("struct", "S"), WithBases(Named("method", "m"), <<"S", "r">>)>>,
                          <<Named("interface", "T")>>}, GoLines, GoPlaces), GoLines, GoPlaces),
           Calls(GoLines) \cup {Named("spec", "m"), Named("route", "/")}, GoPlaces)

JavaLines == {WithTraits(Class("B", <<"A">>), <<"T">>), Named("interface", "T"), Named("enum", "B"),
              Named("variant", "x"), Named("method", "m"), Named("constructor", "x"),
              Named("field", "x"), Named("new", "B"), Named("body", "x"), Named("import", "x"),
              Receiver("this"), Named("call", "m"), Named("route", "/")}
JavaPlaces ==
    LET types == JavaTypes \cup {"body"} bodies == {"method", "constructor", "field", "new", "call"}
    IN [class |-> types \cup {"file", "method"}, interface |-> types \cup {"file"},
        enum |-> types \cup {"file"}, method |-> types \cup {"variant"}, field |-> types,
        constructor |-> types \ {"interface", "annotation", "body"}, variant |-> {"enum"},
        body |-> {"new"}, new |-> bodies \cup {"variant"}, call |-> bodies \cup {"variant"},
        import |-> {"file"}, route |-> {"class", "method"}]
JavaFiles ==
    Longer(Longer({Nested(<<Class("A", <<>>), Named("method", "m")>>),
                   Nested(<<Class("A", <<>>), Named("constructor", "x")>>),
                   Nested(<<Class("A", <<>>), Named("method", "m"), Named("new", "B"),
                            Named("body", "x"), Named("method", "m")>>),
                   Nested(<<Named("enum", "A"), Named("variant", "x"), Named("method", "m")>>),
                   <<Named("package", "x")>>}, JavaLines, JavaPlaces), JavaLines, JavaPlaces)

CsLines == {WithTraits(Class("B", <<"A">>), <<"T">>), Named("interface", "T"), Named("enum", "B"),
            Named("namespace", "X"), Named("using", "x"), Named("method", "m"),
            Named("constructor", "x"), Named("property", "x"), Named("new", "B"), Receiver("this"),
            Named("call", "m"), Named("route", "/")}
CsPlaces ==
    LET types == CsTypes \cup {"file", "namespace"} bodies == {"method", "constructor", "property"}
    IN [class |-> types, interface |-> types, enum |-> types, namespace |-> {"file", "namespace"},
        using |-> {"file", "namespace"}, method |-> CsTypes, property |-> CsTypes,
        constructor |-> CsTypes \ {"interface"}, new |-> bodies \cup {"new", "call"},
        call |-> bodies \cup {"new", "call"}, route |-> {"class", "method"}]
CsFiles ==
    Longer(Longer({Nested(<<Class("A", <<>>), Named("method", "m")>>),
                   Nested(<<Named("namespace", "N"), Class("A", <<>>), Named("method", "m")>>),
                   Nested(<<Named("namespace", "N"), Named("namespace", "X"), Named("record", "A"),
                            Named("constructor", "x")>>),
                   <<Named("filescoped", "N")>>}, CsLines, CsPlaces), CsLines, CsPlaces)

PhpLines == {WithTraits(Class("B", <<"A">>), <<"T">>), Named("enum", "B"), Named("case", "x"),
             Named("function", "m"), Named("method", "m"), Named("method", "__construct"),
             Named("property", "x"), Named("const", "x"), WithTraits(Named("mixin", "x"), <<"T">>),
             Named("arrow", "x"), Named("anonymous", "x"), Named("block", "x"), Named("use", "x"),
             Receiver("$this"), Named("call", "m"), Line("whole", <<"$this", "m">>, 0),
             Line("callable", <<"self", "m">>, 0)}
PhpPlaces ==
    LET top == {"file", "namespace", "block"} classes == PhpClasses \cup {"anonymous"}
        code == top \cup {"function", "method", "arrow", "call", "anonymous"}
        statements == top \cup {"function", "method"}
    IN [class |-> statements, enum |-> statements, function |-> statements, block |-> statements,
        case |-> {"enum"}, method |-> classes, property |-> classes \ {"interface", "enum"},
        const |-> classes \cup {"file", "namespace"}, mixin |-> classes \ {"interface"},
        arrow |-> code, anonymous |-> code, call |-> code, callable |-> code, whole |-> {"arrow"},
        use |-> {"file", "namespace"}]
PhpFiles ==
    LET method == <<Class("A", <<>>), Named("method", "m")>>
        seeds == {Nested(method), Nested(<<Named("namespace", "N")>> \o method),
                  Nested(method \o <<Named("arrow", "x")>>),
                  Nested(method \o <<Named("anonymous", "x"), Named("method", "m")>>),
                  Nested(<<Named("namespace", "N"), Named("trait", "T")>>),
                  <<Named("filescoped", "N"), Named("filescoped", "N")>>}
        lines == {l \in PhpLines : l.node \in {"call", "whole", "callable", "arrow", "anonymous", "method"}}
    IN {rows \in Longer(Longer(seeds, PhpLines, PhpPlaces), lines, PhpPlaces) :
          \A r, k \in DOMAIN rows : rows[r].node = "whole" /\ rows[k].up = rows[r].up => k = r}

RbLines == {Class("B", <<"A">>), Named("method", "m"), Named("method", "initialize"),
            WithBases(Named("singleton", "m"), <<"self">>), WithBases(Named("singleton", "m"), <<"B">>),
            WithBases(Named("eigen", "x"), <<"self">>), WithBases(Named("eigen", "x"), <<"B">>),
            Named("const", "x"), Named("require", "x"), Named("ivar", "@x"), Named("attr", "x"),
            Named("association", "x"), WithTraits(Named("mixin", "x"), <<"M">>),
            Named("callback", "m"), Named("validation", "x"), Receiver("self"), Named("call", "m")}
RbPlaces ==
    LET bodies == RbClasses \cup RbDefs \cup {"file"} dsl == RbClasses \cup {"eigen"}
    IN [class |-> RbClasses \cup {"file"}, method |-> bodies \cup {"eigen"}, singleton |-> bodies,
        eigen |-> RbClasses \cup {"file", "method"}, const |-> RbClasses \cup {"file"},
        require |-> bodies, ivar |-> bodies, attr |-> dsl, association |-> dsl, mixin |-> dsl,
        callback |-> dsl, validation |-> dsl, call |-> bodies \cup {"call"}]
RbFiles ==
    Longer(Longer({Nested(<<Class("A", <<>>), Named("method", "m")>>),
                   Nested(<<Named("module", "M"), WithBases(Named("singleton", "m"), <<"self">>)>>),
                   Nested(<<Class("A", <<>>), WithBases(Named("eigen", "x"), <<"self">>),
                            Named("method", "m")>>),
                   <<Class("B", <<>>)>>}, RbLines, RbPlaces),
           {l \in RbLines : l.node \in {"method", "singleton", "ivar", "callback", "call"}}, RbPlaces)

RoutesLines == {Named("resources", "x"), Named("resource", "x"), Named("scope", "x"),
                WithBases(Named("only", "x"), <<"index", "show">>), WithBases(Named("except", "x"), <<"show">>),
                Named("controller", "A"), Named("member", "x"), Line("verb", <<"A", "m">>, 0),
                Named("symbol", "m")}
RoutesPlaces ==
    LET resources == {"resources", "resource"} blocks == resources \cup {"routes", "scope"}
    IN [resources |-> blocks, resource |-> blocks, scope |-> blocks, only |-> resources,
        except |-> resources, controller |-> resources, member |-> resources,
        verb |-> blocks \cup {"member"}, symbol |-> blocks \cup {"member"}]
RoutesFiles ==
    Longer(Longer(Longer({<<Named("class", "XController"), Line("method", <<"index">>, 1),
                            Named("routes", "x")>>},
                         RoutesLines, RoutesPlaces), RoutesLines, RoutesPlaces), RoutesLines, RoutesPlaces)

SwLines == {Class("B", <<"A", "T">>), WithBases(Named("extension", "A"), <<"T">>), Named("protocol", "T"),
            Named("enum", "B"), Named("case", "x"), Named("function", "m"),
            WithBases(Named("function", "x"), <<"T">>), Named("init", "x"), Named("subscript", "x"),
            Named("property", "x"), Named("computed", "x"), Named("typealias", "x"),
            Named("import", "x"), Receiver("self"), Receiver("T"), Named("call", "m")}
SwPlaces ==
    LET types == SwTypes bodies == {"function", "init", "subscript", "computed"}
    IN [class |-> types \cup {"file", "function"}, extension |-> {"file"}, protocol |-> {"file"},
        enum |-> types \cup {"file"}, case |-> {"enum"}, function |-> types \cup bodies \cup {"file"},
        init |-> types, subscript |-> types, property |-> types \cup {"file"},
        computed |-> types \cup {"file"}, typealias |-> types \cup {"file"}, import |-> {"file"},
        call |-> bodies \cup {"property", "call"}]
SwFiles ==
    Longer(Longer(Longer({Nested(<<Class("A", <<>>), Named("function", "m")>>),
                          Nested(<<Named("extension", "A"), Named("function", "m")>>)},
                         SwLines, SwPlaces), SwLines, SwPlaces), Calls(SwLines), SwPlaces)

Alone(language, files) == {[f \in {"lib"} |-> In(language, rows)] : rows \in files}

-----------------------------------------------------------------------------
\* A JavaScript file with imports by alias, by path and by name.
Importing(module, path) ==
    [Line("import", <<"import">>, 0) EXCEPT !.bases = <<Simple(module)>>, !.module = path]
Script ==
    In("javascript", <<Importing("import", NoPath), Importing("B", "dir"), Importing("A", NoPath),
                 WithTraits(Class("C", <<"B">>), <<"T", "S">>),
                 Line("field", <<"x">>, 4), Line("interface", <<"T">>, 0),
                 Line("variable", <<"x">>, 0), Line("call", <<"x", "m">>, 7)>>)

\* Its import has its own node's id.
CSharp == In("csharp", <<Named("using", "import")>>)

Mixed(index, withLib) ==
    [f \in {"use", "index"} \cup withLib |->
        CASE f = "index" -> index
          [] f = "use" -> In("python", <<Line("import", <<"import">>, 0),
                                   [Line("from", <<"A">>, 0) EXCEPT !.module = "dir"],
                                   Line("other", <<"x">>, 0)>>)
          [] f = "lib" -> In("python", WithMember(Class("A", <<>>), "m"))]

MCProjects ==
    Families
        \cup Alone("python", PyFiles) \cup Alone("rust", RsFiles)
        \cup Alone("javascript", JsFiles) \cup Alone("go", GoFiles) \cup Alone("java", JavaFiles)
        \cup Alone("csharp", CsFiles) \cup Alone("php", PhpFiles)
        \cup Alone("ruby", RbFiles) \cup Alone("ruby", RoutesFiles) \cup Alone("swift", SwFiles)
        \cup {Mixed(index, withLib) : index \in {Script, CSharp}, withLib \in {{}, {"lib"}}}
=============================================================================
