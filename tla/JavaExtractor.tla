---------------------------- MODULE JavaExtractor ----------------------------
(***************************************************************************)
(* ast-graph-parse/src/lang/java.rs.  "variant" is a constant of an enum,   *)
(* which may have a body, "new" creates an object and "body" is the body of *)
(* an anonymous class.                                                      *)
(***************************************************************************)
EXTENDS SourceFile

JavaTypes == {"class", "interface", "enum", "record", "annotation"}
JavaKindOf == [class |-> "Class", interface |-> "Interface", enum |-> "Enum",
               record |-> "Record", annotation |-> "Interface", package |-> "Package",
               import |-> "Import", method |-> "Method", constructor |-> "Constructor",
               field |-> "Field", variant |-> "EnumVariant"]
JavaNodes == DOMAIN JavaKindOf \cup {"body", "call", "new", "route", "other"}

\* walk_java goes through types and what it does not know.
JavaWalked(rows, r) ==
    AroundOfKind(rows, r, {"package", "import", "method", "constructor", "field"}) = {}

JavaSymbols(rows) ==
    {r \in DOMAIN rows :
        /\ rows[r].node \in DOMAIN JavaKindOf /\ JavaWalked(rows, r)
        /\ rows[r].node = "variant" => rows[r].up # 0 /\ rows[rows[r].up].node = "enum"}

\* The type the walk is in, 0 for the file; its name is class_name.
JavaType(rows, r) == Innermost(rows, r, JavaTypes)

\* Only methods and constructors are qualified, `A..ctor`.
JavaName(rows, r) ==
    LET type == JavaType(rows, r)
    IN CASE type # 0 /\ rows[r].node = "method" -> Dotted(rows[type].name.path \o rows[r].name.path)
         [] type # 0 /\ rows[r].node = "constructor" -> Dotted(rows[type].name.path \o <<"", "ctor">>)
         [] OTHER -> rows[r].name

JavaId(file, rows, r) == Id(file, JavaName(rows, r), JavaKindOf[rows[r].node], r - 1)

JavaParent(file, rows, r) ==
    IF JavaType(rows, r) = 0 THEN FileId(file, "java") ELSE JavaId(file, rows, JavaType(rows, r))

\* The method or constructor whose body is searched for a call, 0 if it is in
\* none or in an initialiser.
JavaCaller(rows, r) ==
    LET outermost == Outermost(rows, r, {"method", "constructor"})
    IN IF outermost \in JavaSymbols(rows) THEN outermost ELSE 0

JavaCallTarget(rows, r) ==
    LET type == JavaType(rows, JavaCaller(rows, r))
    IN IF type = 0 THEN rows[r].name ELSE qualify_member_call(rows[r].name, rows[type].name)

JavaEdges(file, rows, r) ==
    CASE rows[r].node \in JavaTypes /\ JavaWalked(rows, r) ->
             Inherits(JavaId(file, rows, r), rows[r], r)
      [] rows[r].node = "import" /\ JavaWalked(rows, r) ->
             EdgesTo(JavaParent(file, rows, r), "Imports", <<rows[r].name>>, r)
      [] rows[r].node = "call" /\ JavaCaller(rows, r) # 0 ->
             EdgesTo(JavaId(file, rows, JavaCaller(rows, r)), "Calls", <<JavaCallTarget(rows, r)>>, r)
      [] rows[r].node = "new" /\ JavaCaller(rows, r) # 0 ->
             EdgesTo(JavaId(file, rows, JavaCaller(rows, r)), "References", <<rows[r].name>>, r)
      [] OTHER -> <<>>

ExtractJava(file, rows) ==
    Extracted(file, "java", "java", [r \in JavaSymbols(rows) |-> JavaId(file, rows, r)],
              [r \in JavaSymbols(rows) |-> JavaParent(file, rows, r)],
              [r \in DOMAIN rows |-> JavaEdges(file, rows, r)])
=============================================================================
