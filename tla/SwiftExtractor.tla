--------------------------- MODULE SwiftExtractor ---------------------------
(***************************************************************************)
(* ast-graph-parse/src/lang/swift.rs.  The bases of a type are what it      *)
(* inherits from and conforms to, those of a function its type parameters;  *)
(* "computed" is a property with a getter, an actor is a "class".  An init  *)
(* or a subscript has its name.                                             *)
(***************************************************************************)
EXTENDS SourceFile

SwTypes == {"class", "struct", "enum", "protocol", "extension"}
SwKindOf == [class |-> "Class", struct |-> "Struct", enum |-> "Enum", protocol |-> "Interface",
             import |-> "Import", typealias |-> "TypeAlias", function |-> "Function",
             property |-> "Property", computed |-> "Property", init |-> "Constructor",
             subscript |-> "Method", case |-> "EnumVariant"]
SwNodes == DOMAIN SwKindOf \cup {"extension", "call", "other"}

\* Only what stands right in the file or in a type that does.
SwWalked(rows, r) == \A k \in Around(rows, r) \ {0} : rows[k].node \in SwTypes

SwSymbols(rows) ==
    {r \in DOMAIN rows :
        /\ rows[r].node \in DOMAIN SwKindOf /\ SwWalked(rows, r)
        /\ rows[r].node \in {"init", "subscript", "case"} => rows[r].up # 0
        /\ rows[r].node = "import" => rows[r].up = 0}

\* The type whose body the walk is in, 0 for the file.
SwType(rows, r) == Innermost(rows, r, SwTypes)

SwName(rows, r) ==
    IF SwType(rows, r) # 0 /\ rows[r].node \notin SwTypes \cup {"typealias"}
    THEN Dotted(rows[SwType(rows, r)].name.path \o rows[r].name.path) ELSE rows[r].name

SwKind(rows, r) ==
    IF rows[r].node = "function" /\ SwType(rows, r) # 0 THEN "Method" ELSE SwKindOf[rows[r].node]

\* An extension stands for a class of its name on line 0.
SwId(file, rows, r) ==
    IF rows[r].node = "extension" THEN Id(file, rows[r].name, "Class", 0)
    ELSE Id(file, SwName(rows, r), SwKind(rows, r), r - 1)

SwParent(file, rows, r) ==
    IF SwType(rows, r) = 0 THEN FileId(file, "swift") ELSE SwId(file, rows, SwType(rows, r))

\* What is searched for a call, 0 if nothing is.
SwCaller(rows, r) ==
    LET outermost == Outermost(rows, r, {"function", "init", "property", "computed", "subscript"})
    IN IF outermost \in SwSymbols(rows) /\ rows[outermost].node # "property" THEN outermost ELSE 0

\* A call without a receiver is taken for one of the type's own; a receiver
\* that is a type parameter gets the parameters.
SwCallTarget(rows, r) ==
    LET caller == SwCaller(rows, r)
        type == SwType(rows, caller)
        path == rows[r].name.path
    IN IF type # 0 /\ (Len(path) = 1 \/ (Len(path) = 2 /\ Head(path) = "self"))
       THEN Dotted(rows[type].name.path \o <<Last(path)>>)
       ELSE IF rows[caller].node = "function" /\ Len(path) = 2
                 /\ Simple(Head(path)) \in ToSet(rows[caller].bases)
            THEN Dotted(<<Head(path) \o "<>", Last(path)>>) ELSE rows[r].name

\* The first thing a type inherits from is taken for a base, but all that a
\* protocol or an extension does are protocols.
SwInherits(file, rows, r) ==
    LET bases == rows[r].bases
        id == SwId(file, rows, r)
    IN IF rows[r].node \in {"protocol", "extension"} \/ bases = <<>>
       THEN EdgesTo(id, "Implements", bases, r)
       ELSE EdgesTo(id, "Extends", <<Head(bases)>>, r) \o EdgesTo(id, "Implements", Tail(bases), r)

SwEdges(file, rows, r) ==
    CASE rows[r].node \in SwTypes /\ SwWalked(rows, r) -> SwInherits(file, rows, r)
      [] rows[r].node = "import" /\ r \in SwSymbols(rows) ->
             EdgesTo(FileId(file, "swift"), "Imports", <<rows[r].name>>, r)
      [] rows[r].node = "call" /\ SwCaller(rows, r) # 0 ->
             EdgesTo(SwId(file, rows, SwCaller(rows, r)), "Calls", <<SwCallTarget(rows, r)>>, r)
      [] OTHER -> <<>>

ExtractSwift(file, rows) ==
    Extracted(file, "swift", "swift", [r \in SwSymbols(rows) |-> SwId(file, rows, r)],
              [r \in SwSymbols(rows) |-> SwParent(file, rows, r)],
              [r \in DOMAIN rows |-> SwEdges(file, rows, r)])
=============================================================================
