-------------------------------- MODULE C3Mro --------------------------------
(***************************************************************************)
(* C3 linearization, ast-graph-resolve/src/mro.rs: c3_linearize.  `parents` *)
(* maps each class to its base classes in order, <<>> where the code's map  *)
(* has no key.  None is the empty sequence, which no linearization is.      *)
(***************************************************************************)
EXTENDS Integers, Sequences, FiniteSets, SequencesExt

None == <<>>

\* The lists whose first item is in no list's tail, when the first at[k] items
\* of list k have been removed.
Candidates(lists, at) ==
    {i \in DOMAIN lists :
        /\ at[i] < Len(lists[i])
        /\ \A k \in DOMAIN lists : \A j \in at[k] + 2 .. Len(lists[k]) :
              lists[k][j] # lists[i][at[i] + 1]}

\* Mutant: the lists are searched from the last to the first.
Round_LastList(lists, state) ==
    LET found == Candidates(lists, state.at)
        last == Max(found)
        picked == lists[last][state.at[last] + 1]
    IN IF found = {} THEN state
       ELSE [at |-> [k \in DOMAIN lists |->
                        IF state.at[k] < Len(lists[k]) /\ lists[k][state.at[k] + 1] = picked
                        THEN state.at[k] + 1 ELSE state.at[k]],
             result |-> Append(state.result, picked)]

\* A round of the loop: the first candidate is taken out of all lists.
Round(lists, state) ==
    LET found == Candidates(lists, state.at)
        first == Min(found)
        picked == lists[first][state.at[first] + 1]
    IN IF found = {} THEN state
       ELSE [at |-> [k \in DOMAIN lists |->
                        IF state.at[k] < Len(lists[k]) /\ lists[k][state.at[k] + 1] = picked
                        THEN state.at[k] + 1 ELSE state.at[k]],
             result |-> Append(state.result, picked)]

\* The result starts with c; it is None if there is no candidate before the
\* lists are empty.  A round that has one takes a class.
MergeOnto(c, lists) ==
    LET Classes == UNION {ToSet(l) : l \in ToSet(lists)}
        after[n \in Nat] ==
          IF n = 0 THEN [at |-> [k \in DOMAIN lists |-> 0], result |-> <<c>>]
          ELSE Round(lists, after[n - 1])
        end == after[Cardinality(Classes)]
    IN IF \A k \in DOMAIN lists : end.at[k] = Len(lists[k]) THEN end.result ELSE None

\* The linearization of a class from those of its base classes; a None
\* anywhere makes the whole result None.
Linearized(c, parents, found) ==
    LET lists == [k \in DOMAIN parents[c] |-> found[parents[c][k]]]
    IN IF \E k \in DOMAIN lists : lists[k] = None THEN None
       ELSE MergeOnto(c, Append(lists, parents[c]))

\* What linearize finds when it may call itself to a depth of n.  Calls that are
\* nested deeper than there are classes meet a class whose linearization is in
\* progress, for which the memo has None.
Linearize(class, parents) ==
    LET lin[n \in Nat] ==
          IF n = 0 THEN [c \in DOMAIN parents |-> None]
          ELSE [c \in DOMAIN parents |-> Linearized(c, parents, lin[n - 1])]
    IN lin[Cardinality(DOMAIN parents)][class]

-----------------------------------------------------------------------------
\* The reference: what Python promises of a method resolution order.

\* Classes above c, c included only if it is its own ancestor.
Closed(S, parents) == \A c \in S : ToSet(parents[c]) \subseteq S
Ancestors(class, parents) ==
    {d \in DOMAIN parents :
        \A S \in SUBSET DOMAIN parents :
            ToSet(parents[class]) \subseteq S /\ Closed(S, parents) => d \in S}

\* The elements of `part` are in `whole`, in the same order.
Precedes(whole, x, y) == \E a, b \in DOMAIN whole : a < b /\ whole[a] = x /\ whole[b] = y
KeepsOrder(part, whole) ==
    \A i, k \in DOMAIN part : i < k => Precedes(whole, part[i], part[k])

\* mro starts with c, has every ancestor once, keeps the order of c's bases and
\* of their own linearizations.
IsMro(mro, c, parents) ==
    /\ mro \in SetToSeqs(Ancestors(c, parents) \cup {c}) /\ Head(mro) = c
    /\ KeepsOrder(parents[c], mro)
    /\ \A p \in ToSet(parents[c]) : KeepsOrder(Linearize(p, parents), mro)

\* y waits for a class that is not placed yet and that a list has before it.
Waits(y, placed, lists) ==
    \E l \in ToSet(lists) : \E z \in ToSet(l) \ placed : Precedes(l, z, y)

\* Where several classes could come next, the one of the first list comes: of
\* the lists before one that has it, every class that is left waits.
FirstListsFirst(mro, lists) ==
    \A j \in 2 .. Len(mro) :
        LET placed == {mro[a] : a \in 1 .. j - 1}
        IN \E k \in DOMAIN lists :
              /\ mro[j] \in ToSet(lists[k])
              /\ \A h \in 1 .. k - 1 : \A y \in ToSet(lists[h]) \ placed : Waits(y, placed, lists)

\* The one such order in which Python looks an attribute up.
IsPythonsMro(mro, c, parents) ==
    /\ IsMro(mro, c, parents)
    /\ FirstListsFirst(mro, Append([k \in DOMAIN parents[c] |-> Linearize(parents[c][k], parents)],
                                   parents[c]))

\* There is an order that Python allows; a class that cannot be linearized has no
\* subclass that can.
HasMro(c, parents) ==
    /\ c \notin Ancestors(c, parents)
    /\ \A p \in ToSet(parents[c]) : Linearize(p, parents) # None
    /\ \E mro \in SetToSeqs(Ancestors(c, parents) \cup {c}) : IsMro(mro, c, parents)
=============================================================================
