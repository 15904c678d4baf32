---------------------------- MODULE ProcessTrace ----------------------------
(***************************************************************************)
(* Process tracing, ast-graph-resolve/src/processes.rs: from every entry    *)
(* point a breadth-first walk along CALLS edges numbers the symbols it      *)
(* meets, bounded in depth and in steps.  The new nodes and edges are kept  *)
(* aside until all walks are done.                                          *)
(*                                                                          *)
(* The edges of a symbol are followed in any order.  A Process node is      *)
(* named by its root and its label, since NodeId hashes the root's file and *)
(* line with the label; no two entry points share all three.  Step 1 stands  *)
(* for the ENTRY_POINT_OF edge too: the code adds both or neither.           *)
(***************************************************************************)
EXTENDS Integers, Sequences, FiniteSets

CONSTANTS
    Symbols,        \* the symbols of the graph
    Routes,         \* Route nodes
    CallGraphs,     \* sets of CALLS edges that the graph may have
    Handlers,       \* what HANDLES_ROUTE edges the graph may have: [Symbols -> SUBSET Routes]
    Mains,          \* the functions named main or like a test
    MaxDepth,       \* max_depth
    MaxSteps,       \* max_steps
    MaxRuns,
    NoProcess       \* no process is being traced

Process == [root : Symbols, label : Symbols \cup Routes]
Step == [process : Process, symbol : Symbols, index : Nat \ {0}]

ASSUME BoundsAssumption ==
    /\ MaxDepth \in Nat /\ MaxSteps \in Nat \ {0}
    /\ \A g \in CallGraphs : g \subseteq Symbols \X Symbols
    /\ Handlers \subseteq [Symbols -> SUBSET Routes]
    /\ Mains \subseteq Symbols

VARIABLES
    calls, handles,     \* CALLS and HANDLES_ROUTE edges
    processes, steps,   \* Process nodes and STEP_IN_PROCESS edges of the graph
    pc,                 \* "idle", "next", "walk"
    entry_points,       \* entry points not yet traced
    new_processes, new_steps,
    process_count, step_count,
    proc_id,            \* the process being traced
    queue,              \* symbols to expand, with their depth
    current,            \* the symbol being expanded, with its depth
    pending,            \* its callees still to be looked at
    seen, step_index,
    runs

graph == <<calls, handles, processes, steps>>
walk == <<proc_id, queue, current, pending, seen, step_index>>
vars == <<graph, pc, entry_points, new_processes, new_steps, process_count, step_count,
          walk, runs>>

Entry == [symbol : Symbols, depth : Nat]
Nowhere == [symbol |-> NoProcess, depth |-> 0]

Init ==
    /\ calls \in CallGraphs /\ handles \in Handlers
    /\ processes = {} /\ steps = {}
    /\ pc = "idle" /\ entry_points = {}
    /\ new_processes = {} /\ new_steps = {}
    /\ process_count = 0 /\ step_count = 0
    /\ proc_id = NoProcess /\ queue = <<>> /\ current = Nowhere /\ pending = {}
    /\ seen = {} /\ step_index = 1
    /\ runs = 0

\* A handler is labelled with the first of its routes, a main with its name;
\* a symbol counts once.
EntryPoints(labelOf) ==
    {[root |-> s, label |-> labelOf[s]] : s \in {h \in Symbols : handles[h] # {}}}
        \cup {[root |-> s, label |-> s] : s \in {m \in Mains : handles[m] = {}}}

\* The order of a symbol's edges decides which of its routes is first; it is
\* the same in every run.
FirstRoute == CHOOSE f \in [Symbols -> Routes] :
    \A s \in Symbols : handles[s] # {} => f[s] \in handles[s]

DetectEntryPoints ==
    /\ pc = "idle" /\ runs < MaxRuns
    /\ entry_points' = EntryPoints(FirstRoute)
    /\ new_processes' = {} /\ new_steps' = {}
    /\ process_count' = 0 /\ step_count' = 0
    /\ runs' = runs + 1
    /\ pc' = "next"
    /\ UNCHANGED <<graph, walk>>

\* The root is the first step.  Mutant: what an earlier run traced is traced
\* again.
StartProcess_Again(p) ==
    /\ pc = "next" /\ p \in entry_points
    /\ entry_points' = entry_points \ {p}
    /\ new_processes' = new_processes \cup {p}
    /\ process_count' = process_count + 1
    /\ new_steps' = new_steps \cup {[process |-> p, symbol |-> p.root, index |-> 1]}
    /\ step_count' = step_count + 1
    /\ proc_id' = p /\ pc' = "walk"
    /\ queue' = <<[symbol |-> p.root, depth |-> 0]>>
    /\ current' = Nowhere /\ pending' = {}
    /\ seen' = {p.root} /\ step_index' = 2
    /\ UNCHANGED <<graph, runs>>
StartProcess(p) ==
    /\ pc = "next" /\ p \in entry_points
    /\ entry_points' = entry_points \ {p}
    /\ p \notin processes
    /\ new_processes' = new_processes \cup {p}
    /\ process_count' = process_count + 1
    /\ new_steps' = new_steps \cup {[process |-> p, symbol |-> p.root, index |-> 1]}
    /\ step_count' = step_count + 1
    /\ proc_id' = p /\ pc' = "walk"
    /\ queue' = <<[symbol |-> p.root, depth |-> 0]>>
    /\ current' = Nowhere /\ pending' = {}
    /\ seen' = {p.root} /\ step_index' = 2
    /\ UNCHANGED <<graph, runs>>

\* A process that an earlier run added is left as it is.
SkipProcess(p) ==
    /\ pc = "next" /\ p \in entry_points
    /\ p \in processes
    /\ entry_points' = entry_points \ {p}
    /\ UNCHANGED <<graph, pc, new_processes, new_steps, process_count, step_count, walk, runs>>

\* Mutant: the walk follows the calls backwards.
Callees_Callers(s) == {t \in Symbols : <<t, s>> \in calls}
Callees(s) == {t \in Symbols : <<s, t>> \in calls}

\* Whether the popped symbol is expanded.  Mutant: the budget is that of one
\* process.
Expands_OneBudget(d) == d < MaxDepth /\ step_count < MaxSteps
Expands(d) == d < MaxDepth /\ step_count < MaxSteps * process_count

\* Mutant: the last in is the first out.
Pop_Last ==
    /\ pc = "walk" /\ pending = {} /\ queue # <<>>
    /\ LET last == queue[Len(queue)] IN
       /\ current' = last
       /\ pending' = IF Expands(last.depth) THEN Callees(last.symbol) ELSE {}
    /\ queue' = SubSeq(queue, 1, Len(queue) - 1)
    /\ UNCHANGED <<graph, pc, entry_points, new_processes, new_steps, process_count, step_count,
                   proc_id, seen, step_index, runs>>
Pop ==
    /\ pc = "walk" /\ pending = {} /\ queue # <<>>
    /\ current' = Head(queue)
    /\ pending' = IF Expands(Head(queue).depth) THEN Callees(Head(queue).symbol) ELSE {}
    /\ queue' = Tail(queue)
    /\ UNCHANGED <<graph, pc, entry_points, new_processes, new_steps, process_count, step_count,
                   proc_id, seen, step_index, runs>>

\* A callee met for the first time is the next step, or ends the expansion if
\* the process is full: it is then in `seen`, though not a step.  Mutant: a
\* callee is marked when it is queued, but one met before is queued again.
Visit_Again(t) ==
    /\ pc = "walk" /\ t \in pending
    /\ seen' = seen \cup {t}
    /\ IF step_index > MaxSteps
       THEN pending' = {} /\ UNCHANGED <<new_steps, step_count, step_index, queue>>
       ELSE /\ pending' = pending \ {t}
            /\ new_steps' = new_steps \cup
                 {[process |-> proc_id, symbol |-> t, index |-> step_index]}
            /\ step_count' = step_count + 1
            /\ step_index' = step_index + 1
            /\ queue' = Append(queue, [symbol |-> t, depth |-> current.depth + 1])
    /\ UNCHANGED <<graph, pc, entry_points, new_processes, process_count, proc_id, current, runs>>
Visit(t) ==
    /\ pc = "walk" /\ t \in pending
    /\ seen' = seen \cup {t}
    /\ CASE t \in seen ->
              /\ pending' = pending \ {t}
              /\ UNCHANGED <<new_steps, step_count, step_index, queue>>
         [] t \notin seen /\ step_index > MaxSteps ->
              /\ pending' = {}
              /\ UNCHANGED <<new_steps, step_count, step_index, queue>>
         [] OTHER ->
              /\ pending' = pending \ {t}
              /\ new_steps' = new_steps \cup
                   {[process |-> proc_id, symbol |-> t, index |-> step_index]}
              /\ step_count' = step_count + 1
              /\ step_index' = step_index + 1
              /\ queue' = Append(queue, [symbol |-> t, depth |-> current.depth + 1])
    /\ UNCHANGED <<graph, pc, entry_points, new_processes, process_count, proc_id, current, runs>>

EndProcess ==
    /\ pc = "walk" /\ pending = {} /\ queue = <<>>
    /\ pc' = "next"
    /\ UNCHANGED <<graph, entry_points, new_processes, new_steps, process_count, step_count,
                   walk, runs>>

AddToGraph ==
    /\ pc = "next" /\ entry_points = {}
    /\ processes' = processes \cup new_processes
    /\ steps' = steps \cup new_steps
    /\ pc' = "idle"
    /\ UNCHANGED <<calls, handles, entry_points, new_processes, new_steps, process_count,
                   step_count, walk, runs>>

Trace ==
    \/ \E p \in Process : StartProcess(p) \/ SkipProcess(p)
    \/ Pop
    \/ \E t \in Symbols : Visit(t)
    \/ EndProcess \/ AddToGraph

Next == DetectEntryPoints \/ Trace

Spec == Init /\ [][Next]_vars

-----------------------------------------------------------------------------
\* The variables have their types.
TypeOK ==
    /\ calls \subseteq Symbols \X Symbols /\ handles \in [Symbols -> SUBSET Routes]
    /\ processes \subseteq Process /\ steps \subseteq Step
    /\ pc \in {"idle", "next", "walk"}
    /\ entry_points \subseteq Process
    /\ new_processes \subseteq Process /\ new_steps \subseteq Step
    /\ process_count \in Nat /\ step_count \in Nat
    /\ proc_id \in Process \cup {NoProcess}
    /\ queue \in Seq(Entry) /\ current \in Entry \cup {Nowhere}
    /\ pending \subseteq Symbols /\ seen \subseteq Symbols
    /\ step_index \in Nat \ {0} /\ runs \in Nat

StepsOf(p, all) == {s \in all : s.process = p}

Numbered(p, all) ==
    /\ [process |-> p, symbol |-> p.root, index |-> 1] \in all
    /\ \A s \in StepsOf(p, all) :
          /\ s.index <= MaxSteps
          /\ s.index > 1 => \E r \in StepsOf(p, all) : r.index = s.index - 1
    /\ \A r, s \in StepsOf(p, all) : (r.index = s.index \/ r.symbol = s.symbol) => r = s

\* The steps of a traced process are numbered 1 to some k of at most MaxSteps,
\* each number once and each symbol once; the root is step 1.  This holds
\* after any number of runs over the same graph (processes.rs:80-82).
StepsAreNumbered == \A p \in processes : Numbered(p, steps)

Called(p, all) ==
    \A s \in StepsOf(p, all) : s.index > 1 =>
        \E r \in StepsOf(p, all) : r.index < s.index /\ <<r.symbol, s.symbol>> \in calls

\* Every step but the first is called by an earlier step of the process: the
\* steps are an execution's symbols, not the callees of another process.
StepsAreCalled == \A p \in processes : Called(p, steps)

\* Reached(r)[d]: the symbols at most d calls away from r.
Reached(r) ==
    LET reach[d \in 0 .. MaxDepth] ==
          IF d = 0 THEN {r} ELSE reach[d - 1] \cup UNION {Callees(s) : s \in reach[d - 1]}
    IN reach

\* A process with steps to spare has every symbol within MaxDepth calls of its
\* root, whatever the processes traced before it used of the budget; a full one has
\* MaxSteps of them (processes.rs:128, :139).
ProcessesAreComplete ==
    \A p \in processes :
        LET symbols == {s.symbol : s \in StepsOf(p, steps)} IN
        /\ symbols \subseteq Reached(p.root)[MaxDepth]
        /\ symbols = Reached(p.root)[MaxDepth] \/ Cardinality(symbols) = MaxSteps

\* Steps are numbered in order of distance: what is nearer to the root than
\* some step comes before it.
NearerStepsFirst ==
    \A p \in processes : \A s \in StepsOf(p, steps) : \A d \in 0 .. MaxDepth :
        s.symbol \notin Reached(p.root)[d] =>
            \A t \in Reached(p.root)[d] :
                \E r \in StepsOf(p, steps) : r.symbol = t /\ r.index < s.index

\* Running again adds nothing ("idempotent re-runs", processes.rs:80).
RerunAddsNothing == [][processes # {} => UNCHANGED <<processes, steps>>]_vars
=============================================================================
