------------------------- MODULE ProcessTraceProofs -------------------------
(***************************************************************************)
(* For every graph, bounds and number of runs: the variables of             *)
(* ProcessTrace have their types; the steps of a process are numbered       *)
(* without a gap, and each but the first is called by an earlier one; a     *)
(* process has all that is within MaxDepth calls of its root, unless it is  *)
(* full, the nearer first; and later runs add nothing.                      *)
(***************************************************************************)
EXTENDS ProcessTrace, PureLemmas, FiniteSetTheorems, TLAPS

\* Processes of this run are not of an earlier one, and each step is of a
\* process of its own run.
Apart ==
    /\ pc # "idle" => new_processes \cap processes = {}
    /\ pc # "idle" => new_processes \cap entry_points = {}
    /\ \A s \in steps : s.process \in processes
    /\ \A s \in new_steps : s.process \in new_processes

\* The steps of the process being traced are numbered up to step_index, and
\* what is queued or expanded is one of them.
Walking ==
    /\ proc_id \in new_processes
    /\ 1 < step_index /\ step_index <= MaxSteps + 1
    /\ \A s \in StepsOf(proc_id, new_steps) : s.index < step_index /\ s.symbol \in seen
    /\ \E s \in StepsOf(proc_id, new_steps) : s.index = step_index - 1
    /\ \A i \in 1 .. Len(queue) :
          \E s \in StepsOf(proc_id, new_steps) : s.symbol = queue[i].symbol
    /\ pending # {} =>
          /\ \E s \in StepsOf(proc_id, new_steps) : s.symbol = current.symbol
          /\ \A t \in pending : <<current.symbol, t>> \in calls

Sound(p, all) == Numbered(p, all) /\ Called(p, all)

IInv ==
    /\ TypeOK
    /\ Apart
    /\ \A p \in processes : Sound(p, steps)
    /\ pc # "idle" => \A p \in new_processes : Sound(p, new_steps)
    /\ pc = "walk" => Walking

-----------------------------------------------------------------------------
LEMMA FirstRouteFacts ==
  ASSUME handles \in [Symbols -> SUBSET Routes]
  PROVE  \A s \in Symbols : handles[s] # {} => FirstRoute[s] \in handles[s]
<1>1. CASE Routes = {}
  BY <1>1
<1>2. CASE Routes # {}
  <2> DEFINE f == [s \in Symbols |->
                     IF handles[s] # {} THEN CHOOSE r \in handles[s] : TRUE
                     ELSE CHOOSE r \in Routes : TRUE]
  <2>1. f \in [Symbols -> Routes]
    BY <1>2
  <2>2. \A s \in Symbols : handles[s] # {} => f[s] \in handles[s]
    OBVIOUS
  <2> HIDE DEF f
  <2>3. \E g \in [Symbols -> Routes] : \A s \in Symbols : handles[s] # {} => g[s] \in handles[s]
    BY <2>1, <2>2
  <2> QED
    BY <2>3, Zenon DEF FirstRoute
<1> QED
  BY <1>1, <1>2

LEMMA EntryPointsFacts ==
  ASSUME handles \in [Symbols -> SUBSET Routes]
  PROVE  EntryPoints(FirstRoute) \subseteq Process
<1> SUFFICES ASSUME NEW p \in EntryPoints(FirstRoute) PROVE p \in Process
  OBVIOUS
<1>1. \/ \E s \in Symbols : handles[s] # {} /\ p = [root |-> s, label |-> FirstRoute[s]]
      \/ \E s \in Symbols : p = [root |-> s, label |-> s]
  BY BoundsAssumption DEF EntryPoints
<1> QED
  BY <1>1, FirstRouteFacts DEF Process

\* Whether a process is sound depends on its own steps only.
LEMMA SoundOfSame ==
  ASSUME NEW p \in Process, NEW all \in SUBSET Step, NEW more \in SUBSET Step,
         \A s \in Step : s.process = p => (s \in all <=> s \in more),
         Sound(p, all)
  PROVE  Sound(p, more)
<1>1. StepsOf(p, all) = StepsOf(p, more)
  BY DEF StepsOf
<1>2. [process |-> p, symbol |-> p.root, index |-> 1] \in Step
  BY DEF Process, Step
<1> QED
  BY <1>1, <1>2 DEF Sound, Numbered, Called

LEMMA SoundFromRoot ==
  ASSUME NEW p \in Process, NEW all \in SUBSET Step, \A s \in all : s.process # p
  PROVE  /\ [process |-> p, symbol |-> p.root, index |-> 1] \in Step
         /\ Sound(p, all \cup {[process |-> p, symbol |-> p.root, index |-> 1]})
<1> DEFINE first == [process |-> p, symbol |-> p.root, index |-> 1]
<1>1. StepsOf(p, all \cup {first}) = {first}
  BY DEF StepsOf
<1>2. first \in Step /\ first.index = 1
  BY DEF Process, Step
<1>3. first \in all \cup {first}
  OBVIOUS
<1> DEFINE more == all \cup {first}
<1>4. \A s \in StepsOf(p, more) : s = first /\ s.index = 1
  BY <1>1, <1>2
<1>5. 1 <= MaxSteps /\ ~ (1 > 1)
  BY BoundsAssumption
<1>6. [process |-> p, symbol |-> p.root, index |-> 1] \in more
  OBVIOUS
<1> HIDE DEF first, more
<1>7. Numbered(p, more)
  BY <1>4, <1>5, <1>6 DEF Numbered
<1>8. Called(p, more)
  BY <1>4, <1>5 DEF Called
<1>9. Sound(p, more)
  BY <1>7, <1>8 DEF Sound
<1> QED
  BY <1>2, <1>9 DEF first, more

LEMMA SoundWithOneMore ==
  ASSUME NEW p \in Process, NEW all \in SUBSET Step, NEW t \in Symbols, NEW i \in Nat,
         1 < i, i <= MaxSteps,
         Sound(p, all),
         \A s \in StepsOf(p, all) : s.index < i /\ s.symbol # t,
         \E s \in StepsOf(p, all) : s.index = i - 1,
         \E s \in StepsOf(p, all) : <<s.symbol, t>> \in calls
  PROVE  /\ [process |-> p, symbol |-> t, index |-> i] \in Step
         /\ Sound(p, all \cup {[process |-> p, symbol |-> t, index |-> i]})
<1> DEFINE last == [process |-> p, symbol |-> t, index |-> i]
           more == all \cup {last}
<1>1. StepsOf(p, more) = StepsOf(p, all) \cup {last}
  BY DEF StepsOf
<1>2. last \in Step /\ last.index = i /\ last.symbol = t
  BY DEF Step
<1>3. \A s \in StepsOf(p, all) : s.index \in Nat
  BY DEF StepsOf, Step
<1>4. Numbered(p, more)
  <2> HIDE DEF last
  <2>1. [process |-> p, symbol |-> p.root, index |-> 1] \in more
    BY DEF Sound, Numbered
  <2>2. \A s \in StepsOf(p, more) :
           /\ s.index <= MaxSteps
           /\ s.index > 1 => \E r \in StepsOf(p, more) : r.index = s.index - 1
    BY <1>1, <1>2 DEF Sound, Numbered
  <2>3. \A r, s \in StepsOf(p, more) : (r.index = s.index \/ r.symbol = s.symbol) => r = s
    BY <1>1, <1>2, <1>3 DEF Sound, Numbered
  <2> QED
    BY <2>1, <2>2, <2>3 DEF Numbered
<1>5. Called(p, more)
  <2> HIDE DEF last
  <2> QED
    BY <1>1, <1>2, <1>3 DEF Sound, Called
<1> QED
  BY <1>2, <1>4, <1>5 DEF Sound

LEMMA CommittedStaySound ==
  ASSUME UNCHANGED <<calls, processes, steps>>, \A p \in processes : Sound(p, steps)
  PROVE  (\A p \in processes : Sound(p, steps))'
<1> SUFFICES ASSUME NEW p \in processes PROVE Numbered(p, steps)' /\ Called(p, steps)'
  BY DEF Sound
<1>1. Numbered(p, steps) /\ Called(p, steps) /\ steps' = steps /\ calls' = calls
  BY DEF Sound
<1>2. Numbered(p, steps)'
  BY <1>1 DEF Numbered, StepsOf
<1>3. Called(p, steps)'
  BY <1>1 DEF Called, StepsOf
<1> QED
  BY <1>2, <1>3

LEMMA NewStaySound ==
  ASSUME calls' = calls, \A p \in new_processes' : Sound(p, new_steps')
  PROVE  (\A p \in new_processes : Sound(p, new_steps))'
<1> SUFFICES ASSUME NEW p \in new_processes' 
             PROVE  Numbered(p, new_steps)' /\ Called(p, new_steps)'
  BY DEF Sound
<1>1. Numbered(p, new_steps') /\ Called(p, new_steps')
  BY DEF Sound
<1>2. Numbered(p, new_steps)'
  BY <1>1 DEF Numbered, StepsOf
<1>3. Called(p, new_steps)'
  BY <1>1 DEF Called, StepsOf
<1> QED
  BY <1>2, <1>3

-----------------------------------------------------------------------------
LEMMA InitOK == Init => IInv
<1> SUFFICES ASSUME Init PROVE IInv
  OBVIOUS
<1>1. TypeOK
  BY BoundsAssumption DEF Init, TypeOK, Nowhere, Entry
<1>2. Apart
  BY DEF Init, Apart
<1> QED
  BY <1>1, <1>2 DEF Init, IInv

LEMMA DetectOK ==
  ASSUME IInv, DetectEntryPoints
  PROVE  IInv'
<1> USE DEF DetectEntryPoints, graph, walk
<1>1. TypeOK'
  BY EntryPointsFacts DEF IInv, TypeOK
<1>2. Apart'
  BY DEF IInv, Apart
<1>3. (\A p \in processes : Sound(p, steps))'
  BY CommittedStaySound DEF IInv
<1> QED
  BY <1>1, <1>2, <1>3 DEF IInv

LEMMA StartProcessOK ==
  ASSUME IInv, NEW p \in Process, StartProcess(p)
  PROVE  IInv'
<1> DEFINE first == [process |-> p, symbol |-> p.root, index |-> 1]
<1> USE DEF StartProcess, graph
<1>1. /\ p \in Process /\ p.root \in Symbols
      /\ p \notin new_processes /\ \A s \in new_steps : s.process # p
      /\ new_steps \subseteq Step /\ new_processes \subseteq Process
  BY DEF IInv, Apart, TypeOK, Process
<1>2. first \in Step /\ Sound(p, new_steps')
  BY <1>1, SoundFromRoot
<1>3. TypeOK'
  <2>1. <<[symbol |-> p.root, depth |-> 0]>> \in Seq(Entry)
    BY <1>1 DEF Entry
  <2> QED
    BY <1>1, <1>2, <2>1 DEF IInv, TypeOK
<1>4. Apart'
  BY DEF IInv, Apart
<1>5. (\A q \in processes : Sound(q, steps))'
  BY CommittedStaySound DEF IInv
<1>6. (\A q \in new_processes : Sound(q, new_steps))'
  <2>1. ASSUME NEW q \in new_processes PROVE Sound(q, new_steps')
    <3>1. Sound(q, new_steps) /\ q # p /\ q \in Process
      BY <1>1 DEF IInv
    <3>2. new_steps' = new_steps \cup {first} /\ first.process = p
      OBVIOUS
    <3>3. \A s \in Step : s.process = q => (s \in new_steps <=> s \in new_steps')
      BY <3>1, <3>2
    <3> QED
      BY <1>1, <1>2, <3>1, <3>2, <3>3, SoundOfSame
  <2>2. \A q \in new_processes' : Sound(q, new_steps')
    BY <1>2, <2>1
  <2> QED
    BY <2>2, NewStaySound
<1>7. Walking'
  <2>1. StepsOf(p, new_steps') = {first}
    BY <1>1 DEF StepsOf
  <2>2. StepsOf(proc_id, new_steps)' = {first}
    BY <2>1 DEF StepsOf
  <2>3. first.index = 1 /\ first.symbol = p.root
    OBVIOUS
  <2>4. /\ proc_id' \in new_processes' /\ pending' = {}
        /\ step_index' = 2 /\ seen' = {p.root}
    OBVIOUS
  <2>5. Len(queue') = 1 /\ queue'[1].symbol = p.root
    OBVIOUS
  <2>6. MaxSteps \in Nat \ {0}
    BY BoundsAssumption
  <2> HIDE DEF first, StartProcess
  <2> QED
    BY <2>2, <2>3, <2>4, <2>5, <2>6 DEF Walking
<1> QED
  BY <1>3, <1>4, <1>5, <1>6, <1>7 DEF IInv

LEMMA SkipProcessOK ==
  ASSUME IInv, NEW p \in Process, SkipProcess(p)
  PROVE  IInv'
<1> USE DEF SkipProcess, graph, walk
<1>1. TypeOK'
  BY DEF IInv, TypeOK
<1>2. Apart'
  BY DEF IInv, Apart
<1>3. (\A q \in processes : Sound(q, steps))'
  BY CommittedStaySound DEF IInv
<1>4. (\A q \in new_processes : Sound(q, new_steps))'
  BY NewStaySound DEF IInv
<1> QED
  BY <1>1, <1>2, <1>3, <1>4 DEF IInv

LEMMA CalleesFacts ==
  ASSUME NEW s
  PROVE  /\ Callees(s) \subseteq Symbols
         /\ \A t \in Callees(s) : <<s, t>> \in calls
  BY DEF Callees

LEMMA PopOK ==
  ASSUME IInv, Pop
  PROVE  IInv'
<1> USE DEF Pop, graph
<1>1. /\ queue \in Seq(Entry) /\ queue # <<>>
      /\ Head(queue) = queue[1] /\ Len(queue) >= 1
      /\ Len(Tail(queue)) = Len(queue) - 1
      /\ \A i \in 1 .. Len(Tail(queue)) : Tail(queue)[i] = queue[i + 1]
      /\ Head(queue) \in Entry /\ Tail(queue) \in Seq(Entry)
  BY DEF IInv, TypeOK
<1>2. pending' \subseteq Callees(Head(queue).symbol)
  OBVIOUS
<1>3. TypeOK'
  BY <1>1, <1>2, CalleesFacts DEF IInv, TypeOK
<1>4. Apart'
  BY DEF IInv, Apart
<1>5. (\A q \in processes : Sound(q, steps))'
  BY CommittedStaySound DEF IInv
<1>6. (\A q \in new_processes : Sound(q, new_steps))'
  BY NewStaySound DEF IInv
<1>7. Walking'
  <2>1. Walking
    BY DEF IInv
  <2>2. UNCHANGED <<calls, new_processes, new_steps, proc_id, seen, step_index>>
    OBVIOUS
  <2>3. queue' = Tail(queue) /\ current' = Head(queue)
    OBVIOUS
  <2> DEFINE S == StepsOf(proc_id, new_steps)
  <2>4. StepsOf(proc_id, new_steps)' = S
    BY <2>2 DEF StepsOf
  <2>5. \A i \in 1 .. Len(queue) : \E s \in S : s.symbol = queue[i].symbol
    BY <2>1 DEF Walking
  <2> HIDE DEF Pop, S
  <2>6. \A i \in 1 .. Len(queue') : \E s \in S : s.symbol = queue'[i].symbol
    <3> SUFFICES ASSUME NEW i \in 1 .. Len(queue')
                 PROVE  \E s \in S : s.symbol = queue'[i].symbol
      OBVIOUS
    <3>1. i + 1 \in 1 .. Len(queue) /\ queue'[i] = queue[i + 1]
      BY <1>1, <2>3
    <3> QED
      BY <3>1, <2>5
  <2>7. \E s \in S : s.symbol = current'.symbol
    BY <1>1, <2>3, <2>5
  <2>8. \A t \in pending' : <<current'.symbol, t>> \in calls'
    BY <1>2, <2>2, <2>3, CalleesFacts
  <2> QED
    BY <2>1, <2>2, <2>4, <2>6, <2>7, <2>8 DEF Walking, S
<1> QED
  BY <1>3, <1>4, <1>5, <1>6, <1>7 DEF IInv

LEMMA VisitOK ==
  ASSUME IInv, NEW t \in Symbols, Visit(t)
  PROVE  IInv'
<1> USE DEF graph
<1>0. /\ TypeOK /\ Apart /\ Walking /\ t \in pending
      /\ UNCHANGED <<calls, handles, processes, steps, pc, entry_points, new_processes,
                     process_count, proc_id, current, runs>>
      /\ seen' = seen \cup {t} /\ pending' \subseteq pending /\ pc = "walk"
  BY DEF IInv, Visit
<1>1. (\A q \in processes : Sound(q, steps))'
  BY <1>0, CommittedStaySound DEF IInv
<1>2. CASE UNCHANGED <<new_steps, step_count, step_index, queue>>
  <2>1. TypeOK'
    BY <1>0, <1>2 DEF TypeOK
  <2>2. Apart'
    BY <1>0, <1>2 DEF Apart
  <2>3. (\A q \in new_processes : Sound(q, new_steps))'
    BY <1>0, <1>2, NewStaySound DEF IInv
  <2>4. Walking'
    BY <1>0, <1>2 DEF Walking, StepsOf
  <2> QED
    BY <1>0, <1>1, <2>1, <2>2, <2>3, <2>4 DEF IInv
<1>3. CASE t \notin seen /\ ~(step_index > MaxSteps)
  <2> DEFINE last == [process |-> proc_id, symbol |-> t, index |-> step_index]
             entry == [symbol |-> t, depth |-> current.depth + 1]
             S == StepsOf(proc_id, new_steps)
  <2>1. /\ new_steps' = new_steps \cup {last}
        /\ step_count' = step_count + 1 /\ step_index' = step_index + 1
        /\ queue' = Append(queue, entry)
    BY <1>3 DEF Visit
  <2>2. /\ proc_id \in Process /\ step_index \in Nat /\ step_index <= MaxSteps
        /\ 1 < step_index /\ MaxSteps \in Nat
        /\ new_steps \subseteq Step /\ proc_id \in new_processes
        /\ \A q \in new_processes : Sound(q, new_steps)
    BY <1>0, <1>3, BoundsAssumption DEF IInv, TypeOK, Walking
  <2>3. \E s \in S : s.symbol = current.symbol /\ <<s.symbol, t>> \in calls
    BY <1>0 DEF Walking
  <2>4. \A s \in S : s.index < step_index /\ s.symbol # t
    BY <1>0, <1>3 DEF Walking
  <2>5. last \in Step /\ Sound(proc_id, new_steps')
    <3>1. \E s \in S : s.index = step_index - 1
      BY <1>0 DEF Walking
    <3>2. Sound(proc_id, new_steps)
      BY <2>2
    <3> QED
      BY <2>1, <2>2, <2>3, <2>4, <3>1, <3>2, SoundWithOneMore
  <2>6. /\ last.process = proc_id /\ last.symbol = t /\ last.index = step_index
        /\ entry.symbol = t
    OBVIOUS
  <2>7. entry \in Entry /\ queue' \in Seq(Entry)
    <3>1. current.depth \in Nat
      BY <1>0 DEF TypeOK, Entry, Nowhere
    <3> QED
      BY <1>0, <2>1, <3>1 DEF TypeOK, Entry
  <2> HIDE DEF last, entry
  <2>8. TypeOK'
    BY <1>0, <2>1, <2>5, <2>7 DEF TypeOK
  <2>9. Apart'
    BY <1>0, <2>1, <2>2, <2>6 DEF Apart
  <2>10. (\A q \in new_processes : Sound(q, new_steps))'
    <3>1. ASSUME NEW q \in new_processes, q # proc_id PROVE Sound(q, new_steps')
      <4>1. Sound(q, new_steps) /\ q \in Process
        BY <1>0, <2>2 DEF TypeOK
      <4>2. \A s \in Step : s.process = q => (s \in new_steps <=> s \in new_steps')
        BY <2>1, <2>6, <3>1
      <4>3. new_steps' \in SUBSET Step /\ new_steps \in SUBSET Step
        BY <2>1, <2>2, <2>5
      <4> QED
        BY <4>1, <4>2, <4>3, SoundOfSame
    <3>2. \A q \in new_processes' : Sound(q, new_steps')
      BY <1>0, <2>5, <3>1
    <3> QED
      BY <1>0, <3>2, NewStaySound
  <2>11. StepsOf(proc_id, new_steps)' = S \cup {last}
    BY <1>0, <2>1, <2>6 DEF StepsOf
  <2>12. Walking'
    <3>1. \A s \in S \cup {last} : s.index < step_index + 1 /\ s.symbol \in seen \cup {t}
      <4>1. \A s \in S : s.index \in Nat /\ s.symbol \in seen
        BY <1>0, <2>2 DEF Walking, StepsOf, Step
      <4> QED
        BY <2>2, <2>4, <2>6, <4>1
    <3>2. \E s \in S \cup {last} : s.index = (step_index + 1) - 1
      BY <2>2, <2>6
    <3>3. \A i \in 1 .. Len(queue') : \E s \in S \cup {last} : s.symbol = queue'[i].symbol
      <4> SUFFICES ASSUME NEW i \in 1 .. Len(queue')
                   PROVE  \E s \in S \cup {last} : s.symbol = queue'[i].symbol
        OBVIOUS
      <4>1. queue \in Seq(Entry)
        BY <1>0 DEF TypeOK
      <4>2. CASE i = Len(queue) + 1
        <5>1. queue'[i] = entry
          BY <2>1, <2>7, <4>1, <4>2
        <5> QED
          BY <5>1, <2>6 
      <4>3. CASE i \in 1 .. Len(queue)
        <5>1. queue'[i] = queue[i]
          BY <2>1, <2>7, <4>1, <4>3
        <5> QED
          BY <5>1, <1>0, <4>3 DEF Walking
      <4>4. Len(queue') = Len(queue) + 1
        BY <2>1, <2>7, <4>1
      <4> QED
        BY <4>1, <4>2, <4>3, <4>4
    <3>4. pending' # {} => \E s \in S \cup {last} : s.symbol = current.symbol
      BY <2>3
    <3>5. \A u \in pending' : <<current.symbol, u>> \in calls
      BY <1>0 DEF Walking
    <3> DEFINE more == S \cup {last}
    <3>6. /\ proc_id' \in new_processes'
          /\ 1 < step_index' /\ step_index' <= MaxSteps + 1
      BY <1>0, <2>1, <2>2
    <3>7. seen' = seen \cup {t} /\ current' = current /\ calls' = calls
          /\ step_index' = step_index + 1
      BY <1>0, <2>1
    <3>8. StepsOf(proc_id, new_steps)' = more
      BY <2>11
    <3>9. /\ \A s \in more : s.index < step_index' /\ s.symbol \in seen'
          /\ \E s \in more : s.index = step_index' - 1
          /\ \A i \in 1 .. Len(queue') : \E s \in more : s.symbol = queue'[i].symbol
          /\ pending' # {} =>
                /\ \E s \in more : s.symbol = current'.symbol
                /\ \A u \in pending' : <<current'.symbol, u>> \in calls'
      BY <3>1, <3>2, <3>3, <3>4, <3>5, <3>7
    <3> HIDE DEF more
    <3> QED
      BY <3>6, <3>8, <3>9 DEF Walking
  <2> QED
    BY <1>0, <1>1, <2>8, <2>9, <2>10, <2>12 DEF IInv
<1> QED
  BY <1>2, <1>3 DEF Visit

LEMMA EndProcessOK ==
  ASSUME IInv, EndProcess
  PROVE  IInv'
<1> USE DEF EndProcess, graph, walk
<1>1. TypeOK'
  BY DEF IInv, TypeOK
<1>2. Apart'
  BY DEF IInv, Apart
<1>3. (\A q \in processes : Sound(q, steps))'
  BY CommittedStaySound DEF IInv
<1>4. (\A q \in new_processes : Sound(q, new_steps))'
  BY NewStaySound DEF IInv
<1> QED
  BY <1>1, <1>2, <1>3, <1>4 DEF IInv

LEMMA AddToGraphOK ==
  ASSUME IInv, AddToGraph
  PROVE  IInv'
<1> USE DEF AddToGraph, walk
<1>1. TypeOK'
  BY DEF IInv, TypeOK
<1>2. Apart'
  BY DEF IInv, Apart
<1>3. ASSUME NEW p \in processes' PROVE Sound(p, steps')
  <2>1. p \in Process /\ steps \in SUBSET Step /\ steps' \in SUBSET Step
        /\ new_steps \in SUBSET Step
    BY <1>3 DEF IInv, TypeOK
  <2>2. CASE p \in processes
    <3>1. \A s \in Step : s.process = p => (s \in steps <=> s \in steps')
      BY <2>2 DEF IInv, Apart
    <3> QED
      BY <2>1, <2>2, <3>1, SoundOfSame DEF IInv
  <2>3. CASE p \in new_processes
    <3>1. \A s \in Step : s.process = p => (s \in new_steps <=> s \in steps')
      BY <2>3 DEF IInv, Apart
    <3> QED
      BY <2>1, <2>3, <3>1, SoundOfSame DEF IInv
  <2> QED
    BY <1>3, <2>2, <2>3
<1>4. (\A p \in processes : Sound(p, steps))'
  <2> SUFFICES ASSUME NEW p \in processes'
               PROVE  Numbered(p, steps)' /\ Called(p, steps)'
    BY DEF Sound
  <2>1. Numbered(p, steps') /\ Called(p, steps')
    BY <1>3 DEF Sound
  <2>2. Numbered(p, steps)'
    BY <2>1 DEF Numbered, StepsOf
  <2>3. Called(p, steps)'
    BY <2>1 DEF Called, StepsOf
  <2> QED
    BY <2>2, <2>3
<1> QED
  BY <1>1, <1>2, <1>4 DEF IInv

LEMMA NextOK == IInv /\ [Next]_vars => IInv'
<1> SUFFICES ASSUME IInv, [Next]_vars PROVE IInv'
  OBVIOUS
<1>1. CASE UNCHANGED vars
  <2> USE <1>1 DEF vars, graph, walk
  <2>1. TypeOK' /\ Apart'
    BY DEF IInv, TypeOK, Apart
  <2>2. (\A p \in processes : Sound(p, steps))'
    BY CommittedStaySound DEF IInv
  <2>3. pc # "idle" => (\A p \in new_processes : Sound(p, new_steps))'
    BY NewStaySound DEF IInv
  <2>4. pc = "walk" => Walking'
    BY DEF IInv, Walking, StepsOf
  <2> QED
    BY <2>1, <2>2, <2>3, <2>4 DEF IInv
<1>2. CASE Next
  BY <1>2, DetectOK, StartProcessOK, SkipProcessOK, PopOK, VisitOK, EndProcessOK, AddToGraphOK
     DEF Next, Trace
<1> QED
  BY <1>1, <1>2

-----------------------------------------------------------------------------
\* The inductive invariant holds throughout the search for processes.
THEOREM Invariance == Spec => []IInv
<1>1. Init => IInv
  BY InitOK
<1>2. IInv /\ [Next]_vars => IInv'
  BY NextOK
<1> QED
  BY <1>1, <1>2, PTL DEF Spec

\* The variables have their types.
THEOREM TypeCorrect == Spec => []TypeOK
<1>1. IInv => TypeOK
  BY DEF IInv
<1> QED
  BY <1>1, Invariance, PTL

\* The steps of every process in the graph are numbered 1, 2, ... up to at
\* most MaxSteps, with neither a number nor a symbol twice, after any number
\* of runs of trace_processes.
THEOREM Numbering == Spec => []StepsAreNumbered
<1>1. IInv => StepsAreNumbered
  BY DEF IInv, Sound, StepsAreNumbered
<1> QED
  BY <1>1, Invariance, PTL

\* Every step but the first is called by an earlier step of its process.
THEOREM Calling == Spec => []StepsAreCalled
<1>1. IInv => StepsAreCalled
  BY DEF IInv, Sound, StepsAreCalled
<1> QED
  BY <1>1, Invariance, PTL
-----------------------------------------------------------------------------
(***************************************************************************)
(* The walk is a breadth-first search: it finds what is within reach, the   *)
(* nearer first.                                                            *)
(***************************************************************************)

\* Reached, with the calls as a parameter.
CalleesIn(g, s) == {t \in Symbols : <<s, t>> \in g}
ReachIn(g, r) ==
    LET reach[d \in 0 .. MaxDepth] ==
          IF d = 0 THEN {r} ELSE reach[d - 1] \cup UNION {CalleesIn(g, s) : s \in reach[d - 1]}
    IN reach

SymbolsOf(p, all) == {s.symbol : s \in StepsOf(p, all)}

Complete(p, all, g) ==
    /\ SymbolsOf(p, all) \subseteq ReachIn(g, p.root)[MaxDepth]
    /\ \/ SymbolsOf(p, all) = ReachIn(g, p.root)[MaxDepth]
       \/ Cardinality(SymbolsOf(p, all)) = MaxSteps

Nearest(p, all, g) ==
    \A s \in StepsOf(p, all) : \A d \in 0 .. MaxDepth :
        s.symbol \notin ReachIn(g, p.root)[d] =>
            \A t \in ReachIn(g, p.root)[d] :
                \E r \in StepsOf(p, all) : r.symbol = t /\ r.index < s.index

\* s is d calls away from r, and no fewer.
Away(g, r, s, d) ==
    /\ d \in 0 .. MaxDepth /\ s \in ReachIn(g, r)[d]
    /\ \A e \in 0 .. d - 1 : s \notin ReachIn(g, r)[e]

Full == step_index > MaxSteps
Here == SymbolsOf(proc_id, new_steps)
Near == ReachIn(calls, proc_id.root)

\* Entries of the queue, and the one being expanded, carry their distance; the
\* queue is sorted by it and spans two levels.
QueueInv ==
    /\ \A i \in 1 .. Len(queue) : Away(calls, proc_id.root, queue[i].symbol, queue[i].depth)
    /\ \A i, j \in 1 .. Len(queue) :
          /\ i < j => queue[i].depth <= queue[j].depth
          /\ queue[j].depth <= queue[i].depth + 1
    /\ pending # {} =>
          /\ Away(calls, proc_id.root, current.symbol, current.depth)
          /\ current.depth < MaxDepth
          /\ \A i \in 1 .. Len(queue) :
                current.depth <= queue[i].depth /\ queue[i].depth <= current.depth + 1

\* While there is room, the callees of a step nearer than MaxDepth are steps,
\* unless it waits in the queue or is being expanded.
Expanded(s) ==
    /\ s \in Here
    /\ \A i \in 1 .. Len(queue) : queue[i].symbol # s
    /\ \E d \in 0 .. MaxDepth : d < MaxDepth /\ s \in Near[d]
ExpandInv ==
    ~Full =>
        /\ seen = Here
        /\ \A s \in Symbols : Expanded(s) =>
              \A t \in CalleesIn(calls, s) :
                  t \in Here \/ (pending # {} /\ s = current.symbol /\ t \in pending)

\* The budget of the processes so far is spent when all of them are full.
BudgetInv ==
    /\ pc = "next" => step_count <= MaxSteps * process_count
    /\ pc = "walk" => /\ process_count >= 1
                      /\ step_count <= MaxSteps * (process_count - 1) + (step_index - 1)

InReach(p, all, g) == SymbolsOf(p, all) \subseteq ReachIn(g, p.root)[MaxDepth]

\* What the graph has is complete and in order; so is what the run has found, the process
\* being traced being incomplete.
Found == \A p \in processes : Complete(p, steps, calls) /\ Nearest(p, steps, calls)
FoundNew ==
    \A p \in new_processes :
        /\ Nearest(p, new_steps, calls) /\ InReach(p, new_steps, calls)
        /\ (pc = "walk" => p # proc_id) => Complete(p, new_steps, calls)

SearchInv ==
    /\ BudgetInv
    /\ Found
    /\ pc # "idle" => FoundNew
    /\ pc = "walk" => QueueInv /\ ExpandInv

\* Entry points that are in the graph stay; a later run finds no others.
RerunInv ==
    /\ processes # {} => EntryPoints(FirstRoute) \subseteq processes
    /\ pc # "idle" =>
          /\ EntryPoints(FirstRoute) \subseteq entry_points \cup new_processes \cup processes
          /\ entry_points \cup new_processes \subseteq EntryPoints(FirstRoute)

LEMMA ReachDefined ==
  ASSUME NEW g, NEW r \in Symbols
  PROVE  /\ ReachIn(g, r)[0] = {r}
         /\ \A d \in 0 .. MaxDepth - 1 : \A t :
               t \in ReachIn(g, r)[d + 1] <=>
                  \/ t \in ReachIn(g, r)[d]
                  \/ \E s \in ReachIn(g, r)[d] : t \in CalleesIn(g, s)
<1> DEFINE U == SUBSET Symbols
           F == [S \in U |-> S \cup UNION {CalleesIn(g, s) : s \in S}]
           reach[d \in 0 .. MaxDepth] ==
             IF d = 0 THEN {r} ELSE reach[d - 1] \cup UNION {CalleesIn(g, s) : s \in reach[d - 1]}
           Fits(f) == f = [d \in 0 .. MaxDepth |->
             IF d = 0 THEN {r} ELSE f[d - 1] \cup UNION {CalleesIn(g, s) : s \in f[d - 1]}]
<1>1. F \in [U -> U] /\ {r} \in U
  BY DEF CalleesIn
<1>2. \A S \in U : F[S] = S \cup UNION {CalleesIn(g, s) : s \in S}
  OBVIOUS
<1> HIDE DEF F, U
<1>3. PICK h \in [Nat -> U] : h[0] = {r} /\ \A n \in Nat : h[n + 1] = F[h[n]]
  <2>1. \E h : Iterates(h, U, {r}, F)
    BY <1>1, IterationExists, Zenon
  <2> QED
    BY <2>1 DEF Iterates
<1> DEFINE f == [d \in 0 .. MaxDepth |-> h[d]]
<1>4. ASSUME NEW d \in 0 .. MaxDepth, d # 0
      PROVE  h[d] = f[d - 1] \cup UNION {CalleesIn(g, s) : s \in f[d - 1]}
  <2>1. d - 1 \in Nat /\ d - 1 \in 0 .. MaxDepth /\ (d - 1) + 1 = d
    BY <1>4, BoundsAssumption
  <2>2. h[d] = F[h[d - 1]] /\ h[d - 1] \in U /\ f[d - 1] = h[d - 1]
    BY <1>3, <2>1
  <2> QED
    BY <2>2, <1>2
<1>5. \A d \in 0 .. MaxDepth :
         h[d] = IF d = 0 THEN {r} ELSE f[d - 1] \cup UNION {CalleesIn(g, s) : s \in f[d - 1]}
  BY <1>3, <1>4, Zenon
<1>6. Fits(f)
  BY <1>5, Zenon
<1> HIDE DEF f
<1>7. \E x : Fits(x)
  BY <1>6
<1>8. Fits(reach)
  BY <1>7, Zenon
<1> DEFINE K == [d \in 0 .. MaxDepth |->
             IF d = 0 THEN {r} ELSE reach[d - 1] \cup UNION {CalleesIn(g, s) : s \in reach[d - 1]}]
<1>9. reach = K
  BY <1>8, Zenon
<1>10. reach = ReachIn(g, r)
  BY Zenon DEF ReachIn
<1> HIDE DEF reach
<1>11. \A d \in 0 .. MaxDepth : K[d] =
          IF d = 0 THEN {r} ELSE reach[d - 1] \cup UNION {CalleesIn(g, s) : s \in reach[d - 1]}
  BY Zenon
<1> HIDE DEF K
<1>12. \A d \in 0 .. MaxDepth : reach[d] =
          IF d = 0 THEN {r} ELSE reach[d - 1] \cup UNION {CalleesIn(g, s) : s \in reach[d - 1]}
  BY <1>9, <1>11, Zenon
<1>13. reach[0] = {r}
  <2>1. 0 \in 0 .. MaxDepth
    BY BoundsAssumption
  <2> QED
    BY <1>12, <2>1, Zenon
<1>14. ASSUME NEW d \in 0 .. MaxDepth - 1, NEW t
       PROVE  t \in reach[d + 1] <=>
                 t \in reach[d] \/ \E s \in reach[d] : t \in CalleesIn(g, s)
  <2>1. d + 1 \in 0 .. MaxDepth /\ d + 1 # 0 /\ (d + 1) - 1 = d
    BY BoundsAssumption
  <2>2. reach[d + 1] = reach[d] \cup UNION {CalleesIn(g, s) : s \in reach[d]}
    BY <1>12, <2>1, Zenon
  <2> QED
    BY <2>2
<1> QED
  BY <1>10, <1>13, <1>14, Zenon

LEMMA ReachFacts ==
  ASSUME NEW g, NEW r \in Symbols
  PROVE  /\ ReachIn(g, r)[0] = {r}
         /\ \A d \in 0 .. MaxDepth : ReachIn(g, r)[d] \subseteq Symbols
         /\ \A d \in 0 .. MaxDepth - 1 : \A t :
               t \in ReachIn(g, r)[d + 1] <=>
                  \/ t \in ReachIn(g, r)[d]
                  \/ \E s \in ReachIn(g, r)[d] : t \in CalleesIn(g, s)
         /\ \A d \in 0 .. MaxDepth : \A e \in 0 .. d : ReachIn(g, r)[e] \subseteq ReachIn(g, r)[d]
<1> DEFINE R == ReachIn(g, r)
<1>0. MaxDepth \in Nat
  BY BoundsAssumption
<1>2. R[0] = {r}
  BY ReachDefined
<1>3. \A d \in 0 .. MaxDepth - 1 : \A t :
         t \in R[d + 1] <=> t \in R[d] \/ \E s \in R[d] : t \in CalleesIn(g, s)
  BY ReachDefined
<1> HIDE DEF R
<1>4. \A d \in 0 .. MaxDepth : R[d] \subseteq Symbols
  <2> DEFINE S == {d \in Nat : R[d] \subseteq Symbols}
  <2>1. 0 \in S
    BY <1>2
  <2>2. ASSUME NEW d \in 0 .. MaxDepth - 1, d \in S PROVE d + 1 \in S
    <3>1. R[d + 1] \subseteq Symbols
      <4> SUFFICES ASSUME NEW t \in R[d + 1] PROVE t \in Symbols
        OBVIOUS
      <4>1. t \in R[d] \/ \E s \in R[d] : t \in CalleesIn(g, s)
        BY <1>3
      <4> QED
        BY <2>2, <4>1 DEF CalleesIn
    <3> QED
      BY <3>1
  <2> HIDE DEF S
  <2>3. \A d \in 0 .. MaxDepth : d \in S
    BY <1>0, <2>1, <2>2, InductUpTo
  <2> QED
    BY <2>3 DEF S
<1>5. ASSUME NEW d \in 0 .. MaxDepth, NEW e \in 0 .. d PROVE R[e] \subseteq R[d]
  <2> DEFINE S == {k \in Nat : \A x \in 0 .. k : R[x] \subseteq R[k]}
  <2>1. 0 \in S
    OBVIOUS
  <2>2. ASSUME NEW k \in 0 .. MaxDepth - 1, k \in S PROVE k + 1 \in S
    <3>1. R[k] \subseteq R[k + 1]
      BY <1>3
    <3> QED
      BY <2>2, <3>1
  <2> HIDE DEF S
  <2>3. \A k \in 0 .. MaxDepth : k \in S
    BY <1>0, <2>1, <2>2, InductUpTo
  <2> QED
    BY <2>3 DEF S
<1> QED
  BY <1>2, <1>3, <1>4, <1>5 DEF R

\* Reached is ReachIn of the calls.
LEMMA ReachedIs == \A r : Reached(r) = ReachIn(calls, r)
  BY Zenon DEF Reached, ReachIn, Callees, CalleesIn

\* What is closed under calls up to m - 1 calls away holds all that is m away.
LEMMA ClosedReach ==
  ASSUME NEW g, NEW r \in Symbols, NEW m \in 0 .. MaxDepth, NEW H, r \in H,
         \A s \in H : (\E d \in 0 .. m - 1 : s \in ReachIn(g, r)[d]) =>
             \A t \in CalleesIn(g, s) : t \in H
  PROVE  ReachIn(g, r)[m] \subseteq H
<1> DEFINE R == ReachIn(g, r)
           S == {d \in Nat : R[d] \subseteq H}
<1>0. m \in Nat /\ MaxDepth \in Nat /\ m <= MaxDepth
  BY BoundsAssumption
<1>1. /\ R[0] = {r}
      /\ \A d \in 0 .. MaxDepth - 1 : \A t :
            t \in R[d + 1] <=> t \in R[d] \/ \E s \in R[d] : t \in CalleesIn(g, s)
  BY ReachFacts
<1>2. \A s \in H : (\E d \in 0 .. m - 1 : s \in R[d]) => \A t \in CalleesIn(g, s) : t \in H
  OBVIOUS
<1> HIDE DEF R
<1>3. 0 \in S
  BY <1>1
<1>4. ASSUME NEW d \in 0 .. m - 1, d \in S PROVE d + 1 \in S
  <2>1. \A s \in R[d] : \A t \in CalleesIn(g, s) : t \in H
    BY <1>2, <1>4
  <2>2. d \in 0 .. MaxDepth - 1
    BY <1>0
  <2>3. R[d + 1] \subseteq H
    BY <1>1, <1>4, <2>1, <2>2
  <2> QED
    BY <2>3
<1> HIDE DEF S
<1>5. \A d \in 0 .. m : d \in S
  BY <1>0, <1>3, <1>4, InductUpTo
<1> QED
  BY <1>0, <1>5 DEF S, R

\* A process with a step MaxSteps has MaxSteps symbols.
LEMMA FullCardinality ==
  ASSUME NEW p \in Process, NEW all \in SUBSET Step, Numbered(p, all),
         \E s \in StepsOf(p, all) : s.index = MaxSteps
  PROVE  Cardinality(SymbolsOf(p, all)) = MaxSteps
<1> DEFINE S == StepsOf(p, all)
           T == SymbolsOf(p, all)
           K == {k \in Nat : k <= MaxSteps - 1 => \E s \in S : s.index = MaxSteps - k}
<1>0. /\ MaxSteps \in Nat \ {0} /\ \A s \in S : s.index \in Nat \ {0}
      /\ \A s \in S : s.index <= MaxSteps /\ (s.index > 1 => \E r \in S : r.index = s.index - 1)
      /\ \A r, s \in S : (r.index = s.index \/ r.symbol = s.symbol) => r = s
      /\ \E s \in S : s.index = MaxSteps
      /\ T = {s.symbol : s \in S}
  BY BoundsAssumption DEF Numbered, StepsOf, Step, SymbolsOf
<1> HIDE DEF S, T
<1>1. 0 \in K
  BY <1>0
<1>2. ASSUME NEW k \in Nat, k \in K PROVE k + 1 \in K
  <2> SUFFICES ASSUME k + 1 <= MaxSteps - 1 PROVE \E s \in S : s.index = MaxSteps - (k + 1)
    OBVIOUS
  <2>1. PICK s \in S : s.index = MaxSteps - k
    BY <1>0, <1>2
  <2> QED
    BY <1>0, <2>1
<1> HIDE DEF K
<1>3. \A k \in Nat : k \in K
  BY <1>1, <1>2, Induct
<1>4. ASSUME NEW i \in 1 .. MaxSteps PROVE \E s \in S : s.index = i
  <2>1. MaxSteps - i \in Nat /\ MaxSteps - i \in K
    BY <1>0, <1>3
  <2> QED
    BY <1>0, <2>1 DEF K
<1> DEFINE St(i) == CHOOSE s \in S : s.index = i
           f == [i \in 1 .. MaxSteps |-> St(i).symbol]
<1>5. \A i \in 1 .. MaxSteps : St(i) \in S /\ St(i).index = i
  BY <1>4, Zenon
<1> HIDE DEF St
<1>6. f \in [1 .. MaxSteps -> T]
  BY <1>0, <1>5
<1>7. \A i, j \in 1 .. MaxSteps : f[i] = f[j] => i = j
  BY <1>0, <1>5
<1>8. ASSUME NEW t \in T PROVE \E i \in 1 .. MaxSteps : f[i] = t
  <2>1. PICK s \in S : s.symbol = t
    BY <1>0
  <2>2. s.index \in 1 .. MaxSteps
    BY <1>0
  <2>3. St(s.index) = s
    BY <1>0, <1>5, <2>2
  <2> QED
    BY <2>1, <2>2, <2>3
<1> HIDE DEF f
<1>9. f \in Bijection(1 .. MaxSteps, T)
  <2>1. f \in Injection(1 .. MaxSteps, T)
    BY <1>6, <1>7 DEF Injection, IsInjective
  <2>2. \A t \in T : \E i \in 1 .. MaxSteps : f[i] = t
    BY <1>8, Zenon
  <2>3. f \in Surjection(1 .. MaxSteps, T)
    BY <1>6, <2>2 DEF Surjection
  <2> QED
    BY <2>1, <2>3 DEF Bijection
<1>10. Cardinality(T) = MaxSteps
  BY <1>0, <1>9, FS_CountingElements DEF ExistsBijection
<1> QED
  BY <1>10 DEF T

\* What was found of a process depends on its own steps only.
LEMMA FoundOfSame ==
  ASSUME NEW p, NEW all \in SUBSET Step, NEW more \in SUBSET Step, NEW g,
         \A s \in Step : s.process = p => (s \in all <=> s \in more)
  PROVE  /\ StepsOf(p, all) = StepsOf(p, more) /\ SymbolsOf(p, all) = SymbolsOf(p, more)
         /\ Complete(p, all, g) <=> Complete(p, more, g)
         /\ Nearest(p, all, g) <=> Nearest(p, more, g)
<1>1. StepsOf(p, all) = StepsOf(p, more)
  BY DEF StepsOf
<1>2. SymbolsOf(p, all) = SymbolsOf(p, more)
  BY <1>1 DEF SymbolsOf
<1> QED
  BY <1>1, <1>2, Zenon DEF Complete, Nearest

\* A new step that is no nearer than what is missing keeps the order.
LEMMA NearestWithOneMore ==
  ASSUME NEW p \in Process, NEW all \in SUBSET Step, NEW g, NEW last \in Step,
         last.process = p, Nearest(p, all, g),
         \A s \in StepsOf(p, all) : s.index < last.index,
         \A d \in 0 .. MaxDepth : last.symbol \notin ReachIn(g, p.root)[d] =>
             ReachIn(g, p.root)[d] \subseteq SymbolsOf(p, all)
  PROVE  Nearest(p, all \cup {last}, g)
<1>1. StepsOf(p, all \cup {last}) = StepsOf(p, all) \cup {last}
  BY DEF StepsOf
<1>2. ASSUME NEW s \in StepsOf(p, all \cup {last}), NEW d \in 0 .. MaxDepth,
             s.symbol \notin ReachIn(g, p.root)[d], NEW t \in ReachIn(g, p.root)[d]
      PROVE  \E r \in StepsOf(p, all \cup {last}) : r.symbol = t /\ r.index < s.index
  <2>1. CASE s = last
    <3>1. t \in SymbolsOf(p, all)
      BY <1>2, <2>1
    <3>2. \E r \in StepsOf(p, all) : r.symbol = t
      BY <3>1 DEF SymbolsOf
    <3> QED
      BY <1>1, <2>1, <3>2
  <2>2. CASE s \in StepsOf(p, all)
    <3>1. \A u \in ReachIn(g, p.root)[d] :
             \E r \in StepsOf(p, all) : r.symbol = u /\ r.index < s.index
      BY <1>2, <2>2 DEF Nearest
    <3> QED
      BY <1>1, <3>1
  <2> QED
    BY <1>1, <2>1, <2>2
<1> QED
  BY <1>2 DEF Nearest

-----------------------------------------------------------------------------
\* What the state says of the search.
LEMMA HereFacts ==
  ASSUME IInv, pc = "walk"
  PROVE  /\ proc_id \in Process /\ proc_id.root \in Symbols
         /\ proc_id \in new_processes
         /\ new_steps \in SUBSET Step
         /\ Here \subseteq Symbols /\ proc_id.root \in Here
         /\ \A t : t \in Here <=> \E s \in StepsOf(proc_id, new_steps) : s.symbol = t
         /\ Here \subseteq seen
<1>1. proc_id \in new_processes /\ new_processes \subseteq Process /\ new_steps \subseteq Step
  BY DEF IInv, TypeOK, Walking
<1>2. \A s \in StepsOf(proc_id, new_steps) : s \in Step /\ s.symbol \in seen
  BY <1>1 DEF IInv, Walking, StepsOf
<1>3. \A t : t \in Here <=> \E s \in StepsOf(proc_id, new_steps) : s.symbol = t
  BY DEF Here, SymbolsOf
<1>4. Sound(proc_id, new_steps)
  BY <1>1 DEF IInv
<1>5. \E s \in StepsOf(proc_id, new_steps) : s.symbol = proc_id.root
  <2> DEFINE first == [process |-> proc_id, symbol |-> proc_id.root, index |-> 1]
  <2>1. first \in new_steps
    BY <1>4 DEF Sound, Numbered
  <2>2. first.process = proc_id /\ first.symbol = proc_id.root
    OBVIOUS
  <2> HIDE DEF first
  <2> QED
    BY <2>1, <2>2 DEF StepsOf
<1> QED
  BY <1>1, <1>2, <1>3, <1>5 DEF Process, Step

\* All that is nearer than what is expanded next has been found.
LEMMA Frontier ==
  ASSUME IInv, SearchInv, pc = "walk", ~Full, NEW m \in 0 .. MaxDepth,
         pending # {} => m <= current.depth,
         \A i \in 1 .. Len(queue) : m <= queue[i].depth
  PROVE  Near[m] \subseteq Here
<1> DEFINE r == proc_id.root
<1>1. r \in Symbols /\ r \in Here /\ Here \subseteq Symbols
  BY HereFacts
<1>2. QueueInv /\ ExpandInv
  BY DEF SearchInv
<1>3. MaxDepth \in Nat /\ \A i \in 1 .. Len(queue) : queue[i].depth \in Nat
  <2>1. \A i \in 1 .. Len(queue) : queue[i] \in Entry
    BY DEF IInv, TypeOK
  <2> QED
    BY <2>1, BoundsAssumption DEF Entry
<1>4. ASSUME NEW s \in Here, NEW d \in 0 .. m - 1, s \in ReachIn(calls, r)[d],
             NEW t \in CalleesIn(calls, s)
      PROVE  t \in Here
  <2>1. \A i \in 1 .. Len(queue) : queue[i].symbol # s
    <3> SUFFICES ASSUME NEW i \in 1 .. Len(queue), queue[i].symbol = s PROVE FALSE
      OBVIOUS
    <3>1. d \in 0 .. queue[i].depth - 1
      BY <1>3
    <3> QED
      BY <1>2, <1>4, <3>1 DEF QueueInv, Away
  <2>2. d \in 0 .. MaxDepth /\ d < MaxDepth
    BY <1>3
  <2>3. Expanded(s)
    BY <1>4, <2>1, <2>2 DEF Expanded, Near
  <2>4. ~ (pending # {} /\ s = current.symbol)
    <3> SUFFICES ASSUME pending # {}, s = current.symbol PROVE FALSE
      OBVIOUS
    <3>1. current.depth \in Nat
      BY DEF IInv, TypeOK, Entry, Nowhere
    <3>2. d \in 0 .. current.depth - 1
      BY <3>1
    <3> QED
      BY <1>2, <1>4, <3>2 DEF QueueInv, Away
  <2> QED
    BY <1>1, <1>2, <2>3, <2>4 DEF ExpandInv
<1> QED
  BY <1>1, <1>4, ClosedReach DEF Near

-----------------------------------------------------------------------------
LEMMA StartFinds ==
  ASSUME IInv, SearchInv, NEW p \in Process, StartProcess(p)
  PROVE  SearchInv'
<1> DEFINE first == [process |-> p, symbol |-> p.root, index |-> 1]
           r == p.root
<1>1. /\ pc = "next" /\ pc' = "walk" /\ p \in entry_points
      /\ new_steps' = new_steps \cup {first} /\ new_processes' = new_processes \cup {p}
      /\ process_count' = process_count + 1 /\ step_count' = step_count + 1
      /\ proc_id' = p /\ queue' = <<[symbol |-> r, depth |-> 0]>> /\ pending' = {}
      /\ seen' = {r} /\ step_index' = 2
      /\ calls' = calls /\ processes' = processes /\ steps' = steps
  BY DEF StartProcess, graph
<1>2. /\ r \in Symbols /\ p \notin new_processes
      /\ new_steps \in SUBSET Step /\ new_processes \subseteq Process
      /\ \A s \in new_steps : s.process # p
      /\ process_count \in Nat /\ step_count \in Nat
  BY <1>1 DEF IInv, TypeOK, Apart, Process
<1>3. /\ first \in Step /\ first.process = p /\ first.symbol = r
  BY <1>2 DEF Step
<1>4. /\ MaxDepth \in Nat /\ MaxSteps \in Nat
      /\ \A d \in 0 .. MaxDepth : r \in ReachIn(calls, r)[d]
  <2>1. MaxDepth \in Nat /\ MaxSteps \in Nat
    BY BoundsAssumption
  <2> DEFINE R == ReachIn(calls, r)
  <2>2. R[0] = {r} /\ \A d \in 0 .. MaxDepth : \A e \in 0 .. d : R[e] \subseteq R[d]
    BY <1>2, ReachFacts
  <2> HIDE DEF R
  <2>3. \A d \in 0 .. MaxDepth : r \in R[d]
    BY <2>1, <2>2
  <2> QED
    BY <2>1, <2>3 DEF R
<1> HIDE DEF first
<1>5. StepsOf(p, new_steps') = {first}
  BY <1>1, <1>2, <1>3 DEF StepsOf
<1>6. SymbolsOf(p, new_steps') = {r}
  BY <1>3, <1>5 DEF SymbolsOf
<1>7. BudgetInv'
  <2>1. step_count <= MaxSteps * process_count
    BY <1>1 DEF SearchInv, BudgetInv
  <2>2. (process_count + 1) - 1 = process_count
    BY <1>2
  <2> QED
    BY <1>1, <1>2, <1>4, <2>1, <2>2 DEF BudgetInv
<1>8. Found'
  BY <1>1 DEF SearchInv, Found
<1>9. FoundNew'
  <2>1. ASSUME NEW q \in new_processes
        PROVE  /\ Nearest(q, new_steps', calls) /\ InReach(q, new_steps', calls)
               /\ Complete(q, new_steps', calls)
    <3>1. \A s \in Step : s.process = q => (s \in new_steps <=> s \in new_steps')
      BY <1>1, <1>2, <1>3
    <3>2. new_steps' \in SUBSET Step
      BY <1>1, <1>2, <1>3
    <3>3. /\ Nearest(q, new_steps, calls) /\ InReach(q, new_steps, calls)
          /\ Complete(q, new_steps, calls)
      BY <1>1 DEF SearchInv, FoundNew
    <3> QED
      BY <1>2, <3>1, <3>2, <3>3, FoundOfSame DEF InReach
  <2>2. Nearest(p, new_steps', calls)
    BY <1>3, <1>4, <1>5 DEF Nearest
  <2>3. InReach(p, new_steps', calls)
    BY <1>4, <1>6 DEF InReach
  <2> QED
    BY <1>1, <2>1, <2>2, <2>3 DEF FoundNew
<1>10. QueueInv'
  <2>1. Len(queue') = 1 /\ queue'[1].symbol = r /\ queue'[1].depth = 0
    BY <1>1
  <2>2. \A i \in 1 .. Len(queue') : i = 1
    BY <2>1
  <2>3. Away(calls', r, r, 0)
    BY <1>1, <1>4 DEF Away
  <2> QED
    BY <1>1, <2>1, <2>2, <2>3 DEF QueueInv
<1>11. ExpandInv'
  <2>1. Here' = {r} /\ seen' = {r}
    BY <1>1, <1>6 DEF Here
  <2>2. 1 \in 1 .. Len(queue') /\ queue'[1].symbol = r
    BY <1>1
  <2>3. \A s : ~ Expanded(s)'
    BY <2>1, <2>2 DEF Expanded
  <2> QED
    BY <2>1, <2>3 DEF ExpandInv
<1> QED
  BY <1>1, <1>7, <1>8, <1>9, <1>10, <1>11 DEF SearchInv

LEMMA PopFinds ==
  ASSUME IInv, SearchInv, Pop
  PROVE  SearchInv'
<1>1. /\ pc = "walk" /\ pending = {} /\ queue # <<>> /\ current' = Head(queue)
      /\ pending' = IF Expands(Head(queue).depth) THEN Callees(Head(queue).symbol) ELSE {}
      /\ queue' = Tail(queue)
      /\ UNCHANGED <<calls, processes, steps, pc, new_processes, new_steps, process_count,
                     step_count, proc_id, seen, step_index>>
  BY DEF Pop, graph
<1>2. /\ Head(queue) = queue[1] /\ Len(queue) \in Nat /\ 1 \in 1 .. Len(queue)
      /\ Len(queue') = Len(queue) - 1
      /\ \A i \in 1 .. Len(queue') : i + 1 \in 1 .. Len(queue) /\ queue'[i] = queue[i + 1]
      /\ \A i \in 1 .. Len(queue) : queue[i].depth \in Nat
  <2>1. queue \in Seq(Entry) /\ \A i \in 1 .. Len(queue) : queue[i] \in Entry
    BY DEF IInv, TypeOK
  <2> QED
    BY <1>1, <2>1 DEF Entry
<1>3. /\ QueueInv /\ ExpandInv /\ BudgetInv /\ Walking
      /\ MaxSteps \in Nat /\ MaxDepth \in Nat /\ process_count \in Nat
      /\ step_count \in Nat /\ step_index \in Nat
  BY <1>1, BoundsAssumption DEF SearchInv, IInv, TypeOK
<1>4. BudgetInv' /\ Found' /\ FoundNew'
  BY <1>1 DEF SearchInv, BudgetInv, Found, FoundNew
<1>5. QueueInv'
  <2> DEFINE A(e) == Away(calls, proc_id.root, e.symbol, e.depth)
  <2>1. /\ \A i \in 1 .. Len(queue) : A(queue[i])
        /\ \A i, j \in 1 .. Len(queue) :
              /\ i < j => queue[i].depth <= queue[j].depth
              /\ queue[j].depth <= queue[i].depth + 1
    BY <1>3 DEF QueueInv
  <2> HIDE DEF A
  <2>2. ASSUME NEW i \in 1 .. Len(queue'), NEW j \in 1 .. Len(queue')
        PROVE  /\ A(queue'[i])
               /\ i < j => queue'[i].depth <= queue'[j].depth
               /\ queue'[j].depth <= queue'[i].depth + 1
    <3> DEFINE k == i + 1
               l == j + 1
    <3>1. /\ k \in 1 .. Len(queue) /\ queue'[i] = queue[k]
          /\ l \in 1 .. Len(queue) /\ queue'[j] = queue[l]
          /\ i < j => k < l
      BY <1>2
    <3> HIDE DEF k, l
    <3> QED
      BY <2>1, <3>1
  <2>3. A(current') /\ \A i \in 1 .. Len(queue') :
              current'.depth <= queue'[i].depth /\ queue'[i].depth <= current'.depth + 1
    <3>1. current' = queue[1]
      BY <1>1, <1>2
    <3>2. \A i \in 1 .. Len(queue') : 1 < i + 1
      OBVIOUS
    <3> QED
      BY <1>2, <2>1, <3>1, <3>2
  <2>4. pending' # {} => current'.depth < MaxDepth
    BY <1>1 DEF Expands
  <2> QED
    BY <1>1, <2>2, <2>3, <2>4 DEF QueueInv, A
<1>6. ExpandInv'
  <2> SUFFICES ASSUME ~Full'
               PROVE  /\ seen' = Here'
                      /\ \A s \in Symbols : Expanded(s)' =>
                            \A t \in CalleesIn(calls, s)' :
                                t \in Here' \/ (pending' # {} /\ s = current'.symbol
                                                /\ t \in pending')
    BY DEF ExpandInv
  <2>1. ~Full /\ Here' = Here /\ Near' = Near /\ seen = Here
    BY <1>1, <1>3 DEF Full, Here, Near, ExpandInv
  <2>2. ASSUME NEW s \in Symbols, Expanded(s)', NEW t \in CalleesIn(calls, s)'
        PROVE  t \in Here' \/ (pending' # {} /\ s = current'.symbol /\ t \in pending')
    <3>0. t \in CalleesIn(calls, s)
      BY <1>1, <2>2
    <3>1. CASE s # queue[1].symbol
      <4>1. \A i \in 1 .. Len(queue) : queue[i].symbol # s
        <5> SUFFICES ASSUME NEW i \in 1 .. Len(queue), i # 1 PROVE queue[i].symbol # s
          BY <3>1
        <5>1. i - 1 \in 1 .. Len(queue') /\ queue'[i - 1] = queue[i]
          BY <1>2
        <5> QED
          BY <2>2, <5>1 DEF Expanded
      <4>2. Expanded(s)
        BY <2>1, <2>2, <4>1 DEF Expanded
      <4> QED
        BY <1>1, <1>3, <2>1, <3>0, <4>2 DEF ExpandInv
    <3>2. CASE s = queue[1].symbol
      <4>1. PICK d \in 0 .. MaxDepth : d < MaxDepth /\ s \in Near[d]
        BY <2>1, <2>2 DEF Expanded
      <4>2. Away(calls, proc_id.root, s, queue[1].depth)
        BY <1>2, <1>3, <3>2 DEF QueueInv
      <4>3. queue[1].depth <= d
        BY <1>2, <4>1, <4>2 DEF Away, Near
      <4>4. step_count < MaxSteps * process_count
        <5>1. step_index - 1 < MaxSteps
          BY <1>3, <2>1 DEF Full
        <5>2. process_count >= 1 /\ step_count <= MaxSteps * (process_count - 1) + (step_index - 1)
          BY <1>1, <1>3 DEF BudgetInv
        <5>3. MaxSteps * (process_count - 1) + MaxSteps = MaxSteps * process_count
          BY <1>3
        <5>4. MaxSteps * (process_count - 1) \in Int /\ MaxSteps * process_count \in Int
          BY <1>3
        <5> QED
          BY <1>3, <5>1, <5>2, <5>3, <5>4
      <4>5. Expands(Head(queue).depth)
        BY <1>2, <1>3, <4>1, <4>3, <4>4 DEF Expands
      <4>6. t \in pending' /\ s = current'.symbol
        BY <1>1, <1>2, <3>0, <3>2, <4>5 DEF Callees, CalleesIn
      <4> QED
        BY <4>6
    <3> QED
      BY <3>1, <3>2
  <2> QED
    BY <1>1, <2>1, <2>2
<1> QED
  BY <1>4, <1>5, <1>6 DEF SearchInv

LEMMA VisitFinds ==
  ASSUME IInv, SearchInv, NEW t \in Symbols, Visit(t)
  PROVE  SearchInv'
<1>1. /\ pc = "walk" /\ t \in pending /\ seen' = seen \cup {t}
      /\ UNCHANGED <<calls, processes, steps, pc, new_processes, process_count, proc_id,
                     current>>
  BY DEF Visit, graph
<1>2. /\ QueueInv /\ ExpandInv /\ BudgetInv /\ Walking /\ FoundNew
      /\ MaxDepth \in Nat /\ MaxSteps \in Nat /\ process_count \in Nat
      /\ step_count \in Nat /\ step_index \in Nat /\ current.depth \in Nat
  BY <1>1, BoundsAssumption DEF SearchInv, IInv, TypeOK, Entry, Nowhere
<1>3. Found'
  BY <1>1 DEF SearchInv, Found
<1>4. CASE /\ t \in seen \/ Full
           /\ UNCHANGED <<new_steps, step_count, step_index, queue>>
           /\ pending' \subseteq pending
           /\ ~ Full => pending' = pending \ {t}
  <2>1. BudgetInv' /\ FoundNew'
    BY <1>1, <1>2, <1>4 DEF BudgetInv, FoundNew
  <2>2. QueueInv'
    BY <1>1, <1>2, <1>4 DEF QueueInv
  <2>3. ExpandInv'
    <3> SUFFICES ASSUME ~Full'
                 PROVE  /\ seen' = Here'
                        /\ \A s \in Symbols : Expanded(s)' =>
                              \A u \in CalleesIn(calls, s)' :
                                  u \in Here' \/ (pending' # {} /\ s = current'.symbol
                                                  /\ u \in pending')
      BY DEF ExpandInv
    <3>1. ~Full /\ Here' = Here /\ Near' = Near /\ seen = Here
      BY <1>1, <1>2, <1>4 DEF Full, Here, Near, ExpandInv
    <3>2. \A s : Expanded(s)' => Expanded(s)
      BY <1>4, <3>1 DEF Expanded
    <3>3. t \in Here /\ pending' = pending \ {t}
      BY <1>4, <3>1
    <3> QED
      BY <1>1, <1>2, <3>1, <3>2, <3>3 DEF ExpandInv
  <2> QED
    BY <1>1, <1>3, <2>1, <2>2, <2>3 DEF SearchInv
<1>5. CASE t \notin seen /\ ~ Full
  <2> DEFINE last == [process |-> proc_id, symbol |-> t, index |-> step_index]
             entry == [symbol |-> t, depth |-> current.depth + 1]
             r == proc_id.root
             R == ReachIn(calls, r)
             n == Len(queue)
  <2>1. /\ pending' = pending \ {t} /\ new_steps' = new_steps \cup {last}
        /\ step_count' = step_count + 1 /\ step_index' = step_index + 1
        /\ queue' = Append(queue, entry)
    BY <1>5 DEF Visit, Full
  <2>2. /\ proc_id \in Process /\ r \in Symbols /\ proc_id \in new_processes
        /\ new_processes \subseteq Process
        /\ new_steps \in SUBSET Step /\ Here \subseteq Symbols
        /\ \A u : u \in Here <=> \E s \in StepsOf(proc_id, new_steps) : s.symbol = u
        /\ step_index \in Nat \ {0}
    BY <1>1, HereFacts DEF IInv, TypeOK
  <2>3. /\ last \in Step /\ last.process = proc_id /\ last.symbol = t /\ last.index = step_index
        /\ entry.symbol = t /\ entry.depth = current.depth + 1
    BY <2>2 DEF Step
  <2>4. /\ n \in Nat /\ Len(queue') = n + 1 /\ queue'[n + 1] = entry
        /\ \A i \in 1 .. n : queue'[i] = queue[i] /\ queue[i].depth \in Nat
    <3>1. queue \in Seq(Entry) /\ \A i \in 1 .. Len(queue) : queue[i] \in Entry
      BY DEF IInv, TypeOK
    <3> QED
      BY <2>1, <3>1 DEF Entry
  <2>5. /\ R[0] = {r}
        /\ \A d \in 0 .. MaxDepth - 1 : \A u :
              u \in R[d + 1] <=> u \in R[d] \/ \E s \in R[d] : u \in CalleesIn(calls, s)
        /\ \A d \in 0 .. MaxDepth : \A e \in 0 .. d : R[e] \subseteq R[d]
    BY <2>2, ReachFacts
  <2>6. /\ current.depth < MaxDepth /\ current.symbol \in R[current.depth]
        /\ \A i \in 1 .. n : current.depth <= queue[i].depth /\ queue[i].depth <= current.depth + 1
    BY <1>1, <1>2 DEF QueueInv, Away
  <2>7. R[current.depth] \subseteq Here
    <3>1. current.depth \in 0 .. MaxDepth
      BY <1>2, <2>6
    <3>2. \A i \in 1 .. Len(queue) : current.depth <= queue[i].depth
      BY <2>6
    <3> QED
      BY <1>1, <1>2, <1>5, <3>1, <3>2, Frontier DEF Near
  <2>8. seen = Here /\ t \notin Here
    BY <1>2, <1>5 DEF ExpandInv
  <2> HIDE DEF last, entry, r, R, n
  <2>9. t \in R[current.depth + 1]
    <3>1. t \in CalleesIn(calls, current.symbol)
      BY <1>1, <1>2 DEF Walking, CalleesIn
    <3>2. current.depth \in 0 .. MaxDepth - 1
      BY <1>2, <2>6
    <3> QED
      BY <2>5, <2>6, <3>1, <3>2
  <2>10. \A d \in 0 .. MaxDepth : t \notin R[d] => d <= current.depth
    <3> SUFFICES ASSUME NEW d \in 0 .. MaxDepth, d > current.depth PROVE t \in R[d]
      BY <1>2
    <3>1. current.depth + 1 \in 0 .. d
      BY <1>2
    <3> QED
      BY <2>5, <2>9, <3>1
  <2>11. \A d \in 0 .. MaxDepth : d <= current.depth => R[d] \subseteq Here
    <3> SUFFICES ASSUME NEW d \in 0 .. MaxDepth, d <= current.depth PROVE R[d] \subseteq Here
      OBVIOUS
    <3>1. d \in 0 .. current.depth /\ current.depth \in 0 .. MaxDepth
      BY <1>2, <2>6
    <3> QED
      BY <2>5, <2>7, <3>1
  <2>12. Away(calls, r, t, current.depth + 1)
    <3>1. current.depth + 1 \in 0 .. MaxDepth
      BY <1>2, <2>6
    <3>2. ASSUME NEW e \in 0 .. (current.depth + 1) - 1 PROVE t \notin R[e]
      <4>1. e \in 0 .. MaxDepth /\ e <= current.depth
        BY <1>2, <2>6
      <4> QED
        BY <2>8, <2>11, <4>1
    <3> QED
      BY <2>9, <3>1, <3>2 DEF Away, R
  <2>13. StepsOf(proc_id, new_steps') = StepsOf(proc_id, new_steps) \cup {last}
    BY <2>1, <2>3 DEF StepsOf
  <2>14. \A u : u \in Here' <=> u \in Here \/ u = t
    <3>1. Here' = SymbolsOf(proc_id, new_steps')
      BY <1>1 DEF Here
    <3> QED
      BY <2>2, <2>3, <2>13, <3>1 DEF SymbolsOf
  <2>15. BudgetInv'
    BY <1>1, <1>2, <2>1 DEF BudgetInv
  <2>16. FoundNew'
    <3>1. ASSUME NEW q \in new_processes, q # proc_id
          PROVE  /\ Nearest(q, new_steps', calls) /\ InReach(q, new_steps', calls)
                 /\ Complete(q, new_steps', calls)
      <4>1. \A s \in Step : s.process = q => (s \in new_steps <=> s \in new_steps')
        BY <2>1, <2>3, <3>1
      <4>2. new_steps' \in SUBSET Step /\ q \in Process
        BY <2>1, <2>2, <2>3
      <4>3. /\ Nearest(q, new_steps, calls) /\ InReach(q, new_steps, calls)
            /\ Complete(q, new_steps, calls)
        BY <1>1, <1>2, <3>1 DEF FoundNew
      <4> QED
        BY <2>2, <4>1, <4>2, <4>3, FoundOfSame DEF InReach
    <3>2. Nearest(proc_id, new_steps', calls)
      <4>1. Nearest(proc_id, new_steps, calls)
        BY <1>2, <2>2 DEF FoundNew
      <4>2. \A s \in StepsOf(proc_id, new_steps) : s.index < last.index
        BY <1>2, <2>3 DEF Walking
      <4>3. \A d \in 0 .. MaxDepth : last.symbol \notin ReachIn(calls, proc_id.root)[d] =>
              ReachIn(calls, proc_id.root)[d] \subseteq SymbolsOf(proc_id, new_steps)
        BY <2>3, <2>10, <2>11 DEF R, r, Here
      <4> QED
        BY <2>1, <2>2, <2>3, <4>1, <4>2, <4>3, NearestWithOneMore
    <3>3. InReach(proc_id, new_steps', calls)
      <4>1. InReach(proc_id, new_steps, calls)
        BY <1>2, <2>2 DEF FoundNew
      <4>2. MaxDepth \in 0 .. MaxDepth /\ current.depth < MaxDepth
        BY <1>2, <2>6
      <4>3. t \in R[MaxDepth]
        BY <1>2, <2>10, <4>2
      <4>4. \A u \in SymbolsOf(proc_id, new_steps') : u \in SymbolsOf(proc_id, new_steps) \/ u = t
        BY <2>3, <2>13 DEF SymbolsOf
      <4> QED
        BY <4>1, <4>3, <4>4 DEF InReach, R, r
    <3> QED
      BY <1>1, <3>1, <3>2, <3>3 DEF FoundNew
  <2>17. QueueInv'
    <3>1. \A i \in 1 .. n : Away(calls, r, queue[i].symbol, queue[i].depth)
      BY <1>2 DEF QueueInv, n, r
    <3>2. \A i, j \in 1 .. n :
             /\ i < j => queue[i].depth <= queue[j].depth
             /\ queue[j].depth <= queue[i].depth + 1
      BY <1>2 DEF QueueInv, n
    <3>3. ASSUME NEW i \in 1 .. n + 1
          PROVE  /\ Away(calls, r, queue'[i].symbol, queue'[i].depth)
                 /\ queue'[i].depth \in Nat
                 /\ current.depth <= queue'[i].depth
                 /\ queue'[i].depth <= current.depth + 1
      <4>1. CASE i = n + 1
        BY <1>2, <2>3, <2>4, <2>12, <4>1
      <4>2. CASE i \in 1 .. n
        BY <2>4, <2>6, <3>1, <4>2
      <4> QED
        BY <2>4, <4>1, <4>2
    <3>4. ASSUME NEW i \in 1 .. n + 1, NEW j \in 1 .. n + 1
          PROVE  /\ i < j => queue'[i].depth <= queue'[j].depth
                 /\ queue'[j].depth <= queue'[i].depth + 1
      <4>1. CASE j = n + 1
        BY <1>2, <2>3, <2>4, <3>3, <4>1
      <4>2. CASE j \in 1 .. n /\ i = n + 1
        BY <1>2, <2>3, <2>4, <3>3, <4>2
      <4>3. CASE j \in 1 .. n /\ i \in 1 .. n
        BY <2>4, <3>2, <4>3
      <4> QED
        BY <2>4, <4>1, <4>2, <4>3
    <3>5. pending # {} /\ Away(calls, r, current.symbol, current.depth)
      BY <1>1, <1>2 DEF QueueInv, r
    <3>6. calls' = calls /\ proc_id'.root = r /\ current' = current /\ Len(queue') = n + 1
      BY <1>1, <2>4 DEF r
    <3> QED
      BY <2>6, <3>3, <3>4, <3>5, <3>6 DEF QueueInv
  <2>18. ExpandInv'
    <3>1. seen' = Here'
      BY <1>1, <2>8, <2>14
    <3>2. ASSUME NEW s \in Symbols, Expanded(s)', NEW u \in CalleesIn(calls, s)'
          PROVE  u \in Here' \/ (pending' # {} /\ s = current'.symbol /\ u \in pending')
      <4>1. n + 1 \in 1 .. Len(queue')
        BY <2>4
      <4>2. s # t
        BY <2>3, <2>4, <3>2, <4>1 DEF Expanded
      <4>3. \A i \in 1 .. n : queue[i].symbol # s
        BY <2>4, <3>2 DEF Expanded
      <4>4. Near' = Near
        BY <1>1 DEF Near
      <4>5. Expanded(s)
        BY <2>14, <3>2, <4>2, <4>3, <4>4 DEF Expanded, n
      <4>6. u \in CalleesIn(calls, s)
        BY <1>1, <3>2
      <4>7. u \in Here \/ (pending # {} /\ s = current.symbol /\ u \in pending)
        BY <1>2, <1>5, <4>5, <4>6 DEF ExpandInv
      <4> QED
        BY <1>1, <2>1, <2>14, <4>7
    <3> QED
      BY <3>1, <3>2 DEF ExpandInv
  <2> QED
    BY <1>1, <1>3, <2>15, <2>16, <2>17, <2>18 DEF SearchInv
<1> QED
  BY <1>4, <1>5 DEF Visit, Full

LEMMA EndFinds ==
  ASSUME IInv, SearchInv, EndProcess
  PROVE  SearchInv'
<1>1. /\ pc = "walk" /\ pc' = "next" /\ pending = {} /\ queue = <<>>
      /\ UNCHANGED <<calls, processes, steps, new_processes, new_steps, process_count, step_count,
                     proc_id, step_index>>
  BY DEF EndProcess, graph, walk
<1>2. /\ BudgetInv /\ Walking /\ FoundNew
      /\ MaxDepth \in Nat /\ MaxSteps \in Nat /\ process_count \in Nat
      /\ step_count \in Nat /\ step_index \in Nat
  BY <1>1, BoundsAssumption DEF SearchInv, IInv, TypeOK
<1>3. Found'
  BY <1>1 DEF SearchInv, Found
<1>4. BudgetInv'
  <2>1. step_count <= MaxSteps * (process_count - 1) + (step_index - 1)
    BY <1>1, <1>2 DEF BudgetInv
  <2>2. step_index - 1 <= MaxSteps
    BY <1>2 DEF Walking
  <2>3. MaxSteps * (process_count - 1) + MaxSteps = MaxSteps * process_count
    BY <1>2
  <2>4. MaxSteps * (process_count - 1) \in Int /\ MaxSteps * process_count \in Int
    BY <1>2
  <2>5. step_count <= MaxSteps * process_count
    BY <1>2, <2>1, <2>2, <2>3, <2>4
  <2> QED
    BY <1>1, <2>5 DEF BudgetInv
<1>5. Complete(proc_id, new_steps, calls)
  <2>1. /\ proc_id \in Process /\ proc_id \in new_processes /\ new_steps \in SUBSET Step
    BY <1>1, HereFacts
  <2>2. SymbolsOf(proc_id, new_steps) \subseteq Near[MaxDepth]
    BY <1>2, <2>1 DEF FoundNew, InReach, Near
  <2>3. CASE ~ Full
    <3>1. MaxDepth \in 0 .. MaxDepth /\ \A i \in 1 .. Len(queue) : MaxDepth <= queue[i].depth
      BY <1>1, <1>2
    <3>2. Near[MaxDepth] \subseteq Here
      BY <1>1, <2>3, <3>1, Frontier
    <3> QED
      BY <2>2, <3>2 DEF Complete, Near, Here
  <2>4. CASE Full
    <3>1. \E s \in StepsOf(proc_id, new_steps) : s.index = MaxSteps
      <4>1. step_index - 1 = MaxSteps
        BY <1>2, <2>4 DEF Full, Walking
      <4> QED
        BY <1>2, <4>1 DEF Walking
    <3>2. Numbered(proc_id, new_steps)
      BY <1>1, <2>1 DEF IInv, Sound
    <3>3. Cardinality(SymbolsOf(proc_id, new_steps)) = MaxSteps
      BY <2>1, <3>1, <3>2, FullCardinality
    <3> QED
      BY <2>2, <3>3 DEF Complete, Near
  <2> QED
    BY <2>3, <2>4
<1>6. FoundNew'
  BY <1>1, <1>2, <1>5 DEF FoundNew
<1> QED
  BY <1>1, <1>3, <1>4, <1>6 DEF SearchInv

LEMMA AddFinds ==
  ASSUME IInv, SearchInv, AddToGraph
  PROVE  SearchInv'
<1>1. /\ pc = "next" /\ pc' = "idle" /\ calls' = calls
      /\ processes' = processes \cup new_processes /\ steps' = steps \cup new_steps
  BY DEF AddToGraph
<1>2. ASSUME NEW p \in processes'
      PROVE  Complete(p, steps', calls) /\ Nearest(p, steps', calls)
  <2>1. p \in Process /\ steps \in SUBSET Step /\ steps' \in SUBSET Step
        /\ new_steps \in SUBSET Step
    BY <1>1, <1>2 DEF IInv, TypeOK
  <2>2. CASE p \in processes
    <3>1. \A s \in Step : s.process = p => (s \in steps <=> s \in steps')
      BY <1>1, <2>2 DEF IInv, Apart
    <3> QED
      BY <2>1, <2>2, <3>1, FoundOfSame DEF SearchInv, Found
  <2>3. CASE p \in new_processes
    <3>1. \A s \in Step : s.process = p => (s \in new_steps <=> s \in steps')
      BY <1>1, <2>3 DEF IInv, Apart
    <3>2. Complete(p, new_steps, calls) /\ Nearest(p, new_steps, calls)
      BY <1>1, <2>3 DEF SearchInv, FoundNew
    <3> QED
      BY <2>1, <3>1, <3>2, FoundOfSame
  <2> QED
    BY <1>1, <1>2, <2>2, <2>3
<1>3. Found'
  BY <1>1, <1>2 DEF Found
<1> QED
  BY <1>1, <1>3 DEF SearchInv, BudgetInv

LEMMA InitFinds == Init => SearchInv
  BY DEF Init, SearchInv, BudgetInv, Found

LEMMA NextFinds ==
  IInv /\ SearchInv /\ [Next]_vars => SearchInv'
<1> SUFFICES ASSUME IInv, SearchInv, [Next]_vars PROVE SearchInv'
  OBVIOUS
<1>1. CASE DetectEntryPoints
  <2>1. /\ pc' = "next" /\ new_processes' = {} /\ step_count' = 0 /\ process_count' = 0
        /\ calls' = calls /\ processes' = processes /\ steps' = steps /\ MaxSteps * 0 = 0
    BY <1>1, BoundsAssumption DEF DetectEntryPoints, graph
  <2> QED
    BY <2>1 DEF SearchInv, BudgetInv, Found, FoundNew
<1>2. CASE \E p \in Process : SkipProcess(p)
  <2>1. UNCHANGED <<calls, processes, steps, pc, new_processes, new_steps, process_count,
                    step_count, proc_id>> /\ pc = "next"
    BY <1>2 DEF SkipProcess, graph, walk
  <2> QED
    BY <2>1 DEF SearchInv, BudgetInv, Found, FoundNew
<1>3. CASE UNCHANGED vars
  <2> USE <1>3 DEF vars, graph, walk
  <2>1. BudgetInv' /\ Found'
    BY DEF SearchInv, BudgetInv, Found
  <2>2. pc # "idle" => FoundNew'
    BY DEF SearchInv, FoundNew
  <2>3. pc = "walk" => QueueInv'
    BY DEF SearchInv, QueueInv
  <2>4. pc = "walk" => ExpandInv'
    BY DEF SearchInv, ExpandInv, Expanded, Full, Here, Near
  <2> QED
    BY <2>1, <2>2, <2>3, <2>4 DEF SearchInv
<1> QED
  BY <1>1, <1>2, <1>3, StartFinds, PopFinds, VisitFinds, EndFinds, AddFinds DEF Next, Trace

-----------------------------------------------------------------------------
LEMMA SameEntryPoints ==
  ASSUME handles' = handles
  PROVE  EntryPoints(FirstRoute)' = EntryPoints(FirstRoute)
  BY DEF EntryPoints, FirstRoute

LEMMA InitFixes == Init => RerunInv
  BY DEF Init, RerunInv

LEMMA NextFixes ==
  IInv /\ RerunInv /\ [Next]_vars => RerunInv'
<1> SUFFICES ASSUME IInv, RerunInv, [Next]_vars PROVE RerunInv'
  OBVIOUS
<1> DEFINE E == EntryPoints(FirstRoute)
<1>1. handles' = handles
  BY DEF Next, Trace, DetectEntryPoints, StartProcess, SkipProcess, Pop, Visit, EndProcess,
         AddToGraph, vars, graph
<1>2. E' = E
  BY <1>1, SameEntryPoints
<1>3. /\ processes # {} => E \subseteq processes
      /\ pc # "idle" => /\ E \subseteq entry_points \cup new_processes \cup processes
                        /\ entry_points \cup new_processes \subseteq E
  BY DEF RerunInv
<1>4. DetectEntryPoints => entry_points' = E
  BY DEF DetectEntryPoints
<1> HIDE DEF E
<1> SUFFICES
      /\ processes' # {} => E \subseteq processes'
      /\ pc' # "idle" => /\ E \subseteq entry_points' \cup new_processes' \cup processes'
                         /\ entry_points' \cup new_processes' \subseteq E
  BY <1>2 DEF RerunInv, E
<1>5. CASE DetectEntryPoints
  BY <1>3, <1>4, <1>5 DEF DetectEntryPoints, graph
<1>6. CASE \E p \in Process : StartProcess(p)
  BY <1>3, <1>6 DEF StartProcess, graph
<1>7. CASE \E p \in Process : SkipProcess(p)
  BY <1>3, <1>7 DEF SkipProcess, graph
<1>8. CASE Pop \/ EndProcess \/ \E t \in Symbols : Visit(t)
  <2>1. UNCHANGED <<processes, entry_points, new_processes>> /\ pc # "idle"
    BY <1>8 DEF Pop, EndProcess, Visit, graph
  <2> QED
    BY <1>3, <2>1
<1>9. CASE AddToGraph
  BY <1>3, <1>9 DEF AddToGraph
<1>10. CASE UNCHANGED vars
  BY <1>3, <1>10 DEF vars, graph
<1> QED
  BY <1>5, <1>6, <1>7, <1>8, <1>9, <1>10 DEF Next, Trace

-----------------------------------------------------------------------------
\* The search is complete and in order at every state of it.
THEOREM Searching == Spec => [](SearchInv /\ RerunInv)
<1>1. Init => SearchInv /\ RerunInv
  BY InitFinds, InitFixes
<1>2. IInv /\ (SearchInv /\ RerunInv) /\ [Next]_vars => (SearchInv /\ RerunInv)'
  BY NextFinds, NextFixes
<1> QED
  BY <1>1, <1>2, Invariance, PTL DEF Spec

\* Whatever the graph, the bounds and what other processes spent of the
\* budget: a process of the graph has all symbols within MaxDepth calls of its
\* root, or as many as MaxSteps allows, and no others.
THEOREM Completeness == Spec => []ProcessesAreComplete
<1>1. SearchInv => ProcessesAreComplete
  BY ReachedIs DEF SearchInv, Found, Complete, SymbolsOf, ProcessesAreComplete
<1> QED
  BY <1>1, Searching, PTL

\* The steps of a process are in the order of a breadth-first search: what is
\* nearer to the root than some step is a step of a smaller number.
THEOREM Order == Spec => []NearerStepsFirst
<1>1. SearchInv => NearerStepsFirst
  BY ReachedIs DEF SearchInv, Found, Nearest, NearerStepsFirst
<1> QED
  BY <1>1, Searching, PTL

\* Once a run has added its processes, no step changes them: later runs of
\* trace_processes over the same graph add nothing.
THEOREM Idempotence == Spec => RerunAddsNothing
<1>1. IInv /\ RerunInv /\ [Next]_vars => [processes # {} => UNCHANGED <<processes, steps>>]_vars
  <2> SUFFICES ASSUME IInv, RerunInv, Next, processes # {}
               PROVE  UNCHANGED <<processes, steps>>
    OBVIOUS
  <2>1. CASE AddToGraph
    <3>1. pc # "idle" /\ processes' = processes \cup new_processes
          /\ steps' = steps \cup new_steps
      BY <2>1 DEF AddToGraph
    <3>2. new_processes \subseteq processes
      BY <3>1 DEF RerunInv
    <3>3. new_processes = {} /\ new_steps = {}
      BY <3>1, <3>2 DEF IInv, Apart
    <3> QED
      BY <3>1, <3>3
  <2> QED
    BY <2>1 DEF Next, Trace, DetectEntryPoints, StartProcess, SkipProcess, Pop, Visit,
                EndProcess, graph
<1> QED
  BY <1>1, Invariance, Searching, PTL DEF Spec, RerunAddsNothing
=============================================================================
