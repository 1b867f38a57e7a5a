------------------------------ MODULE References ------------------------------
(***************************************************************************)
(* Who owns what: the reference counts of goals, op instances, threads and *)
(* procedures, from the table of relevant procedures and the soak to the   *)
(* end of the intentions.  A thread holds the instance it executes and the *)
(* goal it posted; the queues of goals, the soak and the soak of the       *)
(* previous turn, the intentions and the terms of the meta level hold      *)
(* goals or instances; an instance holds its goal and its procedure; a     *)
(* goal holds the memory of its thread and, so that no procedure is tried  *)
(* twice, the instances that failed it, which hold the goal: the counts of *)
(* such a cycle never reach zero, and free_goal and free_op_instance break *)
(* it when nothing else points into it.                                    *)
(*                                                                         *)
(* Which procedures apply to a goal, what a procedure does next, and which *)
(* conditions fail, is free.  A procedure has one instance per goal.       *)
(***************************************************************************)
EXTENDS Integers, Sequences, SequencesExt, FiniteSetsExt

CONSTANTS
  Goal, Instance, Tib, Intention,  \* objects there is memory for
  Procedure,                       \* ops that can be loaded
  None,
  MaxObjects,                      \* bound: goals and instances at once
  MaxOutside,                      \* bound: goals added from outside
  MaxTerms                         \* bound: goals, and instances, of the meta level

ASSUME NoneAssumption == None \notin Goal \cup Instance \cup Tib \cup Intention \cup Procedure

VARIABLES
  heap,           \* the counted objects
  new_goals, goals,
  soak, previous_soak,
  terms,          \* goals and instances that terms of the meta level point to
  outside,        \* goals added from outside: their maker keeps its reference
  op_list,        \* Relevant_Op: the loaded procedures
  meta,           \* meta_option[META_LEVEL], which the user does not switch
  phase, current

queues == <<new_goals, goals>>
soaks == <<soak, previous_soak>>
vars == <<heap, queues, soaks, terms, outside, op_list, meta, phase, current>>

FreedGoal == [ref |-> 0, tib |-> None, echec |-> <<>>, ended |-> FALSE]
FreedInst == [ref |-> 0, op |-> None, goal |-> None, intended |-> FALSE]
FreedTib  == [ref |-> 0, status |-> "DEAD", opi |-> None, goal |-> None, pere |-> None]
FreedInt  == [live |-> FALSE, goal |-> None]

Init ==
  /\ heap = [goal |-> [g \in Goal |-> FreedGoal],
             inst |-> [o \in Instance |-> FreedInst],
             tib  |-> [t \in Tib |-> FreedTib],
             in   |-> [i \in Intention |-> FreedInt],
             op   |-> [p \in Procedure |-> 0]]
  /\ new_goals = {} /\ goals = {} /\ soak = {} /\ previous_soak = {}
  /\ terms = {} /\ outside = {}
  /\ op_list = {}
  /\ meta \in BOOLEAN /\ phase = "stdin" /\ current = None

-----------------------------------------------------------------------------
(* Memory: what the functions of op-instance.c, fact-goal.c and intention.c *)
(* do to a heap h                                                           *)

Free(f) == {x \in DOMAIN f : f[x].ref = 0}
Used(f) == DOMAIN f \ Free(f)
Fresh(f) == CHOOSE x \in Free(f) : TRUE
RoomFor(f, n) ==
  /\ n <= Cardinality(Free(f))
  /\ n <= MaxObjects - Cardinality(Used(heap.goal)) - Cardinality(Used(heap.inst))

dup_goal(h, g) == [h EXCEPT !.goal[g].ref = @ + 1]
dup_op_instance(h, o) == [h EXCEPT !.inst[o].ref = @ + 1]

\* FREE: one reference less, and the memory with the last one.  Freeing what is
\* free already leaves a negative count.
LessOne(x, freed) == IF x.ref = 1 THEN freed ELSE [x EXCEPT !.ref = @ - 1]
FreeTib(h, t) == [h EXCEPT !.tib[t] = LessOne(@, FreedTib)]

free_op_instance_not_goal(h, o) ==
  [h EXCEPT !.op[h.inst[o].op] = @ - 1, !.inst[o] = LessOne(@, FreedInst)]

\* The instances that failed g, which only g points to, are freed with it.
FreeFailed(h, g) ==
  [FoldLeft(free_op_instance_not_goal, h, h.goal[g].echec)
     EXCEPT !.goal[g].ref = @ - Len(h.goal[g].echec), !.goal[g].echec = <<>>]

Pointed(h, g) == \E o \in ToSet(h.goal[g].echec) : h.inst[o].ref # 1

FreeLast(h, g) ==
  LET m == IF h.goal[g].ref = 1 /\ h.goal[g].tib # None
           THEN FreeTib(h, h.goal[g].tib) ELSE h
  IN  [m EXCEPT !.goal[g] = LessOne(@, FreedGoal)]

free_goal(h, g) ==
  FreeLast(IF h.goal[g].ref = Len(h.goal[g].echec) + 1 /\ ~Pointed(h, g)
           THEN FreeFailed(h, g) ELSE h, g)

\* An instance that failed g has just lost its last other reference.
free_goal_from_op_instance(h, g) ==
  IF h.goal[g].ref = Len(h.goal[g].echec) /\ ~Pointed(h, g)
  THEN LET tib == h.goal[g].tib
           m   == FreeFailed(h, g)
       IN  [IF tib = None THEN m ELSE FreeTib(m, tib) EXCEPT !.goal[g] = FreedGoal]
  ELSE h

FreeForReal(h, o) ==
  LET g == h.inst[o].goal
  IN  free_op_instance_not_goal(IF g = None THEN h ELSE free_goal(h, g), o)

\* Mutant: an instance that failed its goal is freed like the others.
FreeCounted(h, o) ==
  IF h.inst[o].ref = 1 THEN FreeForReal(h, o) ELSE [h EXCEPT !.inst[o].ref = @ - 1]

free_op_instance(h, o) ==
  LET g == h.inst[o].goal
      m == [h EXCEPT !.inst[o].ref = @ - 1]
  IN  IF h.inst[o].ref = 2 /\ g # None /\ o \in ToSet(h.goal[g].echec)
      THEN free_goal_from_op_instance(m, g)
      ELSE IF h.inst[o].ref = 1 THEN FreeForReal(h, o) ELSE m

FreeInstances(h, S) == FoldSet(LAMBDA o, m : free_op_instance(m, o), h, S)
FreeGoals(h, S) == FoldSet(LAMBDA g, m : free_goal(m, g), h, S)
FreeTerm(h, x) == IF x \in Goal THEN free_goal(h, x) ELSE free_op_instance(h, x)

\* make_op_instance for goal g or, if None, for a fact.
make_op_instance(h, p, g) ==
  LET m == IF g = None THEN h ELSE dup_goal(h, g)
  IN  [m EXCEPT !.op[p] = @ + 1,
         !.inst[Fresh(h.inst)] = [ref |-> 1, op |-> p, goal |-> g, intended |-> FALSE]]

\* A goal of thread t (None: of a term or from outside) that n structures hold.
make_goal(h, t, n) ==
  LET m == IF t = None THEN h ELSE [h EXCEPT !.tib[t].ref = @ + 1]
  IN  [m EXCEPT !.goal[Fresh(h.goal)] =
         [ref |-> n, tib |-> t, echec |-> <<>>, ended |-> FALSE]]

make_thread_intention_block(h, o, pere) ==
  [dup_op_instance(h, o) EXCEPT
     !.inst[o].intended = TRUE,
     !.tib[Fresh(h.tib)] =
       [ref |-> 1, status |-> "ACTIVE", opi |-> o, goal |-> None, pere |-> pere]]

\* A new brother of t, with the same instance.
fork_thread_intention_block(h, t) ==
  [dup_op_instance(h, h.tib[t].opi) EXCEPT
     !.tib[Fresh(h.tib)] = [h.tib[t] EXCEPT !.ref = 1, !.goal = None]]

\* The list fils of a thread, or of an intention.
Fils(h, x) == {t \in Tib : h.tib[t].status # "DEAD" /\ h.tib[t].pere = x}

\* The thread is marked dead, for the goals that still point to it.
free_thread_intention_block(h, t) ==
  LET m == free_op_instance(h, h.tib[t].opi)
      n == IF h.tib[t].goal = None THEN m ELSE free_goal(m, h.tib[t].goal)
  IN  FreeTib([n EXCEPT !.tib[t] = [FreedTib EXCEPT !.ref = n.tib[t].ref]], t)

RECURSIVE remove_and_free_tib(_, _)
RemoveAll(h, S) == FoldSet(LAMBDA t, m : remove_and_free_tib(m, t), h, S)
remove_and_free_tib(h, t) == free_thread_intention_block(RemoveAll(h, Fils(h, t)), t)

\* The procedure of o fails its goal, if it has one: it is not to be tried again.
FailGoal(h, o) ==
  LET g == h.inst[o].goal
  IN  IF g = None THEN h
      ELSE [dup_op_instance(h, o) EXCEPT !.goal[g].echec = <<o>> \o @]

-----------------------------------------------------------------------------
(* Commands: procedures are loaded and deleted, goals added, at any turn *)

add_op_to_relevant_op(p) ==
  /\ phase = "stdin" /\ heap.op[p] = 0
  /\ heap' = [heap EXCEPT !.op[p] = 1]
  /\ op_list' = op_list \cup {p}
  /\ UNCHANGED <<queues, soaks, terms, outside, meta, phase, current>>

\* Instances keep the memory of the procedure.
delete_op_from_rop(p) ==
  /\ phase = "stdin" /\ p \in op_list
  /\ heap' = [heap EXCEPT !.op[p] = @ - 1]
  /\ op_list' = op_list \ {p}
  /\ UNCHANGED <<queues, soaks, terms, outside, meta, phase, current>>

\* add_goal gives the queue a reference of its own; that of the maker is never
\* given back.
AddExpr ==
  /\ phase = "stdin" /\ RoomFor(heap.goal, 1) /\ Cardinality(outside) < MaxOutside
  /\ heap' = make_goal(heap, None, 2)
  /\ new_goals' = new_goals \cup {Fresh(heap.goal)}
  /\ outside' = outside \cup {Fresh(heap.goal)}
  /\ UNCHANGED <<goals, soaks, terms, op_list, meta, phase, current>>

-----------------------------------------------------------------------------
(* The soak *)

shift_facts_goals(h) ==
  /\ heap' = FreeGoals(h, goals)
  /\ goals' = new_goals /\ new_goals' = {}

BeginTurn ==
  /\ phase = "stdin" /\ phase' = "soak"
  /\ shift_facts_goals(heap)
  /\ UNCHANGED <<soaks, terms, outside, op_list, meta, current>>

\* A preserved condition becomes false: the sons of t fail.
FailPreserved(t) ==
  /\ phase = "soak" /\ heap.tib[t].status = "ACTIVE" /\ Fils(heap, t) # {}
  /\ LET sons == Fils(heap, t)
         o    == heap.tib[CHOOSE u \in sons : TRUE].opi
     IN  heap' = RemoveAll(FailGoal(heap, o), sons)
  /\ UNCHANGED <<queues, soaks, terms, outside, op_list, meta, phase, current>>

Failed(g) == ToSet(heap.goal[g].echec)

\* The procedures that have not failed g.
Untried(g) == op_list \ {heap.inst[o].op : o \in Failed(g)}

\* find_soak_goal ignores the goal of a thread that has since been removed.
Obsolete(g) == heap.goal[g].tib # None /\ heap.tib[heap.goal[g].tib].status # "ACTIVE"

\* Instances of some procedures for the goals of S; a goal without any fails.
SoakGoals(h, S, found) ==
  LET fail(m, g) == IF \E e \in found : e[2] = g THEN m
                    ELSE [m EXCEPT !.goal[g].ended = TRUE]
  IN  FoldSet(LAMBDA e, m : make_op_instance(m, e[1], e[2]),
              FoldSet(LAMBDA g, m : fail(m, g), h, S), found)

NewInstances == {o \in Instance : heap.inst[o].ref = 0 /\ heap'.inst[o].ref # 0}

\* All the goals, and at most one procedure that applies to a fact.
find_soak ==
  LET asked == {g \in goals : ~Obsolete(g)}
  IN  /\ phase = "soak" /\ phase' = "intend"
      /\ \E found \in SUBSET {e \in op_list \X asked : e[1] \in Untried(e[2])},
            facts \in SUBSET (op_list \X {None}) :
           /\ Cardinality(facts) <= 1
           /\ RoomFor(heap.inst, Cardinality(found) + Cardinality(facts))
           /\ heap' = SoakGoals(heap, asked, found \cup facts)
      /\ soak' = NewInstances
      /\ UNCHANGED <<queues, previous_soak, terms, outside, op_list, meta, current>>

\* The meta level looks for procedures that apply to what it has just found, of
\* which its facts may hold some.
MetaAgain ==
  /\ phase = "intend" /\ meta /\ soak # {} /\ phase' = "soak"
  /\ previous_soak' = soak /\ soak' = {}
  /\ shift_facts_goals(FreeInstances(heap, previous_soak))
  /\ UNCHANGED <<terms, outside, op_list, meta, current>>

Terms == {S \in SUBSET (Goal \cup Instance) :
            /\ Cardinality(S \cap Goal) <= MaxTerms
            /\ Cardinality(S \cap Instance) <= MaxTerms}

HoldInTerm(x) ==
  /\ phase = "intend" /\ meta /\ x \in soak \cup goals /\ x \notin terms
  /\ terms \cup {x} \in Terms
  /\ heap' = IF x \in Goal THEN dup_goal(heap, x) ELSE dup_op_instance(heap, x)
  /\ terms' = terms \cup {x}
  /\ UNCHANGED <<queues, soaks, outside, op_list, meta, phase, current>>

-----------------------------------------------------------------------------
(* Intending *)

FreeIntentions == {i \in Intention : ~heap.in[i].live}

\* Mutant: nobody looks whether the thread was removed since its goal was soaked.
IntendedLate(o) ==
  LET g == heap.inst[o].goal
      t == IF g = None THEN None ELSE heap.goal[g].tib
  IN  /\ ~heap.inst[o].intended /\ Free(heap.tib) # {}
      /\ \/ /\ t # None /\ Fils(heap, t) = {}
            /\ heap' = make_thread_intention_block(heap, o, t)
         \/ /\ t = None
            /\ \E i \in FreeIntentions :
                 LET h == make_thread_intention_block(heap, o, i)
                 IN  heap' = [IF g = None THEN h ELSE dup_goal(h, g)
                                EXCEPT !.in[i] = [live |-> TRUE, goal |-> g]]

\* For the goal of a thread, under it, unless it was removed or somebody already
\* works on the goal; otherwise in a new intention.
Intended(o) ==
  LET g == heap.inst[o].goal
      t == IF g = None THEN None ELSE heap.goal[g].tib
  IN  /\ ~heap.inst[o].intended /\ Free(heap.tib) # {}
      /\ \/ /\ t # None /\ heap.tib[t].status = "ACTIVE" /\ Fils(heap, t) = {}
            /\ heap' = make_thread_intention_block(heap, o, t)
         \/ /\ t = None
            /\ \E i \in FreeIntentions :
                 LET h == make_thread_intention_block(heap, o, i)
                 IN  heap' = [IF g = None THEN h ELSE dup_goal(h, g)
                                EXCEPT !.in[i] = [live |-> TRUE, goal |-> g]]

\* With the meta level, once nothing more applies; without it, from the soak.
intend(o) ==
  /\ phase = "intend"
  /\ IF meta THEN soak = {} /\ o \in previous_soak ELSE o \in soak
  /\ Intended(o)
  /\ UNCHANGED <<queues, soaks, terms, outside, op_list, meta, phase, current>>

\* The others are lost for this turn.
BeginActivate ==
  /\ phase = "intend" /\ phase' = "run"
  /\ meta => soak = {}
  /\ UNCHANGED <<heap, queues, soaks, terms, outside, op_list, meta, current>>

-----------------------------------------------------------------------------
(* Execution *)

Fathers(t) == {heap.tib[t].pere} \cap Tib

\* t is executed: once a turn, in which it posts its goal, and then none of the
\* threads made meanwhile for that goal; or right after the end of its sons.
Executed(t) ==
  /\ phase = "run" /\ heap.tib[t].status = "ACTIVE" /\ Fils(heap, t) = {}
  /\ \/ current = t
     \/ current = None /\ \A u \in {t} \cup Fathers(t) : heap.tib[u].goal \notin new_goals

\* add_goal: a goal to achieve is queued with a reference of its own.  Others
\* (conclude, retract, an empty edge) are achieved and freed in the same call.
PostGoal(t) ==
  /\ Executed(t) /\ heap.tib[t].goal = None /\ RoomFor(heap.goal, 1)
  /\ LET g == Fresh(heap.goal)
     IN  /\ heap' = dup_goal([make_goal(heap, t, 1) EXCEPT !.tib[t].goal = g], g)
         /\ new_goals' = new_goals \cup {g}
  /\ current' = None
  /\ UNCHANGED <<goals, soaks, terms, outside, op_list, meta, phase>>

\* At a split node t goes on and a brother is made for another edge, whose goal
\* waits for its turn to be posted.
make_new_threads_and_post_goals(t) ==
  /\ Executed(t) /\ heap.tib[t].goal = None
  /\ RoomFor(heap.goal, 2) /\ Free(heap.tib) # {}
  /\ LET g == Fresh(heap.goal)
         m == dup_goal([make_goal(heap, t, 1) EXCEPT !.tib[t].goal = g], g)
         u == Fresh(m.tib)
         n == fork_thread_intention_block(m, t)
     IN  /\ heap' = [make_goal(n, u, 1) EXCEPT !.tib[u].goal = Fresh(n.goal)]
         /\ new_goals' = new_goals \cup {g}
  /\ current' = None
  /\ UNCHANGED <<goals, soaks, terms, outside, op_list, meta, phase>>

\* A goal neither achieved nor failed is posted again.
Repost(t) ==
  LET g == heap.tib[t].goal
  IN  /\ Executed(t) /\ g # None /\ ~heap.goal[g].ended
      /\ heap' = dup_goal(heap, g) /\ new_goals' = new_goals \cup {g}
      /\ current' = None
      /\ UNCHANGED <<goals, soaks, terms, outside, op_list, meta, phase>>

\* An achieved or failed goal is given back, and the thread goes on.
EndGoal(t) ==
  LET g == heap.tib[t].goal
  IN  /\ Executed(t) /\ g # None /\ heap.goal[g].ended
      /\ heap' = [free_goal(heap, g) EXCEPT !.tib[t].goal = None]
      /\ current' = t
      /\ UNCHANGED <<queues, soaks, terms, outside, op_list, meta, phase>>

Brothers(t) == Fils(heap, heap.tib[t].pere)
\* The procedure has succeeded with its last thread, and its father goes on at
\* once, unless effects were posted; the others just end, here or where they join.
satisfied_thread(t) ==
  LET o == heap.tib[t].opi
      g == heap.inst[o].goal
      m == IF g = None \/ Brothers(t) # {t} THEN heap
           ELSE [heap EXCEPT !.goal[g].ended = TRUE]
  IN  /\ Executed(t) /\ heap.tib[t].goal = None
      /\ heap' = remove_and_free_tib(m, t)
      /\ current' \in IF Brothers(t) = {t} THEN {None} \cup Fathers(t) ELSE {None}
      /\ UNCHANGED <<queues, soaks, terms, outside, op_list, meta, phase>>

\* All the threads of the procedure go with the one that failed.
failed_thread(t) ==
  /\ Executed(t) /\ heap.tib[t].goal = None
  /\ heap' = RemoveAll(FailGoal(heap, heap.tib[t].opi), Brothers(t))
  /\ current' = IF heap.tib[t].pere \in Tib THEN heap.tib[t].pere ELSE None
  /\ UNCHANGED <<queues, soaks, terms, outside, op_list, meta, phase>>

Acting == current = None /\ \E t \in Tib : Executed(t)

\* A procedure's action makes a goal, looks for procedures that apply to
\* it, or intends one of those it holds.
MakeGoal ==
  /\ Acting /\ RoomFor(heap.goal, 1) /\ terms \cup {Fresh(heap.goal)} \in Terms
  /\ heap' = make_goal(heap, None, 1)
  /\ terms' = terms \cup {Fresh(heap.goal)}
  /\ UNCHANGED <<queues, soaks, outside, op_list, meta, phase, current>>

find_applicable_ops_for_goal(g) ==
  /\ Acting /\ g \in terms \cap Goal /\ ~Obsolete(g)
  /\ \E found \in SUBSET (Untried(g) \X {g}) :
       /\ RoomFor(heap.inst, Cardinality(found))
       /\ heap' = SoakGoals(heap, {g}, found)
  /\ terms' = terms \cup NewInstances /\ terms' \in Terms
  /\ UNCHANGED <<queues, soaks, outside, op_list, meta, phase, current>>

IntendTerm(o) ==
  /\ Acting /\ o \in terms \cap Instance
  /\ Intended(o)
  /\ UNCHANGED <<queues, soaks, terms, outside, op_list, meta, phase, current>>

\* The meta procedure ends, or its fact is retracted.
ForgetTerm(x) ==
  /\ phase = "run" /\ current = None /\ x \in terms
  /\ heap' = FreeTerm(heap, x) /\ terms' = terms \ {x}
  /\ UNCHANGED <<queues, soaks, outside, op_list, meta, phase, current>>

\* An intention ends, or is killed.
delete_intention(i) ==
  /\ phase = "run" /\ current = None /\ heap.in[i].live
  /\ LET m == RemoveAll(heap, Fils(heap, i))
         g == heap.in[i].goal
     IN  heap' = [IF g = None THEN m ELSE free_goal(m, g) EXCEPT !.in[i] = FreedInt]
  /\ UNCHANGED <<queues, soaks, terms, outside, op_list, meta, phase, current>>

EndTurn ==
  /\ phase = "run" /\ current = None /\ phase' = "stdin"
  /\ heap' = FreeInstances(heap, previous_soak)
  /\ previous_soak' = soak /\ soak' = {}
  /\ UNCHANGED <<queues, terms, outside, op_list, meta, current>>

-----------------------------------------------------------------------------
Next ==
  \/ \E p \in Procedure : add_op_to_relevant_op(p) \/ delete_op_from_rop(p)
  \/ AddExpr \/ BeginTurn \/ find_soak \/ MetaAgain \/ BeginActivate \/ MakeGoal \/ EndTurn
  \/ \E t \in Tib :
       \/ FailPreserved(t) \/ PostGoal(t) \/ make_new_threads_and_post_goals(t)
       \/ Repost(t) \/ EndGoal(t) \/ satisfied_thread(t) \/ failed_thread(t)
  \/ \E x \in Goal \cup Instance : HoldInTerm(x) \/ ForgetTerm(x)
  \/ \E o \in Instance : intend(o) \/ IntendTerm(o)
  \/ \E g \in Goal : find_applicable_ops_for_goal(g)
  \/ \E i \in Intention : delete_intention(i)

Spec == Init /\ [][Next]_vars

-----------------------------------------------------------------------------
One(b) == IF b THEN 1 ELSE 0

GoalRefs(g) ==
  Cardinality({t \in Tib : heap.tib[t].goal = g}) + Cardinality({i \in Intention : heap.in[i].goal = g})
    + Cardinality({o \in Instance : heap.inst[o].goal = g})
    + One(g \in goals) + One(g \in new_goals) + One(g \in terms) + One(g \in outside)

InstRefs(o) ==
  Cardinality({t \in Tib : heap.tib[t].opi = o})
    + Cardinality({g \in Goal : o \in ToSet(heap.goal[g].echec)})
    + One(o \in soak) + One(o \in previous_soak) + One(o \in terms)

\* Every object has as many references as there are pointers to it, and no goal
\* lives only through the instances that failed it and hold it: whatever order
\* goals end, threads fail, intentions die, soaks are dropped and procedures are
\* deleted in, nothing is freed while pointed to and nothing is lost.
Reclaimed ==
  /\ \A g \in Goal :
       /\ heap.goal[g].ref = GoalRefs(g)
       /\ g \in Used(heap.goal) =>
            Len(heap.goal[g].echec) < heap.goal[g].ref \/ Pointed(heap, g)
  /\ \A o \in Instance : heap.inst[o].ref = InstRefs(o)
  /\ \A t \in Tib :
       heap.tib[t].ref = One(heap.tib[t].status # "DEAD")
                           + Cardinality({g \in Goal : heap.goal[g].tib = t})
  /\ \A p \in Procedure :
       heap.op[p] = One(p \in op_list) + Cardinality({o \in Instance : heap.inst[o].op = p})

\* Threads work for a live thread, with one procedure at a time: those below a
\* thread all execute the same instance, made for a goal of that thread, however
\* late the main loop or the meta level intends what was found.  When a
\* preserved condition ends, failing the first son's instance relies on it.
SonsServe ==
  \A t \in Tib : Fils(heap, t) # {} =>
    /\ heap.tib[t].status = "ACTIVE"
    /\ \E o \in Instance :
         /\ \A u \in Fils(heap, t) : heap.tib[u].opi = o
         /\ heap.inst[o].goal # None /\ heap.goal[heap.inst[o].goal].tib = t

=============================================================================
