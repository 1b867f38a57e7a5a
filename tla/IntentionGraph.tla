--------------------------- MODULE IntentionGraph ---------------------------
(***************************************************************************)
(* The intention graph of an OPRS kernel (int-graph.c, with the parts of   *)
(* intend.c, intention.c, activate.c, conditions.c, action.c and top-lev.c *)
(* that change it).                                                        *)
(*                                                                         *)
(* An intention is a task.  Precedence pairs order the tasks; the tasks    *)
(* without predecessor are the roots (list_first) and only the active ones *)
(* among them are runnable.  The kernel keeps those derived lists by hand, *)
(* one edit per operation, and this module keeps them the same way: the    *)
(* properties say when the hand-kept lists agree with the pairs and with   *)
(* the status of each intention.                                           *)
(*                                                                         *)
(* The lists have no order here, but those where the code can put the same *)
(* element twice are bags (functions to Nat): sl_delete_slist_node removes *)
(* one occurrence, and that matters.                                       *)
(*                                                                         *)
(* The kernel is single-threaded.  `phase' walks through one turn of the   *)
(* main loop: "stdin" (commands), "reset" (reset_oprs_kernel), "soak"      *)
(* (new procedures are intended, sleepers are woken), "run" (activate      *)
(* executes the current intentions one after the other), "reap" (activate  *)
(* deletes the condemned ones).                                            *)
(*                                                                         *)
(* The threads of an intention are abstracted to three counts: in          *)
(* active_tibs, asleep on a condition, waiting at a join node.             *)
(***************************************************************************)
EXTENDS Naturals

CONSTANTS
  Intention,      \* addresses an intention can have; a freed one is reused
  None,           \* the null pointer
  Dangling,       \* critical_section still pointing to a freed thread
  ParExec,        \* values of run_option[PAR_EXEC], execute all the runnable intentions,
                  \* between which the user may switch
  Lists,          \* what (after, before) lists the procedures pass, see WellOrdered
  MaxThreads,     \* bound: threads of one intention
  MaxConds,       \* bound: INTENTION_ACTIVATION conditions of one intention
  MaxPairs        \* bound: no new intention while a pair is there more times

ASSUME IntentionAssumption ==
  /\ None \notin Intention
  /\ Dangling \notin Intention
  /\ None # Dangling
ASSUME OptionAssumption == ParExec \subseteq BOOLEAN /\ Lists \in {"any", "ordered", "tree"}
ASSUME BoundAssumption == MaxThreads \in Nat /\ MaxConds \in Nat /\ MaxPairs \in Nat

VARIABLES
  list_intentions,    \* every intention of the graph
  list_first,         \* the roots (bag)
  list_runnable,      \* the roots the scheduler may choose (bag)
  list_condamned,     \* to be deleted at the end of activate
  list_pairs,         \* precedence: pairs <<i, j>> where i blocks j (bag)
  current_intentions, \* chosen for execution (bag)
  sleeping,           \* not to be executed, whatever the reason
  sleeping_on_cond,   \* asleep on an INTENTION_ACTIVATION condition
  status,             \* Intention.status
  active_tibs,        \* length of Intention.active_tibs
  asleep_tibs,        \* threads asleep on a condition
  joining_tibs,       \* threads waiting at a join node
  conds,              \* length of Intention.activation_conditions_list
  critical_section,   \* Oprs.critical_section: the intention that owns it
  marked,             \* intentions whose own critical_section is not NULL
  phase,              \* where the main loop is
  todo,               \* what activate's loop still has to execute (bag)
  running             \* current_intention

graphVars  == <<list_intentions, list_first, list_pairs>>
schedVars  == <<list_runnable, sleeping, sleeping_on_cond, status>>
tibVars    == <<active_tibs, asleep_tibs, joining_tibs>>
threadVars == <<tibVars, conds>>
csVars     == <<critical_section, marked, current_intentions>>
loopVars   == <<list_condamned, phase, todo, running>>
vars == <<graphVars, schedVars, threadVars, csVars, loopVars>>

Status == {"IS_ACTIVE", "IS_SLEEPING", "IS_SUSP_ACTIVE", "IS_SUSP_SLEEPING"}
Phase == {"stdin", "reset", "soak", "run", "reap"}
Bag == [Intention -> Nat]

\* The hand-kept lists and counters have the types of their declarations.
TypeOK ==
  /\ list_intentions \in SUBSET Intention
  /\ list_first \in Bag
  /\ list_runnable \in Bag
  /\ list_condamned \in SUBSET Intention
  /\ list_pairs \in [Intention \X Intention -> Nat]
  /\ current_intentions \in Bag
  /\ sleeping \in SUBSET Intention
  /\ sleeping_on_cond \in SUBSET Intention
  /\ status \in [Intention -> Status]
  /\ active_tibs \in Bag
  /\ asleep_tibs \in Bag
  /\ joining_tibs \in Bag
  /\ conds \in Bag
  /\ critical_section \in Intention \cup {None, Dangling}
  /\ marked \in SUBSET Intention
  /\ phase \in Phase
  /\ todo \in Bag
  /\ running \in Intention \cup {None}

EmptyBag == [i \in Intention |-> 0]
BagOf(S) == [i \in Intention |-> IF i \in S THEN 1 ELSE 0]
InBag(bag) == {i \in Intention : bag[i] > 0}

\* Mutant: a deletion from a list that does not check the node is there.
MinusUnchecked(m, n) == m - n

Minus(m, n) == IF m > n THEN m - n ELSE 0
\* Mutant: the node is not found.
DeleteNodeMissed(bag, i) == bag

\* sl_delete_slist_node deletes the first occurrence only.
DeleteNode(bag, i) == [bag EXCEPT ![i] = Minus(@, 1)]

Init ==
  /\ list_intentions = {} /\ list_condamned = {}
  /\ list_first = EmptyBag /\ list_runnable = EmptyBag
  /\ list_pairs = [e \in Intention \X Intention |-> 0]
  /\ sleeping = {} /\ sleeping_on_cond = {}
  /\ status = [i \in Intention |-> "IS_ACTIVE"]
  /\ active_tibs = EmptyBag /\ asleep_tibs = EmptyBag /\ joining_tibs = EmptyBag
  /\ conds = EmptyBag
  /\ critical_section = None /\ marked = {} /\ current_intentions = EmptyBag
  /\ phase = "stdin" /\ todo = EmptyBag /\ running = None

-----------------------------------------------------------------------------
(* Precedence *)

Before(pairs, i, j) == pairs[<<i, j>>] > 0

\* No set of intentions where each one waits for another of the set.
Acyclic(pairs) ==
  \A S \in (SUBSET Intention) \ {{}} : \E x \in S : \A y \in S : ~Before(pairs, y, x)

\* a precedes b: b is in every set that holds what a blocks and is closed.
Precedes(pairs, a, b) ==
  \A S \in SUBSET Intention :
    (\A x \in S \cup {a} : \A y \in Intention : Before(pairs, x, y) => y \in S) => b \in S

\* Every intention waits for at most one other, once.
Forest(pairs) ==
  \A i \in Intention :
    /\ \A j \in Intention : pairs[<<j, i>>] <= 1
    /\ \A j, k \in Intention : Before(pairs, j, i) /\ Before(pairs, k, i) => j = k

\* The code takes any lists.  "ordered": they close no cycle.  "tree": and
\* they make no intention wait for two others.
WellOrdered(pairs) ==
  /\ Lists # "any" => Acyclic(pairs)
  /\ Lists = "tree" => Forest(pairs)

-----------------------------------------------------------------------------
(* int-graph.c: insertion and deletion *)

\* Mutant: what is put after the new intention stays a root.
InsertKeepingRoots(i, after, before) ==
  LET root == IF after = {} THEN BagOf({i}) ELSE EmptyBag
      WithRoot(bag) == [k \in Intention |-> bag[k] + root[k]]
  IN  /\ list_intentions' = list_intentions \cup {i}
      /\ list_pairs' = [e \in Intention \X Intention |->
                          list_pairs[e]
                            + (IF e[2] = i THEN BagOf(after)[e[1]] ELSE 0)
                            + (IF e[1] = i THEN before[e[2]] ELSE 0)]
      /\ list_first' = WithRoot(list_first)
      /\ list_runnable' = WithRoot(list_runnable)

insert_intention_in_ig(i, after, before) ==
  LET root == IF after = {} THEN BagOf({i}) ELSE EmptyBag
      WithRoot(bag) == [k \in Intention |-> Minus(bag[k] + root[k], before[k])]
  IN  /\ list_intentions' = list_intentions \cup {i}
      /\ list_pairs' = [e \in Intention \X Intention |->
                          list_pairs[e]
                            + (IF e[2] = i THEN BagOf(after)[e[1]] ELSE 0)
                            + (IF e[1] = i THEN before[e[2]] ELSE 0)]
      /\ list_first' = WithRoot(list_first)
      /\ list_runnable' = WithRoot(list_runnable)

\* A new intention is active, has one active thread and waits for nothing.
make_intention(i) ==
  /\ status' = [status EXCEPT ![i] = "IS_ACTIVE"]
  /\ active_tibs' = [active_tibs EXCEPT ![i] = 1]
  /\ asleep_tibs' = [asleep_tibs EXCEPT ![i] = 0]
  /\ joining_tibs' = [joining_tibs EXCEPT ![i] = 0]
  /\ conds' = [conds EXCEPT ![i] = 0]
  /\ UNCHANGED <<sleeping, sleeping_on_cond>>

\* Mutants: the pairs that end in i stay; the pairs around i are reconnected the
\* other way round.
PairsStale(i) ==
  [e \in Intention \X Intention |->
     IF e[1] = i THEN 0 ELSE list_pairs[e] + list_pairs[<<e[1], i>>] * list_pairs[<<i, e[2]>>]]
PairsSwapped(i) ==
  [e \in Intention \X Intention |->
     IF i \in {e[1], e[2]} THEN 0 ELSE list_pairs[e] + list_pairs[<<e[2], i>>] * list_pairs[<<i, e[1]>>]]

\* The pairs left by i: what was before it is now before what was after it.
\* A pair <<i, i>> only counts as "i is first", as in the loop's else-if.
PairsWithout(i) ==
  [e \in Intention \X Intention |->
     IF e[1] = i THEN 0
     ELSE (IF e[2] = i THEN 0 ELSE list_pairs[e]) + list_pairs[<<e[1], i>>] * list_pairs[<<i, e[2]>>]]

\* Deleting a root makes a root of each occurrence of a successor that nothing
\* precedes any more.
NewRoots(i) ==
  [k \in Intention |->
     IF list_first[i] > 0 /\ \A j \in Intention : ~Before(PairsWithout(i), j, k)
     THEN list_pairs[<<i, k>>] ELSE 0]

\* The tibs go with the intention.  The critical section ends with them only
\* if the intention is still marked; otherwise Oprs.critical_section dangles.
delete_intention(i) ==
  /\ critical_section' = IF critical_section # i THEN critical_section
                         ELSE IF i \in marked THEN None ELSE Dangling
  /\ marked' = marked \ {i}
  /\ status' = [status EXCEPT ![i] = "IS_ACTIVE"]
  /\ active_tibs' = [active_tibs EXCEPT ![i] = 0]
  /\ asleep_tibs' = [asleep_tibs EXCEPT ![i] = 0]
  /\ joining_tibs' = [joining_tibs EXCEPT ![i] = 0]
  /\ conds' = [conds EXCEPT ![i] = 0]

delete_intention_from_ig(i) ==
  /\ list_intentions' = list_intentions \ {i}
  /\ list_pairs' = PairsWithout(i)
  /\ list_first' = [k \in Intention |-> DeleteNode(list_first, i)[k] + NewRoots(i)[k]]
  /\ sleeping' = sleeping \ {i}
  /\ list_runnable' = [k \in Intention |->
       DeleteNode(list_runnable, i)[k] + (IF k \in sleeping' THEN 0 ELSE NewRoots(i)[k])]
  /\ sleeping_on_cond' = sleeping_on_cond \ {i}
  /\ current_intentions' = DeleteNode(current_intentions, i)
  /\ delete_intention(i)

-----------------------------------------------------------------------------
(* int-graph.c: putting to sleep and waking up *)

\* Mutant: whatever wakes up is runnable, root or not.
RunnableAnyway(i) == [list_runnable EXCEPT ![i] = @ + 1]

RunnableIfRoot(i) ==
  [list_runnable EXCEPT ![i] = IF list_first[i] > 0 THEN @ + 1 ELSE @]

\* The last INTENTION_ACTIVATION condition of i is satisfied.
wake_up_intention(i) ==
  \/ /\ status[i] = "IS_SLEEPING"
     /\ sleeping_on_cond' = sleeping_on_cond \ {i}
     /\ sleeping' = sleeping \ {i}
     /\ list_runnable' = RunnableIfRoot(i)
     /\ status' = [status EXCEPT ![i] = "IS_ACTIVE"]
  \/ /\ status[i] = "IS_SUSP_SLEEPING"
     /\ sleeping_on_cond' = sleeping_on_cond \ {i}
     /\ status' = [status EXCEPT ![i] = "IS_SUSP_ACTIVE"]
     /\ UNCHANGED <<sleeping, list_runnable>>
  \/ /\ status[i] \in {"IS_ACTIVE", "IS_SUSP_ACTIVE"}
     /\ UNCHANGED schedVars

\* An INTENTION_ACTIVATION condition is installed on i.
force_asleep_intention(i) ==
  \/ i \in sleeping_on_cond /\ UNCHANGED schedVars
  \/ /\ i \notin sleeping_on_cond
     /\ sleeping_on_cond' = sleeping_on_cond \cup {i}
     /\ \/ /\ status[i] = "IS_SUSP_ACTIVE"
           /\ status' = [status EXCEPT ![i] = "IS_SUSP_SLEEPING"]
           /\ UNCHANGED <<sleeping, list_runnable>>
        \/ /\ status[i] = "IS_ACTIVE"
           /\ sleeping' = sleeping \cup {i}
           /\ list_runnable' = DeleteNode(list_runnable, i)
           /\ status' = [status EXCEPT ![i] = "IS_SLEEPING"]
        \/ /\ status[i] \in {"IS_SLEEPING", "IS_SUSP_SLEEPING"}
           /\ UNCHANGED <<sleeping, list_runnable, status>>

\* Mutant: the thread is active again but nobody tells the intention.
ContinueForgotten(i) == UNCHANGED schedVars

\* A thread of i is active again.
continue_intention(i) ==
  \/ /\ status[i] = "IS_SUSP_ACTIVE"
     /\ sleeping' = sleeping \ {i}
     /\ list_runnable' = RunnableIfRoot(i)
     /\ status' = [status EXCEPT ![i] = "IS_ACTIVE"]
     /\ UNCHANGED sleeping_on_cond
  \/ /\ status[i] = "IS_SUSP_SLEEPING"
     /\ status' = [status EXCEPT ![i] = "IS_SLEEPING"]
     /\ UNCHANGED <<sleeping, list_runnable, sleeping_on_cond>>
  \/ /\ status[i] \in {"IS_ACTIVE", "IS_SLEEPING"}
     /\ UNCHANGED schedVars

\* i has no active thread left.
suspend_intention(i) ==
  \/ /\ status[i] = "IS_ACTIVE"
     /\ sleeping' = sleeping \cup {i}
     /\ list_runnable' = DeleteNode(list_runnable, i)
     /\ status' = [status EXCEPT ![i] = "IS_SUSP_ACTIVE"]
     /\ UNCHANGED sleeping_on_cond
  \/ /\ status[i] = "IS_SLEEPING"
     /\ status' = [status EXCEPT ![i] = "IS_SUSP_SLEEPING"]
     /\ UNCHANGED <<sleeping, list_runnable, sleeping_on_cond>>
  \/ /\ status[i] \in {"IS_SUSP_ACTIVE", "IS_SUSP_SLEEPING"}
     /\ UNCHANGED schedVars

\* What follows the removal of one thread of i from active_tibs.
check_last_active_tib(i) ==
  \/ active_tibs[i] = 1 /\ suspend_intention(i)
  \/ active_tibs[i] # 1 /\ UNCHANGED schedVars

-----------------------------------------------------------------------------
(* "stdin": the reset command *)

ResetBegin ==
  /\ phase = "stdin" /\ phase' = "reset"
  /\ UNCHANGED <<graphVars, schedVars, threadVars, csVars, list_condamned, todo, running>>

\* reset_oprs_kernel deletes every intention, in list order.
ResetDelete(i) ==
  /\ phase = "reset" /\ i \in list_intentions
  /\ delete_intention_from_ig(i)
  /\ UNCHANGED loopVars

BeginSoak ==
  /\ phase = "stdin" \/ (phase = "reset" /\ list_intentions = {})
  /\ phase' = "soak"
  /\ UNCHANGED <<graphVars, schedVars, threadVars, csVars, list_condamned, todo, running>>

-----------------------------------------------------------------------------
(* "soak": applicable procedures are intended, conditions are checked *)

MayCreate(i) ==
  /\ i \notin list_intentions
  /\ \A e \in Intention \X Intention : list_pairs[e] <= MaxPairs

intend_op_in_new_intention(i, after, before) ==
  /\ MayCreate(i)
  /\ insert_intention_in_ig(i, after, BagOf(before))
  /\ WellOrdered(list_pairs')
  /\ make_intention(i)

\* A DECISION-PROCEDURE op goes before all the roots, whatever lists were given.
intend_decision_procedure(i) ==
  /\ MayCreate(i)
  /\ insert_intention_in_ig(i, {}, list_first)
  /\ make_intention(i)

IntendSoak(i) ==
  /\ phase = "soak"
  /\ intend_op_in_new_intention(i, {}, {}) \/ intend_decision_procedure(i)
  /\ UNCHANGED <<csVars, loopVars>>

\* A TIB_ACTIVATION or ACTION_WAIT condition of a thread of i is satisfied.
WakeUpThread(i) ==
  /\ phase = "soak" /\ i \in list_intentions /\ asleep_tibs[i] > 0
  /\ asleep_tibs' = [asleep_tibs EXCEPT ![i] = @ - 1]
  /\ active_tibs' = [active_tibs EXCEPT ![i] = @ + 1]
  /\ continue_intention(i)
  /\ UNCHANGED <<graphVars, joining_tibs, conds, csVars, loopVars>>

\* An INTENTION_ACTIVATION condition of i is satisfied and uninstalled.
SatisfyIntentionCondition(i) ==
  /\ phase = "soak" /\ i \in list_intentions /\ conds[i] > 0
  /\ conds' = [conds EXCEPT ![i] = @ - 1]
  /\ \/ conds[i] = 1 /\ wake_up_intention(i)
     \/ conds[i] # 1 /\ UNCHANGED schedVars
  /\ UNCHANGED <<graphVars, tibVars, csVars, loopVars>>

Threads(i) == active_tibs[i] + asleep_tibs[i] + joining_tibs[i]

\* Some threads of i are freed and their parent thread is active in their place.
ReplaceThreads(i, active, asleep, joining) ==
  /\ active > 0 /\ active + asleep + joining <= Threads(i)
  /\ asleep <= asleep_tibs[i] /\ joining <= joining_tibs[i]
  /\ active_tibs' = [active_tibs EXCEPT ![i] = active]
  /\ asleep_tibs' = [asleep_tibs EXCEPT ![i] = asleep]
  /\ joining_tibs' = [joining_tibs EXCEPT ![i] = joining]

\* Threads of i are freed.  The one that opened the critical section may be
\* among them; the section ends with it only if the intention is still marked.
FreeThreads(i) ==
  \/ UNCHANGED csVars
  \/ /\ critical_section = i
     /\ critical_section' = IF i \in marked THEN None ELSE Dangling
     /\ marked' = marked \ {i}
     /\ UNCHANGED current_intentions

\* A preserved condition of i is no longer true: failed_maintained_tib fails the
\* threads below the one that preserves it.
PreserveFails(i, active, asleep, joining) ==
  /\ phase = "soak" /\ i \in list_intentions
  /\ active <= active_tibs[i] + 1
  /\ ReplaceThreads(i, active, asleep, joining)
  /\ continue_intention(i)
  /\ FreeThreads(i)
  /\ UNCHANGED <<graphVars, conds, loopVars>>

-----------------------------------------------------------------------------
(* "run": activate *)

\* Mutants: the critical section is not looked at; a section without current
\* intention is not forced to end; only one intention is chosen.
ChooseIgnoringSection ==
  /\ UNCHANGED critical_section
  /\ current_intentions' = list_runnable
ChooseNoForcedExit ==
  \/ critical_section # None /\ UNCHANGED <<critical_section, current_intentions>>
  \/ /\ critical_section = None
     /\ UNCHANGED critical_section
     /\ current_intentions' = list_runnable
ChooseOne ==
  \/ /\ critical_section # None
     /\ UNCHANGED current_intentions
     /\ critical_section' =
          IF current_intentions = EmptyBag THEN None ELSE critical_section
  \/ /\ critical_section = None
     /\ UNCHANGED critical_section
     /\ \E S \in {T \in SUBSET InBag(list_runnable) : \A i, j \in T : i = j} :
          /\ S = {} <=> InBag(list_runnable) = {}
          /\ current_intentions' = BagOf(S)

\* The scheduler's choice.  In a critical section nothing is chosen: the
\* current intention stays, and a section without one is forced to end.
ChooseCurrent ==
  \/ /\ critical_section # None
     /\ UNCHANGED current_intentions
     /\ critical_section' =
          IF current_intentions = EmptyBag THEN None ELSE critical_section
  \/ /\ critical_section = None
     /\ UNCHANGED critical_section
     /\ \/ TRUE \in ParExec /\ current_intentions' = list_runnable
        \/ FALSE \in ParExec /\ InBag(list_runnable) = {} /\ current_intentions' = EmptyBag
        \/ FALSE \in ParExec /\ \E i \in InBag(list_runnable) : current_intentions' = BagOf({i})

find_current_intentions ==
  /\ phase = "soak"
  /\ ChooseCurrent
  /\ todo' = current_intentions'
  /\ phase' = IF current_intentions' = EmptyBag THEN "stdin" ELSE "run"
  /\ UNCHANGED <<graphVars, schedVars, threadVars, marked, list_condamned, running>>

\* The next of current_intentions, freed or not.
BeginExecute(i) ==
  /\ phase = "run" /\ running = None /\ todo[i] > 0
  /\ running' = i /\ todo' = DeleteNode(todo, i)
  /\ UNCHANGED <<graphVars, schedVars, threadVars, csVars, list_condamned, phase>>

\* A thread of the current intention executes.
Executing == running # None /\ active_tibs[running] > 0

\* The actions of intend.c, executed by a procedure of the running intention.
IntendAction(i) ==
  /\ Executing
  /\ \/ \E after, before \in SUBSET list_intentions : intend_op_in_new_intention(i, after, before)
     \/ intend_decision_procedure(i)
  /\ UNCHANGED <<csVars, loopVars>>

\* kill-intention, kill-intentions, kill-other-intentions.
KillAction(killed) ==
  /\ Executing /\ killed # {}
  /\ list_condamned' = list_condamned \cup killed
  /\ UNCHANGED <<graphVars, schedVars, threadVars, csVars, phase, todo, running>>

\* asleep-intention(s), with a wake-up tag or a condition.
AsleepAction(i) ==
  /\ Executing /\ i # running /\ i \in list_intentions
  /\ conds[i] < MaxConds
  /\ conds' = [conds EXCEPT ![i] = @ + 1]
  /\ force_asleep_intention(i)
  /\ UNCHANGED <<graphVars, tibVars, csVars, loopVars>>

\* A thread posts a wait goal or its action asks to wait.
ThreadSleeps ==
  /\ Executing
  /\ active_tibs' = [active_tibs EXCEPT ![running] = @ - 1]
  /\ asleep_tibs' = [asleep_tibs EXCEPT ![running] = @ + 1]
  /\ check_last_active_tib(running)
  /\ UNCHANGED <<graphVars, joining_tibs, conds, csVars, loopVars>>

\* A thread reaches a split node.
ThreadForks ==
  /\ Executing /\ Threads(running) < MaxThreads
  /\ active_tibs' = [active_tibs EXCEPT ![running] = @ + 1]
  /\ UNCHANGED <<graphVars, schedVars, asleep_tibs, joining_tibs, conds, csVars, loopVars>>

end_critical_section ==
  /\ critical_section' = None
  /\ marked' = marked \ {running}
  /\ UNCHANGED current_intentions

\* A thread waits for others at a join node: its critical section is broken.
ThreadJoins ==
  /\ Executing
  /\ active_tibs' = [active_tibs EXCEPT ![running] = @ - 1]
  /\ joining_tibs' = [joining_tibs EXCEPT ![running] = @ + 1]
  /\ check_last_active_tib(running)
  /\ \/ running \in marked /\ end_critical_section
     \/ running \notin marked /\ UNCHANGED csVars
  /\ UNCHANGED <<graphVars, asleep_tibs, conds, loopVars>>

\* The last thread expected at a join node frees those that wait there.
LastThreadJoins(joined) ==
  /\ Executing /\ joined <= joining_tibs[running]
  /\ joining_tibs' = [joining_tibs EXCEPT ![running] = @ - joined]
  /\ UNCHANGED <<graphVars, schedVars, active_tibs, asleep_tibs, conds, csVars, loopVars>>

\* satisfied_thread of a thread that is not the last of its procedure: no
\* check_last_active_tib here.  The critical section ends if this very thread
\* opened it; otherwise the thread in section is merely unmarked.
ThreadFinishes ==
  /\ Executing /\ Threads(running) > 1
  /\ active_tibs' = [active_tibs EXCEPT ![running] = @ - 1]
  /\ \/ running \in marked /\ end_critical_section
     \/ /\ running \in marked /\ marked' = marked \ {running}
        /\ UNCHANGED <<critical_section, current_intentions>>
     \/ running \notin marked /\ FreeThreads(running)
  /\ UNCHANGED <<graphVars, schedVars, asleep_tibs, joining_tibs, conds, loopVars>>

\* The last thread of a procedure succeeds or any of its threads fails: the
\* thread that called the procedure goes on in their place.
LeaveProcedure(active, asleep, joining) ==
  /\ Executing
  /\ active <= active_tibs[running]
  /\ ReplaceThreads(running, active, asleep, joining)
  /\ FreeThreads(running)
  /\ UNCHANGED <<graphVars, schedVars, conds, loopVars>>

\* Mutant: activate's loop goes on with the intentions it had chosen.
BeginSectionInLoop ==
  /\ Executing /\ critical_section = None
  /\ current_intentions' = BagOf({running})
  /\ critical_section' = running
  /\ marked' = marked \cup {running}
  /\ UNCHANGED <<graphVars, schedVars, threadVars, list_condamned, phase, todo, running>>

\* start-critical-section.  Replacing current_intentions also ends activate's
\* loop over it.
begin_critical_section ==
  /\ Executing /\ critical_section = None
  /\ current_intentions' = BagOf({running})
  /\ todo' = EmptyBag
  /\ critical_section' = running
  /\ marked' = marked \cup {running}
  /\ UNCHANGED <<graphVars, schedVars, threadVars, list_condamned, phase, running>>

\* start-critical-section as the top procedure of the intention: there is no
\* calling thread to own the section, and the intention succeeds at once.
BeginCriticalSectionAtTop ==
  /\ Executing /\ critical_section = None /\ Threads(running) = 1
  /\ current_intentions' = BagOf({running})
  /\ todo' = EmptyBag
  /\ list_condamned' = list_condamned \cup {running}
  /\ running' = None
  /\ UNCHANGED <<graphVars, schedVars, threadVars, critical_section, marked, phase>>

\* end-critical-section.
EndCriticalSection ==
  /\ Executing /\ critical_section # None
  /\ end_critical_section
  /\ UNCHANGED <<graphVars, schedVars, threadVars, loopVars>>

\* The intention goes on at the next turn.  In a critical section the loop stops.
EndExecute ==
  /\ running # None
  /\ running' = None
  /\ todo' = IF running \in marked THEN EmptyBag ELSE todo
  /\ UNCHANGED <<graphVars, schedVars, threadVars, csVars, list_condamned, phase>>

\* The intention succeeded or failed, or raised an error and keeps its threads.
Terminate ==
  /\ Executing
  /\ running' = None
  /\ list_condamned' = list_condamned \cup {running}
  /\ FreeThreads(running)
  /\ UNCHANGED <<graphVars, schedVars, threadVars, phase, todo>>

BeginReap ==
  /\ phase = "run" /\ running = None /\ todo = EmptyBag
  /\ phase' = "reap"
  /\ UNCHANGED <<graphVars, schedVars, threadVars, csVars, list_condamned, todo, running>>

Reap(i) ==
  /\ phase = "reap" /\ i \in list_condamned
  /\ delete_intention_from_ig(i)
  /\ list_condamned' = list_condamned \ {i}
  /\ UNCHANGED <<phase, todo, running>>

\* Mutant: activate returns before it has deleted the condemned intentions.
EndReapEarly ==
  /\ phase = "reap"
  /\ phase' = "stdin"
  /\ UNCHANGED <<graphVars, schedVars, threadVars, csVars, list_condamned, todo, running>>

EndReap ==
  /\ phase = "reap" /\ list_condamned = {}
  /\ phase' = "stdin"
  /\ UNCHANGED <<graphVars, schedVars, threadVars, csVars, list_condamned, todo, running>>

-----------------------------------------------------------------------------

Soak ==
  \/ BeginSoak
  \/ \E i \in Intention :
       \/ IntendSoak(i) \/ WakeUpThread(i) \/ SatisfyIntentionCondition(i)
       \/ \E active, asleep, joining \in 0 .. MaxThreads :
            PreserveFails(i, active, asleep, joining)

Execute ==
  \/ ThreadSleeps \/ ThreadForks \/ ThreadJoins \/ ThreadFinishes
  \/ \E joined \in 1 .. MaxThreads : LastThreadJoins(joined)
  \/ \E active, asleep, joining \in 0 .. MaxThreads : LeaveProcedure(active, asleep, joining)
  \/ begin_critical_section \/ BeginCriticalSectionAtTop \/ EndCriticalSection
  \/ EndExecute \/ Terminate
  \/ \E killed \in SUBSET (list_intentions \ {running}) : KillAction(killed)
  \/ \E i \in Intention :
       BeginExecute(i) \/ IntendAction(i) \/ AsleepAction(i)

Next ==
  \/ ResetBegin \/ \E i \in Intention : ResetDelete(i)
  \/ Soak
  \/ find_current_intentions
  \/ Execute
  \/ BeginReap \/ (\E i \in Intention : Reap(i)) \/ EndReap

Spec == Init /\ [][Next]_vars

\* The kernel never stops in the middle of a turn: activate's loops go on, and
\* each thread's turn ends, since an action that does not return blocks it all.
Fairness ==
  /\ WF_vars(BeginSoak) /\ WF_vars(find_current_intentions)
  /\ WF_vars(\E i \in Intention : ResetDelete(i))
  /\ WF_vars(\E i \in Intention : BeginExecute(i)) /\ WF_vars(EndExecute)
  /\ WF_vars(BeginReap) /\ WF_vars(\E i \in Intention : Reap(i)) /\ WF_vars(EndReap)

FairSpec == Spec /\ Fairness

-----------------------------------------------------------------------------
(* Properties *)

\* The tasks are partially ordered: whatever is inserted before or after what,
\* killed or finished, no intention ever waits for itself through others
\* (insert_intention_in_ig and delete_intention_from_ig rewrite the pairs).
PartialOrder == Acyclic(list_pairs)

Unpreceded(i) == \A j \in Intention : ~Before(list_pairs, j, i)

\* list_first, edited by hand at each insertion and deletion, holds exactly the
\* intentions that wait for no other, once: none waits for a deleted one for ever.
RootsAreUnblocked ==
  \A i \in Intention :
    list_first[i] = IF i \in list_intentions /\ Unpreceded(i) THEN 1 ELSE 0

\* list_runnable, edited by hand at each insertion, deletion, suspension and
\* wake-up, holds exactly the active roots, once.
RunnableAreActiveRoots ==
  \A i \in Intention :
    list_runnable[i] = IF status[i] = "IS_ACTIVE" THEN list_first[i] ELSE 0

\* The two reasons not to execute (asleep on conditions, no active thread) are
\* kept in one status and two lists; in whatever order sleeps, wake-ups and
\* suspensions come, the lists and the conditions agree with the status.
SleepersAgree ==
  /\ sleeping = {i \in list_intentions : status[i] # "IS_ACTIVE"}
  /\ sleeping_on_cond = {i \in list_intentions : status[i] \in {"IS_SLEEPING", "IS_SUSP_SLEEPING"}}
  /\ sleeping_on_cond = {i \in list_intentions : conds[i] > 0}

\* An intention is never left suspended once one of its threads is active again.
SuspendedHaveNoThread ==
  \A i \in list_intentions :
    status[i] \in {"IS_SUSP_ACTIVE", "IS_SUSP_SLEEPING"} => active_tibs[i] = 0

\* The two reasons not to execute, kept in one status, are each lifted by their
\* own wake-up only.
StatusesAgree == SleepersAgree /\ SuspendedHaveNoThread

\* No list of the graph, nor activate's loop, still holds a freed intention.
NoFreedIntention ==
  /\ InBag(list_first) \cup InBag(list_runnable) \cup InBag(current_intentions)
       \cup InBag(todo) \cup list_condamned \cup sleeping \subseteq list_intentions
  /\ running # None => running \in list_intentions
  /\ \A i, j \in Intention : Before(list_pairs, i, j) => {i, j} \subseteq list_intentions

\* The critical section belongs to a live intention, which is then the only one
\* current, and only its owner is marked: find_current_intentions keeps the
\* current intentions for as long as the section lasts.
SectionOwner ==
  /\ critical_section \in Intention =>
       /\ critical_section \in list_intentions
       /\ current_intentions = BagOf({critical_section})
  /\ critical_section = None => marked = {}
  /\ marked \subseteq {critical_section}

\* What makes the invariants above inductive when the lists are a "tree".  The
\* pairs are then a forest of live intentions, whose deletion doubles no pair.
GraphInv ==
  /\ PartialOrder
  /\ Forest(list_pairs)
  /\ \A i, j \in Intention : Before(list_pairs, i, j) => {i, j} \subseteq list_intentions
  /\ RootsAreUnblocked

SchedInv == RunnableAreActiveRoots /\ SleepersAgree /\ SuspendedHaveNoThread

\* activate's lists hold live intentions, once, and are empty outside of it.
LoopInv ==
  /\ InBag(current_intentions) \cup InBag(todo) \cup list_condamned \subseteq list_intentions
  /\ \A i \in Intention : current_intentions[i] <= 1
  /\ running # None => running \in list_intentions
  /\ phase # "run" => running = None /\ todo = EmptyBag
  /\ phase \notin {"run", "reap"} => list_condamned = {}

\* In its critical section only the owner executes or is to be executed.
SectionInv ==
  /\ SectionOwner
  /\ critical_section \in Intention =>
       running \in {None, critical_section} /\ InBag(todo) \subseteq {critical_section}

\* The lists, the statuses, activate's loop and the critical section agree after
\* every step: no operation is given a state that the others did not expect.
IInv == TypeOK /\ GraphInv /\ SchedInv /\ LoopInv /\ SectionInv

\* While an intention keeps the critical section no other starts to execute.
SectionIsExclusive ==
  [][\A i \in Intention :
       critical_section = i /\ critical_section' = i /\ running' # running
         => running' \in {None, i}]_vars

\* An intention that a turn executes alone, outside of a critical section, starts
\* only if no other one precedes it (with PAR_EXEC those that executed before it
\* in the turn may have put one there).
OnlyRootsExecute ==
  [][\A i, j \in Intention :
       critical_section = None /\ current_intentions = BagOf({i})
         /\ running' # running /\ running' = i
         => ~Before(list_pairs, j, i)]_vars

\* Only intentions of the graph are executed, never one already deleted.
OnlyTasksExecute == running # None => running \in list_intentions

\* A precedence, direct or through others, is only ever added: nothing that is
\* inserted, deleted or killed lets b overtake a while both are there.
PrecedenceKept ==
  [][\A a, b \in list_intentions \cap list_intentions' :
       Precedes(list_pairs, a, b) => Precedes(list_pairs', a, b)]_vars

\* The graph implements a partial order of tasks: deleting an intention from
\* between others reconnects exactly what it ordered, and nothing else
\* reorders the tasks.
Order ==
  INSTANCE TaskOrder WITH
    Task  <- Intention,
    tasks <- list_intentions,
    order <- {e \in Intention \X Intention : Precedes(list_pairs, e[1], e[2])}

\* See Order: every insertion and deletion is a step of TaskOrder, every other
\* action a stutter.
ImplementsTaskOrder == Order!Spec

\* A killed or finished intention is deleted at the end of activate.
CondemnedAreDeleted ==
  \A i \in Intention : i \in list_condamned ~> i \notin list_condamned

\* With PAR_EXEC a runnable intention executes, unless it stops being runnable:
\* no intention starves, provided procedures do not go on starting critical
\* sections, each of which cuts activate's loop short.
RunnableExecutes ==
  <>[][critical_section' = None /\ ~BeginCriticalSectionAtTop]_vars =>
    \A i \in Intention : list_runnable[i] > 0 ~> (running = i \/ list_runnable[i] = 0)

\* A critical section that has lost its intention does not block the kernel.
LostSectionEnds ==
  (critical_section # None /\ current_intentions = EmptyBag) ~> critical_section = None

=============================================================================
