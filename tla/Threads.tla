------------------------------- MODULE Threads -------------------------------
(***************************************************************************)
(* The thread intention blocks (tibs) of one intention, from activate.c.   *)
(* A thread executes a procedure (op) and its father the goal the          *)
(* procedure is for; brothers are the threads a procedure has split into.  *)
(* Only threads without sons execute, but a procedure that ends hands the  *)
(* turn to its father.  While a thread's sons work on a preserved or       *)
(* maintained goal, a condition watches it: when it fails, the sons are    *)
(* removed (preserve), or the thread and all below it are suspended behind *)
(* a new thread, which restores the condition (maintain).                  *)
(*                                                                         *)
(* execute_top_thread, analyze_node_and_execute_intention_body,            *)
(* satisfied_thread and failed_thread call each other; here each call is a *)
(* step, of the thread "current".  Which procedures apply to a goal, and   *)
(* what a procedure does next, is free.                                    *)
(***************************************************************************)
EXTENDS Naturals, FiniteSets

CONSTANTS
  Tib,        \* thread intention blocks there is memory for
  Top,        \* stands for the intention, father of its first threads
  None,       \* no thread
  Dangling,   \* a thread that has been freed
  ParPost,    \* run_option[PAR_POST]: all the active threads execute in a turn
  Risks       \* what procedures may do that the code warns of or mishandles

ASSUME TibAssumption == {Top, None, Dangling} \cap Tib = {}
ASSUME OptionAssumption == ParPost \in BOOLEAN
\* To wait in an action below a maintained goal, to split in a critical
\* section, to start one as the way to restore a maintained condition.
ASSUME RiskAssumption == Risks \subseteq {"wait", "split", "restore"}

VARIABLES
  in,         \* the intention, the fields of its tibs and the critical section
  phase,      \* what the kernel is doing
  todo,       \* execute_active_thread_list: threads still to execute this turn
  current,    \* current_tib
  applicable  \* the soak: threads for whose goal a procedure was found

vars == <<in, phase, todo, current, applicable>>

Status ==
  {"free", "ACTIVE", "SLEEPING", "JOINING", "ACTION_WAIT", "SUSP_ACTIVE", "SUSP_SLEEPING"}
\* The procedure of a thread: a body, an action, or that of a goal that waits
\* or that the database satisfies.
Op == {"body", "action", "waiting", "in db"}
\* The goal of an edge (or of an action); an "open" one is in no queue.
GoalState == {"none", "open", "posted", "achieved", "failed"}
Maintain == {"none", "preserve", "maintain"}
Phase == {"soak", "intend", "choose", "run", "node", "body", "satisfied", "failed"}

Intention ==
  [status    : [Tib -> Status],
   pere      : [Tib -> Tib \cup {Top}],
   fils      : [Tib \cup {Top} -> SUBSET Tib],
   suspended : [Tib -> Tib \cup {None}],
   op        : [Tib -> Op],
   goal      : [Tib -> GoalState],
   broken    : SUBSET Tib,                    \* goal->echoue = ACT_MAINT_FAILURE
   maintain  : [Tib -> Maintain],
   watched   : SUBSET Tib,                    \* has a maintain_condition
   waits     : SUBSET Tib,                    \* has an activation_condition
   active    : [Tib -> Nat],                  \* active_tibs, a list
   asleep    : BOOLEAN,                       \* suspended without active thread
   section   : Tib \cup {None, Dangling},     \* critical_section of the intention
   opened    : Tib \cup {None, Dangling}]     \* Oprs.critical_section

\* Lists hold threads, and each field what it is declared for.
TypeOK ==
  /\ in \in Intention
  /\ phase \in Phase /\ todo \in [Tib -> Nat]
  /\ current \in Tib \cup {None} /\ applicable \in SUBSET Tib

\* An intention of one thread, with the procedure of a fact.
make_intention(t, op, opened) ==
  [status    |-> [u \in Tib |-> IF u = t THEN "ACTIVE" ELSE "free"],
   pere      |-> [u \in Tib |-> Top],
   fils      |-> [f \in Tib \cup {Top} |-> IF f = Top THEN {t} ELSE {}],
   suspended |-> [u \in Tib |-> None],
   op        |-> [u \in Tib |-> IF u = t THEN op ELSE "body"],
   goal      |-> [u \in Tib |-> "none"],
   broken    |-> {}, watched |-> {}, waits |-> {},
   maintain  |-> [u \in Tib |-> "none"],
   active    |-> [u \in Tib |-> IF u = t THEN 1 ELSE 0],
   asleep    |-> FALSE, section |-> None, opened |-> opened]

Nobody == [t \in Tib |-> 0]

Init ==
  /\ \E t \in Tib, op \in {"body", "action"} : in = make_intention(t, op, None)
  /\ phase = "soak" /\ todo = Nobody /\ current = None /\ applicable = {}

-----------------------------------------------------------------------------
(* What the functions of activate.c and intention.c do to an intention i *)

Free(i) == {t \in Tib : i.status[t] = "free"}
Live(i) == Tib \ Free(i)

add_in_active_tib(i, t) == [i EXCEPT !.active[t] = @ + 1]

\* sl_delete_slist_node removes one occurrence.
Removed(n) == IF n = 0 THEN 0 ELSE n - 1
remove_from_active_tib(i, t) == [i EXCEPT !.active[t] = Removed(@)]

check_last_active_tib(i) == [i EXCEPT !.asleep = @ \/ i.active = Nobody]

continue_intention(i) == [i EXCEPT !.asleep = FALSE]

desinstall_maintain(i, t) ==
  IF t \in i.watched THEN [i EXCEPT !.watched = @ \ {t}, !.maintain[t] = "none"] ELSE i

end_critical_section(i) == [i EXCEPT !.section = None, !.opened = None]

\* The procedure of t ends: its critical section ends, or goes to its father.
propagate_critical_section(i, t) ==
  IF i.section = None THEN i
  ELSE IF i.opened = t THEN end_critical_section(i)
  ELSE [i EXCEPT !.section = i.pere[t]]

\* The least set that holds S and what follows from it by next.
Closure(S, next) ==
  {t \in Tib : \A C \in SUBSET Tib : S \subseteq C /\ (\A u \in C : next[u] \subseteq C) => t \in C}

Below(i, S) == Closure(S, i.fils)

\* Mutant: what is suspended behind a thread is forgotten.
SonsOnly(i, S) == Below(i, S)

\* Removing a thread removes its sons and the threads suspended behind it.
RemovedWith(i, S) ==
  Closure(S, [t \in Tib |-> i.fils[t] \cup ({i.suspended[t]} \ {None})])

\* free_thread_intention_block, of each thread of gone.
FreeThreads(i, gone) ==
  LET kept(f, default) == [t \in Tib |-> IF t \in gone THEN default ELSE f[t]]
  IN  [i EXCEPT
        !.status = kept(@, "free"), !.pere = kept(@, Top), !.suspended = kept(@, None),
        !.fils = [f \in Tib \cup {Top} |-> IF f \in gone THEN {} ELSE @[f]],
        !.op = kept(@, "body"), !.goal = kept(@, "none"), !.maintain = kept(@, "none"),
        !.broken = @ \ gone, !.watched = @ \ gone, !.waits = @ \ gone,
        !.section = IF @ \in gone THEN Dangling ELSE @,
        !.opened = IF @ \in gone THEN Dangling ELSE @]

\* Mutant: nobody looks at the section.
SectionIgnored(i, gone) == i

\* A section ends with who opened it, or else is unmarked with its thread; once
\* it has been unmarked, nobody looks at who opened it any more.
SectionWithout(i, gone) ==
  IF i.section # None /\ i.opened \in gone THEN end_critical_section(i)
  ELSE IF i.section \in gone THEN [i EXCEPT !.section = None]
  ELSE i

Unlisted(i, gone) ==
  [i EXCEPT
    !.fils = [f \in Tib \cup {Top} |-> {t \in @[f] : ~(t \in gone /\ i.pere[t] = f)}],
    !.active = [t \in Tib |-> IF t \in gone THEN Removed(@[t]) ELSE @[t]]]

\* remove_and_free_tib, of each thread of S.
remove_and_free_tib_list(i, S) ==
  LET gone == RemovedWith(i, S)
  IN  FreeThreads(Unlisted(SectionWithout(i, gone), gone), gone)

\* Mutant: only the thread itself, not its sons.
SuspendAlone(i, t) ==
  [i EXCEPT !.status[t] = "SUSP_ACTIVE", !.active[t] = Removed(@)]

suspend_tib(i, t) ==
  LET hit == Below(i, {t})
  IN  [i EXCEPT
        !.status = [u \in Tib |->
          IF u \notin hit THEN @[u]
          ELSE CASE @[u] = "ACTIVE" -> "SUSP_ACTIVE"
                 [] @[u] = "SLEEPING" -> "SUSP_SLEEPING"
                 [] OTHER -> @[u]],
        !.active = [u \in Tib |-> IF u \in hit THEN Removed(@[u]) ELSE @[u]]]

\* Threads that wait for their sons only become active, the others resume.
continue_tib(i, t) ==
  LET hit == Below(i, {t})
      resumes == {u \in hit : i.fils[u] = {} /\ i.status[u] = "SUSP_ACTIVE"}
  IN  [i EXCEPT
        !.status = [u \in Tib |->
          CASE u \in resumes \/ (u \in hit /\ i.fils[u] # {}) -> "ACTIVE"
            [] u \in hit /\ i.fils[u] = {} /\ @[u] = "SUSP_SLEEPING" -> "SLEEPING"
            [] OTHER -> @[u]],
        !.active = [u \in Tib |-> IF u \in resumes THEN @[u] + 1 ELSE @[u]]]

\* sl_replace_slist_node, in the list of brothers.
Replace(i, old, new) ==
  [i EXCEPT !.fils[i.pere[old]] = (@ \ {old}) \cup {new}]

\* The new son n of t works on its goal, which is then perhaps watched.
intend_op_in_thread_intention_block(i, t, n, op, maintain) ==
  remove_from_active_tib(
    add_in_active_tib(
      [i EXCEPT
        !.status[n] = "ACTIVE", !.pere[n] = t, !.fils[t] = {n}, !.op[n] = op,
        !.section = IF @ = t THEN n ELSE @,
        !.maintain[t] = IF maintain = "none" THEN @ ELSE maintain,
        !.watched = IF maintain = "none" THEN @ ELSE @ \cup {t}], n), t)

-----------------------------------------------------------------------------
(* Between two executions *)

Idle == phase \in {"soak", "intend"}

MakeIntention ==
  /\ phase = "soak" /\ in.fils[Top] = {}
  /\ \E t \in Tib, op \in {"body", "action"} : in' = make_intention(t, op, in.opened)
  /\ UNCHANGED <<phase, todo, current, applicable>>

\* kill-intention and the like, from another intention.
delete_intention ==
  /\ phase = "soak" /\ in.fils[Top] # {}
  /\ in' = remove_and_free_tib_list(in, in.fils[Top])
  /\ UNCHANGED <<phase, todo, current, applicable>>

\* A soaked goal of a thread that was freed since is not intended.
Soaked(i) == applicable \cap Live(i)

\* Mutant: a suspended thread wakes up as if it were not.
WakeAnyThread(i, t) ==
  continue_intention(add_in_active_tib([i EXCEPT !.status[t] = "ACTIVE"], t))

wake_up_thread(i, t) ==
  IF i.status[t] = "SUSP_SLEEPING" THEN [i EXCEPT !.status[t] = "SUSP_ACTIVE"]
  ELSE continue_intention(add_in_active_tib([i EXCEPT !.status[t] = "ACTIVE"], t))

WakeUp(t) ==
  /\ Idle /\ t \in in.waits
  /\ in' = [wake_up_thread(in, t) EXCEPT !.waits = @ \ {t}]
  /\ UNCHANGED <<phase, todo, current, applicable>>

\* A section that loses its thread here goes on with the father.
PreserveFails(t) ==
  LET freed  == remove_and_free_tib_list(in, in.fils[t])
      marked == IF in.section # None /\ freed.section = None /\ freed.opened # None
                THEN [freed EXCEPT !.section = t] ELSE freed
      failed == IF in.fils[t] = {} THEN in
                ELSE IF in.status[t] = "ACTIVE" THEN continue_intention(add_in_active_tib(marked, t))
                ELSE marked
  IN  /\ Idle /\ t \in in.watched /\ in.maintain[t] = "preserve"
      /\ in' = [failed EXCEPT !.watched = @ \ {t}]
      /\ applicable' = Soaked(in')
      /\ UNCHANGED <<phase, todo, current>>

\* n takes the place of t and is to restore the condition.
split_thread_intention_block(i, t, n) ==
  [Replace(i, t, n) EXCEPT
    !.status[n] = i.status[t], !.pere[n] = i.pere[t], !.op[n] = i.op[t],
    !.goal[n] = i.goal[t], !.suspended[n] = t, !.broken = @ \cup {t, n}]

MaintainFails(t) ==
  /\ Idle /\ t \in in.watched /\ in.maintain[t] = "maintain"
  /\ \E n \in Free(in) :
       LET split  == split_thread_intention_block(in, t, n)
           unlock == IF in.section # None THEN end_critical_section(split) ELSE split
           failed == IF in.status[t] = "ACTIVE"
                     THEN continue_intention(add_in_active_tib(suspend_tib(unlock, t), n))
                     ELSE split
       IN  in' = [failed EXCEPT !.watched = @ \ {t}]
  /\ UNCHANGED <<phase, todo, current, applicable>>

\* The goals of active threads are tried, the others dropped.  A goal that no
\* procedure is found for has failed.
find_soak_goal ==
  /\ phase = "soak" /\ phase' = "intend"
  /\ LET posted == {t \in Tib : in.goal[t] = "posted"}
         tried  == {t \in posted : in.status[t] = "ACTIVE"}
     IN  \E found \in SUBSET tried :
           /\ Cardinality(found) <= Cardinality(Free(in))
           /\ applicable' = found
           /\ in' = [in EXCEPT !.goal = [t \in Tib |->
                      IF t \in tried \ found THEN "failed"
                      ELSE IF t \in posted THEN "open" ELSE @[t]]]
  /\ UNCHANGED <<todo, current>>

\* Mutant: the thread may have been suspended since its goal was soaked.
IntendAnyway(t) ==
  /\ phase = "intend" /\ t \in applicable
  /\ in.fils[t] = {}
  /\ \E n \in Free(in), op \in Op, maintain \in Maintain :
       in' = intend_op_in_thread_intention_block(in, t, n, op, maintain)
  /\ applicable' = applicable \ {t}
  /\ UNCHANGED <<phase, todo, current>>

Intend(t) ==
  /\ phase = "intend" /\ t \in applicable
  /\ in.status[t] = "ACTIVE" /\ in.fils[t] = {}
  /\ \E n \in Free(in), op \in Op, maintain \in Maintain :
       in' = intend_op_in_thread_intention_block(in, t, n, op, maintain)
  /\ applicable' = applicable \ {t}
  /\ UNCHANGED <<phase, todo, current>>

\* In its critical section only one thread executes.
execute_intention ==
  /\ phase = "intend" /\ phase' = "choose"
  /\ applicable' = {}
  /\ todo' = IF in.section # None THEN [t \in Tib |-> IF t = in.section THEN 1 ELSE 0]
             ELSE IF in.asleep THEN Nobody ELSE in.active
  /\ UNCHANGED <<in, current>>

-----------------------------------------------------------------------------
(* The turn of a thread: t is current_tib *)

\* A thread that has gone since the list was made ends the turn.
Choose(t) ==
  /\ phase = "choose" /\ todo[t] > 0
  /\ \/ /\ in.active[t] = 0
        /\ todo' = Nobody
        /\ UNCHANGED <<phase, current>>
     \/ /\ in.active[t] > 0
        /\ todo' = [todo EXCEPT ![t] = @ - 1]
        /\ current' = t /\ phase' = "run"
  /\ UNCHANGED <<in, applicable>>

EndTurn ==
  /\ phase = "choose" /\ todo = Nobody
  /\ phase' = "soak"
  /\ UNCHANGED <<in, todo, current, applicable>>

\* The results of execute_top_thread.
Executed(i) ==
  /\ in' = i /\ phase' = "choose" /\ current' = None
  /\ todo' = IF ~ParPost \/ i.section # None THEN Nobody ELSE todo
  /\ UNCHANGED applicable

Waits(i) ==
  /\ in' = i /\ phase' = "choose" /\ current' = None
  /\ todo' = IF i.section # None THEN Nobody ELSE todo
  /\ UNCHANGED applicable

Ended(i) ==
  /\ in' = i /\ phase' = "choose" /\ current' = None
  /\ todo' = Nobody
  /\ UNCHANGED applicable

\* The call that comes next in the turn.
Call(i, t, what) ==
  /\ in' = i /\ current' = t /\ phase' = what
  /\ UNCHANGED <<todo, applicable>>

Running(op) == phase = "run" /\ in.op[current] = op

asleep_tib(i, t, status) ==
  check_last_active_tib(
    remove_from_active_tib([i EXCEPT !.status[t] = status, !.waits = @ \cup {t}], t))

\* Called again once the condition has come true, it is satisfied.
execute_intention_goal_waiting ==
  /\ Running("waiting")
  /\ Waits(asleep_tib([in EXCEPT !.op[current] = "in db"], current, "SLEEPING"))

execute_intention_goal_satisfied_in_db ==
  Running("in db") /\ Call(in, current, "satisfied")

MaintainedAbove(t) ==
  \E u \in Live(in) : in.maintain[u] = "maintain" /\ t \in Below(in, {u})

ActionWaits ==
  /\ Running("action") /\ in.goal[current] = "none"
  /\ "wait" \in Risks \/ ~MaintainedAbove(current)
  /\ Waits(asleep_tib(in, current, "ACTION_WAIT"))

\* intend_aop_for_goal: an action has a procedure executed for a goal.
ActionIntends ==
  /\ Running("action") /\ in.goal[current] = "none"
  /\ \E n \in Free(in), op \in Op, maintain \in Maintain :
       Executed(intend_op_in_thread_intention_block(
                  [in EXCEPT !.goal[current] = "open"], current, n, op, maintain))

ActionEnds ==
  /\ Running("action")
  /\ \E what \in {"satisfied", "failed"} :
       /\ in.goal[current] # "none" => (what = "satisfied" <=> in.goal[current] = "achieved")
       /\ Call([in EXCEPT !.goal[current] = "none"], current, what)

\* The procedure of t is to restore a maintained condition.
Restores(t) == \E f \in Live(in) : in.pere[t] = f /\ in.suspended[f] # None

\* Mutant: a section opened without a procedure is that of its father too.
SectionOfFather ==
  /\ Running("action") /\ in.goal[current] = "none" /\ in.opened = None
  /\ ~Restores(current) \/ "restore" \in Risks
  /\ Call([in EXCEPT !.section = current, !.opened = in.pere[current]], current, "satisfied")

begin_critical_section ==
  /\ Running("action") /\ in.goal[current] = "none" /\ in.opened = None
  /\ ~Restores(current) \/ "restore" \in Risks
  /\ Call([in EXCEPT !.section = current,
                     !.opened = IF in.pere[current] = Top THEN None ELSE in.pere[current]],
          current, "satisfied")

action_end_cs ==
  /\ Running("action") /\ in.goal[current] = "none" /\ in.opened # None
  /\ Call(end_critical_section(in), current, "satisfied")

\* execute_intention_body, by the state of its goal.

StartBody ==
  /\ Running("body") /\ in.goal[current] = "none"
  /\ Call(in, current, "body")

\* Without anything suspended there is nothing to restore, and nothing is done.
PostRestoringGoal ==
  /\ Running("body") /\ current \in in.broken
  /\ Executed(IF in.suspended[current] = None THEN in
              ELSE [in EXCEPT !.goal[current] = "posted", !.broken = @ \ {current}])

GoalIs(state) ==
  Running("body") /\ in.goal[current] = state /\ current \notin in.broken

\* The restorer n makes place for the thread it has suspended.
Restored(i, n) == continue_tib(Replace(i, n, i.suspended[n]), i.suspended[n])

RestorerGone(i, n) ==
  LET t == i.suspended[n]
  IN  FreeThreads(remove_from_active_tib([i EXCEPT !.broken = @ \ {t}], n), {n})

restore_suspended_tib ==
  LET t == in.suspended[current]
  IN  /\ GoalIs("achieved") /\ t # None
      /\ Executed(check_last_active_tib(
           RestorerGone([Restored(in, current) EXCEPT !.watched = @ \cup {t}], current)))

restore_and_fail_suspended_tib ==
  LET t == in.suspended[current]
  IN  /\ GoalIs("failed") /\ t # None
      /\ Executed(RestorerGone(Restored(remove_and_free_tib_list(in, in.fils[t]), current), current))

GoalOver == [desinstall_maintain(in, current) EXCEPT !.goal[current] = "none"]

\* Another edge is tried, the else node of an if follows, or the procedure fails.
GoalFailed ==
  /\ GoalIs("failed") /\ in.suspended[current] = None
  /\ \/ Call(GoalOver, current, "node")
     \/ \E state \in {"posted", "achieved"} : Executed([GoalOver EXCEPT !.goal[current] = state])
     \/ Call(GoalOver, current, "failed")

GoalAchieved ==
  /\ GoalIs("achieved") /\ in.suspended[current] = None
  /\ Call(GoalOver, current, "node")

\* All procedures for it have failed, or none was intended: it is tried again.
GoalOpen ==
  /\ GoalIs("open") \/ GoalIs("posted")
  /\ Executed([desinstall_maintain(in, current) EXCEPT !.goal[current] = "posted"])

-----------------------------------------------------------------------------
(* analyze_node_and_execute_intention_body *)

Brothers(t) == in.fils[in.pere[t]] \ {t}
Joining == {u \in Brothers(current) : in.status[u] = "JOINING"}

\* No node (a goal intention), or one that is no join.
PlainNode ==
  /\ phase = "node"
  /\ \E what \in {"satisfied", "body"} : Call(in, current, what)

\* A join of two: the first waits, in no critical section.
Join ==
  /\ phase = "node" /\ Cardinality(Joining) # 1
  /\ LET out == IF in.section = current THEN end_critical_section(in) ELSE in
     IN  Waits(check_last_active_tib(
           remove_from_active_tib([out EXCEPT !.status[current] = "JOINING"], current)))

LastJoin ==
  /\ phase = "node" /\ Cardinality(Joining) = 1
  /\ Call(remove_and_free_tib_list(in, Joining), current, "body")

\* execute_intention_body, at a node.

NoEdge == phase = "body" /\ Call(in, current, "satisfied")

\* A goal that concludes or retracts is achieved at once.
PostFirst ==
  /\ phase = "body"
  /\ \/ Executed([in EXCEPT !.goal[current] = "posted"])
     \/ Call([in EXCEPT !.goal[current] = "achieved"], current, "run")

\* Splits in two; with PAR_POST the brother's goal is posted as well.
make_new_threads_and_post_goals ==
  /\ phase = "body"
  /\ "split" \in Risks \/ in.section = None
  /\ \E n \in Free(in), first \in {"posted", "achieved"},
        second \in (IF ParPost THEN {"posted", "achieved"} ELSE {"open"}) :
       Executed(add_in_active_tib(
         [in EXCEPT
           !.status[n] = "ACTIVE", !.pere[n] = in.pere[current], !.op[n] = "body",
           !.fils[in.pere[current]] = @ \cup {n},
           !.goal = [@ EXCEPT ![current] = first, ![n] = second]], n))

-----------------------------------------------------------------------------
(* satisfied_thread, failed_thread *)

\* The procedure of t is over and its father is to go on.
GiveBack(i, t) == propagate_critical_section(add_in_active_tib(i, i.pere[t]), t)

Last == Brothers(current) = {}

\* The last thread achieves the goal; after effects were posted the father
\* waits until its next turn.
SatisfiedLast ==
  LET f == in.pere[current]
      done == [in EXCEPT !.goal[f] = "achieved"]
  IN  /\ phase = "satisfied" /\ current \notin in.waits /\ Last
      /\ \/ /\ f # Top
            /\ LET left == remove_and_free_tib_list(GiveBack(done, current), {current})
               IN  Executed(left) \/ Call(left, f, "run")
         \/ f = Top /\ Ended(remove_and_free_tib_list(in, {current}))

SatisfiedNotLast ==
  /\ phase = "satisfied" /\ current \notin in.waits /\ ~Last
  /\ Executed(remove_and_free_tib_list(in, {current}))

failed_thread ==
  LET f == in.pere[current]
  IN  /\ phase = "failed"
      /\ \/ /\ f # Top
            /\ Call(remove_and_free_tib_list(GiveBack(in, current), in.fils[f]), f, "run")
         \/ f = Top /\ Ended(remove_and_free_tib_list(in, in.fils[f]))

-----------------------------------------------------------------------------

Soak ==
  \/ MakeIntention \/ delete_intention
  \/ \E t \in Tib : WakeUp(t) \/ PreserveFails(t) \/ MaintainFails(t) \/ Intend(t)
  \/ find_soak_goal \/ execute_intention

execute_intention_action ==
  ActionWaits \/ ActionIntends \/ ActionEnds \/ begin_critical_section \/ action_end_cs

execute_intention_body ==
  \/ StartBody \/ PostRestoringGoal
  \/ restore_suspended_tib \/ restore_and_fail_suspended_tib
  \/ GoalFailed \/ GoalAchieved \/ GoalOpen
  \/ NoEdge \/ PostFirst \/ make_new_threads_and_post_goals

Execute ==
  \/ \E t \in Tib : Choose(t)
  \/ execute_intention_goal_waiting \/ execute_intention_goal_satisfied_in_db
  \/ execute_intention_action \/ execute_intention_body
  \/ PlainNode \/ Join \/ LastJoin
  \/ SatisfiedLast \/ SatisfiedNotLast \/ failed_thread
  \/ EndTurn

Next == Soak \/ Execute

Spec == Init /\ [][Next]_vars

-----------------------------------------------------------------------------
(* Properties *)

\* Through splits, suspensions, restorations and removals, each thread is in the
\* list of sons of its father or suspended behind one thread that is, never in
\* two places, and nothing is lost under a father that has gone.
ThreadTree ==
  LET behind(t) == {n \in Live(in) : in.suspended[n] = t}
  IN  /\ \A f \in Tib \cup {Top} : \A t \in in.fils[f] :
           t \in Live(in) /\ in.pere[t] = f /\ f \notin Free(in)
      /\ \A t \in Live(in) :
           IF t \in in.fils[in.pere[t]] THEN behind(t) = {}
           ELSE \E n \in Live(in) : behind(t) = {n} /\ in.pere[n] = in.pere[t]
      /\ RemovedWith(in, in.fils[Top]) = Live(in)

\* active_tibs, edited by hand wherever threads come, go, sleep or are
\* suspended, holds the active threads without sons, once each; those that
\* sleep, suspended or not, and no others, have a condition to wake them.
ActiveOrAwaited ==
  \A t \in Tib :
    /\ in.active[t] = IF in.status[t] = "ACTIVE" /\ in.fils[t] = {} THEN 1 ELSE 0
    /\ t \in in.waits <=> in.status[t] \in {"SLEEPING", "SUSP_SLEEPING", "ACTION_WAIT"}

\* "the execution thread in which this goal appears is stopped"
\* (oprs-kernel.tex:2024-2025): nothing below a failed maintained condition executes.
OnlyActiveExecute ==
  phase = "run" =>
    /\ in.status[current] = "ACTIVE"
    /\ \A n \in Live(in) :
         in.suspended[n] # None => current \notin Below(in, {in.suspended[n]})

\* A thread is suspended only as long as a thread is there to restore the
\* condition, and resumes with it: nobody stays suspended for ever behind nobody.
SuspendedAreRestorable ==
  LET stopped == Below(in, {in.suspended[n] : n \in Live(in)} \ {None})
  IN  \A t \in Live(in) :
        /\ in.status[t] \in {"SUSP_ACTIVE", "SUSP_SLEEPING"} <=>
             t \in stopped /\ in.status[t] # "JOINING"
        /\ t \in in.broken => t \in stopped \/ in.suspended[t] # None

\* The critical section of the kernel is that of a live thread which alone can
\* execute, below the one whose procedure opened it.
SectionThread ==
  /\ in.section # None =>
       /\ in.section \in Live(in) /\ in.fils[in.section] = {}
       /\ in.status[in.section] \in {"ACTIVE", "SLEEPING", "ACTION_WAIT"}
  /\ in.opened # None =>
       /\ in.opened \in Live(in) /\ in.section # None
       /\ in.section \in Below(in, {in.opened})

=============================================================================
