----------------------------- MODULE KernelLoop -----------------------------
(***************************************************************************)
(* The main loop of an OPRS kernel (top-lev-loop.c, gtop-lev-loop.c) and   *)
(* the queues of the events it reacts to (oprs.c): one turn reads the      *)
(* input, shifts the queues, finds the procedures the new events make      *)
(* applicable (the soak), lets meta procedures react to that soak, intends *)
(* what is left of it and executes one step of the current intentions.     *)
(*                                                                         *)
(* An event is a source and its rank in that source.  The senders of       *)
(* messages, the OPRS server and the threads of the kernel post facts;     *)
(* "goal" is the threads' goals, "meta" the facts the meta level posts     *)
(* about the soak.  Which events make a procedure applicable or wake a     *)
(* thread is free.  Intentions are counted: active or asleep; the          *)
(* intention graph itself is module IntentionGraph.                        *)
(***************************************************************************)
EXTENDS Naturals, Sequences, FiniteSets

CONSTANTS
  Sender,         \* agents that send messages
  Loops,          \* loops to consider: "client" (oprs), "graphical" (goprs)
  Levels,         \* values of meta_option[META_LEVEL] to consider
  ParIntend,      \* run_option[PAR_INTEND]: intend the whole soak
  ParExec,        \* run_option[PAR_EXEC]: execute all the active intentions
  MaxSent,        \* bound: events accepted from each source
  MaxIntentions,  \* bound: no procedure applicable with more intentions
  MetaDepth       \* bound: meta procedures that react to meta procedures

ASSUME SenderAssumption == Sender \cap {"server", "thread", "goal", "meta"} = {}
ASSUME LoopAssumption ==
  Loops \subseteq {"client", "graphical"} /\ Levels \subseteq BOOLEAN
ASSUME OptionAssumption == ParIntend \in BOOLEAN /\ ParExec \in BOOLEAN
ASSUME BoundAssumption ==
  /\ MaxSent \in [Sender \cup {"server", "thread", "goal"} -> Nat]
  /\ MaxIntentions \in Nat /\ MetaDepth \in Nat

VARIABLES
  loop,            \* which of the two main loops runs
  meta_level,      \* meta_option[META_LEVEL], with its three facts on
  sent,            \* events accepted from each source
  new_facts,       \* facts posted since the last shift
  facts,           \* facts of this turn, still to be considered
  locked_messages, \* messages received in a critical section
  new_goals,       \* goals posted since the last shift
  goals,           \* goals of this turn, still to be considered
  held,            \* history: the messages that went through locked_messages
  soak,            \* procedures applicable to the events of this turn
  previous_soak,   \* those of the turn before, if nobody intended them yet
  posted_meta_fact, \* find_soak posted a fact about the soak
  depth,           \* history: rounds since the input was read
  active,          \* intentions with an active thread
  asleep,          \* intentions without
  section,         \* critical section: "none", or what became of its thread
  run_mode,        \* oprs_run_mode
  phase,           \* where the loop is
  todo             \* intentions activate has still to execute

modeVars  == <<loop, meta_level>>
factVars  == <<new_facts, facts, locked_messages, held>>
goalVars  == <<new_goals, goals>>
eventVars == <<sent, factVars, goalVars>>
soakVars  == <<soak, previous_soak, posted_meta_fact, depth>>
execVars  == <<active, asleep, section>>
vars == <<modeVars, eventVars, soakVars, execVars, run_mode, phase, todo>>

Source == Sender \cup {"server", "thread", "goal"}
Event == [from : Source \cup {"meta"}, n : Nat]
Meta == [from |-> "meta", n |-> 0]
Section == {"none", "active", "asleep", "awaits message", "lost"}
RunMode == {"RUN", "STEP", "STEP_NEXT", "HALT"}
Phase == {"stdin", "shift", "facts", "goals", "decide", "activate", "execute", "select", "end"}

\* Queues hold events, counters stay in their bounds, lists of procedures are
\* known by the event that made them applicable.
TypeOK ==
  /\ loop \in {"client", "graphical"} /\ meta_level \in BOOLEAN
  /\ sent \in [Source -> Nat]
  /\ new_facts \in Seq(Event) /\ facts \in Seq(Event) /\ locked_messages \in Seq(Event)
  /\ new_goals \in Seq(Event) /\ goals \in Seq(Event)
  /\ held \in SUBSET Event
  /\ soak \in SUBSET Event /\ previous_soak \in SUBSET Event
  /\ posted_meta_fact \in BOOLEAN /\ depth \in Nat
  /\ active \in Nat /\ asleep \in Nat /\ section \in Section
  /\ run_mode \in RunMode /\ phase \in Phase /\ todo \in Nat

Init ==
  /\ loop \in Loops /\ meta_level \in Levels
  /\ sent = [s \in Source |-> 0]
  /\ new_facts = <<>> /\ facts = <<>> /\ locked_messages = <<>>
  /\ new_goals = <<>> /\ goals = <<>> /\ held = {}
  /\ soak = {} /\ previous_soak = {} /\ posted_meta_fact = FALSE /\ depth = 0
  /\ active = 0 /\ asleep = 0 /\ section = "none"
  /\ run_mode = "RUN" /\ phase = "stdin" /\ todo = 0

-----------------------------------------------------------------------------
(* oprs.c: the queues *)

NextEvent(s) == [from |-> s, n |-> sent[s] + 1]

\* The bound on what a source sends.
Accepted(s) == sent[s] < MaxSent[s] /\ sent' = [sent EXCEPT ![s] = @ + 1]

\* Mutant: a message goes to the facts whatever section is on.
MessageGoesIn(s) ==
  /\ Accepted(s)
  /\ new_facts' = Append(new_facts, NextEvent(s))
  /\ UNCHANGED <<facts, locked_messages, held, goalVars>>

get_message(s) ==
  /\ Accepted(s)
  /\ \/ /\ section # "none"
        /\ locked_messages' = Append(locked_messages, NextEvent(s))
        /\ held' = held \cup {NextEvent(s)}
        /\ UNCHANGED new_facts
     \/ /\ section = "none"
        /\ new_facts' = Append(new_facts, NextEvent(s))
        /\ UNCHANGED <<locked_messages, held>>
  /\ UNCHANGED <<facts, goalVars>>

add_fact(s) ==
  /\ Accepted(s)
  /\ new_facts' = Append(new_facts, NextEvent(s))
  /\ UNCHANGED <<facts, locked_messages, held, goalVars>>

\* A goal of a thread.  The ones that conclude or retract are done at once.
add_goal ==
  /\ Accepted("goal")
  /\ new_goals' = Append(new_goals, NextEvent("goal"))
  /\ UNCHANGED <<factVars, goals>>

\* Mutant: what the section held is taken over whether it is over or not.
ShiftIgnoringSection ==
  /\ facts' = new_facts \o locked_messages
  /\ locked_messages' = <<>>
  /\ new_facts' = <<>>
  /\ goals' = new_goals /\ new_goals' = <<>>
  /\ UNCHANGED <<sent, held>>

\* Mutant: the goals of a turn are shifted in again at the next.
ShiftKeepsGoals ==
  /\ \/ section = "none" /\ facts' = new_facts \o locked_messages /\ locked_messages' = <<>>
     \/ section # "none" /\ facts' = new_facts /\ UNCHANGED locked_messages
  /\ new_facts' = <<>>
  /\ goals' = new_goals
  /\ UNCHANGED <<sent, held, new_goals>>

\* Mutant: the messages held back are only taken over with the next one's lists.
ShiftForgetsHeld ==
  /\ facts' = new_facts /\ new_facts' = <<>>
  /\ goals' = new_goals /\ new_goals' = <<>>
  /\ UNCHANGED <<sent, held, locked_messages>>

\* The old lists are freed; messages held by a section that is over come last.
shift_facts_goals ==
  /\ \/ /\ section = "none"
        /\ facts' = new_facts \o locked_messages
        /\ locked_messages' = <<>>
     \/ /\ section # "none"
        /\ facts' = new_facts
        /\ UNCHANGED locked_messages
  /\ new_facts' = <<>>
  /\ goals' = new_goals /\ new_goals' = <<>>
  /\ UNCHANGED <<sent, held>>

-----------------------------------------------------------------------------
(* top-lev.c: the input *)

\* The graphical loop reads no input between a soak and the meta procedures'
\* answer to it, if a fact about the soak was posted.
ChecksStdin == loop = "client" \/ ~meta_level \/ ~posted_meta_fact

ReadMessage(s) ==
  /\ phase = "stdin" /\ ChecksStdin
  /\ get_message(s)
  /\ UNCHANGED <<modeVars, soakVars, execVars, run_mode, phase, todo>>

\* The add command: of the OPRS server, or of a dialog of the graphical kernel.
ServerAdds ==
  /\ phase = "stdin" /\ (ChecksStdin \/ loop = "graphical")
  /\ add_fact("server")
  /\ UNCHANGED <<modeVars, soakVars, execVars, run_mode, phase, todo>>

\* run, step, next, halt: from the server or from a menu of the graphical kernel.
set_oprs_run_mode(mode) ==
  /\ phase = "stdin" /\ (ChecksStdin \/ loop = "graphical")
  /\ mode # run_mode /\ run_mode' = mode
  /\ UNCHANGED <<modeVars, eventVars, soakVars, execVars, phase, todo>>

\* Two shifts, of which the second frees what the first moved; then the
\* intentions go, and the section with the thread that holds it.
reset_oprs_kernel ==
  /\ phase = "stdin" /\ (ChecksStdin \/ loop = "graphical")
  /\ facts' = <<>> /\ new_facts' = <<>> /\ goals' = <<>> /\ new_goals' = <<>>
  /\ locked_messages' = IF section = "none" THEN <<>> ELSE locked_messages
  /\ active' = 0 /\ asleep' = 0
  /\ section' = IF section = "lost" THEN "lost" ELSE "none"
  /\ previous_soak' = {}
  /\ UNCHANGED <<modeVars, sent, held, soak, posted_meta_fact, depth, run_mode, phase, todo>>

StartTurn ==
  /\ phase = "stdin" /\ run_mode # "HALT"
  /\ phase' = "shift" /\ depth' = IF ChecksStdin THEN 0 ELSE depth
  /\ UNCHANGED <<modeVars, eventVars, soak, previous_soak, posted_meta_fact, execVars, run_mode, todo>>

-----------------------------------------------------------------------------
(* soak.c: find_soak *)

Shift ==
  /\ phase = "shift"
  /\ shift_facts_goals
  /\ soak' = {} /\ posted_meta_fact' = FALSE
  /\ phase' = "facts"
  /\ UNCHANGED <<modeVars, previous_soak, depth, execVars, run_mode, todo>>

\* Procedures react to an event.  Those that react to the meta level's facts
\* stop doing so after MetaDepth rounds, as the default meta procedures do.
MayApply(e) ==
  /\ active + asleep < MaxIntentions
  /\ e.from = "meta" => depth < MetaDepth

\* A message can be what the thread in the critical section waits for.
find_soak_fact ==
  LET fact == Head(facts)
      awaited == section = "awaits message" /\ fact.from \in Sender
  IN  /\ phase = "facts" /\ facts # <<>>
      /\ facts' = Tail(facts)
      /\ \/ soak' = soak
         \/ MayApply(fact) /\ soak' = soak \cup {fact}
      /\ section' = IF awaited THEN "active" ELSE section
      /\ active' = IF awaited THEN active + 1 ELSE active
      /\ asleep' = IF awaited THEN asleep - 1 ELSE asleep
      /\ UNCHANGED <<modeVars, sent, new_facts, locked_messages, held, goalVars,
                     previous_soak, posted_meta_fact, depth, run_mode, phase, todo>>

\* Mutant: a condition wakes a thread that nobody put to sleep.
WakeUpAnybody ==
  /\ phase = "facts" /\ active < MaxIntentions
  /\ active' = active + 1 /\ asleep' = asleep - 1
  /\ UNCHANGED <<modeVars, eventVars, soakVars, section, run_mode, phase, todo>>

\* check_condition_list: a thread wakes, on a fact or because time has passed.
WakeUp ==
  /\ phase = "facts" /\ asleep > 0
  /\ \/ section = "asleep" /\ section' = "active"
     \/ asleep > (IF section \in {"asleep", "awaits message"} THEN 1 ELSE 0) /\ UNCHANGED section
  /\ active' = active + 1 /\ asleep' = asleep - 1
  /\ UNCHANGED <<modeVars, eventVars, soakVars, run_mode, phase, todo>>

\* failed_maintained_tib: a condition that fails breaks the critical section.
MaintainFails ==
  /\ phase = "facts" /\ section \notin {"none", "lost"}
  /\ section' = "none"
  /\ active' = IF section = "active" THEN active ELSE active + 1
  /\ asleep' = IF section = "active" THEN asleep ELSE asleep - 1
  /\ UNCHANGED <<modeVars, eventVars, soakVars, run_mode, phase, todo>>

\* The fact about what was found, which a critical section forbids.
PostMetaFact(found) ==
  LET posted == meta_level /\ found /\ section = "none"
  IN  /\ new_facts' = IF posted THEN Append(new_facts, Meta) ELSE new_facts
      /\ posted_meta_fact' = (posted_meta_fact \/ posted)

EndFacts ==
  /\ phase = "facts" /\ facts = <<>>
  /\ PostMetaFact(soak # {})
  /\ phase' = "goals"
  /\ UNCHANGED <<modeVars, sent, facts, locked_messages, held, goalVars, soak, previous_soak,
                 depth, execVars, run_mode, todo>>

find_soak_goal ==
  /\ phase = "goals" /\ goals # <<>>
  /\ goals' = Tail(goals)
  /\ \/ soak' = soak
     \/ MayApply(Head(goals)) /\ soak' = soak \cup {Head(goals)}
  /\ UNCHANGED <<modeVars, sent, factVars, new_goals, previous_soak, posted_meta_fact, depth,
                 execVars, run_mode, phase, todo>>

EndGoals ==
  /\ phase = "goals" /\ goals = <<>>
  /\ PostMetaFact(\E e \in soak : e.from = "goal")
  /\ phase' = "decide"
  /\ UNCHANGED <<modeVars, sent, facts, locked_messages, held, goalVars, soak, previous_soak,
                 depth, execVars, run_mode, todo>>

-----------------------------------------------------------------------------
(* top-lev-loop.c: the decision *)

\* One more round since the input was read; MetaDepth stands for many.
Deeper == IF depth < MetaDepth THEN depth + 1 ELSE depth

\* Mutant: the loop goes back to its top, input included, after each soak.
MetaReactLater ==
  /\ phase = "decide" /\ meta_level /\ soak # {}
  /\ new_facts' = IF section = "none" THEN Append(new_facts, Meta) ELSE new_facts
  /\ posted_meta_fact' = (IF loop = "graphical" THEN posted_meta_fact \/ section = "none"
                          ELSE posted_meta_fact)
  /\ previous_soak' = soak
  /\ depth' = Deeper
  /\ phase' = "end"
  /\ UNCHANGED <<modeVars, sent, facts, locked_messages, held, goalVars, soak, execVars, run_mode, todo>>

\* There is a soak: meta procedures may react to it, and to their own.  The
\* client loops at once; the graphical kernel comes back at its next turn.
MetaReact ==
  /\ phase = "decide" /\ meta_level /\ soak # {}
  /\ new_facts' = IF section = "none" THEN Append(new_facts, Meta) ELSE new_facts
  /\ posted_meta_fact' = (IF loop = "graphical" THEN posted_meta_fact \/ section = "none"
                          ELSE posted_meta_fact)
  /\ previous_soak' = soak
  /\ depth' = Deeper
  /\ phase' = IF loop = "graphical" THEN "end" ELSE "shift"
  /\ UNCHANGED <<modeVars, sent, facts, locked_messages, held, goalVars, soak, execVars, run_mode, todo>>

\* One procedure of the list, or all of them, become intentions.  With the meta
\* level it is the soak that no meta procedure reacted to.
Intend ==
  LET chosen == IF meta_level THEN previous_soak ELSE soak
  IN  /\ phase = "decide" /\ (meta_level => soak = {})
      /\ \/ chosen = {} /\ UNCHANGED active
         \/ /\ chosen # {}
            /\ active' = active + (IF ParIntend THEN Cardinality(chosen) ELSE 1)
      /\ previous_soak' = IF meta_level THEN {} ELSE previous_soak
      /\ phase' = "activate"
      /\ UNCHANGED <<modeVars, eventVars, soak, posted_meta_fact, depth, asleep, section,
                     run_mode, todo>>

-----------------------------------------------------------------------------
(* activate.c, seen from the loop *)

\* In a section only its thread is executed, even asleep; a section that lost
\* its intention ends here, and this turn executes nothing.
find_current_intentions ==
  /\ phase = "activate"
  /\ todo' = CASE section = "lost" -> 0
               [] section \notin {"none", "lost"} -> 1
               [] section = "none" /\ ParExec -> active
               [] OTHER -> IF active > 0 THEN 1 ELSE 0
  /\ section' = IF section = "lost" THEN "none" ELSE section
  /\ phase' = IF todo' > 0 THEN "execute"
              ELSE IF loop = "graphical" \/ (new_facts = <<>> /\ new_goals = <<>>)
                   THEN "select" ELSE "end"
  /\ UNCHANGED <<modeVars, eventVars, soakVars, active, asleep, run_mode>>

\* A step of a current intention is over: the loop stops in a section.
StepDone == todo' = IF section' = "none" THEN todo - 1 ELSE 0

\* The current intention has an active thread.
Executing == phase = "execute" /\ todo > 0 /\ active > 0 /\ section \in {"none", "active"}

\* A thread posts a fact (conclude, effects) or a goal, or does neither.
ExecuteAndPost ==
  /\ Executing
  /\ \/ add_fact("thread")
     \/ add_goal
     \/ UNCHANGED eventVars
  /\ UNCHANGED <<modeVars, soakVars, execVars, run_mode, phase>>
  /\ StepDone

\* start-critical-section, end-critical-section.
ExecuteSection ==
  /\ Executing
  /\ \/ section = "none" /\ section' = "active"
     \/ section = "active" /\ section' = "none"
  /\ StepDone
  /\ UNCHANGED <<modeVars, eventVars, soakVars, active, asleep, run_mode, phase>>

\* The last active thread waits: for a message of another agent, or for
\* something that can happen here.
ExecuteWait ==
  /\ Executing
  /\ active' = active - 1 /\ asleep' = asleep + 1
  /\ \/ section = "none" /\ UNCHANGED section
     \/ section = "active" /\ section' \in {"asleep", "awaits message"}
  /\ StepDone
  /\ UNCHANGED <<modeVars, eventVars, soakVars, run_mode, phase>>

\* The intention is over, and its section with it unless it went unmarked.
ExecuteLast ==
  /\ Executing
  /\ active' = active - 1
  /\ \/ section = "none" /\ UNCHANGED section
     \/ section = "active" /\ section' \in {"none", "lost"}
  /\ StepDone
  /\ UNCHANGED <<modeVars, eventVars, soakVars, asleep, run_mode, phase>>

\* A traced procedure or goal turns "next" into a halt.
ExecuteTraced ==
  /\ Executing /\ run_mode = "STEP_NEXT"
  /\ run_mode' = "HALT"
  /\ UNCHANGED <<modeVars, eventVars, soakVars, execVars, phase, todo>>

EndActivate ==
  /\ phase = "execute" /\ ~Executing
  /\ phase' = "end" /\ todo' = 0
  /\ UNCHANGED <<modeVars, eventVars, soakVars, execVars, run_mode>>

\* let_the_good_time_roll: something to read, or main_loop_pool has passed.
EndSelect ==
  /\ phase = "select"
  /\ phase' = "end"
  /\ UNCHANGED <<modeVars, eventVars, soakVars, execVars, run_mode, todo>>

\* The soak of this turn is kept until the next; one step was asked for.
EndTurn ==
  /\ phase = "end"
  /\ previous_soak' = soak
  /\ run_mode' = IF run_mode = "STEP" THEN "HALT" ELSE run_mode
  /\ phase' = "stdin"
  /\ UNCHANGED <<modeVars, eventVars, soak, posted_meta_fact, depth, execVars, todo>>

-----------------------------------------------------------------------------

Input ==
  \/ \E s \in Sender : ReadMessage(s)
  \/ ServerAdds
  \/ \E mode \in RunMode : set_oprs_run_mode(mode)
  \/ reset_oprs_kernel

FindSoak ==
  \/ Shift \/ find_soak_fact \/ EndFacts \/ find_soak_goal \/ EndGoals

Execute ==
  \/ ExecuteAndPost \/ ExecuteSection \/ ExecuteWait \/ ExecuteLast

Next ==
  \/ Input \/ StartTurn
  \/ FindSoak \/ WakeUp \/ MaintainFails
  \/ MetaReact \/ Intend
  \/ find_current_intentions \/ Execute \/ ExecuteTraced \/ EndActivate
  \/ EndSelect \/ EndTurn

Spec == Init /\ [][Next]_vars

\* The loop goes on: select has a timeout and find_soak, the decision and
\* activate are loops over lists.  Nothing is assumed of the input, of the
\* threads that wait or of the end of a critical section.
Fairness ==
  /\ WF_vars(StartTurn) /\ WF_vars(FindSoak)
  /\ WF_vars(MetaReact) /\ WF_vars(Intend)
  /\ WF_vars(find_current_intentions) /\ WF_vars(Execute)
  /\ WF_vars(EndActivate) /\ WF_vars(EndSelect) /\ WF_vars(EndTurn)

FairSpec == Spec /\ Fairness

-----------------------------------------------------------------------------
(* Properties *)

Elements(queue) == {queue[k] : k \in DOMAIN queue}

\* Accepted and neither considered nor flushed.
Pending ==
  {e \in Elements(new_facts) \cup Elements(facts) \cup Elements(locked_messages)
           \cup Elements(new_goals) \cup Elements(goals) : e.from # "meta"}

Events ==
  INSTANCE EventService WITH
    Message <- Sender,
    pending <- Pending,
    late    <- held \cap Pending,
    section <- section # "none"

\* Between get_message, the shifts, the meta level's loop, critical sections
\* and resets, each event is considered once and in order, or flushed; no
\* message is considered in a critical section.
ImplementsEventService == Events!Spec

\* A soak is replaced by the next before anybody intended it only for procedures
\* that react to the meta level, or to messages that a section just let go:
\* no other event can make the client's loop forget what it was about to do.
SoakReplacedForMeta ==
  loop = "client" /\ meta_level /\ phase = "decide" /\ previous_soak # {} =>
    \A e \in soak : e.from = "meta" \/ e \in held

\* "We check the stdin only if the Meta OPs have been intended"
\* (gtop-lev-loop.c:73): with the meta level on, no loop reads its input while it
\* still has to decide on a soak.  The code has one exception the comment does
\* not: in a critical section no meta fact is posted, and the graphical loop goes
\* by that fact.
StdinAfterDecision ==
  meta_level /\ phase = "stdin" /\ ChecksStdin /\ previous_soak # {} =>
    loop = "graphical" /\ section # "none"

\* A thread that waits for a message in its own critical section waits until
\* something breaks the section: the message itself stays in locked_messages.
SectionWaitsForEver ==
  [][section = "awaits message" /\ section' # section => section' = "none"]_vars

Undisturbed == run_mode # "HALT"

\* Messages are considered in the end, however sections hold them back, if the
\* kernel runs and again and again shifts its queues outside of a section.
MessagesConsidered ==
  <>[]Undisturbed /\ []<>(phase = "shift" /\ section = "none") =>
    \A s \in Sender : \A k \in 1 .. MaxSent[s] :
      [from |-> s, n |-> k] \in Pending ~> [from |-> s, n |-> k] \notin Pending

\* The client's loop always comes to its decision, if meta procedures do not react
\* to each other for ever (MetaDepth).  Until then it reads nothing, so what others
\* send cannot keep it from deciding, however much they send.  The graphical loop
\* does not promise that: a dialog may add facts between a soak and the decision,
\* and in a critical section the input may (StdinAfterDecision); each new
\* soak replaces the one to decide on.
SoakDecided ==
  loop = "client" /\ <>[]Undisturbed => (phase = "decide" ~> phase = "activate")

=============================================================================
