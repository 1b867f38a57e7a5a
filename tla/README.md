# OpenPRS: TLA+ models and proofs

OpenPRS is a procedural reasoning system. A *kernel* executes procedures (OPs)
chosen from facts and goals; kernels and other programs talk through a *message
passer*; an *OPRS server* starts kernels and relays commands to them. This
directory holds TLA+ models of its core, the TLC configurations that check
them and proofs, checked by TLAPS, of what must hold for every instance.

Paths below are relative to the repository (`src/src/...` in `PROJECT.json`).

## 1. Inventory

### Components

| component | code | state it keeps | operations | what makes it correct |
|---|---|---|---|---|
| intention graph | `int-graph.c`, `intention.c`, `intend.c` | `list_intentions`, `list_pairs` (who precedes whom), `list_first` (roots), `list_runnable`, `sleeping`, `sleeping_on_cond`, `list_condamned`; status of each intention | insert, delete, kill, put to sleep, wake up, suspend, continue, choose the current ones | the pairs are a strict order that deletion restricts; roots, runnable and sleeping lists agree with pairs and statuses; nothing freed is kept; only runnable roots execute |
| thread execution | `activate.c` | a tree of thread intention blocks (TIB): active, sleeping, joining, suspended; goals; maintained conditions | execute a thread, fork, join, succeed, fail, wait, maintain/preserve, suspend, restore; begin/end critical section | the tree, the active list and the suspensions agree; nothing below a failed maintained goal executes; a critical section is exclusive and ends |
| kernel loop | `top-lev-loop.c`, `gtop-lev-loop.c`, `top-lev.c` | run mode, soak of the last cycle, `Oprs.critical_section` | read commands and messages, soak, intend, execute; reset, stop, step | every turn ends; a decision procedure decides on the present soak |
| conditions | `conditions.c` | conditions with their owners, evolving or not | install, check, satisfy, free | an intention sleeps exactly while one of its conditions is installed |
| fact and goal queues | `oprs.c`, `fact-goal.c` | `new_facts`, `new_goals`, messages locked by a critical section | add, get message, shift | each event considered once and in order, or flushed |
| soak, applicability | `soak.c`, `relevant-op.c` | applicable instances of the cycle | soak | the meta level terminates |
| goals and op instances | `fact-goal.c`, `op-instance.c`, `intend.c`, `intention.c` | reference counts; the instances that failed a goal | make, hold, intend, fail, free | freed with the last reference, cycles included; a thread works for a live goal |
| database, unification | `database.c`, `unification.c`, `lisp-list.c` | hash table of facts under several keys; basic events of the turn; frames | conclude, retract, consult, clear | the index is exact; the table is a set of facts |
| message passer | `mp.c`, `kill-mp.c` | registered clients, queues, descriptors to select | register, deny, exclude, route, buffer, write, disconnect, exit | names unique; messages complete, once and in order; nobody starves; a client's death harms nobody else |
| its client library | `mp-register.c`, `send-message.c` | one socket | connect (and start a passer), register, send, disconnect | a registration is answered |
| OPRS server | `oprs-server-main.c` | kernels accepted | accept, make, kill, transmit | commands reach a kernel that has registered |
| containers | `c_toolkit` | lists, hash tables | | each keeps its own shape |
| loading, parsing, printing; graphical kernel and editor; demos | | | | not part of the core logic |

### How they interact

The kernel is single-threaded. A turn of `client_oprs_top_level_loop` reads
commands and messages, *soaks* (computes which procedures apply), *intends*
(inserts intentions in the graph) and *executes*: `activate` chooses the current
intentions once, runs each, then deletes the condemned ones. While an intention
executes, its actions call back into the graph: it inserts intentions before or
after others, kills them, puts them to sleep, forks threads, opens a critical
section, posts facts and goals for the next turn. So the lists chosen at the
start of a turn are changed under the loop that walks them. Conditions wake
intentions between two turns.

The message passer is another process, with one thread and one `select` loop.
Its clients run concurrently, and connect, send, die and leave between any two
of its steps. A kernel reads its socket in `check_stdin`.

### What is hard

Lists kept redundantly by hand and edited in many places; a loop over a list
that its own body changes; two reasons to sleep in one status; deletion in the
middle of an order; a critical section whose thread dies; sockets that close
between `select` and use; queues split between process and kernel buffers;
multicasts cut half way; names reused by reconnecting clients; procedures found
in one turn and intended in a later one; messages held back by a critical section;
threads suspended, resumed and removed in any order; reference counts with cycles;
keys that each operation on the database computes by itself. The main ones,
line by line and with the properties that watch them, are `hazards` in
`PROJECT.json`. Others, which the models show or have beside those:

- graph: the roots are recomputed while pairs are rewritten (`int-graph.c:312`); an intention is
  unblocked and wakes in any order (`int-graph.c:551`); several conditions to sleep on (`conditions.c:248`);
- threads: the one that restores a condition shares its goal with the one it suspends
  (`intention.c:120`) and may hold a critical section (`activate.c:1664`); a fork inside a critical section
  (`activate.c:971`); a join whose brothers never come (`activate.c:1126`); goals achieved at once make the
  procedure recur (`activate.c:1198`); a goal posted by an action that waits is dropped (`soak.c:752`);
- loop: a newer message overtakes those a section held (`oprs.c:715`, allowed by `EventService`); the
  graphical loop reads no command while a meta fact is posted (`gtop-lev-loop.c:73`); a menu resets the kernel
  inside `find_soak` (`soak.c:1153`);
- database: `nombre` wraps at 65536 (`database.h:70`); consultations that ask for facts keep references
  (`database.c:1842`); predicates declared functional too late (`database.c:1196`); the order of a
  conjunction matters to a denied expression (`database.c:1700`);
- references: `INTEND-GOAL` and goals added from outside are never freed (`intend.c:145`, `oprs.c:410`); an
  action's goal points to its thread uncounted (`action.c:1643`); `goal->succes` is not counted
  (`activate.c:323`); a deleted procedure takes out another's name (`relevant-op.c:153`);
  a conjunction of goals with a retraction (`oprs.c:639`);
- message passer: 0 is both end of file and `REGISTER_OK` (`mp-register.c:146`); a silent connection blocks all
  (`mp.c:224`); a failed write is added as -1 (`mp.c:577`); descriptors leak (`mp.c:255`); the turn edits five
  structures in several places (`mp.c:173`); an empty text is taken for a report (`mp.c:606`).

## 2. Modules

### `IntentionGraph` (with `TaskOrder`, `MCIntentionGraph` and the two proof modules)

State, as in the code:

| variable | code |
|---|---|
| `list_intentions`, `list_first`, `list_runnable` | the same fields of `Intention_Graph`; the last two are bags, because nothing in the code keeps an entry unique |
| `list_pairs` | bag of `Intention_Paire` |
| status, conditions, sleeping lists | `Intention_Status`, counts of installed conditions |
| `active_tibs`, `asleep_tibs`, `joining_tibs` | how many threads of an intention are in each state |
| current intentions, `running`, program counter | the loop of `activate` |
| critical section | `Oprs.critical_section`; `Dangling` once the block it points to has been freed |

Actions follow the functions: `insert_intention_in_ig` with its callers
(`intend_op_in_new_intention`, the `action_intend_*` functions as
`IntendAction`), `delete_intention_from_ig`, `force_asleep_intention`,
`wake_up_intention`, `suspend_intention`, `continue_intention`,
`ChooseCurrent` (`find_current_intentions`), the kill, sleep and critical
section actions, the thread steps of `activate.c` by their effect on the three
counts, `reset_oprs_kernel` in `ResetBegin` and `ResetDelete`, and the steps of a
turn (`BeginSoak`, `IntendSoak`, `BeginExecute`, `EndExecute`, `BeginReap`, `Reap`,
`EndReap`). Which procedure is intended, and what it does next, is free.

`Lists` says which precedence lists procedures may give: `"any"` is what the
code accepts, `"ordered"` leaves no cycle, `"tree"` gives each intention
at most one predecessor. With the first two the code itself goes wrong (the
violation runs below): pairs are doubled and a freed intention is executed,
which is undefined behaviour. The model makes that step do nothing, so it
claims nothing past the first one. The invariants are therefore stated, checked
and proved for `"tree"`, which deletion and every intending operation preserve;
type correctness and `PrecedenceKept` are proved for all lists.

`ParExec` is a set of values of `run_option[PAR_EXEC]`; with both, the user switches it
at any time, as the option menu allows.

`TaskOrder` is the abstract specification: a strict partial order on tasks;
tasks enter it, and a task that leaves restricts it to the others.

### `MessagePasser` (with `MessageService`, `MCMessagePasser` and the two proof modules)

State: each client's own stage (`client`, `name`); the two directions of its
connection (`sock_in`, `sock_out`), in units of a request or a message; `backlog`
(connections not accepted); of mp the `mp_sender_list`, `mp_recipient_list`,
`mp_writefds_save` and queues `mess_list` of the code, the `readfds` and `writefds`
of the turn, the client `cur` it is at and those it has still to look at (`todo`).

| action | code |
|---|---|
| `Connect`, `StartMp`, `WriteName`, `ReadAnswer` | `external_register_to_the_mp_host_prot`, `start_mp_oprs` |
| `Send` | `send_message_string`, `multicast_message_string`, `broadcast_message_string` |
| `disconnect_from_the_mp`, `Die` | the client closes, telling mp or not, maybe in the middle of a request |
| `Receive` | `check_stdin` on the message passer socket |
| `Select`, `ExitIdle`, `Serve`, `EndTurn` | the loop of `main` |
| `NoName`, `Deny`, `Register`, `KillMp` | the paths of `register_oprs` |
| `BufferBroadcast`, `BufferNext`, `Hangup` | `get_and_buffer_message`; a multicast is routed one recipient per step, as it is read |
| `write_what_you_can`, `WriteBlocks`, `EndSend`, `WriteToClosed` | `send_buffered_message` |

Choices worth knowing:

- `MESSAGE_MT` is a `MULTICAST_MT` to one recipient. Wire formats (`STRINGS_PT`,
  `MESSAGES_PT`) are left out.
- mp's sockets block: `select` may find room for less than a message, and the
  write then waits (`blocked`). A partial write never returns, so
  `written_so_far` is 0 or the size.
- A client that closes with unread data resets the connection: TCP may
  discard any number of its last requests (`Reaching`).
- What `Hangup` does to a client that is also writable is undefined behaviour (it
  has been freed): the loop goes on or mp crashes. Writing to a client that has
  closed is nondeterministic too: the bytes vanish, the write fails, or SIGPIPE
  ends mp.
- The identity check of `kill-mp` may go either way.
- `ToServe`: the code walks a copy of the client list; only the ready ones matter,
  in any order.

`MessageService` is what the clients rely on: a mailbox per member, requests
routed one at a time in the order of each client, the registration answer first,
nothing left of a member that goes. `MessagePasser` maps a mailbox to what is in
the socket followed by what mp has queued.

### `KernelLoop` (with `EventService`, `MCKernelLoop`, `KernelLoopProofs`)

One turn after the other of `client_oprs_top_level_loop` or of the graphical kernel's
loop: `phase` is the place in it. An event is its source and its rank there; the
queues, `soak` and `previous_soak` hold events (a procedure is known by the event
that makes it applicable), intentions are counted.

| action | code |
|---|---|
| `ReadMessage`, `ServerAdds`, `set_oprs_run_mode`, `reset_oprs_kernel` | `check_stdin` and the commands that change the loop, from the server or from the graphical kernel's dialogs; `get_message`, `add_fact` |
| `StartTurn`, `Shift` | the guard on `oprs_run_mode`; `shift_facts_goals` |
| `find_soak_fact`, `WakeUp`, `MaintainFails`, `EndFacts`, `find_soak_goal`, `EndGoals` | the loops of `find_soak`, the conditions they check, the facts they post about the soak |
| `MetaReact`, `Intend` | the decision of the loop: soak again, or `intend` one procedure (all with `PAR_INTEND`) |
| `find_current_intentions`, `Execute*`, `EndActivate`, `EndSelect`, `EndTurn` | `activate` by its effect on events and the section; `let_the_good_time_roll`; the end of the turn |

`EventService` is what the queues promise whatever the loop does: an event accepted is
considered once, in the order of its source, or flushed by a reset. Messages accepted in a
critical section are the exception, with a second order of their own (`late`).
`MetaDepth` says how many rounds of meta procedures reacting to meta procedures there are:
the default ones stop after one, and nothing in the loop stops others.

The client's loop reads no input between a soak and the decision on it; the graphical one
does in a critical section, where no meta fact is posted, and its dialogs may add facts at any time. Each new
soak then replaces the one to decide on. `StdinAfterDecision` names that exception, and `SoakDecided`
is stated of the client's loop only: there it holds whatever others send, since nothing comes in
until the decision, and does not depend on `MaxSent`. Of the graphical loop it would hold in a run only
because `MaxSent` ends what is sent.

### `Threads` (with `MCThreads`, `ThreadsProofs`, `ThreadsSectionProofs`)

The thread intention blocks of one intention. `in` is a record with a function per field
(`pere`, `fils`, `status`, `suspended`, ...), so that the functions of `activate.c` that
call each other are operators from one such record to the next (`suspend_tib`,
`remove_and_free_tib_list`, `split_thread_intention_block`, ...). Within the turn of a
thread each call of `execute_top_thread`, `analyze_node_and_execute_intention_body`,
`satisfied_thread` and `failed_thread` is a step of `current_tib`: the code recurs, the model
keeps only the call that comes next, because what follows each of them is a return.

| action | code |
|---|---|
| `MakeIntention`, `delete_intention` | an intention begins; another one kills it |
| `WakeUp`, `PreserveFails`, `MaintainFails` | activation conditions; `failed_maintained_tib`, for `PRESERVE_P` and `MAINTAIN_P` |
| `find_soak_goal`, `Intend` | the soak of posted goals, and what is made of it after it |
| `execute_intention`, `Choose`, `EndTurn` | `execute_active_thread_list` over a copy of the list |
| `execute_intention_action` | the outcomes of an action: done, failed, waits, has a procedure executed, begins or ends a critical section |
| `execute_intention_body` with `PlainNode`, `Join`, `LastJoin`, `NoEdge`, `PostFirst`, `make_new_threads_and_post_goals` | nodes, joins and forks, goals over or reposted, `restore_suspended_tib` |
| `SatisfiedLast`, `SatisfiedNotLast`, `failed_thread` | the end of a thread |

`Risks` names what procedures may do that the code warns of or mishandles: an action that
waits below a maintained goal, a fork inside a critical section, a critical section started
to restore a maintained condition. With each of them a property fails, and the passing run
has none; `threads_suspended` shows the first.

### `Database` (with `FactBase`, `MCDatabase`, `DatabaseProofs`)

The hash table of `database.c`: `statements` (the buckets), `nombre` (their counts, modulo
the width), `refs` (references to expressions), `concluded_be` (basic events of the turn with
the keys saved for them). An expression is a tuple, a term an atom, a variable or an
expression. `make_key_list`, `make_ff_arg_key_list`, `make_ff_val_key_list` compute keys;
`unify_expr_from_db` unifies, comparing terms only when a variable occurs twice, as the
code does. The actions are `conclude`, `delete_expr_internal`, `delete_basic_events`,
`clear_database` and `consult`; `consult_and` and `consult_or` are operators, checked in
every state. Operators on nested terms are given once and applied to themselves three
deep instead of RECURSIVE, and `FactAssumption` says that facts nest no deeper. `CountsFit`
(no key has as many facts as `nombre` can count) and `UnificationExact` (keys and unification
find the instances of a pattern) are conditions on the constants that `MCDatabase` assumes,
so TLC evaluates them on its facts; some theorems need them.

`FactBase` is what the code makes of a set of facts: concluding removes what a fact replaces and adds it,
retracting removes the instances of a pattern. Instances are defined there by
substitution, so neither keys nor unification are taken for granted.

It departs from the documentation twice, as the code does. A basic event that is concluded leaves its
negation in place (`database.c:996`), where `doc/oprs-kernel.tex:2960-2961` has the negation of every concluded
expression retracted: the run `database_negation`. Concluding what denies a closed-world fact
removes that fact, where lines 2963 and 3123 have it ignored; 3126-3127 limit this to a fact that is
not in the database, and 2960-2961 say what the code does.

### `References` (with `MCReferences`)

`heap` holds goals, op instances, threads' memory, intentions and procedures with the counts
the code keeps; beside it the queues, `soak`, `previous_soak`, the terms of the meta level,
`op_list`. `dup_*`, `free_goal`, `free_op_instance`, `free_goal_from_op_instance`,
`free_thread_intention_block` are operators from heap to heap, translated with the cycle they have to
break: a goal holds the instances that failed it (`echec`), and they hold the goal.

| action | code |
|---|---|
| `add_op_to_relevant_op`, `delete_op_from_rop`, `AddExpr` | loading, deleting a procedure; a goal from outside |
| `BeginTurn`, `FailPreserved`, `find_soak`, `MetaAgain`, `HoldInTerm` | shift, failing conditions, soak, the meta level's second soak and its facts |
| `intend`, `IntendTerm` | `intend` from the main loop, or from an action of a meta procedure |
| `PostGoal`, `make_new_threads_and_post_goals`, `Repost`, `EndGoal`, `satisfied_thread`, `failed_thread` | the same steps as in `Threads`, by what they count |
| `MakeGoal`, `find_applicable_ops_for_goal`, `ForgetTerm` | actions of meta procedures and the end of their terms |
| `delete_intention`, `EndTurn` | `free_intention`; the soak of the turn before is freed |

A reference count below zero is kept as a negative number, so that freeing twice is seen. A
goal achieved at once (a conclusion) is made and freed in the same call and leaves no trace.

### Planned

| module | subject |
|---|---|
| `Conditions` | evolving and fact-triggered conditions, refining the wake-ups of `Threads` and `KernelLoop` |
| `OprsServer` | acceptance of kernels against commands |

Also to come: that `Threads` refines the thread counts of `IntentionGraph`; in `References`, the
thread that restores a maintained condition, which shares its goal with the one it replaces.

## 3. Runs

| run | instance | shows |
|---|---|---|
| `tree_par` | 3 intentions, 1 thread, 1 condition, `PAR_EXEC` on and off; 79,702 states | the hand-kept lists agree with pairs and statuses; nothing freed is kept; the critical section is exclusive; only roots execute without `PAR_EXEC`; the pairs implement `TaskOrder` |
| `progress` | 2 intentions, 2 threads, 2 conditions, fairness | condemned intentions are deleted, runnable ones execute, a lost critical section ends |
| `shared_successor` (violation) | `"ordered"` lists | an ordered insertion doubles a pair on deletion, and a freed intention is executed |
| `mp_exclude` | 3 clients for 3 names, one of the server and one of `kill-mp`, `-x`, restarts; 154,633 states | unique names, agreeing lists, select sets and turn; the passer implements `MessageService` for three clients: completeness, broadcasts, names that change hands |
| `mp_progress` | 2 clients for 2 names, no `-x`, multicasts of 2, restarts, 2 in transit, fairness; 271,981 states | the passer implements `MessageService` for two requests at once: order, cut multicasts; messages are delivered; requests are read and registrations answered |
| `mp_survives` (violation) | 2 clients | the death of one client can end mp for all |
| `kernel_loop` | both loops, with and without the meta level, 2 messages, 3 other events, 2 intentions, fairness; 647,567 states | the queues implement `EventService`; a message held back is considered in the end; the client's loop decides, and only the meta level or messages just let go replace its soak; no input comes between a soak and its decision, except in a section of the graphical loop; a wait for a message in a critical section has no end of its own |
| `threads` | 4 threads, `PAR_POST`; 624,807 states | tree, active list, suspensions and critical section agree through forks, joins, failures, suspensions and restorations |
| `threads_suspended` (violation) | an action waits below a maintained goal | it wakes up and executes although the condition has failed |
| `database` | 12 facts of 4 kinds of predicates, 11 patterns, 5 queries; 9,504 states | the index is exact, answers conjunctions and disjunctions as a set of facts would, and implements it |
| `database_negation` (violation) | the same | a basic event concluded after its negation stays beside it |
| `references` | 3 goals, instances and threads, 5 goals and instances at once; 342,374 states | every object is freed with its last reference, cycles included; threads work for live ones |

**Bounds.** `MaxThreads`, `MaxConds`, `MaxPairs` cap an intention's threads and
conditions and the precedence list given to an insertion. Three intentions are
enough for every interaction the code has between them (predecessor, deleted,
successor); two threads and two conditions distinguish the last one from others.

For mp: `SocketSize` is 1, so that sockets fill; `MaxInTransit` counts requests
and messages a sender may find under way (two are needed to see them reordered;
replies are not counted, which is how queues exceed it); `MaxBacklog` bounds
waiting connections (5 in `listen`); `MaxRecipients` bounds a multicast (two give a first
half and a second); `MaxClosed` bounds the clients that have closed unnoticed;
`Restarts` lets clients start a new passer. Connections are reused once over,
so runs are unbounded in time. Symmetry is used in safety runs only.

`MaxSent` in `KernelLoop` bounds the events of each source: two messages, so that one can be held
back and the other overtake it, one fact of the server, one of a thread, one goal.
`MaxIntentions` 2 gives a critical section to one intention beside another; `MetaDepth` 1 is what
the default meta procedures do. Turns, resets and run modes are not bounded.

In `Threads` four thread blocks give a father, two brothers and the thread that restores one
of them, or three generations below a suspended one. Intentions are made and deleted for ever.

In `Database`, `Copies` 2: one expression in the table and one freed but still referred to by
`concluded_be`. `CountMod` is 16 where the code has 2^16; the 12 facts stay below it, and
`IndexExact` fails where it wraps. `FactRes` is `{FALSE}`: a consultation that asks for
the facts (`TRUE`) keeps a reference to each, and a basic event so referred to is never deleted.

In `References`, `MaxObjects` 5 allows both a goal that two instances have failed with a third under
way and a father with two working sons, each with its goal. One procedure suffices, as
counts do not depend on which one.

**Deadlock** is checked in all passing runs but one. In `mp_exclude` it really happens: mp blocks
writing to the OPRS server, which never reads.

**Fairness.** In `IntentionGraph` only the steps that drive the loop (`BeginSoak`,
`find_current_intentions`, `BeginExecute`, `EndExecute`, `BeginReap`, `Reap`, `EndReap`,
`ResetDelete`) are weakly fair: one thread executes them in sequence and nothing
else can hold them. No procedure is assumed to act, fork or finish.
`RunnableExecutes` excepts procedures that open one critical section after another
for ever. `KernelLoop` is the same: the steps of the turn are weakly fair (they are loops
over lists, and `select` has a timeout); input, waiting threads, failing conditions
and the end of a critical section are not. Its liveness properties assume that the user
does not leave the kernel in HALT, and `MessagesConsidered` that the queues are shifted again
and again outside a section: a section that never ends starves messages, by its definition.
mp is weakly fair: it waits only in `select` and in blocking calls. Its
clients are assumed to write the name they have begun to send, to read the answer
and to read what they are sent; `doc/mp.tex:101` asks it of them, and the code has no
defence against one that does not.

**Findings without a run.** What the models also show, and no property of a passing run excludes:

- the `intend-*` actions accept lists that close a cycle (`Lists = "any"`);
- a thread that ends while its brothers sleep or join leaves its intention runnable without an
  active thread (`satisfied_thread` calls no `check_last_active_tib` there);
- in a critical section the graphical loop reads its input with a soak undecided, against its comment
  (`gtop-lev-loop.c:73`), so facts that keep coming postpone the decision for ever;
- concluding the negation of a closed-world fact removes the fact, against `doc/oprs-kernel.tex:2963`;
- a client that reconnects can be denied its own name, because `mp_client_dead` never finds
  an open descriptor dead;
- a client takes the end of mp for `REGISTER_OK`, both being 0;
- mp waits for ever for the OPRS server once the server's socket is full;
- an instance found in the first soak of a turn is intended although a preserved condition
  has failed its procedure in the second (`top-lev-loop.c:161`);
- an instance the meta level holds is intended for a goal its thread has given up
  (`intend.c:146`): `SonsServe` asks only for a goal of that thread.

## 4. Proofs

`IntentionGraphProofs` and `IntentionOrderProofs` hold for any finite or infinite
set of intentions and any bounds, from the assumptions stated with the
constants only.

- `TypeCorrect`: `TypeOK`, whatever lists procedures give.
- `InvCorrect`: `IInv`, for `Lists = "tree"`. `IInv` is the conjunction of `TypeOK`,
  `GraphInv`, `SchedInv`, `LoopInv` and `SectionInv`. The properties of the runs
  alone are not inductive: that a freed intention is in no list needs that it is
  in no pair, that `RunnableIfRoot` adds an intention once needs that it was not in
  the list, which needs that sleeping, active threads and status agree; that
  deletion makes each successor a root exactly once needs that the pairs form a
  forest without repetition; and the critical section needs the state of
  `activate`'s loop. One lemma per action shows that each part is preserved.
  Its corollaries are `PartialOrderCorrect`, `RootsCorrect`, `RunnableCorrect`,
  `StatusesCorrect`, `NoFreedCorrect`, `SectionOwnerCorrect` and
  `SectionIsExclusiveCorrect`.
- `PrecedenceKeptCorrect`, for all lists: no step drops a precedence between
  intentions that stay.
- `OnlyRootsExecuteCorrect`: without `PAR_EXEC`, by a second invariant: the one
  current intention is a root until it starts.
- `OrderCorrect`: every step is an `Enter`, a `Leave` or a stutter of `TaskOrder`.

`MessagePasserProofs` holds for any sets of clients and names, any sizes and bounds,
with `-x` and without, from `NameAssumption` and `SizeAssumption`.

- `InvCorrect`: `IInv`, whose parts besides the properties of the runs are
  `ConnectionInv`, `AnswerInv`, `LoopInv` and `QueueInv`. They are needed because
  `UniqueNames` compares names, so a registered client must have one and keep it;
  `Register` may only add a client that is not registered, so a connection must be
  accepted once and be in one place (`Waiting`); a client that is refused must not
  be registered when it closes for good, so a registered client that still
  waits finds `REGISTER_OK` first; and `WriteInterest` is broken while mp writes the
  queue of `cur`, so `QueueInv` says by how much. The steps share three
  frames: a step of a client changes nothing mp holds (`ClientFrame`), a step
  of mp in its turn registers and forgets nobody (`TurnFrame`), the end of mp
  empties everything (`GoDownInv`); `Register`, `Hangup` and the refusals have
  proofs of their own.
- Its corollaries are `TypeCorrect`, `UniqueNamesCorrect`, `ListsCorrect`,
  `ServesCorrect` and `WriteInterestCorrect`.

`MessagePasserRefinement` builds on it and needs no other hypothesis: `-x`, restarts, sizes and
bounds are free.

- `ServiceCorrect`: each step of mp or of a client is one of `MessageService` or not seen by
  it. `Register` is `Join` (`JoinAndDie` if the client has closed meanwhile, `Replace` if `-x` puts
  another out for it); a request, or the next recipient of one, that is taken from a socket is
  routed; `Hangup` and the end of mp are `Leave` and `Stop`. Writing moves messages from the queue to the socket, so the mailbox, which is one
  followed by the other, stays.
- `RequestsCorrect`: `RequestInv` is what `IInv` lacks for that. Only a broadcast names no
  recipients, so a request that has been routed to its last one is over; and whoever is not
  registered has nothing in `sock_in`, so a client enters the service without requests of
  an earlier connection.

`KernelLoopProofs` holds for any number of events and intentions, both loops, with the meta
level and without.

- `TypeCorrect`, `EventServiceCorrect`, `SoakReplacedForMetaCorrect`, `StdinAfterDecisionCorrect` and
  `SectionWaitsForEverCorrect` follow from `IInv`; `StdinAfterDecisionCorrect` also from `Undecided`,
  which says that input finds a soak undecided only in a section of the graphical loop. Its parts say which events a queue may hold, and
  in which phase of a turn it is empty (`QueueInv`); that a message is never in the way of a section
  (`MessageInv`) and is either held back or not (`LateInv`); that each queue is ascending for
  each source, and comes before the queues behind it (`OrderInv`); that, with the meta level,
  what is posted and soaked after a first soak is the meta level's own or just let go
  (`MetaInv`); and that what is counted is finite (`CountInv`). The order is not inductive
  without the phases: `shift_facts_goals` puts one queue behind another, so it must be known
  that the second holds only newer events, and a message that overtakes a held one is in order only
  among the held ones or among the others.
- `EventServiceCorrect` maps each step to one of `EventService`: input to `Accept`, the loops
  of `find_soak` to `Consider`, the critical section to `Enter` and `Leave`, a reset to `Flush`, the
  rest to a stutter.

`ThreadsProofs` holds for any set of thread blocks, all values of `run_option[PAR_POST]`, and
procedures that take every risk but one: the hypothesis `"wait" \notin Risks` excludes an action
that waits below a maintained goal. With it `suspend_tib` finds a status that it does not restore,
and `threads_suspended` shows the property fail: the theorems would be false.

- `IInv` is `TypeOK`, `TreeInv`, `WatchInv` and `TurnInv`. `ThreadTree` and `ActiveOrAwaited` are
  not inductive: removing a thread removes what is below it and behind it, so that these are disjoint
  from what stays must follow from the shape of the tree (`Tree`: each thread is a son of its
  father or behind exactly one other, and all are reached from the intention);
  `ActiveInv` says when a block is in `active_tibs`, `SuspendedInv` that a thread is suspended
  behind another or together with its father, `WaitInv` that none waits where it could be
  suspended, `WatchInv` which conditions are maintained and which of them have failed, and
  `TurnInv` what the turn of a thread may rely on while others are removed.
- The functions of `activate.c` edit the tree in five ways, and one lemma each shows
  that the tree survives: a subtree goes, all stay where they are, one son comes, a thread
  forks, the thread that restored a condition gives way to the one behind it. Each action
  is then one or two of them. The closure of a thread (all that is below and behind it) is the least
  closed set, not a recursive function, which is what the removal lemma needs.
- Its results are `TypeCorrect`, `ThreadTreeCorrect`, `ActiveOrAwaitedCorrect`,
  `OnlyActiveExecuteCorrect` and `SuspendedAreRestorableCorrect`.

`ThreadsSectionProofs` proves `SectionThreadCorrect` under `Risks = {}`: with any one of the three
risks TLC finds `SectionThread` violated on the instance of `threads`, so the hypothesis is needed.

- That the thread of the section is alive and can execute is not inductive, because what happens to
  the thread that opened the section happens to the tree, not to the section. `SInv` adds the shape
  between them (`Chain`): no thread from the opener down to the section has a brother, and none
  has suspended another. Then each step below the opener is at the section's thread, and a removal of
  the opener, or of anything around it, ends the section with it.
- `Single` (only bodies split) and `Restoring` (a thread that restores a condition executes the
  procedure of the one it has suspended) keep the chain: without them a thread that gives way to the one
  behind it could hand the section to a brother. `SectionTurn` says that only the section's thread
  has a turn while there is a section, also for those that were chosen before it began.
- One lemma for each way the tree is edited, as in `ThreadsProofs`, and one for each action. TLC
  checked `SInv` on the instance of `threads`, with `PAR_POST` on and off, before it was proved.

`DatabaseProofs` holds for any predicates and atoms and any facts that nest as deep
as the key functions of the model do.

- `KeysTellFacts`: if a fact is under all the keys of another, they are equal. The argument
  goes up three levels: the keys of the terms of two expressions tell the terms apart
  (by the position in a key, and because the key of a whole predicate is shorter than that of a
  term), hence the keys of the expressions do.
- `IInv`: each expression is under all its keys or none (`AllOrNone`), once for a fact
  (`OneForAFact`), the counts are those of the buckets (`Counted`), references are exact
  (`References`), and basic events keep the keys that still hold them (`SavedKeys`, `SavedOnce`).
  All are needed together: a deletion finds its expressions by intersecting buckets, so
  it is exact only where an expression is under all its keys; a bucket whose count reaches zero is
  freed whole, so the counts must be exact; `delete_ff_expr` recomputes the keys it deletes
  from two lists of keys, which must be all the keys of what it found; and the end of a turn
  deletes by keys saved earlier, which retractions and replacements must have kept up to date.
- `TypeCorrect` and `IndexExactCorrect`; `OneValueCorrect`, that the message "more than one
  functional fact found" is never printed; `FactBaseCorrect`, that each operation
  is one of `FactBase` on the set of facts stored.
- Hypotheses: `CountsFit`, without which `nombre` wraps; `FactRes \subseteq {FALSE}`, because a
  consultation that asks for the facts keeps references to them. Without either, `IndexExact` is false.
  `FactBaseCorrect` also takes `UnificationExact`: matching a pattern term by term with a frame of
  bindings is a computation over the arity, an induction over data.

**Only model-checked**:

- liveness, which needs ENABLED: `CondemnedAreDeleted`, `RunnableExecutes`, `LostSectionEnds`,
  `Delivered`, `RequestsEnd`, `MessagesConsidered`, `SoakDecided`;
- `ConsultAnswers` and `UnificationExact`: unification and the conjunction of a list of
  expressions are recursive over data;
- `Reclaimed` and `SonsServe` of `References`, which frees along trees and cycles with RECURSIVE
  operators and folds: what they compute for every heap is an induction over data, and a module
  that declares one is out of the prover's reach;
- the violations.

## 5. Not modelled

Which procedures apply to a fact or goal and what their actions compute: a free choice, wherever it
matters. The order of the schedulers within the runnable intentions: free.

- **Kernel**: commands that print, load or trace; `reset` executed by an action of a running
  intention, or from an X menu in the middle of `find_soak`; conjunctions of goals; when
  conditions are evaluated again (evolving, force-checked, triggered by a fact).
- **Threads**: the nodes a thread goes through and the graph of a procedure; the variables that
  forks share; memory of goals (in `References` instead).
- **Database**: evaluable predicates and functions, numbers and lists as terms, dumping,
  printing. Predicates do not become functional or closed-world after facts were concluded.
- **References**: calls of procedures by name, the goal shared between a suspended thread and
  the one that restores its condition, `INTEND-GOAL` (whose instance is never freed),
  `intend_aop_for_goal`, the built-in procedures of goals that wait or that the database
  satisfies, several bindings of one procedure, critical sections, counts of facts.
- **mp**: options, log, bytes and so errors in the middle of a message; descriptors, which are leaked by
  denied registrations; a connection that stays silent; a kernel's non-blocking
  socket, which could truncate a request.
- **Not at all**: the OPRS server (planned), graphics, the editor, the parsers, loading, dumping,
  printing, demos. They are most of the repository's lines, and sequential text conversion or
  presentation.
