------------------------- MODULE IntentionOrderProofs -------------------------
(* Theorems about the order of the intentions: it is kept by every operation, *)
(* for any lists, and with "tree" lists it is the order of TaskOrder.         *)
EXTENDS IntentionGraphProofs

-----------------------------------------------------------------------------
(* Precedence is kept *)

\* S holds what a and its own elements block.
Closed(pairs, a, S) ==
  \A x \in S \cup {a} : \A y \in Intention : Before(pairs, x, y) => y \in S

\* More pairs, more precedences.
LEMMA MorePairs ==
  ASSUME \A j, k \in Intention : Before(list_pairs, j, k) => Before(list_pairs', j, k),
         NEW a \in Intention, NEW b \in Intention, Precedes(list_pairs, a, b)
  PROVE  Precedes(list_pairs', a, b)
<1> SUFFICES ASSUME NEW S \in SUBSET Intention, Closed(list_pairs', a, S)
             PROVE  b \in S
  BY DEF Precedes, Closed
<1>1. Closed(list_pairs, a, S)
  BY DEF Closed
<1> QED BY <1>1 DEF Precedes, Closed

\* Where a path went through i, its ends are now joined.
LEMMA DeleteKeepsPrecedes ==
  ASSUME list_pairs \in PairBag, NEW i \in Intention,
         NEW a \in Intention \ {i}, NEW b \in Intention \ {i}, Precedes(list_pairs, a, b)
  PROVE  Precedes(PairsWithout(i), a, b)
<1> SUFFICES ASSUME NEW S \in SUBSET Intention, Closed(PairsWithout(i), a, S)
             PROVE  b \in S
  BY DEF Precedes, Closed
<1>1. \A j, k \in Intention : Before(PairsWithout(i), j, k) <=>
        /\ j # i
        /\ \/ k # i /\ Before(list_pairs, j, k)
           \/ Before(list_pairs, j, i) /\ Before(list_pairs, i, k)
  BY BeforeWithout
<1> DEFINE R == S \ {i}
<1>2. CASE \E p \in R \cup {a} : Before(list_pairs, p, i)
  <2>1. PICK p \in R \cup {a} : Before(list_pairs, p, i)
    BY <1>2
  <2>2. ASSUME NEW x \in R \cup {i} \cup {a}, NEW y \in Intention, Before(list_pairs, x, y)
        PROVE  y \in R \cup {i}
    <3>1. CASE y = i
      BY <3>1
    <3>2. CASE y # i /\ x # i
      <4>1. Before(PairsWithout(i), x, y)
        BY <1>1, <2>2, <3>2
      <4> QED BY <2>2, <3>2, <4>1 DEF Closed
    <3>3. CASE y # i /\ x = i
      <4>1. Before(PairsWithout(i), p, y)
        BY <1>1, <2>1, <2>2, <3>3
      <4> QED BY <2>1, <3>3, <4>1 DEF Closed
    <3> QED BY <3>1, <3>2, <3>3
  <2>3. R \cup {i} \in SUBSET Intention
    OBVIOUS
  <2>4. b \in R \cup {i}
    BY <2>2, <2>3 DEF Precedes
  <2> QED BY <2>4
<1>3. CASE \A p \in R \cup {a} : ~Before(list_pairs, p, i)
  <2>1. ASSUME NEW x \in R \cup {a}, NEW y \in Intention, Before(list_pairs, x, y)
        PROVE  y \in R
    <3>1. y # i /\ x # i
      BY <1>3, <2>1
    <3>2. Before(PairsWithout(i), x, y)
      BY <1>1, <2>1, <3>1
    <3> QED BY <2>1, <3>1, <3>2 DEF Closed
  <2>2. R \in SUBSET Intention
    OBVIOUS
  <2>3. b \in R
    BY <2>1, <2>2 DEF Precedes
  <2> QED BY <2>3
<1> QED BY <1>2, <1>3

\* What an action may do to the pairs.
LEMMA PairsStep ==
  ASSUME TypeOK, Next
  PROVE  \/ UNCHANGED <<list_pairs, list_intentions>>
         \/ \E i \in Intention : delete_intention_from_ig(i)
                                   /\ i \in list_intentions \cup list_condamned
         \/ \E i \in Intention, after, before \in SUBSET list_intentions :
              intend_op_in_new_intention(i, after, before) \/ intend_decision_procedure(i)
<1> USE DEF graphVars
<1>1. ASSUME NEW i \in Intention, IntendSoak(i)
      PROVE  \E after, before \in SUBSET list_intentions :
               intend_op_in_new_intention(i, after, before) \/ intend_decision_procedure(i)
  <2>1. {} \in SUBSET list_intentions
    OBVIOUS
  <2> QED BY <1>1, <2>1 DEF IntendSoak
<1>2. ASSUME NEW i \in Intention, IntendAction(i)
      PROVE  \E after, before \in SUBSET list_intentions :
               intend_op_in_new_intention(i, after, before) \/ intend_decision_procedure(i)
  <2>1. {} \in SUBSET list_intentions
    OBVIOUS
  <2> QED BY <1>2, <2>1 DEF IntendAction
<1>3. CASE Soak
  BY <1>1, <1>3 DEF Soak, BeginSoak, WakeUpThread, SatisfyIntentionCondition, PreserveFails
<1>4. CASE Execute
  BY <1>2, <1>4 DEF Execute, BeginExecute, KillAction, AsleepAction, ThreadSleeps,
       ThreadForks, ThreadJoins, LastThreadJoins, ThreadFinishes, LeaveProcedure,
       begin_critical_section, BeginCriticalSectionAtTop, EndCriticalSection, EndExecute, Terminate
<1>5. CASE find_current_intentions \/ ResetBegin \/ BeginReap \/ EndReap
  BY <1>5 DEF find_current_intentions, ResetBegin, BeginReap, EndReap
<1>6. ASSUME NEW i \in Intention, ResetDelete(i) \/ Reap(i)
      PROVE  delete_intention_from_ig(i) /\ i \in list_intentions \cup list_condamned
  BY <1>6 DEF ResetDelete, Reap
<1> QED BY <1>3, <1>4, <1>5, <1>6 DEF Next

\* An insertion removes no pair.
LEMMA InsertAddsPairs ==
  ASSUME TypeOK, NEW i \in Intention,
         NEW after \in SUBSET list_intentions, NEW before \in SUBSET list_intentions,
         intend_op_in_new_intention(i, after, before) \/ intend_decision_procedure(i)
  PROVE  \A j, k \in Intention : Before(list_pairs, j, k) => Before(list_pairs', j, k)
<1>1. after \in SUBSET Intention /\ {} \in SUBSET Intention /\ list_first \in Bag
  BY DEF TypeOK
<1>2. BagOf(before) \in Bag
  BY EmptyBagOf
<1>3. CASE intend_op_in_new_intention(i, after, before)
  BY <1>1, <1>2, <1>3, InsertPairs DEF intend_op_in_new_intention
<1>4. CASE intend_decision_procedure(i)
  BY <1>1, <1>4, InsertPairs DEF intend_decision_procedure
<1> QED BY <1>3, <1>4

\* Whatever lists the procedures give, no operation lets an intention overtake
\* one that precedes it.
THEOREM PrecedenceKeptCorrect == Spec => PrecedenceKept
<1> DEFINE Kept == \A a, b \in list_intentions \cap list_intentions' :
                     Precedes(list_pairs, a, b) => Precedes(list_pairs', a, b)
<1>1. TypeOK /\ [Next]_vars => [Kept]_vars
  <2> SUFFICES ASSUME TypeOK, Next,
                      NEW a \in list_intentions \cap list_intentions',
                      NEW b \in list_intentions \cap list_intentions',
                      Precedes(list_pairs, a, b)
               PROVE  Precedes(list_pairs', a, b)
    OBVIOUS
  <2>1. a \in Intention /\ b \in Intention /\ list_pairs \in PairBag
    BY DEF TypeOK, PairBag
  <2>2. CASE UNCHANGED list_pairs
    BY <2>2
  <2>3. ASSUME NEW i \in Intention, delete_intention_from_ig(i)
        PROVE  Precedes(list_pairs', a, b)
    BY <2>1, <2>3, DeleteKeepsPrecedes DEF delete_intention_from_ig
  <2>4. ASSUME NEW i \in Intention,
               NEW after \in SUBSET list_intentions, NEW before \in SUBSET list_intentions,
               intend_op_in_new_intention(i, after, before) \/ intend_decision_procedure(i)
        PROVE  Precedes(list_pairs', a, b)
    BY <2>1, <2>4, InsertAddsPairs, MorePairs
  <2> QED BY <2>2, <2>3, <2>4, PairsStep
<1>2. Spec => []TypeOK
  BY TypeCorrect
<1> QED BY <1>1, <1>2, PTL DEF Spec, PrecedenceKept

-----------------------------------------------------------------------------
(* One intention at a time *)

\* Without PAR_EXEC one intention at most is chosen, and nothing can put
\* another before it between the choice and its execution.
MonoInv ==
  /\ \A bag \in {current_intentions, todo} :
       \A i, j \in Intention : bag[i] > 0 /\ bag[j] > 0 => i = j /\ bag[i] = 1
  /\ running # None => todo = EmptyBag
  /\ \A i \in Intention : todo[i] > 0 /\ critical_section = None => Unpreceded(i)

LEMMA MonoStep ==
  ASSUME TRUE \notin ParExec, IInv, MonoInv, [Next]_vars
  PROVE  MonoInv'
<1> DEFINE Single(bag) == \A i, j \in Intention : bag[i] > 0 /\ bag[j] > 0 => i = j /\ bag[i] = 1
<1> USE DEF graphVars, schedVars, csVars, loopVars
<1>1. Single(current_intentions) /\ Single(todo)
  BY DEF MonoInv
<1>2. /\ Single(EmptyBag)
      /\ \A i \in Intention : Single(BagOf({i}))
      /\ \A i \in Intention : EmptyBag[i] = 0
  BY DEF EmptyBag, BagOf
<1>3. ASSUME NEW i \in Intention, delete_intention_from_ig(i), UNCHANGED <<phase, todo, running>>,
             phase \in {"reset", "reap"}
      PROVE  MonoInv'
  <2>1. todo = EmptyBag
    BY <1>3 DEF IInv, LoopInv
  <2>2. \A k \in Intention : current_intentions'[k] \in Nat /\ current_intentions'[k] <= current_intentions[k]
    <3>1. current_intentions \in Bag /\ current_intentions' = DeleteNode(current_intentions, i)
      BY <1>3 DEF delete_intention_from_ig, IInv, TypeOK
    <3> QED BY <3>1, DeleteNodeBag DEF Minus, Bag
  <2>3. Single(current_intentions')
    BY <1>1, <2>2 DEF IInv, TypeOK, Bag
  <2> QED BY <1>2, <1>3, <2>1, <2>3 DEF MonoInv
<1>4. CASE \E i \in Intention : ResetDelete(i) \/ Reap(i)
  BY <1>3, <1>4 DEF ResetDelete, Reap
<1>5. CASE find_current_intentions
  <2>1. running' = None
    BY <1>5 DEF find_current_intentions, IInv, LoopInv
  <2>2. /\ todo' = current_intentions'
        /\ \/ critical_section # None /\ UNCHANGED current_intentions
           \/ /\ critical_section = None
              /\ \/ current_intentions' = EmptyBag
                 \/ \E k \in InBag(list_runnable) : current_intentions' = BagOf({k})
    BY <1>5 DEF find_current_intentions, ChooseCurrent
  <2>3. Single(current_intentions')
    <3>1. CASE UNCHANGED current_intentions
      BY <1>1, <3>1
    <3>2. CASE current_intentions' = EmptyBag
      BY <1>2, <3>2
    <3>3. ASSUME NEW k \in Intention, current_intentions' = BagOf({k})
          PROVE  Single(current_intentions')
      BY <1>2, <3>3
    <3> QED BY <2>2, <3>1, <3>2, <3>3 DEF InBag
  <2>4. ASSUME NEW i \in Intention, todo'[i] > 0, critical_section' = None
        PROVE  Unpreceded(i)'
    <3>1. todo' # EmptyBag
      BY <1>2, <2>4
    <3>2. critical_section = None
      BY <1>5, <2>2, <2>4, <3>1 DEF find_current_intentions, ChooseCurrent
    <3>3. PICK k \in InBag(list_runnable) : todo' = BagOf({k})
      BY <2>2, <3>1, <3>2
    <3>4. i = k /\ list_runnable[i] > 0
      BY <2>4, <3>3 DEF BagOf, InBag
    <3>5. Unpreceded(i)
      BY <3>4 DEF IInv, SchedInv, RunnableAreActiveRoots, GraphInv, RootsAreUnblocked
    <3> QED BY <1>5, <3>5 DEF find_current_intentions, Unpreceded
  <2> QED BY <1>5, <2>1, <2>3, <2>4 DEF MonoInv, find_current_intentions
<1>6. ASSUME NEW i \in Intention, BeginExecute(i) PROVE MonoInv'
  <2>1. \A k \in Intention : todo'[k] = 0
    BY <1>1, <1>6 DEF BeginExecute, DeleteNode, Minus, IInv, TypeOK, Bag
  <2>2. todo' = EmptyBag
    BY <1>6, <2>1 DEF BeginExecute, DeleteNode, IInv, TypeOK, Bag, EmptyBag
  <2> QED BY <1>1, <1>2, <1>6, <2>2 DEF BeginExecute, MonoInv
<1>7. CASE Executing /\ todo' = EmptyBag /\ (UNCHANGED current_intentions
                          \/ current_intentions' = BagOf({running}))
  BY <1>1, <1>2, <1>7 DEF Executing, MonoInv, IInv, TypeOK
<1>8. CASE UNCHANGED <<current_intentions, todo, running>> /\ todo = EmptyBag
  BY <1>1, <1>2, <1>8 DEF MonoInv
<1>9. Executing => todo = EmptyBag
  BY DEF MonoInv, Executing
<1>10. phase # "run" => todo = EmptyBag
  BY DEF IInv, LoopInv
<1>11. CASE Soak
  BY <1>8, <1>10, <1>11 DEF Soak, BeginSoak, IntendSoak, WakeUpThread, SatisfyIntentionCondition,
       PreserveFails, FreeThreads
<1>12. CASE EndExecute
  BY <1>1, <1>2, <1>12 DEF EndExecute, MonoInv
<1>13. CASE Terminate
  BY <1>1, <1>2, <1>9, <1>13 DEF Terminate, MonoInv, FreeThreads
<1>14. CASE BeginReap \/ ResetBegin \/ EndReap
  BY <1>8, <1>10, <1>14 DEF BeginReap, ResetBegin, EndReap
<1>15. CASE UNCHANGED vars
  BY <1>15 DEF MonoInv, Unpreceded, vars
<1>16. CASE Execute
  BY <1>6, <1>7, <1>9, <1>12, <1>13, <1>16
  DEF Execute, IntendAction, KillAction, AsleepAction, ThreadSleeps, ThreadForks, ThreadJoins,
      LastThreadJoins, ThreadFinishes, LeaveProcedure, FreeThreads, begin_critical_section,
      BeginCriticalSectionAtTop, EndCriticalSection, end_critical_section
<1> QED BY <1>4, <1>5, <1>11, <1>14, <1>15, <1>16 DEF Next

\* One intention at a time, none that another precedes ever starts to execute,
\* except to go on with its critical section.
THEOREM OnlyRootsExecuteCorrect ==
  ASSUME Lists = "tree", TRUE \notin ParExec
  PROVE  Spec => OnlyRootsExecute
<1> DEFINE Roots == \A i, j \in Intention :
             critical_section = None /\ current_intentions = BagOf({i})
               /\ running' # running /\ running' = i
               => ~Before(list_pairs, j, i)
<1>1. Init => MonoInv
  BY DEF Init, MonoInv, EmptyBag
<1>2. IInv /\ MonoInv /\ [Next]_vars => MonoInv'
  BY MonoStep
<1>3. IInv /\ MonoInv /\ [Next]_vars => [Roots]_vars
  <2> SUFFICES ASSUME IInv, MonoInv, Next, NEW i \in Intention, NEW j \in Intention,
                      critical_section = None, running' # running, running' = i
               PROVE  ~Before(list_pairs, j, i)
    OBVIOUS
  <2>1. BeginExecute(i)
    BY RunningStep, IntentionAssumption DEF IInv
  <2> QED BY <2>1 DEF BeginExecute, MonoInv, Unpreceded
<1>4. Spec => []IInv
  BY InvCorrect
<1> QED BY <1>1, <1>2, <1>3, <1>4, PTL DEF Spec, OnlyRootsExecute

-----------------------------------------------------------------------------
(* The pairs implement the order of TaskOrder *)

\* The refinement mapping of Order.
OrderOf(pairs) == {e \in Intention \X Intention : Precedes(pairs, e[1], e[2])}

LEMMA PrecedesTransitive ==
  ASSUME NEW pairs, NEW a \in Intention, NEW b \in Intention, NEW c \in Intention,
         Precedes(pairs, a, b), Precedes(pairs, b, c)
  PROVE  Precedes(pairs, a, c)
<1> SUFFICES ASSUME NEW S \in SUBSET Intention, Closed(pairs, a, S)
             PROVE  c \in S
  BY DEF Precedes, Closed
<1>1. b \in S
  BY DEF Precedes, Closed
<1>2. Closed(pairs, b, S)
  BY <1>1 DEF Closed
<1> QED BY <1>2 DEF Precedes, Closed

\* The intentions a precedes are closed, so they have a first one, and nothing
\* among them or a leads to it.
LEMMA PrecedesIrreflexive ==
  ASSUME NEW pairs, Acyclic(pairs), NEW a \in Intention
  PROVE  ~Precedes(pairs, a, a)
<1> SUFFICES ASSUME Precedes(pairs, a, a) PROVE FALSE
  OBVIOUS
<1> DEFINE S == {y \in Intention : Precedes(pairs, a, y)}
<1>1. a \in S
  OBVIOUS
<1>2. S \in (SUBSET Intention) \ {{}}
  BY <1>1
<1>3. PICK x \in S : \A y \in S : ~Before(pairs, y, x)
  BY <1>2 DEF Acyclic
<1>4. ASSUME NEW z \in S, NEW y \in Intention, Before(pairs, z, y)
      PROVE  y \in S
  <2>1. Precedes(pairs, z, y)
    BY <1>4 DEF Precedes
  <2>2. Precedes(pairs, a, z) /\ z \in Intention
    OBVIOUS
  <2> QED BY <2>1, <2>2, PrecedesTransitive
<1>5. Closed(pairs, a, S \ {x})
  BY <1>1, <1>3, <1>4 DEF Closed
<1>6. S \ {x} \in SUBSET Intention /\ x \in Intention /\ Precedes(pairs, a, x)
  OBVIOUS
<1>7. x \in S \ {x}
  BY <1>5, <1>6 DEF Precedes, Closed
<1> QED BY <1>7

LEMMA OrderIsStrict ==
  ASSUME NEW pairs, Acyclic(pairs)
  PROVE  /\ \A a \in Intention : <<a, a>> \notin OrderOf(pairs)
         /\ \A a, b, c \in Intention :
              <<a, b>> \in OrderOf(pairs) /\ <<b, c>> \in OrderOf(pairs)
                => <<a, c>> \in OrderOf(pairs)
BY PrecedesIrreflexive, PrecedesTransitive DEF OrderOf

\* Only intentions of the graph are ordered.
LEMMA PrecedesAmong ==
  ASSUME NEW pairs, NEW T \in SUBSET Intention,
         \A j, k \in Intention : Before(pairs, j, k) => {j, k} \subseteq T
  PROVE  OrderOf(pairs) \subseteq T \X T
<1>1. ASSUME NEW a \in Intention, NEW b \in Intention, Precedes(pairs, a, b)
      PROVE  a \in T /\ b \in T
  <2>1. Closed(pairs, a, T)
    BY DEF Closed
  <2>2. b \in T
    BY <1>1, <2>1 DEF Precedes, Closed
  <2>3. ASSUME a \notin T PROVE FALSE
    <3>1. {} \in SUBSET Intention /\ Closed(pairs, a, {})
      BY <2>3 DEF Closed
    <3>2. \A S \in SUBSET Intention : Closed(pairs, a, S) => b \in S
      BY <1>1 DEF Precedes, Closed
    <3>3. b \in {}
      BY <3>1, <3>2
    <3> QED BY <3>3
  <2> QED BY <2>2, <2>3
<1> QED BY <1>1 DEF OrderOf

\* A pair made by a deletion was a path before it.
LEMMA DeleteAddsNoPrecedes ==
  ASSUME list_pairs \in PairBag, NEW i \in Intention,
         NEW a \in Intention, NEW b \in Intention, Precedes(PairsWithout(i), a, b)
  PROVE  Precedes(list_pairs, a, b)
<1> SUFFICES ASSUME NEW S \in SUBSET Intention, Closed(list_pairs, a, S)
             PROVE  b \in S
  BY DEF Precedes, Closed
<1>1. ASSUME NEW x \in S \cup {a}, NEW y \in Intention, Before(PairsWithout(i), x, y)
      PROVE  y \in S
  <2>1. Before(list_pairs, x, y) \/ (Before(list_pairs, x, i) /\ Before(list_pairs, i, y))
    BY <1>1, BeforeWithout
  <2> QED BY <2>1 DEF Closed
<1> QED BY <1>1 DEF Precedes

LEMMA OrderStep ==
  ASSUME Lists = "tree", IInv, IInv', Next
  PROVE  Order!Next \/ UNCHANGED <<list_intentions, OrderOf(list_pairs)>>
<1> USE DEF OrderOf
<1>1. /\ OrderOf(list_pairs) \subseteq list_intentions \X list_intentions
      /\ OrderOf(list_pairs') \subseteq list_intentions' \X list_intentions'
  <2>1. list_intentions \in SUBSET Intention /\ list_intentions' \in SUBSET Intention
    BY DEF IInv, TypeOK
  <2> HIDE DEF OrderOf
  <2> QED BY <2>1, PrecedesAmong DEF IInv, GraphInv
<1>2. CASE UNCHANGED <<list_pairs, list_intentions>>
  BY <1>2
<1>3. ASSUME NEW i \in Intention, delete_intention_from_ig(i),
             i \in list_intentions \cup list_condamned
      PROVE  Order!Leave(i)
  <2>1. list_pairs \in PairBag /\ i \in list_intentions
    BY <1>3 DEF IInv, TypeOK, PairBag, LoopInv
  <2>2. list_pairs' = PairsWithout(i) /\ list_intentions' = list_intentions \ {i}
    BY <1>3 DEF delete_intention_from_ig
  <2>3. ASSUME NEW a \in Intention, NEW b \in Intention
        PROVE  Precedes(list_pairs', a, b) <=>
                 Precedes(list_pairs, a, b) /\ a \in list_intentions' /\ b \in list_intentions'
    <3>1. ASSUME Precedes(list_pairs', a, b)
          PROVE  Precedes(list_pairs, a, b) /\ a \in list_intentions' /\ b \in list_intentions'
      <4>1. <<a, b>> \in list_intentions' \X list_intentions'
        BY <1>1, <3>1
      <4>2. Precedes(list_pairs, a, b)
        BY <2>1, <2>2, <3>1, DeleteAddsNoPrecedes
      <4> QED BY <4>1, <4>2
    <3>2. ASSUME Precedes(list_pairs, a, b), a \in list_intentions', b \in list_intentions'
          PROVE  Precedes(list_pairs', a, b)
      BY <2>1, <2>2, <3>2, DeleteKeepsPrecedes
    <3> QED BY <3>1, <3>2
  <2>4. OrderOf(list_pairs') = OrderOf(list_pairs) \cap (list_intentions' \X list_intentions')
    BY <1>1, <2>3
  <2> QED BY <2>1, <2>2, <2>4 DEF Order!Leave, Order!Among
<1>4. ASSUME NEW i \in Intention,
             NEW after \in SUBSET list_intentions, NEW before \in SUBSET list_intentions,
             intend_op_in_new_intention(i, after, before) \/ intend_decision_procedure(i)
      PROVE  Order!Enter(i)
  <2>1. i \notin list_intentions /\ list_intentions' = list_intentions \cup {i}
    BY <1>4 DEF intend_op_in_new_intention, intend_decision_procedure, MayCreate,
                insert_intention_in_ig
  <2>2. OrderOf(list_pairs) \subseteq OrderOf(list_pairs')
    BY <1>4, InsertAddsPairs, MorePairs DEF IInv
  <2>3. Acyclic(list_pairs')
    BY DEF IInv, GraphInv, PartialOrder
  <2>4. Order!StrictPartialOrder(OrderOf(list_pairs'))
    <3> HIDE DEF OrderOf
    <3> QED BY <2>3, OrderIsStrict DEF Order!StrictPartialOrder
  <2> QED BY <1>1, <2>1, <2>2, <2>4 DEF Order!Enter
<1> QED BY <1>2, <1>3, <1>4, PairsStep DEF IInv, Order!Next

\* Every insertion and deletion is a step of a partial order of tasks.
THEOREM OrderCorrect ==
  ASSUME Lists = "tree"
  PROVE  Spec => ImplementsTaskOrder
<1>1. Init => Order!Init
  <2> SUFFICES ASSUME Init PROVE Order!Init
    OBVIOUS
  <2>1. \A j, k \in Intention : ~Before(list_pairs, j, k)
    BY DEF Init, Before
  <2>2. OrderOf(list_pairs) \subseteq {} \X {}
    BY <2>1, PrecedesAmong
  <2> QED BY <2>2 DEF Init, Order!Init, OrderOf
<1>2. IInv /\ IInv' /\ [Next]_vars => [Order!Next]_(Order!vars)
  <2>1. ASSUME IInv, IInv', Next PROVE [Order!Next]_(Order!vars)
    BY <2>1, OrderStep DEF Order!vars, OrderOf
  <2>2. ASSUME UNCHANGED vars PROVE UNCHANGED Order!vars
    BY <2>2 DEF vars, graphVars, Order!vars
  <2> QED BY <2>1, <2>2
<1>3. Spec => []IInv
  BY InvCorrect
<1> QED BY <1>1, <1>2, <1>3, PTL DEF Spec, ImplementsTaskOrder, Order!Spec

=============================================================================
