------------------------ MODULE IntentionGraphProofs ------------------------
(* Theorems about IntentionGraph, for any number of intentions. *)
EXTENDS IntentionGraph, TLAPS

-----------------------------------------------------------------------------
(* The operators on bags and pairs *)

LEMMA NatProduct ==
  ASSUME NEW m \in Nat, NEW n \in Nat
  PROVE  m * n \in Nat /\ (m * n > 0 <=> m > 0 /\ n > 0)
<1>1. CASE m = 0
  BY <1>1
<1>2. CASE n = 0
  BY <1>2
<1>3. CASE m > 0 /\ n > 0
  BY <1>3
<1> QED BY <1>1, <1>2, <1>3

LEMMA MinusNat ==
  ASSUME NEW m \in Nat, NEW n \in Nat
  PROVE  Minus(m, n) \in Nat
BY DEF Minus

LEMMA DeleteNodeBag ==
  ASSUME NEW bag \in Bag, NEW i \in Intention
  PROVE  /\ DeleteNode(bag, i) \in Bag
         /\ \A k \in Intention :
              DeleteNode(bag, i)[k] = IF k = i THEN Minus(bag[k], 1) ELSE bag[k]
BY MinusNat DEF DeleteNode, Bag

PairBag == [Intention \X Intention -> Nat]

\* The pairs once i is deleted, one by one.
LEMMA PairsWithoutPairs ==
  ASSUME list_pairs \in PairBag, NEW i \in Intention
  PROVE  /\ PairsWithout(i) \in PairBag
         /\ \A j, k \in Intention :
              PairsWithout(i)[<<j, k>>] =
                IF j = i THEN 0
                ELSE (IF k = i THEN 0 ELSE list_pairs[<<j, k>>]) + list_pairs[<<j, i>>] * list_pairs[<<i, k>>]
<1>1. ASSUME NEW e \in Intention \X Intention
      PROVE  list_pairs[e] \in Nat /\ list_pairs[<<e[1], i>>] * list_pairs[<<i, e[2]>>] \in Nat
  <2>1. list_pairs[e] \in Nat /\ list_pairs[<<e[1], i>>] \in Nat /\ list_pairs[<<i, e[2]>>] \in Nat
    BY DEF PairBag
  <2> QED BY <2>1, NatProduct
<1>2. PairsWithout(i) \in PairBag
  <2> DEFINE through(e) == list_pairs[<<e[1], i>>] * list_pairs[<<i, e[2]>>]
  <2>1. \A e \in Intention \X Intention : list_pairs[e] \in Nat /\ through(e) \in Nat
    BY <1>1
  <2>2. PairsWithout(i) = [e \in Intention \X Intention |->
          IF e[1] = i THEN 0 ELSE (IF e[2] = i THEN 0 ELSE list_pairs[e]) + through(e)]
    BY DEF PairsWithout
  <2> HIDE DEF through
  <2> QED BY <2>1, <2>2 DEF PairBag
<1>3. ASSUME NEW j \in Intention, NEW k \in Intention
      PROVE  PairsWithout(i)[<<j, k>>] =
                IF j = i THEN 0
                ELSE (IF k = i THEN 0 ELSE list_pairs[<<j, k>>]) + list_pairs[<<j, i>>] * list_pairs[<<i, k>>]
  BY DEF PairsWithout
<1> QED BY <1>2, <1>3

\* j comes before k, once i is deleted, directly or through i.
LEMMA BeforeWithout ==
  ASSUME list_pairs \in PairBag, NEW i \in Intention,
         NEW j \in Intention, NEW k \in Intention
  PROVE  Before(PairsWithout(i), j, k) <=>
           /\ j # i
           /\ \/ k # i /\ Before(list_pairs, j, k)
              \/ Before(list_pairs, j, i) /\ Before(list_pairs, i, k)
<1>1. list_pairs[<<j, k>>] \in Nat /\ list_pairs[<<j, i>>] \in Nat /\ list_pairs[<<i, k>>] \in Nat
  BY DEF PairBag
<1>2. /\ list_pairs[<<j, i>>] * list_pairs[<<i, k>>] \in Nat
      /\ list_pairs[<<j, i>>] * list_pairs[<<i, k>>] > 0 <=> list_pairs[<<j, i>>] > 0 /\ list_pairs[<<i, k>>] > 0
  BY <1>1, NatProduct
<1> DEFINE through == list_pairs[<<j, i>>] * list_pairs[<<i, k>>]
<1>3. PairsWithout(i)[<<j, k>>] =
        IF j = i THEN 0 ELSE (IF k = i THEN 0 ELSE list_pairs[<<j, k>>]) + through
  BY PairsWithoutPairs
<1>4. through \in Nat /\ (through > 0 <=> list_pairs[<<j, i>>] > 0 /\ list_pairs[<<i, k>>] > 0)
  BY <1>2
<1> HIDE DEF through
<1>5. CASE j = i
  BY <1>3, <1>5 DEF Before
<1>6. CASE j # i /\ k = i
  BY <1>3, <1>4, <1>6 DEF Before
<1>7. CASE j # i /\ k # i
  <2>1. PairsWithout(i)[<<j, k>>] = list_pairs[<<j, k>>] + through
    BY <1>3, <1>7
  <2> QED BY <1>1, <1>4, <1>7, <2>1 DEF Before
<1> QED BY <1>5, <1>6, <1>7

LEMMA NewRootsBag ==
  ASSUME list_pairs \in PairBag, NEW i \in Intention
  PROVE  NewRoots(i) \in Bag
BY DEF NewRoots, PairBag, Bag

LEMMA EmptyBagOf ==
  /\ EmptyBag \in Bag
  /\ \A S : BagOf(S) \in Bag
BY DEF EmptyBag, BagOf, Bag

-----------------------------------------------------------------------------
(* Types *)

LEMMA WakingTypes ==
  ASSUME TypeOK, NEW i \in Intention,
         wake_up_intention(i) \/ continue_intention(i) \/ force_asleep_intention(i)
           \/ suspend_intention(i) \/ check_last_active_tib(i) \/ UNCHANGED schedVars
  PROVE  /\ sleeping' \in SUBSET Intention /\ sleeping_on_cond' \in SUBSET Intention
         /\ status' \in [Intention -> Status] /\ list_runnable' \in Bag
<1> USE DEF TypeOK, Status
<1>1. RunnableIfRoot(i) \in Bag /\ DeleteNode(list_runnable, i) \in Bag
  BY DeleteNodeBag DEF RunnableIfRoot, Bag
<1>2. CASE wake_up_intention(i)
  BY <1>1, <1>2 DEF wake_up_intention, schedVars
<1>3. CASE continue_intention(i)
  BY <1>1, <1>3 DEF continue_intention, schedVars
<1>4. CASE force_asleep_intention(i)
  BY <1>1, <1>4 DEF force_asleep_intention, schedVars
<1>5. CASE suspend_intention(i)
  BY <1>1, <1>5 DEF suspend_intention, schedVars
<1>6. CASE check_last_active_tib(i)
  BY <1>5, <1>6 DEF check_last_active_tib, schedVars
<1>7. CASE UNCHANGED schedVars
  BY <1>7 DEF schedVars
<1> QED BY <1>2, <1>3, <1>4, <1>5, <1>6, <1>7

LEMMA InsertTypes ==
  ASSUME TypeOK, NEW i \in Intention, NEW after \in SUBSET Intention, NEW before \in Bag,
         insert_intention_in_ig(i, after, before), make_intention(i),
         UNCHANGED <<csVars, loopVars>>
  PROVE  TypeOK'
<1> DEFINE root == IF after = {} THEN BagOf({i}) ELSE EmptyBag
           WithRoot(bag) == [k \in Intention |-> Minus(bag[k] + root[k], before[k])]
<1>1. root \in Bag /\ BagOf(after) \in Bag
  BY EmptyBagOf
<1>2. ASSUME NEW bag \in Bag PROVE WithRoot(bag) \in Bag
  <2>1. \A k \in Intention : bag[k] + root[k] \in Nat /\ before[k] \in Nat
    BY <1>1 DEF Bag
  <2> QED BY <2>1, MinusNat DEF Bag
<1>3. list_first' \in Bag /\ list_runnable' \in Bag
  BY <1>2 DEF TypeOK, insert_intention_in_ig
<1>4. list_pairs' \in [Intention \X Intention -> Nat]
  <2>1. ASSUME NEW e \in Intention \X Intention
        PROVE  list_pairs[e] \in Nat /\ BagOf(after)[e[1]] \in Nat /\ before[e[2]] \in Nat
    BY <1>1 DEF TypeOK, Bag
  <2> QED BY <2>1 DEF insert_intention_in_ig
<1> HIDE DEF root, WithRoot
<1> QED
  BY <1>3, <1>4
  DEF TypeOK, insert_intention_in_ig, make_intention, csVars, loopVars, Bag, Status

LEMMA DeleteTypes ==
  ASSUME TypeOK, NEW i \in Intention, delete_intention_from_ig(i),
         list_condamned' \in SUBSET Intention, UNCHANGED <<phase, todo, running>>
  PROVE  TypeOK'
<1>1. list_pairs \in PairBag
  BY DEF TypeOK, PairBag
<1>2. NewRoots(i) \in Bag /\ list_pairs' \in PairBag
  BY <1>1, NewRootsBag, PairsWithoutPairs DEF delete_intention_from_ig
<1>3. /\ DeleteNode(list_first, i) \in Bag /\ DeleteNode(list_runnable, i) \in Bag
      /\ DeleteNode(current_intentions, i) \in Bag
  BY DeleteNodeBag DEF TypeOK
<1>4. list_first' \in Bag /\ list_runnable' \in Bag
  BY <1>2, <1>3 DEF delete_intention_from_ig, Bag
<1> QED
  BY <1>2, <1>3, <1>4
  DEF TypeOK, delete_intention_from_ig, delete_intention, PairBag, Bag, Status

LEMMA ThreadTypes ==
  ASSUME TypeOK, NEW i \in Intention, NEW active \in Nat, NEW asleep \in Nat, NEW joining \in Nat,
         ReplaceThreads(i, active, asleep, joining)
  PROVE  active_tibs' \in Bag /\ asleep_tibs' \in Bag /\ joining_tibs' \in Bag
BY DEF TypeOK, ReplaceThreads, Bag

LEMMA FreeTypes ==
  ASSUME TypeOK, NEW i \in Intention, FreeThreads(i) \/ UNCHANGED csVars
  PROVE  /\ critical_section' \in Intention \cup {None, Dangling}
         /\ marked' \in SUBSET Intention /\ current_intentions' \in Bag
BY DEF TypeOK, FreeThreads, csVars

LEMMA TypeInit == Init => TypeOK
BY EmptyBagOf DEF Init, TypeOK, Status, Phase, EmptyBag, Bag

LEMMA TypeStep == TypeOK /\ [Next]_vars => TypeOK'
<1> SUFFICES ASSUME TypeOK, [Next]_vars PROVE TypeOK'
  OBVIOUS
<1> USE DEF graphVars, schedVars, tibVars, threadVars, csVars, loopVars
<1>1. CASE ResetBegin
  BY <1>1, EmptyBagOf DEF TypeOK, ResetBegin, Phase, Bag
<1>2. ASSUME NEW i \in Intention, ResetDelete(i) PROVE TypeOK'
  BY <1>2, DeleteTypes DEF ResetDelete, TypeOK, loopVars
<1>3. CASE BeginSoak
  BY <1>3, EmptyBagOf DEF TypeOK, BeginSoak, Phase, Bag
<1>4. ASSUME NEW i \in Intention, IntendSoak(i) PROVE TypeOK'
  <2>1. CASE intend_op_in_new_intention(i, {}, {})
    BY <1>4, <2>1, InsertTypes, EmptyBagOf DEF intend_op_in_new_intention, IntendSoak
  <2>2. CASE intend_decision_procedure(i)
    BY <1>4, <2>2, InsertTypes DEF intend_decision_procedure, IntendSoak, TypeOK
  <2> QED BY <1>4, <2>1, <2>2 DEF IntendSoak
<1>5. ASSUME NEW i \in Intention, WakeUpThread(i) PROVE TypeOK'
  BY <1>5, WakingTypes DEF WakeUpThread, TypeOK, Bag
<1>6. ASSUME NEW i \in Intention, SatisfyIntentionCondition(i) PROVE TypeOK'
  BY <1>6, WakingTypes DEF SatisfyIntentionCondition, TypeOK, Bag
<1>7. ASSUME NEW i \in Intention, NEW active \in Nat, NEW asleep \in Nat, NEW joining \in Nat,
             PreserveFails(i, active, asleep, joining)
      PROVE  TypeOK'
  <2>1. active_tibs' \in Bag /\ asleep_tibs' \in Bag /\ joining_tibs' \in Bag
    BY <1>7, ThreadTypes DEF PreserveFails
  <2> QED BY <1>7, <2>1, WakingTypes, FreeTypes DEF PreserveFails, TypeOK
<1>8. CASE find_current_intentions
  BY <1>8, EmptyBagOf DEF find_current_intentions, ChooseCurrent, InBag, TypeOK, Phase
<1>9. ASSUME NEW i \in Intention, BeginExecute(i) PROVE TypeOK'
  BY <1>9, DeleteNodeBag DEF BeginExecute, TypeOK
<1>10. ASSUME NEW i \in Intention, IntendAction(i) PROVE TypeOK'
  <2>1. ASSUME NEW after \in SUBSET list_intentions, NEW before \in SUBSET list_intentions,
               intend_op_in_new_intention(i, after, before)
        PROVE  TypeOK'
    BY <1>10, <2>1, InsertTypes, EmptyBagOf DEF intend_op_in_new_intention, IntendAction, TypeOK
  <2>2. CASE intend_decision_procedure(i)
    BY <1>10, <2>2, InsertTypes DEF intend_decision_procedure, IntendAction, TypeOK
  <2> QED BY <1>10, <2>1, <2>2 DEF IntendAction
<1>11. ASSUME NEW killed \in SUBSET (list_intentions \ {running}), KillAction(killed) PROVE TypeOK'
  BY <1>11 DEF KillAction, TypeOK
<1>12. ASSUME NEW i \in Intention, AsleepAction(i) PROVE TypeOK'
  BY <1>12, WakingTypes DEF AsleepAction, TypeOK, Bag
<1>13. CASE ThreadSleeps
  BY <1>13, WakingTypes DEF ThreadSleeps, Executing, TypeOK, Bag
<1>14. CASE ThreadForks
  BY <1>14, EmptyBagOf DEF TypeOK, ThreadForks, Executing, Threads, Phase, Bag
<1>15. CASE ThreadJoins
  BY <1>15, WakingTypes DEF ThreadJoins, Executing, end_critical_section, TypeOK, Bag
<1>16. ASSUME NEW joined \in Nat, LastThreadJoins(joined) PROVE TypeOK'
  BY <1>16 DEF LastThreadJoins, Executing, TypeOK, Bag
<1>17. CASE ThreadFinishes
  BY <1>17, FreeTypes DEF ThreadFinishes, Executing, end_critical_section, TypeOK, Bag
<1>18. ASSUME NEW active \in Nat, NEW asleep \in Nat, NEW joining \in Nat,
             LeaveProcedure(active, asleep, joining)
      PROVE  TypeOK'
  <2>1. active_tibs' \in Bag /\ asleep_tibs' \in Bag /\ joining_tibs' \in Bag
    BY <1>18, ThreadTypes DEF LeaveProcedure, Executing, TypeOK
  <2> QED BY <1>18, <2>1, FreeTypes DEF LeaveProcedure, Executing, TypeOK
<1>19. CASE begin_critical_section
  BY <1>19, EmptyBagOf DEF TypeOK, begin_critical_section, Executing, Phase, Bag
<1>20. CASE BeginCriticalSectionAtTop
  BY <1>20, EmptyBagOf DEF TypeOK, BeginCriticalSectionAtTop, Executing, Phase, Bag
<1>21. CASE EndCriticalSection
  BY <1>21, EmptyBagOf DEF TypeOK, EndCriticalSection, Executing, end_critical_section, Phase, Bag
<1>22. CASE EndExecute
  BY <1>22, EmptyBagOf DEF TypeOK, EndExecute, Phase, Bag
<1>23. CASE Terminate
  BY <1>23, FreeTypes DEF Terminate, Executing, TypeOK
<1>24. CASE BeginReap
  BY <1>24, EmptyBagOf DEF TypeOK, BeginReap, Phase, Bag
<1>25. ASSUME NEW i \in Intention, Reap(i) PROVE TypeOK'
  BY <1>25, DeleteTypes DEF Reap, TypeOK
<1>26. CASE EndReap
  BY <1>26, EmptyBagOf DEF TypeOK, EndReap, Phase, Bag
<1>27. CASE UNCHANGED vars
  BY <1>27 DEF TypeOK, vars
<1>28. CASE Soak
  <2>1. 0 .. MaxThreads \subseteq Nat
    OBVIOUS
  <2> QED BY <1>28, <2>1, <1>3, <1>4, <1>5, <1>6, <1>7 DEF Soak
<1>29. CASE Execute
  <2>1. 0 .. MaxThreads \subseteq Nat /\ 1 .. MaxThreads \subseteq Nat
    OBVIOUS
  <2> QED BY <1>29, <2>1, <1>9, <1>10, <1>11, <1>12, <1>13, <1>14, <1>15, <1>16, <1>17, <1>18,
             <1>19, <1>20, <1>21, <1>22, <1>23 DEF Execute
<1> QED BY <1>1, <1>2, <1>8, <1>24, <1>25, <1>26, <1>27, <1>28, <1>29 DEF Next

\* The hand-kept lists keep their types: in particular no deletion from a bag
\* makes a count negative and no list gets anything but intentions.
THEOREM TypeCorrect == Spec => []TypeOK
BY TypeInit, TypeStep, PTL DEF Spec

-----------------------------------------------------------------------------
(* Insertion *)

\* What insert_intention_in_ig does to the pairs and to the roots.
LEMMA InsertPairs ==
  ASSUME TypeOK, NEW i \in Intention, NEW after \in SUBSET Intention, NEW before \in Bag,
         insert_intention_in_ig(i, after, before),
         NEW j \in Intention, NEW k \in Intention
  PROVE  /\ list_pairs'[<<j, k>>] =
              list_pairs[<<j, k>>] + (IF k = i /\ j \in after THEN 1 ELSE 0)
                                   + (IF j = i THEN before[k] ELSE 0)
         /\ Before(list_pairs', j, k) <=>
              \/ Before(list_pairs, j, k)
              \/ k = i /\ j \in after
              \/ j = i /\ before[k] > 0
<1>1. list_pairs'[<<j, k>>] =
        list_pairs[<<j, k>>] + (IF k = i THEN BagOf(after)[j] ELSE 0)
                             + (IF j = i THEN before[k] ELSE 0)
  BY DEF insert_intention_in_ig
<1>2. BagOf(after)[j] = IF j \in after THEN 1 ELSE 0
  BY DEF BagOf
<1>3. list_pairs[<<j, k>>] \in Nat /\ before[k] \in Nat
  BY DEF TypeOK, Bag
<1>4. list_pairs'[<<j, k>>] =
        list_pairs[<<j, k>>] + (IF k = i /\ j \in after THEN 1 ELSE 0)
                             + (IF j = i THEN before[k] ELSE 0)
  BY <1>1, <1>2
<1> QED BY <1>3, <1>4 DEF Before

InsertedRoots(i, after, before, k) ==
  LET new == IF k = i /\ after = {} THEN 1 ELSE 0
  IN  /\ list_first'[k] = Minus(list_first[k] + new, before[k])
      /\ list_runnable'[k] = Minus(list_runnable[k] + new, before[k])

LEMMA InsertRoots ==
  ASSUME NEW i \in Intention, NEW after \in SUBSET Intention, NEW before \in Bag,
         insert_intention_in_ig(i, after, before), NEW k \in Intention
  PROVE  InsertedRoots(i, after, before, k)
BY DEF insert_intention_in_ig, BagOf, EmptyBag, InsertedRoots

LEMMA InsertKeepsGraph ==
  ASSUME TypeOK, GraphInv, RunnableAreActiveRoots,
         NEW i \in Intention \ list_intentions,
         NEW after \in SUBSET list_intentions, NEW before \in Bag,
         \A k \in Intention : before[k] <= 1 /\ (before[k] > 0 => k \in list_intentions),
         insert_intention_in_ig(i, after, before), make_intention(i),
         Acyclic(list_pairs'), Forest(list_pairs')
  PROVE  GraphInv' /\ RunnableAreActiveRoots'
<1> after \in SUBSET Intention
  BY DEF TypeOK
<1>1. \A j, k \in Intention : Before(list_pairs, j, k) => {j, k} \subseteq list_intentions
  BY DEF GraphInv
<1>2. list_intentions' = list_intentions \cup {i}
  BY DEF insert_intention_in_ig
<1>3. \A j, k \in Intention : Before(list_pairs', j, k) <=>
              \/ Before(list_pairs, j, k)
              \/ k = i /\ j \in after
              \/ j = i /\ before[k] > 0
  BY InsertPairs
<1>4. \A j, k \in Intention :
        Before(list_pairs', j, k) => {j, k} \subseteq list_intentions'
  BY <1>1, <1>2, <1>3
<1>5. ASSUME NEW k \in Intention
      PROVE  /\ list_first'[k] = (IF k \in list_intentions' /\ Unpreceded(k)' THEN 1 ELSE 0)
             /\ list_runnable'[k] = (IF status'[k] = "IS_ACTIVE" THEN list_first'[k] ELSE 0)
  <2> DEFINE new == IF k = i /\ after = {} THEN 1 ELSE 0
  <2>1. /\ list_first'[k] = Minus(list_first[k] + new, before[k])
        /\ list_runnable'[k] = Minus(list_runnable[k] + new, before[k])
    <3>1. InsertedRoots(i, after, before, k)
      BY InsertRoots
    <3> QED BY <3>1 DEF InsertedRoots
  <2>2. /\ list_first[k] = (IF k \in list_intentions /\ Unpreceded(k) THEN 1 ELSE 0)
        /\ list_runnable[k] = (IF status[k] = "IS_ACTIVE" THEN list_first[k] ELSE 0)
    BY DEF GraphInv, RootsAreUnblocked, RunnableAreActiveRoots
  <2>3. before[k] \in {0, 1} /\ (before[k] = 1 => k \in list_intentions)
    BY DEF Bag
  <2>4. CASE k = i
    <3>1. list_first[k] = 0 /\ list_runnable[k] = 0 /\ before[k] = 0
      BY <2>2, <2>3, <2>4
    <3>2. list_first'[k] = new /\ list_runnable'[k] = new
      BY <2>1, <3>1 DEF Minus
    <3>3. Unpreceded(k)' <=> after = {}
      BY <1>1, <1>3, <2>4, <3>1 DEF Unpreceded
    <3>4. status'[k] = "IS_ACTIVE"
      BY <2>4 DEF make_intention, TypeOK
    <3> QED BY <1>2, <2>4, <3>2, <3>3, <3>4
  <2>5. CASE k # i /\ before[k] = 1
    <3>1. list_first'[k] = 0 /\ list_runnable'[k] = 0
      BY <2>1, <2>2, <2>5 DEF Minus
    <3>2. ~Unpreceded(k)'
      BY <1>3, <2>5 DEF Unpreceded
    <3> QED BY <3>1, <3>2
  <2>6. CASE k # i /\ before[k] = 0
    <3>1. list_first'[k] = list_first[k] /\ list_runnable'[k] = list_runnable[k]
      BY <2>1, <2>2, <2>6 DEF Minus
    <3>2. Unpreceded(k)' <=> Unpreceded(k)
      BY <1>3, <2>6 DEF Unpreceded
    <3>3. status'[k] = status[k]
      BY <2>6 DEF make_intention, TypeOK
    <3> QED BY <1>2, <2>2, <2>6, <3>1, <3>2, <3>3
  <2> QED BY <2>3, <2>4, <2>5, <2>6
<1>6. RootsAreUnblocked' /\ RunnableAreActiveRoots'
  BY <1>5 DEF RootsAreUnblocked, RunnableAreActiveRoots
<1> QED BY <1>4, <1>6 DEF GraphInv, PartialOrder

\* A decision procedure goes before all the roots: that closes no cycle, and
\* the roots waited for nothing.
LEMMA DecisionKeepsForest ==
  ASSUME TypeOK, GraphInv, NEW i \in Intention \ list_intentions,
         insert_intention_in_ig(i, {}, list_first)
  PROVE  Acyclic(list_pairs') /\ Forest(list_pairs')
<1>1. \A j, k \in Intention : Before(list_pairs, j, k) => j # i /\ k # i
  BY DEF GraphInv
<1>2. list_first \in Bag
  BY DEF TypeOK
<1>3. ASSUME NEW j \in Intention, NEW k \in Intention
      PROVE  /\ list_pairs'[<<j, k>>] = list_pairs[<<j, k>>] + (IF j = i THEN list_first[k] ELSE 0)
             /\ Before(list_pairs', j, k) <=> Before(list_pairs, j, k) \/ (j = i /\ list_first[k] > 0)
  <2>1. list_pairs[<<j, k>>] \in Nat /\ list_first[k] \in Nat
    BY DEF TypeOK, Bag
  <2> QED BY <1>2, <2>1, InsertPairs
<1>4. \A k \in Intention : list_first[k] = IF k \in list_intentions /\ Unpreceded(k) THEN 1 ELSE 0
  BY DEF GraphInv, RootsAreUnblocked
<1>5. Acyclic(list_pairs')
  <2> SUFFICES ASSUME NEW S \in (SUBSET Intention) \ {{}}
               PROVE  \E x \in S : \A y \in S : ~Before(list_pairs', y, x)
    BY DEF Acyclic
  <2>1. CASE i \in S
    <3>1. list_first[i] = 0
      BY <1>4
    <3>2. ASSUME NEW y \in Intention PROVE ~Before(list_pairs', y, i)
      <4>1. ~Before(list_pairs, y, i) /\ ~(list_first[i] > 0)
        BY <1>1, <3>1
      <4> QED BY <1>3, <4>1
    <3> QED BY <2>1, <3>2
  <2>2. CASE i \notin S
    <3>1. PICK x \in S : \A y \in S : ~Before(list_pairs, y, x)
      BY DEF GraphInv, PartialOrder, Acyclic
    <3> QED BY <1>3, <2>2, <3>1
  <2> QED BY <2>1, <2>2
<1>6. Forest(list_pairs')
  <2>1. ASSUME NEW j \in Intention, NEW k \in Intention
        PROVE  list_pairs'[<<j, k>>] <= 1
    <3>1. list_pairs[<<j, k>>] \in Nat /\ list_pairs[<<j, k>>] <= 1
      BY DEF GraphInv, Forest, TypeOK
    <3>2. j = i => list_pairs[<<j, k>>] = 0
      BY <1>1, <3>1 DEF Before
    <3> QED BY <1>3, <1>4, <3>1, <3>2
  <2>2. ASSUME NEW j \in Intention, NEW k \in Intention, NEW l \in Intention,
               Before(list_pairs', j, l), Before(list_pairs', k, l)
        PROVE  j = k
    <3>1. list_first[l] > 0 => Unpreceded(l)
      BY <1>4
    <3>2. Before(list_pairs, j, l) /\ Before(list_pairs, k, l) => j = k
      BY DEF GraphInv, Forest
    <3> QED BY <1>3, <2>2, <3>1, <3>2 DEF Unpreceded
  <2> QED BY <2>1, <2>2 DEF Forest
<1> QED BY <1>5, <1>6

-----------------------------------------------------------------------------
(* Deletion *)

LEMMA NotBeforeItself ==
  ASSUME NEW i \in Intention, Acyclic(list_pairs)
  PROVE  ~Before(list_pairs, i, i)
<1>1. {i} \in (SUBSET Intention) \ {{}}
  OBVIOUS
<1>2. PICK x \in {i} : \A y \in {i} : ~Before(list_pairs, y, x)
  BY <1>1 DEF Acyclic
<1> QED BY <1>2

\* Deleting i closes no cycle: one through i would have been there before.
LEMMA DeleteKeepsAcyclic ==
  ASSUME list_pairs \in PairBag, Acyclic(list_pairs), NEW i \in Intention
  PROVE  Acyclic(PairsWithout(i))
<1> SUFFICES ASSUME NEW S \in (SUBSET Intention) \ {{}}
             PROVE  \E x \in S : \A y \in S : ~Before(PairsWithout(i), y, x)
  BY DEF Acyclic
<1>1. \A j, k \in Intention : Before(PairsWithout(i), j, k) =>
        /\ j # i
        /\ \/ k # i /\ Before(list_pairs, j, k)
           \/ Before(list_pairs, j, i) /\ Before(list_pairs, i, k)
  BY BeforeWithout
<1>2. PICK x \in S \cup {i} : \A y \in S \cup {i} : ~Before(list_pairs, y, x)
  BY DEF Acyclic
<1>3. CASE x \in S
  BY <1>1, <1>2, <1>3
<1>4. CASE x = i /\ i \notin S
  <2>1. PICK z \in S : \A y \in S : ~Before(list_pairs, y, z)
    BY DEF Acyclic
  <2> QED BY <1>1, <1>2, <1>4, <2>1
<1> QED BY <1>2, <1>3, <1>4

LEMMA DeleteKeepsForest ==
  ASSUME list_pairs \in PairBag, Acyclic(list_pairs), Forest(list_pairs), NEW i \in Intention
  PROVE  Forest(PairsWithout(i))
<1>1. \A j, k \in Intention :
        Before(PairsWithout(i), j, k) =>
          /\ j # i
          /\ \/ k # i /\ Before(list_pairs, j, k)
             \/ Before(list_pairs, j, i) /\ Before(list_pairs, i, k)
  BY BeforeWithout
<1>2. \A j, k, l \in Intention :
        Before(list_pairs, j, l) /\ Before(list_pairs, k, l) => j = k
  BY DEF Forest
<1>3. ~Before(list_pairs, i, i)
  BY NotBeforeItself
<1>4. ASSUME NEW j \in Intention, NEW k \in Intention
      PROVE  PairsWithout(i)[<<j, k>>] <= 1
  <2> DEFINE through == list_pairs[<<j, i>>] * list_pairs[<<i, k>>]
  <2>1. /\ list_pairs[<<j, k>>] \in {0, 1} /\ list_pairs[<<j, i>>] \in {0, 1}
        /\ list_pairs[<<i, k>>] \in {0, 1}
    BY DEF PairBag, Forest
  <2>2. through \in {0, 1} /\ (through = 1 => list_pairs[<<i, k>>] = 1)
    BY <2>1
  <2>3. PairsWithout(i)[<<j, k>>] =
          IF j = i THEN 0 ELSE (IF k = i THEN 0 ELSE list_pairs[<<j, k>>]) + through
    BY PairsWithoutPairs
  <2> HIDE DEF through
  <2>4. CASE j = i \/ k = i \/ through = 0
    BY <2>1, <2>2, <2>3, <2>4
  <2>5. CASE j # i /\ k # i /\ through = 1
    <3>1. Before(list_pairs, i, k)
      BY <2>2, <2>5 DEF Before
    <3>2. list_pairs[<<j, k>>] = 0
      BY <1>2, <2>1, <2>5, <3>1 DEF Before
    <3> QED BY <2>3, <2>5, <3>2
  <2> QED BY <2>2, <2>4, <2>5
<1>5. ASSUME NEW j \in Intention, NEW k \in Intention, NEW l \in Intention,
             Before(PairsWithout(i), j, l), Before(PairsWithout(i), k, l)
      PROVE  j = k
  BY <1>1, <1>2, <1>5
<1> QED BY <1>4, <1>5 DEF Forest

LEMMA DeleteKeepsGraph ==
  ASSUME TypeOK, GraphInv, RunnableAreActiveRoots, SleepersAgree,
         NEW i \in Intention, delete_intention_from_ig(i)
  PROVE  GraphInv' /\ RunnableAreActiveRoots'
<1>1. list_pairs \in PairBag /\ Acyclic(list_pairs) /\ Forest(list_pairs)
  BY DEF TypeOK, PairBag, GraphInv, PartialOrder
<1>2. list_pairs' = PairsWithout(i) /\ list_intentions' = list_intentions \ {i}
  BY DEF delete_intention_from_ig
<1>3. Acyclic(list_pairs') /\ Forest(list_pairs')
  BY <1>1, <1>2, DeleteKeepsAcyclic, DeleteKeepsForest
<1>4. \A j, k \in Intention : Before(list_pairs, j, k) => {j, k} \subseteq list_intentions
  BY DEF GraphInv
<1>5. ~Before(list_pairs, i, i)
  BY <1>1, NotBeforeItself
<1>6. \A j, k \in Intention : Before(list_pairs', j, k) <=>
        /\ j # i /\ k # i
        /\ Before(list_pairs, j, k) \/ (Before(list_pairs, j, i) /\ Before(list_pairs, i, k))
  BY <1>1, <1>2, <1>5, BeforeWithout
<1>7. \A j, k \in Intention : Before(list_pairs', j, k) => {j, k} \subseteq list_intentions'
  BY <1>2, <1>4, <1>6
<1>8. ASSUME NEW k \in Intention
      PROVE  /\ list_first'[k] = (IF k \in list_intentions' /\ Unpreceded(k)' THEN 1 ELSE 0)
             /\ list_runnable'[k] = (IF status'[k] = "IS_ACTIVE" THEN list_first'[k] ELSE 0)
  <2>1. /\ \A l \in Intention :
              list_first[l] = (IF l \in list_intentions /\ Unpreceded(l) THEN 1 ELSE 0)
        /\ list_runnable[k] = (IF status[k] = "IS_ACTIVE" THEN list_first[k] ELSE 0)
    BY DEF GraphInv, RootsAreUnblocked, RunnableAreActiveRoots
  <2>2. NewRoots(i)[k] = IF list_first[i] > 0 /\ Unpreceded(k)' THEN list_pairs[<<i, k>>] ELSE 0
    BY <1>2 DEF NewRoots, Unpreceded
  <2>3. list_pairs[<<i, k>>] \in {0, 1} /\ (list_pairs[<<i, k>>] = 1 <=> Before(list_pairs, i, k))
    BY <1>1 DEF PairBag, Forest, Before
  <2>4. /\ DeleteNode(list_first, i)[k] = IF k = i THEN Minus(list_first[k], 1) ELSE list_first[k]
        /\ DeleteNode(list_runnable, i)[k] = IF k = i THEN Minus(list_runnable[k], 1) ELSE list_runnable[k]
    BY DeleteNodeBag DEF TypeOK
  <2>5. /\ list_first'[k] = DeleteNode(list_first, i)[k] + NewRoots(i)[k]
        /\ list_runnable'[k] = DeleteNode(list_runnable, i)[k]
                                 + (IF k \in sleeping \ {i} THEN 0 ELSE NewRoots(i)[k])
    BY DEF delete_intention_from_ig
  <2>6. CASE k = i
    <3>1. NewRoots(i)[k] = 0
      BY <1>5, <2>2, <2>3, <2>6
    <3>2. Minus(list_first[k], 1) = 0 /\ Minus(list_runnable[k], 1) = 0
      BY <2>1 DEF Minus
    <3> QED BY <1>2, <2>4, <2>5, <2>6, <3>1, <3>2
  <2>7. CASE k # i
    <3>1. status'[k] = status[k]
      BY <2>7 DEF delete_intention_from_ig, delete_intention, TypeOK
    <3>2. /\ list_first'[k] = list_first[k] + NewRoots(i)[k]
          /\ list_runnable'[k] = list_runnable[k] + (IF k \in sleeping THEN 0 ELSE NewRoots(i)[k])
      BY <2>4, <2>5, <2>7
    <3>3. CASE ~Before(list_pairs, i, k)
      <4>1. NewRoots(i)[k] = 0
        BY <2>2, <2>3, <3>3
      <4>2. Unpreceded(k)' <=> Unpreceded(k)
        BY <1>6, <2>7, <3>3 DEF Unpreceded
      <4>3. list_first'[k] = list_first[k] /\ list_runnable'[k] = list_runnable[k]
        BY <2>1, <3>2, <4>1
      <4> QED BY <1>2, <2>1, <2>7, <3>1, <4>2, <4>3
    <3>4. CASE Before(list_pairs, i, k)
      <4>1. list_first[k] = 0 /\ list_runnable[k] = 0
        BY <2>1, <3>4 DEF Unpreceded
      <4>2. k \in list_intentions /\ i \in list_intentions
        BY <1>4, <3>4
      <4>3. Unpreceded(k)' <=> Unpreceded(i)
        <5>1. \A j \in Intention : Before(list_pairs, j, k) => j = i
          BY <3>4 DEF GraphInv, Forest
        <5> QED BY <1>5, <1>6, <2>7, <3>4, <5>1 DEF Unpreceded
      <4>4. NewRoots(i)[k] = IF Unpreceded(k)' THEN 1 ELSE 0
        BY <2>1, <2>2, <2>3, <3>4, <4>2, <4>3
      <4>5. k \in sleeping <=> status[k] # "IS_ACTIVE"
        BY <4>2 DEF SleepersAgree
      <4> QED BY <1>2, <2>7, <3>1, <3>2, <4>1, <4>2, <4>4, <4>5
    <3> QED BY <3>3, <3>4
  <2> QED BY <2>6, <2>7
<1>9. RootsAreUnblocked' /\ RunnableAreActiveRoots'
  BY <1>8 DEF RootsAreUnblocked, RunnableAreActiveRoots
<1> QED BY <1>3, <1>7, <1>9 DEF GraphInv, PartialOrder

-----------------------------------------------------------------------------
(* The inductive invariant *)

\* Where nothing is put to sleep or woken, only a thread of an intention that
\* has active threads may go or come.
LEMMA FrameSched ==
  ASSUME GraphInv, SchedInv, UNCHANGED <<graphVars, schedVars, conds>>,
         \A i \in list_intentions : active_tibs'[i] # active_tibs[i] => active_tibs[i] > 0
  PROVE  GraphInv' /\ SchedInv'
<1>1. GraphInv' /\ RunnableAreActiveRoots' /\ SleepersAgree'
  BY DEF GraphInv, PartialOrder, RootsAreUnblocked, Unpreceded, SchedInv,
         RunnableAreActiveRoots, SleepersAgree, graphVars, schedVars
<1>2. SuspendedHaveNoThread'
  BY DEF SchedInv, SuspendedHaveNoThread, graphVars, schedVars
<1> QED BY <1>1, <1>2 DEF SchedInv

\* Waking up a suspended intention, one of whose threads is active again.
LEMMA ContinueKeepsSched ==
  ASSUME TypeOK, GraphInv, SchedInv, NEW i \in list_intentions,
         continue_intention(i), UNCHANGED <<graphVars, conds>>,
         \A k \in list_intentions : k # i => active_tibs'[k] = active_tibs[k]
  PROVE  GraphInv' /\ SchedInv'
<1> USE DEF TypeOK, graphVars, schedVars
<1>1. GraphInv'
  BY DEF GraphInv, PartialOrder, RootsAreUnblocked, Unpreceded
<1>2. RunnableAreActiveRoots'
  <2>1. ASSUME NEW k \in Intention
        PROVE  list_runnable'[k] = IF status'[k] = "IS_ACTIVE" THEN list_first[k] ELSE 0
    <3>1. list_runnable[k] = IF status[k] = "IS_ACTIVE" THEN list_first[k] ELSE 0
      BY DEF SchedInv, RunnableAreActiveRoots
    <3>2. list_first[k] \in {0, 1}
      BY DEF GraphInv, RootsAreUnblocked
    <3> QED BY <3>1, <3>2 DEF continue_intention, RunnableIfRoot, Bag
  <2> QED BY <2>1 DEF RunnableAreActiveRoots
<1>3. SleepersAgree'
  BY DEF SchedInv, SleepersAgree, continue_intention
<1>4. SuspendedHaveNoThread'
  BY DEF SchedInv, SuspendedHaveNoThread, continue_intention
<1> QED BY <1>1, <1>2, <1>3, <1>4 DEF SchedInv

\* The last condition of i is satisfied, or one that is not the last.
LEMMA ConditionKeepsSched ==
  ASSUME TypeOK, GraphInv, SchedInv, NEW i \in Intention, SatisfyIntentionCondition(i)
  PROVE  GraphInv' /\ SchedInv'
<1> USE DEF TypeOK, graphVars, schedVars, tibVars, SatisfyIntentionCondition, wake_up_intention
<1>1. GraphInv'
  BY DEF GraphInv, PartialOrder, RootsAreUnblocked, Unpreceded
<1>2. RunnableAreActiveRoots'
  <2>1. ASSUME NEW k \in Intention
        PROVE  list_runnable'[k] = IF status'[k] = "IS_ACTIVE" THEN list_first[k] ELSE 0
    <3>1. list_runnable[k] = IF status[k] = "IS_ACTIVE" THEN list_first[k] ELSE 0
      BY DEF SchedInv, RunnableAreActiveRoots
    <3>2. list_first[k] \in {0, 1}
      BY DEF GraphInv, RootsAreUnblocked
    <3> QED BY <3>1, <3>2 DEF RunnableIfRoot, Bag
  <2> QED BY <2>1 DEF RunnableAreActiveRoots
<1>3. SleepersAgree'
  <2>1. ASSUME NEW k \in list_intentions
        PROVE  /\ k \in sleeping' <=> status'[k] # "IS_ACTIVE"
               /\ k \in sleeping_on_cond' <=> status'[k] \in {"IS_SLEEPING", "IS_SUSP_SLEEPING"}
               /\ k \in sleeping_on_cond' <=> conds'[k] > 0
    BY DEF SchedInv, SleepersAgree, Bag, Status
  <2>2. sleeping' \subseteq list_intentions /\ sleeping_on_cond' \subseteq list_intentions
    BY DEF SchedInv, SleepersAgree
  <2> QED BY <2>1, <2>2 DEF SleepersAgree
<1>4. SuspendedHaveNoThread'
  BY DEF SchedInv, SuspendedHaveNoThread
<1> QED BY <1>1, <1>2, <1>3, <1>4 DEF SchedInv

\* A condition is installed on i, asleep or not, suspended or not.
LEMMA AsleepKeepsSched ==
  ASSUME TypeOK, GraphInv, SchedInv, NEW i \in Intention, AsleepAction(i)
  PROVE  GraphInv' /\ SchedInv'
<1> USE DEF TypeOK, graphVars, schedVars, tibVars, AsleepAction, force_asleep_intention
<1>1. GraphInv'
  BY DEF GraphInv, PartialOrder, RootsAreUnblocked, Unpreceded
<1>2. RunnableAreActiveRoots'
  <2>1. ASSUME NEW k \in Intention
        PROVE  list_runnable'[k] = IF status'[k] = "IS_ACTIVE" THEN list_first[k] ELSE 0
    <3>1. list_runnable[k] = IF status[k] = "IS_ACTIVE" THEN list_first[k] ELSE 0
      BY DEF SchedInv, RunnableAreActiveRoots
    <3>2. list_first[k] \in {0, 1}
      BY DEF GraphInv, RootsAreUnblocked
    <3> QED BY <3>1, <3>2 DEF DeleteNode, Minus, Bag
  <2> QED BY <2>1 DEF RunnableAreActiveRoots
<1>3. SleepersAgree'
  <2>1. ASSUME NEW k \in list_intentions
        PROVE  /\ k \in sleeping' <=> status'[k] # "IS_ACTIVE"
               /\ k \in sleeping_on_cond' <=> status'[k] \in {"IS_SLEEPING", "IS_SUSP_SLEEPING"}
               /\ k \in sleeping_on_cond' <=> conds'[k] > 0
    BY DEF SchedInv, SleepersAgree, Bag, Status
  <2>2. sleeping' \subseteq list_intentions /\ sleeping_on_cond' \subseteq list_intentions
    BY DEF SchedInv, SleepersAgree
  <2> QED BY <2>1, <2>2 DEF SleepersAgree
<1>4. SuspendedHaveNoThread'
  BY DEF SchedInv, SuspendedHaveNoThread
<1> QED BY <1>1, <1>2, <1>3, <1>4 DEF SchedInv

\* An active thread of i stops, which suspends i if it was the last one.
LEMMA SuspendKeepsSched ==
  ASSUME TypeOK, GraphInv, SchedInv, NEW i \in list_intentions,
         check_last_active_tib(i), UNCHANGED <<graphVars, conds>>,
         active_tibs[i] > 0, active_tibs' = [active_tibs EXCEPT ![i] = @ - 1]
  PROVE  GraphInv' /\ SchedInv'
<1> USE DEF TypeOK, graphVars, schedVars, check_last_active_tib, suspend_intention
<1>1. GraphInv'
  BY DEF GraphInv, PartialOrder, RootsAreUnblocked, Unpreceded
<1>2. RunnableAreActiveRoots'
  <2>1. ASSUME NEW k \in Intention
        PROVE  list_runnable'[k] = IF status'[k] = "IS_ACTIVE" THEN list_first[k] ELSE 0
    <3>1. list_runnable[k] = IF status[k] = "IS_ACTIVE" THEN list_first[k] ELSE 0
      BY DEF SchedInv, RunnableAreActiveRoots
    <3>2. list_first[k] \in {0, 1}
      BY DEF GraphInv, RootsAreUnblocked
    <3> QED BY <3>1, <3>2 DEF DeleteNode, Minus, Bag
  <2> QED BY <2>1 DEF RunnableAreActiveRoots
<1>3. SleepersAgree'
  <2>1. ASSUME NEW k \in list_intentions
        PROVE  /\ k \in sleeping' <=> status'[k] # "IS_ACTIVE"
               /\ k \in sleeping_on_cond' <=> status'[k] \in {"IS_SLEEPING", "IS_SUSP_SLEEPING"}
    BY DEF SchedInv, SleepersAgree
  <2>2. sleeping' \subseteq list_intentions /\ sleeping_on_cond' = sleeping_on_cond
    BY DEF SchedInv, SleepersAgree
  <2> QED BY <2>1, <2>2 DEF SchedInv, SleepersAgree
<1>4. SuspendedHaveNoThread'
  BY DEF SchedInv, SuspendedHaveNoThread, Bag
<1> QED BY <1>1, <1>2, <1>3, <1>4 DEF SchedInv

\* An insertion, by the soak or by an action of the running intention.
LEMMA InsertKeepsIInv ==
  ASSUME Lists = "tree", IInv, NEW i \in Intention,
         NEW after \in SUBSET list_intentions, NEW before \in SUBSET list_intentions,
         intend_op_in_new_intention(i, after, before) \/ intend_decision_procedure(i),
         UNCHANGED <<csVars, loopVars>>
  PROVE  GraphInv' /\ SchedInv' /\ LoopInv' /\ SectionInv'
<1>1. i \notin list_intentions /\ make_intention(i)
  BY DEF intend_op_in_new_intention, intend_decision_procedure, MayCreate
<1>2. list_intentions' = list_intentions \cup {i}
  BY DEF intend_op_in_new_intention, intend_decision_procedure, insert_intention_in_ig
<1>3. GraphInv' /\ RunnableAreActiveRoots'
  <2>1. CASE intend_op_in_new_intention(i, after, before)
    <3>1. /\ BagOf(before) \in Bag
          /\ \A k \in Intention :
               BagOf(before)[k] <= 1 /\ (BagOf(before)[k] > 0 => k \in list_intentions)
      BY EmptyBagOf DEF BagOf
    <3>2. insert_intention_in_ig(i, after, BagOf(before))
      BY <2>1 DEF intend_op_in_new_intention
    <3>3. Acyclic(list_pairs') /\ Forest(list_pairs')
      BY <2>1 DEF intend_op_in_new_intention, WellOrdered
    <3> QED BY <1>1, <3>1, <3>2, <3>3, InsertKeepsGraph DEF IInv, SchedInv
  <2>2. CASE intend_decision_procedure(i)
    <3>1. /\ list_first \in Bag
          /\ \A k \in Intention : list_first[k] <= 1 /\ (list_first[k] > 0 => k \in list_intentions)
      BY DEF IInv, TypeOK, GraphInv, RootsAreUnblocked
    <3>2. insert_intention_in_ig(i, {}, list_first)
      BY <2>2 DEF intend_decision_procedure
    <3>3. Acyclic(list_pairs') /\ Forest(list_pairs')
      BY <1>1, <3>2, DecisionKeepsForest DEF IInv
    <3>4. {} \in SUBSET list_intentions
      OBVIOUS
    <3> QED BY <1>1, <3>1, <3>2, <3>3, <3>4, InsertKeepsGraph DEF IInv, SchedInv
  <2> QED BY <2>1, <2>2
<1>4. SleepersAgree' /\ SuspendedHaveNoThread'
  <2>1. /\ status'[i] = "IS_ACTIVE" /\ conds'[i] = 0 /\ active_tibs'[i] = 1
        /\ \A k \in list_intentions :
             status'[k] = status[k] /\ conds'[k] = conds[k] /\ active_tibs'[k] = active_tibs[k]
        /\ UNCHANGED <<sleeping, sleeping_on_cond>>
    BY <1>1 DEF make_intention, IInv, TypeOK, Bag
  <2>2. i \notin sleeping /\ i \notin sleeping_on_cond
    BY <1>1 DEF IInv, SchedInv, SleepersAgree
  <2>3. SleepersAgree'
    BY <1>2, <2>1, <2>2 DEF IInv, SchedInv, SleepersAgree
  <2>4. SuspendedHaveNoThread'
    BY <1>2, <2>1 DEF IInv, SchedInv, SuspendedHaveNoThread
  <2> QED BY <2>3, <2>4
<1>5. LoopInv'
  BY <1>2 DEF IInv, LoopInv, csVars, loopVars, InBag
<1>6. SectionInv'
  BY <1>2 DEF IInv, SectionInv, SectionOwner, csVars, loopVars, InBag, BagOf
<1> QED BY <1>3, <1>4, <1>5, <1>6 DEF SchedInv

\* A deletion, by the reset command or at the end of activate: the intention
\* leaves every list, and the critical section if it had it.
LEMMA DeleteKeepsIInv ==
  ASSUME IInv, NEW i \in Intention, delete_intention_from_ig(i), phase \in {"reset", "reap"},
         UNCHANGED <<phase, todo, running>>,
         list_condamned' = list_condamned \ {i}
  PROVE  GraphInv' /\ SchedInv' /\ LoopInv' /\ SectionInv'
<1>1. GraphInv' /\ RunnableAreActiveRoots'
  BY DeleteKeepsGraph DEF IInv, SchedInv
<1>2. SleepersAgree' /\ SuspendedHaveNoThread'
  BY DEF IInv, SchedInv, SleepersAgree, SuspendedHaveNoThread, TypeOK,
         delete_intention_from_ig, delete_intention
<1>3. ASSUME NEW k \in Intention
      PROVE  current_intentions'[k] = IF k = i THEN 0 ELSE current_intentions[k]
  <2>1. current_intentions \in Bag /\ current_intentions[i] <= 1
    BY DEF IInv, TypeOK, LoopInv
  <2>2. Minus(current_intentions[i], 1) = 0
    BY <2>1 DEF Minus, Bag
  <2> QED BY <2>1, <2>2, DeleteNodeBag DEF delete_intention_from_ig
<1>4. running = None /\ todo = EmptyBag
  BY DEF IInv, LoopInv
<1>5. LoopInv'
  BY <1>3, <1>4 DEF IInv, LoopInv, InBag, EmptyBag, delete_intention_from_ig
<1>6. SectionInv'
  <2>1. InBag(todo') = {} /\ running' = None
    BY <1>4 DEF InBag, EmptyBag
  <2>2. marked' \subseteq {critical_section'} /\ (critical_section' = None => marked' = {})
    BY DEF IInv, SectionInv, SectionOwner, TypeOK, delete_intention_from_ig, delete_intention
  <2>3. ASSUME critical_section' \in Intention
        PROVE  /\ critical_section' \in list_intentions'
               /\ current_intentions' = BagOf({critical_section'})
    <3>1. critical_section' = critical_section /\ critical_section # i
      BY <2>3, IntentionAssumption DEF delete_intention_from_ig, delete_intention
    <3>2. critical_section \in list_intentions /\ current_intentions = BagOf({critical_section})
      BY <2>3, <3>1 DEF IInv, SectionInv, SectionOwner
    <3>3. current_intentions' \in [Intention -> Nat]
      BY DeleteNodeBag DEF IInv, TypeOK, delete_intention_from_ig, Bag
    <3>4. \A k \in Intention : current_intentions'[k] = BagOf({critical_section})[k]
      BY <1>3, <3>1, <3>2 DEF BagOf
    <3>5. current_intentions' = BagOf({critical_section})
      BY <3>3, <3>4 DEF BagOf
    <3> QED BY <3>1, <3>2, <3>5 DEF delete_intention_from_ig
  <2> QED BY <2>1, <2>2, <2>3 DEF SectionInv, SectionOwner
<1> QED BY <1>1, <1>2, <1>5, <1>6 DEF SchedInv

\* Nothing is chosen during a critical section, but a section without current
\* intention ends.
LEMMA ChooseKeepsIInv ==
  ASSUME IInv, find_current_intentions
  PROVE  LoopInv' /\ SectionInv'
<1> USE DEF IInv, find_current_intentions, ChooseCurrent, graphVars, schedVars
<1>1. /\ InBag(current_intentions') \subseteq list_intentions
      /\ \A i \in Intention : current_intentions'[i] <= 1
  <2>1. \A i \in Intention :
          list_runnable[i] \in {0, 1} /\ (list_runnable[i] = 1 => i \in list_intentions)
    BY DEF GraphInv, RootsAreUnblocked, SchedInv, RunnableAreActiveRoots
  <2>2. CASE UNCHANGED current_intentions
    BY <2>2 DEF LoopInv, InBag
  <2>3. CASE current_intentions' = list_runnable
    BY <2>1, <2>3 DEF InBag
  <2>4. CASE current_intentions' = EmptyBag
    BY <2>4 DEF InBag, EmptyBag
  <2>5. ASSUME NEW i \in InBag(list_runnable), current_intentions' = BagOf({i})
        PROVE  /\ InBag(current_intentions') \subseteq list_intentions
               /\ \A k \in Intention : current_intentions'[k] <= 1
    <3>1. i \in list_intentions
      BY <2>1 DEF InBag
    <3> QED BY <2>5, <3>1 DEF InBag, BagOf
  <2> QED BY <2>2, <2>3, <2>4, <2>5
<1>2. LoopInv'
  BY <1>1 DEF LoopInv
<1>3. SectionInv'
  <2>1. CASE critical_section # None
    <3>1. critical_section' \in {None, critical_section} /\ UNCHANGED <<current_intentions, marked>>
      BY <2>1
    <3>2. critical_section' = None => marked = {}
      <4>1. ASSUME critical_section' = None PROVE marked = {}
        <5>1. current_intentions = EmptyBag
          BY <2>1, <4>1
        <5>2. critical_section \notin Intention
          BY <5>1 DEF SectionInv, SectionOwner, BagOf, EmptyBag
        <5> QED BY <5>2 DEF SectionInv, SectionOwner, TypeOK
      <4> QED BY <4>1
    <3>3. critical_section' \in Intention => InBag(todo') = {critical_section'} /\ running' = None
      BY <2>1, <3>1, IntentionAssumption DEF SectionInv, SectionOwner, InBag, BagOf, LoopInv
    <3> QED BY <3>1, <3>2, <3>3, IntentionAssumption DEF SectionInv, SectionOwner
  <2>2. CASE critical_section = None
    BY <2>2, IntentionAssumption DEF SectionInv, SectionOwner
  <2> QED BY <2>1, <2>2
<1> QED BY <1>2, <1>3

\* Freeing threads of i, or leaving the section alone.
LEMMA FreeKeepsSection ==
  ASSUME TypeOK, SectionOwner, NEW i \in Intention, FreeThreads(i) \/ UNCHANGED csVars,
         UNCHANGED list_intentions
  PROVE  /\ SectionOwner' /\ UNCHANGED current_intentions
         /\ critical_section' \in Intention => critical_section' = critical_section
BY IntentionAssumption DEF TypeOK, SectionOwner, FreeThreads, csVars

\* Nothing but threads change: activate's lists and the section stay.
LEMMA FrameLoop ==
  ASSUME LoopInv, SectionInv, UNCHANGED <<list_intentions, csVars, loopVars>>
  PROVE  LoopInv' /\ SectionInv'
BY DEF LoopInv, SectionInv, SectionOwner, csVars, loopVars

LEMMA InvInit == Lists = "tree" /\ Init => IInv
<1> SUFFICES ASSUME Init PROVE IInv
  OBVIOUS
<1>1. TypeOK
  BY TypeInit
<1>2. \A j, k \in Intention : list_pairs[<<j, k>>] = 0
  BY DEF Init
<1>3. GraphInv
  BY <1>2 DEF Init, GraphInv, PartialOrder, Acyclic, Forest, Before, RootsAreUnblocked, EmptyBag
<1>4. SchedInv
  BY DEF Init, SchedInv, RunnableAreActiveRoots, SleepersAgree, SuspendedHaveNoThread, EmptyBag
<1>5. LoopInv
  BY DEF Init, LoopInv, InBag, EmptyBag
<1>6. SectionInv
  BY IntentionAssumption DEF Init, SectionInv, SectionOwner
<1> QED BY <1>1, <1>3, <1>4, <1>5, <1>6 DEF IInv

LEMMA InvStep == Lists = "tree" /\ IInv /\ [Next]_vars => IInv'
<1> SUFFICES ASSUME Lists = "tree", IInv, [Next]_vars
             PROVE  GraphInv' /\ SchedInv' /\ LoopInv' /\ SectionInv'
  BY TypeStep DEF IInv
<1> DEFINE Kept == GraphInv' /\ SchedInv' /\ LoopInv' /\ SectionInv'
<1> USE DEF graphVars, schedVars, tibVars, threadVars, csVars, loopVars
<1>0. /\ TypeOK /\ GraphInv /\ SchedInv /\ LoopInv /\ SectionInv
      /\ running # None => running \in list_intentions
  BY DEF IInv, LoopInv
<1>1. CASE ResetBegin
  <2>1. GraphInv' /\ SchedInv'
    BY <1>0, <1>1, FrameSched DEF ResetBegin
  <2>2. LoopInv' /\ SectionInv'
    BY <1>0, <1>1 DEF ResetBegin, LoopInv, SectionInv, SectionOwner
  <2> QED BY <2>1, <2>2
<1>2. ASSUME NEW i \in Intention, ResetDelete(i) PROVE Kept
  <2>1. list_condamned = {} /\ phase = "reset"
    BY <1>0, <1>2 DEF ResetDelete, LoopInv
  <2>2. list_condamned' = list_condamned \ {i} /\ delete_intention_from_ig(i)
    BY <1>2, <2>1 DEF ResetDelete
  <2> QED BY <1>2, <2>1, <2>2, DeleteKeepsIInv DEF ResetDelete
<1>3. CASE BeginSoak
  <2>1. GraphInv' /\ SchedInv'
    BY <1>0, <1>3, FrameSched DEF BeginSoak
  <2>2. LoopInv' /\ SectionInv'
    BY <1>0, <1>3 DEF BeginSoak, LoopInv, SectionInv, SectionOwner
  <2> QED BY <2>1, <2>2
<1>4. ASSUME NEW i \in Intention, IntendSoak(i) PROVE Kept
  <2>1. {} \in SUBSET list_intentions
    OBVIOUS
  <2> QED BY <1>4, <2>1, InsertKeepsIInv DEF IntendSoak
<1>5. ASSUME NEW i \in Intention, WakeUpThread(i) PROVE Kept
  <2>1. GraphInv' /\ SchedInv'
    BY <1>0, <1>5, ContinueKeepsSched DEF WakeUpThread, TypeOK, Bag
  <2>2. LoopInv' /\ SectionInv'
    BY <1>0, <1>5, FrameLoop DEF WakeUpThread
  <2> QED BY <2>1, <2>2
<1>6. ASSUME NEW i \in Intention, SatisfyIntentionCondition(i) PROVE Kept
  <2>1. GraphInv' /\ SchedInv'
    BY <1>0, <1>6, ConditionKeepsSched
  <2>2. LoopInv' /\ SectionInv'
    BY <1>0, <1>6, FrameLoop DEF SatisfyIntentionCondition
  <2> QED BY <2>1, <2>2
<1>7. ASSUME NEW i \in Intention, NEW active \in Nat, NEW asleep \in Nat, NEW joining \in Nat,
             PreserveFails(i, active, asleep, joining)
      PROVE  Kept
  <2>1. GraphInv' /\ SchedInv'
    BY <1>0, <1>7, ContinueKeepsSched DEF PreserveFails, ReplaceThreads, TypeOK, Bag
  <2>2. /\ SectionOwner' /\ UNCHANGED current_intentions
        /\ critical_section' \in Intention => critical_section' = critical_section
    BY <1>0, <1>7, FreeKeepsSection DEF PreserveFails, SectionInv
  <2>3. LoopInv' /\ SectionInv'
    BY <1>0, <1>7, <2>2 DEF PreserveFails, LoopInv, SectionInv
  <2> QED BY <2>1, <2>3
<1>8. CASE find_current_intentions
  <2>1. GraphInv' /\ SchedInv'
    BY <1>0, <1>8, FrameSched DEF find_current_intentions
  <2> QED BY <1>8, <2>1, ChooseKeepsIInv
<1>9. ASSUME NEW i \in Intention, BeginExecute(i) PROVE Kept
  <2>1. GraphInv' /\ SchedInv'
    BY <1>0, <1>9, FrameSched DEF BeginExecute
  <2>2. i \in InBag(todo) /\ InBag(todo') \subseteq InBag(todo)
    BY <1>0, <1>9 DEF BeginExecute, DeleteNode, Minus, InBag, TypeOK, Bag
  <2>3. LoopInv' /\ SectionInv'
    BY <1>0, <1>9, <2>2 DEF BeginExecute, LoopInv, SectionInv, SectionOwner
  <2> QED BY <2>1, <2>3
<1>10. ASSUME NEW i \in Intention, IntendAction(i) PROVE Kept
  <2>1. {} \in SUBSET list_intentions
    OBVIOUS
  <2> QED BY <1>10, <2>1, InsertKeepsIInv DEF IntendAction
<1>11. ASSUME NEW killed \in SUBSET (list_intentions \ {running}), KillAction(killed) PROVE Kept
  <2>1. GraphInv' /\ SchedInv'
    BY <1>0, <1>11, FrameSched DEF KillAction
  <2>2. LoopInv' /\ SectionInv'
    BY <1>0, <1>11 DEF KillAction, Executing, LoopInv, SectionInv, SectionOwner
  <2> QED BY <2>1, <2>2
<1>12. ASSUME NEW i \in Intention, AsleepAction(i) PROVE Kept
  <2>1. GraphInv' /\ SchedInv'
    BY <1>0, <1>12, AsleepKeepsSched
  <2>2. LoopInv' /\ SectionInv'
    BY <1>0, <1>12, FrameLoop DEF AsleepAction
  <2> QED BY <2>1, <2>2
<1>13. CASE ThreadSleeps
  <2>1. GraphInv' /\ SchedInv'
    BY <1>0, <1>13, SuspendKeepsSched DEF ThreadSleeps, Executing
  <2>2. LoopInv' /\ SectionInv'
    BY <1>0, <1>13, FrameLoop DEF ThreadSleeps
  <2> QED BY <2>1, <2>2
<1>14. CASE ThreadForks
  <2>1. GraphInv' /\ SchedInv'
    BY <1>0, <1>14, FrameSched DEF ThreadForks, Executing, TypeOK, Bag
  <2>2. LoopInv' /\ SectionInv'
    BY <1>0, <1>14, FrameLoop DEF ThreadForks
  <2> QED BY <2>1, <2>2
<1>15. CASE ThreadJoins
  <2>1. GraphInv' /\ SchedInv'
    BY <1>0, <1>15, SuspendKeepsSched DEF ThreadJoins, Executing
  <2>2. LoopInv' /\ SectionInv'
    BY <1>0, <1>15, IntentionAssumption
    DEF ThreadJoins, Executing, end_critical_section, LoopInv, SectionInv, SectionOwner, TypeOK
  <2> QED BY <2>1, <2>2
<1>16. ASSUME NEW joined \in Nat, LastThreadJoins(joined) PROVE Kept
  <2>1. GraphInv' /\ SchedInv'
    BY <1>0, <1>16, FrameSched DEF LastThreadJoins
  <2>2. LoopInv' /\ SectionInv'
    BY <1>0, <1>16, FrameLoop DEF LastThreadJoins
  <2> QED BY <2>1, <2>2
<1>17. CASE ThreadFinishes
  <2>1. GraphInv' /\ SchedInv'
    BY <1>0, <1>17, FrameSched DEF ThreadFinishes, Executing, TypeOK, Bag
  <2>2. LoopInv' /\ SectionInv'
    <3>1. CASE FreeThreads(running)
      BY <1>0, <1>17, <3>1, FreeKeepsSection DEF ThreadFinishes, Executing, LoopInv, SectionInv, TypeOK
    <3>2. CASE ~FreeThreads(running)
      BY <1>0, <1>17, <3>2, IntentionAssumption
      DEF ThreadFinishes, Executing, end_critical_section, LoopInv, SectionInv, SectionOwner, TypeOK
    <3> QED BY <3>1, <3>2
  <2> QED BY <2>1, <2>2
<1>18. ASSUME NEW active \in Nat, NEW asleep \in Nat, NEW joining \in Nat,
             LeaveProcedure(active, asleep, joining)
      PROVE  Kept
  <2>1. GraphInv' /\ SchedInv'
    BY <1>0, <1>18, FrameSched DEF LeaveProcedure, Executing, ReplaceThreads, TypeOK, Bag
  <2>2. LoopInv' /\ SectionInv'
    BY <1>0, <1>18, FreeKeepsSection DEF LeaveProcedure, Executing, LoopInv, SectionInv, TypeOK
  <2> QED BY <2>1, <2>2
<1>19. CASE begin_critical_section
  <2>1. GraphInv' /\ SchedInv'
    BY <1>0, <1>19, FrameSched DEF begin_critical_section
  <2>2. LoopInv' /\ SectionInv'
    BY <1>0, <1>19, IntentionAssumption
    DEF begin_critical_section, Executing, LoopInv, SectionInv, SectionOwner, BagOf, EmptyBag, InBag, TypeOK
  <2> QED BY <2>1, <2>2
<1>20. CASE BeginCriticalSectionAtTop
  <2>1. GraphInv' /\ SchedInv'
    BY <1>0, <1>20, FrameSched DEF BeginCriticalSectionAtTop
  <2>2. LoopInv' /\ SectionInv'
    BY <1>0, <1>20, IntentionAssumption
    DEF BeginCriticalSectionAtTop, Executing, LoopInv, SectionInv, SectionOwner, BagOf, EmptyBag, InBag, TypeOK
  <2> QED BY <2>1, <2>2
<1>21. CASE EndCriticalSection
  <2>1. GraphInv' /\ SchedInv'
    BY <1>0, <1>21, FrameSched DEF EndCriticalSection
  <2>2. marked' = {}
    BY <1>0, <1>21, IntentionAssumption
    DEF EndCriticalSection, Executing, end_critical_section, SectionInv, SectionOwner, TypeOK
  <2>3. LoopInv' /\ SectionInv'
    BY <1>0, <1>21, <2>2, IntentionAssumption
    DEF EndCriticalSection, Executing, end_critical_section, LoopInv, SectionInv, SectionOwner
  <2> QED BY <2>1, <2>3
<1>22. CASE EndExecute
  <2>1. GraphInv' /\ SchedInv'
    BY <1>0, <1>22, FrameSched DEF EndExecute
  <2>2. LoopInv' /\ SectionInv'
    BY <1>0, <1>22 DEF EndExecute, LoopInv, SectionInv, SectionOwner, InBag, EmptyBag
  <2> QED BY <2>1, <2>2
<1>23. CASE Terminate
  <2>1. GraphInv' /\ SchedInv'
    BY <1>0, <1>23, FrameSched DEF Terminate
  <2>2. LoopInv' /\ SectionInv'
    BY <1>0, <1>23, FreeKeepsSection DEF Terminate, Executing, LoopInv, SectionInv, TypeOK
  <2> QED BY <2>1, <2>2
<1>24. CASE BeginReap
  <2>1. GraphInv' /\ SchedInv'
    BY <1>0, <1>24, FrameSched DEF BeginReap
  <2>2. LoopInv' /\ SectionInv'
    BY <1>0, <1>24 DEF BeginReap, LoopInv, SectionInv, SectionOwner
  <2> QED BY <2>1, <2>2
<1>25. ASSUME NEW i \in Intention, Reap(i) PROVE Kept
  BY <1>25, DeleteKeepsIInv DEF Reap
<1>26. CASE EndReap
  <2>1. GraphInv' /\ SchedInv'
    BY <1>0, <1>26, FrameSched DEF EndReap
  <2>2. LoopInv' /\ SectionInv'
    BY <1>0, <1>26 DEF EndReap, LoopInv, SectionInv, SectionOwner
  <2> QED BY <2>1, <2>2
<1>27. CASE UNCHANGED vars
  <2>1. GraphInv' /\ SchedInv'
    BY <1>0, <1>27, FrameSched DEF vars
  <2>2. LoopInv' /\ SectionInv'
    BY <1>0, <1>27, FrameLoop DEF vars
  <2> QED BY <2>1, <2>2
<1>28. CASE Soak
  <2>1. 0 .. MaxThreads \subseteq Nat
    OBVIOUS
  <2> QED BY <1>28, <2>1, <1>3, <1>4, <1>5, <1>6, <1>7 DEF Soak
<1>29. CASE Execute
  <2>1. 0 .. MaxThreads \subseteq Nat /\ 1 .. MaxThreads \subseteq Nat
    OBVIOUS
  <2> QED BY <1>29, <2>1, <1>9, <1>10, <1>11, <1>12, <1>13, <1>14, <1>15, <1>16, <1>17, <1>18,
             <1>19, <1>20, <1>21, <1>22, <1>23 DEF Execute
<1> QED BY <1>1, <1>2, <1>8, <1>24, <1>25, <1>26, <1>27, <1>28, <1>29 DEF Next

-----------------------------------------------------------------------------
(* What follows, when no intention is put after two others *)

\* The pairs, the two root lists, the sleepers, activate's lists and the owner
\* of the critical section agree in every reachable state.
THEOREM InvCorrect ==
  ASSUME Lists = "tree"
  PROVE  Spec => []IInv
<1>1. Init => IInv
  BY InvInit
<1>2. IInv /\ [Next]_vars => IInv'
  BY InvStep
<1> QED BY <1>1, <1>2, PTL DEF Spec

\* Insertions and deletions never make intentions wait for each other in a circle.
THEOREM PartialOrderCorrect ==
  ASSUME Lists = "tree"
  PROVE  Spec => []PartialOrder
<1>1. IInv => PartialOrder
  BY DEF IInv, GraphInv
<1> QED BY <1>1, InvCorrect, PTL

\* list_first is exactly the set of unblocked intentions, although no operation
\* ever computes it from the pairs.
THEOREM RootsCorrect ==
  ASSUME Lists = "tree"
  PROVE  Spec => []RootsAreUnblocked
<1>1. IInv => RootsAreUnblocked
  BY DEF IInv, GraphInv
<1> QED BY <1>1, InvCorrect, PTL

\* list_runnable is exactly the set of active roots.
THEOREM RunnableCorrect ==
  ASSUME Lists = "tree"
  PROVE  Spec => []RunnableAreActiveRoots
<1>1. IInv => RunnableAreActiveRoots
  BY DEF IInv, SchedInv
<1> QED BY <1>1, InvCorrect, PTL

\* Status, sleeping lists, conditions and active threads agree: a wake-up of one
\* thread lifts the suspension of its intention, whatever the conditions the
\* intention itself sleeps on, and the last condition lifts the sleep only.
THEOREM StatusesCorrect ==
  ASSUME Lists = "tree"
  PROVE  Spec => []StatusesAgree
<1>1. IInv => StatusesAgree
  BY DEF IInv, SchedInv, StatusesAgree
<1> QED BY <1>1, InvCorrect, PTL

\* No list keeps a pointer to an intention that has been freed.
THEOREM NoFreedCorrect ==
  ASSUME Lists = "tree"
  PROVE  Spec => []NoFreedIntention
<1>1. IInv => NoFreedIntention
  <2> SUFFICES ASSUME IInv PROVE NoFreedIntention
    OBVIOUS
  <2>1. ASSUME NEW i \in Intention, list_first[i] > 0 PROVE i \in list_intentions
    BY <2>1 DEF IInv, GraphInv, RootsAreUnblocked
  <2>2. ASSUME NEW i \in Intention, list_runnable[i] > 0 PROVE list_first[i] > 0
    BY <2>2 DEF IInv, SchedInv, RunnableAreActiveRoots
  <2>3. InBag(list_first) \cup InBag(list_runnable) \subseteq list_intentions
    BY <2>1, <2>2 DEF InBag
  <2>4. sleeping \subseteq list_intentions
    BY DEF IInv, SchedInv, SleepersAgree
  <2> QED BY <2>3, <2>4 DEF NoFreedIntention, IInv, LoopInv, GraphInv
<1> QED BY <1>1, InvCorrect, PTL

\* The critical section has one live owner, or none.
THEOREM SectionOwnerCorrect ==
  ASSUME Lists = "tree"
  PROVE  Spec => []SectionOwner
<1>1. IInv => SectionOwner
  BY DEF IInv, SectionInv
<1> QED BY <1>1, InvCorrect, PTL

\* Who starts to execute.
LEMMA RunningStep ==
  ASSUME TypeOK, Next, running' # running
  PROVE  running' = None \/ \E i \in Intention : BeginExecute(i) /\ running' = i
BY DEF Next, Soak, Execute, ResetBegin, ResetDelete, BeginSoak, IntendSoak, WakeUpThread,
       SatisfyIntentionCondition, PreserveFails, find_current_intentions, BeginExecute,
       IntendAction, KillAction, AsleepAction, ThreadSleeps, ThreadForks, ThreadJoins,
       LastThreadJoins, ThreadFinishes, LeaveProcedure, begin_critical_section,
       BeginCriticalSectionAtTop, EndCriticalSection, EndExecute, Terminate, BeginReap, Reap,
       EndReap, loopVars

\* As long as an intention keeps the critical section no other one starts.
THEOREM SectionIsExclusiveCorrect ==
  ASSUME Lists = "tree"
  PROVE  Spec => SectionIsExclusive
<1> DEFINE Exclusive == \A i \in Intention :
             critical_section = i /\ critical_section' = i /\ running' # running
               => running' \in {None, i}
<1>1. IInv /\ [Next]_vars => [Exclusive]_vars
  <2> SUFFICES ASSUME IInv, Next, NEW i \in Intention,
                      critical_section = i, running' # running
               PROVE  running' \in {None, i}
    OBVIOUS
  <2>1. ASSUME NEW k \in Intention, BeginExecute(k) PROVE k = i
    <3>1. k \in InBag(todo)
      BY <2>1 DEF BeginExecute, InBag
    <3> QED BY <3>1 DEF IInv, SectionInv
  <2> QED BY <2>1, RunningStep DEF IInv
<1>2. Spec => []IInv
  BY InvCorrect
<1> QED BY <1>1, <1>2, PTL DEF Spec, SectionIsExclusive

=============================================================================
