---------------------------- MODULE ThreadsProofs ----------------------------
(***************************************************************************)
(* Theorems about Threads, for any set of tibs: the types, the tree of     *)
(* threads, the list of the active ones, and who is suspended behind whom. *)
(***************************************************************************)
EXTENDS Threads, TLAPS

-----------------------------------------------------------------------------
(* The inductive invariant *)

Edges(i) == [t \in Tib |-> i.fils[t] \cup ({i.suspended[t]} \ {None})]

Behind(i) == {i.suspended[n] : n \in Tib} \ {None}

Suspended(i, t) == i.status[t] \in {"SUSP_ACTIVE", "SUSP_SLEEPING"}

\* Each thread is the son of its father or behind one other thread that is in
\* its place, and all are reached from the intention.
Listed(i) ==
  \A f \in Tib \cup {Top} : \A t \in i.fils[f] :
    t \in Live(i) /\ i.pere[t] = f /\ f \notin Free(i)

Replaced(i) ==
  \A n \in Tib : i.suspended[n] # None =>
    LET t == i.suspended[n]
    IN  /\ n \in Live(i) /\ t \in Live(i)
        /\ i.pere[n] = i.pere[t] /\ t \notin i.fils[i.pere[t]]
        /\ \A m \in Tib : i.suspended[m] = t => m = n

\* All threads are reached from the intention.
Reached(i) ==
  \A C \in SUBSET Tib :
    /\ i.fils[Top] \subseteq C
    /\ \A u \in C : i.fils[u] \subseteq C
    /\ \A u \in C : i.suspended[u] # None => i.suspended[u] \in C
    => Live(i) \subseteq C

Tree(i) ==
  /\ Listed(i) /\ Replaced(i) /\ Reached(i)
  /\ \A t \in Live(i) : t \in i.fils[i.pere[t]] \/ t \in Behind(i)

\* active_tibs and the conditions, and a thread that waits for its sons only.
ActiveInv(i) ==
  \A t \in Tib :
    /\ i.active[t] = IF i.status[t] = "ACTIVE" /\ i.fils[t] = {} THEN 1 ELSE 0
    /\ t \in i.waits <=> i.status[t] \in {"SLEEPING", "SUSP_SLEEPING", "ACTION_WAIT"}
    /\ i.fils[t] # {} => i.status[t] \in {"ACTIVE", "SUSP_ACTIVE"}

\* A thread is suspended behind another, or with its father.
SuspendedInv(i) ==
  /\ \A t \in Live(i) \ Behind(i) :
       i.status[t] # "JOINING" =>
         (Suspended(i, t) <=> i.pere[t] # Top /\ Suspended(i, i.pere[t]))
  /\ \A t \in Behind(i) :
       i.status[t] = "SUSP_ACTIVE" /\ t \notin i.watched /\ i.maintain[t] = "maintain"
  /\ \A t \in i.broken : t \in Behind(i) \/ i.suspended[t] # None

\* No thread waits in an action where it could have to be suspended.
WaitInv(i) ==
  \A u \in Tib : i.maintain[u] = "maintain" =>
    \A t \in Below(i, {u}) : i.status[t] # "ACTION_WAIT"

FreeInv(i) ==
  /\ \A t \in Free(i) : i.goal[t] = "none" /\ i.maintain[t] = "none"
  /\ i.watched \subseteq Live(i) /\ i.broken \subseteq Live(i)

TreeInv(i) == Tree(i) /\ ActiveInv(i) /\ SuspendedInv(i) /\ WaitInv(i) /\ FreeInv(i)

\* What a condition watches has had a procedure intended, and goals are posted
\* by bodies.
Watch(i, leaving) ==
  /\ \A t \in (i.watched \cup Behind(i)) \ leaving :
       /\ i.status[t] \in {"ACTIVE", "SUSP_ACTIVE"}
       /\ i.op[t] = "body" \/ (i.op[t] = "action" /\ i.goal[t] # "none")
  /\ \A t \in Tib : i.goal[t] = "posted" => i.op[t] = "body"

Leaving == IF phase \in {"satisfied", "failed"} THEN {current} ELSE {}

WatchInv ==
  /\ Watch(in, Leaving)
  /\ \A t \in applicable : t \in Live(in) /\ in.op[t] = "body"
  /\ phase # "intend" => applicable = {}

\* The thread that executes is an active one without sons.
Turn == {"run", "node", "body", "satisfied", "failed"}

TurnInv ==
  phase \in Turn =>
    /\ current \in Tib /\ in.status[current] = "ACTIVE" /\ in.fils[current] = {}
    /\ phase \in {"node", "body"} => in.op[current] = "body"
    /\ phase = "node" => current \notin in.watched

IInv == TypeOK /\ TreeInv(in) /\ WatchInv /\ TurnInv

-----------------------------------------------------------------------------
(* The fields of an intention *)

Field ==
  {"status", "pere", "fils", "suspended", "op", "goal", "broken", "maintain", "watched", "waits",
   "active", "asleep", "section", "opened"}

IsRecord(j) == j = [x \in Field |-> j[x]]

\* i and j differ in the fields of X only.
Same(i, j, X) == \A x \in Field \ X : j[x] = i[x]

LEMMA Fields ==
  ASSUME NEW i
  PROVE  i \in Intention <=>
           /\ IsRecord(i)
           /\ i.status \in [Tib -> Status]
           /\ i.pere \in [Tib -> Tib \cup {Top}]
           /\ i.fils \in [Tib \cup {Top} -> SUBSET Tib]
           /\ i.suspended \in [Tib -> Tib \cup {None}]
           /\ i.op \in [Tib -> Op]
           /\ i.goal \in [Tib -> GoalState]
           /\ i.broken \in SUBSET Tib
           /\ i.maintain \in [Tib -> Maintain]
           /\ i.watched \in SUBSET Tib
           /\ i.waits \in SUBSET Tib
           /\ i.active \in [Tib -> Nat]
           /\ i.asleep \in BOOLEAN
           /\ i.section \in Tib \cup {None, Dangling}
           /\ i.opened \in Tib \cup {None, Dangling}
BY DEF Intention, IsRecord, Field

LEMMA Update ==
  ASSUME NEW i, IsRecord(i), NEW x, NEW v
  PROVE  IsRecord([i EXCEPT ![x] = v])
BY DEF IsRecord

LEMMA SameTwice ==
  ASSUME NEW i, NEW j, NEW k, NEW X, NEW Y, Same(i, j, X), Same(j, k, Y)
  PROVE  Same(i, k, X \cup Y)
BY DEF Same

LEMMA AddActive ==
  ASSUME NEW i \in Intention, NEW t \in Tib
  PROVE  LET j == add_in_active_tib(i, t)
         IN  /\ j \in Intention
             /\ Same(i, j, {"active"})
             /\ j.active = [i.active EXCEPT ![t] = i.active[t] + 1]
<1> DEFINE j == add_in_active_tib(i, t)
<1>1. IsRecord(j)
  BY Fields, Update DEF add_in_active_tib
<1>2. Same(i, j, {"active"})
  BY Fields DEF add_in_active_tib, IsRecord, Field, Same
<1>3. j.active = [i.active EXCEPT ![t] = i.active[t] + 1]
  BY Fields DEF add_in_active_tib, IsRecord, Field
<1> HIDE DEF j
<1>4. j.active \in [Tib -> Nat]
  BY <1>3, Fields
<1>5. j \in Intention
  BY <1>1, <1>2, <1>4, Fields DEF Same, Field
<1> QED BY <1>2, <1>3, <1>5 DEF j

LEMMA RemoveActive ==
  ASSUME NEW i \in Intention, NEW t \in Tib
  PROVE  LET j == remove_from_active_tib(i, t)
         IN  /\ j \in Intention
             /\ Same(i, j, {"active"})
             /\ j.active = [i.active EXCEPT ![t] = Removed(i.active[t])]
<1> DEFINE j == remove_from_active_tib(i, t)
<1>1. IsRecord(j)
  BY Fields, Update DEF remove_from_active_tib
<1>2. Same(i, j, {"active"})
  BY Fields DEF remove_from_active_tib, IsRecord, Field, Same
<1>3. j.active = [i.active EXCEPT ![t] = Removed(i.active[t])]
  BY Fields DEF remove_from_active_tib, IsRecord, Field
<1> HIDE DEF j
<1>4. j.active \in [Tib -> Nat]
  BY <1>3, Fields DEF Removed
<1>5. j \in Intention
  BY <1>1, <1>2, <1>4, Fields DEF Same, Field
<1> QED BY <1>2, <1>3, <1>5 DEF j

LEMMA CheckLast ==
  ASSUME NEW i \in Intention
  PROVE  LET j == check_last_active_tib(i)
         IN  /\ j \in Intention
             /\ Same(i, j, {"asleep"})
             /\ j.asleep = (i.asleep \/ i.active = Nobody)
<1> DEFINE j == check_last_active_tib(i)
<1>1. IsRecord(j)
  BY Fields, Update DEF check_last_active_tib
<1>2. Same(i, j, {"asleep"})
  BY Fields DEF check_last_active_tib, IsRecord, Field, Same
<1>3. j.asleep = (i.asleep \/ i.active = Nobody)
  BY Fields DEF check_last_active_tib, IsRecord, Field
<1> HIDE DEF j
<1>4. j.asleep \in BOOLEAN
  BY <1>3, Fields
<1>5. j \in Intention
  BY <1>1, <1>2, <1>4, Fields DEF Same, Field
<1> QED BY <1>2, <1>3, <1>5 DEF j

LEMMA Continue ==
  ASSUME NEW i \in Intention
  PROVE  LET j == continue_intention(i)
         IN  /\ j \in Intention
             /\ Same(i, j, {"asleep"})
             /\ j.asleep = FALSE
<1> DEFINE j == continue_intention(i)
<1>1. IsRecord(j)
  BY Fields, Update DEF continue_intention
<1>2. Same(i, j, {"asleep"})
  BY Fields DEF continue_intention, IsRecord, Field, Same
<1>3. j.asleep = FALSE
  BY Fields DEF continue_intention, IsRecord, Field
<1> HIDE DEF j
<1>4. j.asleep \in BOOLEAN
  BY <1>3, Fields
<1>5. j \in Intention
  BY <1>1, <1>2, <1>4, Fields DEF Same, Field
<1> QED BY <1>2, <1>3, <1>5 DEF j

LEMMA EndSection ==
  ASSUME NEW i \in Intention
  PROVE  LET j == end_critical_section(i)
         IN  /\ j \in Intention
             /\ Same(i, j, {"section", "opened"})
             /\ j.section = None
             /\ j.opened = None
<1> DEFINE j == end_critical_section(i)
<1>1. IsRecord(j)
  BY Fields, Update DEF end_critical_section
<1>2. Same(i, j, {"section", "opened"})
  BY Fields DEF end_critical_section, IsRecord, Field, Same
<1>3. j.section = None
  BY Fields DEF end_critical_section, IsRecord, Field
<1>4. j.opened = None
  BY Fields DEF end_critical_section, IsRecord, Field
<1> HIDE DEF j
<1>5. j.section \in Tib \cup {None, Dangling}
  BY <1>3, Fields
<1>6. j.opened \in Tib \cup {None, Dangling}
  BY <1>4, Fields
<1>7. j \in Intention
  BY <1>1, <1>2, <1>5, <1>6, Fields DEF Same, Field
<1> QED BY <1>2, <1>3, <1>4, <1>7 DEF j

LEMMA Desinstall ==
  ASSUME NEW i \in Intention, NEW t \in Tib
  PROVE  LET j == desinstall_maintain(i, t)
         IN  /\ j \in Intention
             /\ Same(i, j, {"watched", "maintain"})
             /\ j.watched = i.watched \ {t}
             /\ j.maintain = IF t \in i.watched THEN [i.maintain EXCEPT ![t] = "none"] ELSE i.maintain
<1> DEFINE j == desinstall_maintain(i, t)
<1>1. IsRecord(j)
  BY Fields, Update DEF desinstall_maintain
<1>2. Same(i, j, {"watched", "maintain"})
  BY Fields DEF desinstall_maintain, IsRecord, Field, Same
<1>3. j.watched = i.watched \ {t}
  BY Fields DEF desinstall_maintain, IsRecord, Field
<1>4. j.maintain = IF t \in i.watched THEN [i.maintain EXCEPT ![t] = "none"] ELSE i.maintain
  BY Fields DEF desinstall_maintain, IsRecord, Field
<1> HIDE DEF j
<1>5. j.watched \in SUBSET Tib
  BY <1>3, Fields
<1>6. j.maintain \in [Tib -> Maintain]
  BY <1>4, Fields DEF Maintain
<1>7. j \in Intention
  BY <1>1, <1>2, <1>5, <1>6, Fields DEF Same, Field
<1> QED BY <1>2, <1>3, <1>4, <1>7 DEF j

\* j is i without the threads of gone.
Freed(i, j, gone) ==
  /\ j \in Intention
  /\ Same(i, j, {"status", "pere", "fils", "suspended", "op", "goal", "broken", "maintain", "watched", "waits", "section", "opened"})
  /\ j.status = [t \in Tib |-> IF t \in gone THEN "free" ELSE i.status[t]]
  /\ j.pere = [t \in Tib |-> IF t \in gone THEN Top ELSE i.pere[t]]
  /\ j.fils = [f \in Tib \cup {Top} |-> IF f \in gone THEN {} ELSE i.fils[f]]
  /\ j.suspended = [t \in Tib |-> IF t \in gone THEN None ELSE i.suspended[t]]
  /\ j.op = [t \in Tib |-> IF t \in gone THEN "body" ELSE i.op[t]]
  /\ j.goal = [t \in Tib |-> IF t \in gone THEN "none" ELSE i.goal[t]]
  /\ j.broken = i.broken \ gone
  /\ j.maintain = [t \in Tib |-> IF t \in gone THEN "none" ELSE i.maintain[t]]
  /\ j.watched = i.watched \ gone
  /\ j.waits = i.waits \ gone
  /\ j.section = IF i.section \in gone THEN Dangling ELSE i.section
  /\ j.opened = IF i.opened \in gone THEN Dangling ELSE i.opened

LEMMA FreeFields ==
  ASSUME NEW i \in Intention, NEW gone \in SUBSET Tib
  PROVE  Freed(i, FreeThreads(i, gone), gone)
<1> DEFINE j == FreeThreads(i, gone)
<1>1. IsRecord(j)
  BY Fields, Update DEF FreeThreads
<1>2. j.active = i.active /\ j.asleep = i.asleep
  BY Fields DEF FreeThreads, IsRecord, Field
<1>3. j.status = [t \in Tib |-> IF t \in gone THEN "free" ELSE i.status[t]]
  BY Fields DEF FreeThreads, IsRecord, Field
<1>4. j.pere = [t \in Tib |-> IF t \in gone THEN Top ELSE i.pere[t]]
  BY Fields DEF FreeThreads, IsRecord, Field
<1>5. j.fils = [f \in Tib \cup {Top} |-> IF f \in gone THEN {} ELSE i.fils[f]]
  BY Fields DEF FreeThreads, IsRecord, Field
<1>6. j.suspended = [t \in Tib |-> IF t \in gone THEN None ELSE i.suspended[t]]
  BY Fields DEF FreeThreads, IsRecord, Field
<1>7. j.op = [t \in Tib |-> IF t \in gone THEN "body" ELSE i.op[t]]
  BY Fields DEF FreeThreads, IsRecord, Field
<1>8. j.goal = [t \in Tib |-> IF t \in gone THEN "none" ELSE i.goal[t]]
  BY Fields DEF FreeThreads, IsRecord, Field
<1>9. j.broken = i.broken \ gone
  BY Fields DEF FreeThreads, IsRecord, Field
<1>10. j.maintain = [t \in Tib |-> IF t \in gone THEN "none" ELSE i.maintain[t]]
  BY Fields DEF FreeThreads, IsRecord, Field
<1>11. j.watched = i.watched \ gone
  BY Fields DEF FreeThreads, IsRecord, Field
<1>12. j.waits = i.waits \ gone
  BY Fields DEF FreeThreads, IsRecord, Field
<1>13. j.section = IF i.section \in gone THEN Dangling ELSE i.section
  BY Fields DEF FreeThreads, IsRecord, Field
<1>14. j.opened = IF i.opened \in gone THEN Dangling ELSE i.opened
  BY Fields DEF FreeThreads, IsRecord, Field
<1> HIDE DEF j, Freed
<1>15. Same(i, j, {"status", "pere", "fils", "suspended", "op", "goal", "broken", "maintain", "watched", "waits", "section", "opened"})
  BY <1>2 DEF Same, Field
<1>16. j.status \in [Tib -> Status]
  BY <1>3, Fields DEF Status
<1>17. j.pere \in [Tib -> Tib \cup {Top}]
  BY <1>4, Fields
<1>18. j.fils \in [Tib \cup {Top} -> SUBSET Tib]
  BY <1>5, Fields
<1>19. j.suspended \in [Tib -> Tib \cup {None}]
  BY <1>6, Fields
<1>20. "body" \in Op
  BY DEF Op
<1>21. j.op \in [Tib -> Op]
  BY <1>7, <1>20, Fields
<1>22. j.goal \in [Tib -> GoalState]
  BY <1>8, Fields DEF GoalState
<1>23. j.broken \in SUBSET Tib
  BY <1>9, Fields
<1>24. j.maintain \in [Tib -> Maintain]
  BY <1>10, Fields DEF Maintain
<1>25. j.watched \in SUBSET Tib
  BY <1>11, Fields
<1>26. j.waits \in SUBSET Tib
  BY <1>12, Fields
<1>27. j.section \in Tib \cup {None, Dangling}
  BY <1>13, Fields
<1>28. j.opened \in Tib \cup {None, Dangling}
  BY <1>14, Fields
<1>29. j \in Intention
  BY <1>1, <1>15, <1>16, <1>17, <1>18, <1>19, <1>21, <1>22, <1>23, <1>24, <1>25, <1>26, <1>27, <1>28, Fields DEF Same, Field
<1> QED BY <1>15, <1>3, <1>4, <1>5, <1>6, <1>7, <1>8, <1>9, <1>10, <1>11, <1>12, <1>13, <1>14, <1>29 DEF j, Freed

LEMMA UnlistedFields ==
  ASSUME NEW i \in Intention, NEW gone \in SUBSET Tib
  PROVE  LET j == Unlisted(i, gone)
         IN  /\ j \in Intention
             /\ Same(i, j, {"fils", "active"})
             /\ j.fils = [f \in Tib \cup {Top} |-> {t \in i.fils[f] : ~(t \in gone /\ i.pere[t] = f)}]
             /\ j.active = [t \in Tib |-> IF t \in gone THEN Removed(i.active[t]) ELSE i.active[t]]
<1> DEFINE j == Unlisted(i, gone)
<1>1. IsRecord(j)
  BY Fields, Update DEF Unlisted
<1>2. Same(i, j, {"fils", "active"})
  BY Fields DEF Unlisted, IsRecord, Field, Same
<1>3. j.fils = [f \in Tib \cup {Top} |-> {t \in i.fils[f] : ~(t \in gone /\ i.pere[t] = f)}]
  BY Fields DEF Unlisted, IsRecord, Field
<1>4. j.active = [t \in Tib |-> IF t \in gone THEN Removed(i.active[t]) ELSE i.active[t]]
  BY Fields DEF Unlisted, IsRecord, Field
<1> HIDE DEF j
<1>5. j.fils \in [Tib \cup {Top} -> SUBSET Tib]
  BY <1>3, Fields
<1>6. j.active \in [Tib -> Nat]
  BY <1>4, Fields DEF Removed
<1>7. j \in Intention
  BY <1>1, <1>2, <1>5, <1>6, Fields DEF Same, Field
<1> QED BY <1>2, <1>3, <1>4, <1>7 DEF j

LEMMA SuspendFields ==
  ASSUME NEW i \in Intention, NEW t \in Tib
  PROVE  LET j == suspend_tib(i, t)
         IN  /\ j \in Intention
             /\ Same(i, j, {"status", "active"})
             /\ j.status = [u \in Tib |-> IF u \notin Below(i, {t}) THEN i.status[u]
                                       ELSE CASE i.status[u] = "ACTIVE" -> "SUSP_ACTIVE"
                                              [] i.status[u] = "SLEEPING" -> "SUSP_SLEEPING"
                                              [] OTHER -> i.status[u]]
             /\ j.active = [u \in Tib |-> IF u \in Below(i, {t}) THEN Removed(i.active[u]) ELSE i.active[u]]
<1> DEFINE j == suspend_tib(i, t)
<1>1. IsRecord(j)
  BY Fields, Update DEF suspend_tib
<1>2. Same(i, j, {"status", "active"})
  BY Fields DEF suspend_tib, IsRecord, Field, Same
<1>3. j.status = [u \in Tib |-> IF u \notin Below(i, {t}) THEN i.status[u]
                                       ELSE CASE i.status[u] = "ACTIVE" -> "SUSP_ACTIVE"
                                              [] i.status[u] = "SLEEPING" -> "SUSP_SLEEPING"
                                              [] OTHER -> i.status[u]]
  BY Fields DEF suspend_tib, IsRecord, Field
<1>4. j.active = [u \in Tib |-> IF u \in Below(i, {t}) THEN Removed(i.active[u]) ELSE i.active[u]]
  BY Fields DEF suspend_tib, IsRecord, Field
<1> HIDE DEF j
<1>5. j.status \in [Tib -> Status]
  BY <1>3, Fields DEF Status
<1>6. j.active \in [Tib -> Nat]
  BY <1>4, Fields DEF Removed
<1>7. j \in Intention
  BY <1>1, <1>2, <1>5, <1>6, Fields DEF Same, Field
<1> QED BY <1>2, <1>3, <1>4, <1>7 DEF j

LEMMA ContinueFields ==
  ASSUME NEW i \in Intention, NEW t \in Tib
  PROVE  LET j == continue_tib(i, t)
         IN  /\ j \in Intention
             /\ Same(i, j, {"status", "active"})
             /\ j.status = [u \in Tib |->
               CASE u \in Below(i, {t}) /\ (i.fils[u] # {} \/ i.status[u] = "SUSP_ACTIVE") -> "ACTIVE"
                 [] u \in Below(i, {t}) /\ i.fils[u] = {} /\ i.status[u] = "SUSP_SLEEPING" -> "SLEEPING"
                 [] OTHER -> i.status[u]]
             /\ j.active = [u \in Tib |->
               IF u \in Below(i, {t}) /\ i.fils[u] = {} /\ i.status[u] = "SUSP_ACTIVE"
               THEN i.active[u] + 1 ELSE i.active[u]]
<1> DEFINE j == continue_tib(i, t)
<1>1. IsRecord(j)
  BY Fields, Update DEF continue_tib
<1>2. Same(i, j, {"status", "active"})
  BY Fields DEF continue_tib, IsRecord, Field, Same
<1>3. j.status = [u \in Tib |->
               CASE u \in Below(i, {t}) /\ (i.fils[u] # {} \/ i.status[u] = "SUSP_ACTIVE") -> "ACTIVE"
                 [] u \in Below(i, {t}) /\ i.fils[u] = {} /\ i.status[u] = "SUSP_SLEEPING" -> "SLEEPING"
                 [] OTHER -> i.status[u]]
  BY Fields DEF continue_tib, IsRecord, Field
<1>4. j.active = [u \in Tib |->
               IF u \in Below(i, {t}) /\ i.fils[u] = {} /\ i.status[u] = "SUSP_ACTIVE"
               THEN i.active[u] + 1 ELSE i.active[u]]
  BY Fields DEF continue_tib, IsRecord, Field
<1> HIDE DEF j
<1>5. j.status \in [Tib -> Status]
  BY <1>3, Fields DEF Status
<1>6. j.active \in [Tib -> Nat]
  BY <1>4, Fields
<1>7. j \in Intention
  BY <1>1, <1>2, <1>5, <1>6, Fields DEF Same, Field
<1> QED BY <1>2, <1>3, <1>4, <1>7 DEF j

LEMMA ReplaceFields ==
  ASSUME NEW i \in Intention, NEW old \in Tib, NEW new \in Tib
  PROVE  LET j == Replace(i, old, new)
         IN  /\ j \in Intention
             /\ Same(i, j, {"fils"})
             /\ j.fils = [i.fils EXCEPT ![i.pere[old]] = (i.fils[i.pere[old]] \ {old}) \cup {new}]
<1> DEFINE j == Replace(i, old, new)
<1>1. IsRecord(j)
  BY Fields, Update DEF Replace
<1>2. Same(i, j, {"fils"})
  BY Fields DEF Replace, IsRecord, Field, Same
<1>3. j.fils = [i.fils EXCEPT ![i.pere[old]] = (i.fils[i.pere[old]] \ {old}) \cup {new}]
  BY Fields DEF Replace, IsRecord, Field
<1> HIDE DEF j
<1>4. j.fils \in [Tib \cup {Top} -> SUBSET Tib]
  BY <1>3, Fields
<1>5. j \in Intention
  BY <1>1, <1>2, <1>4, Fields DEF Same, Field
<1> QED BY <1>2, <1>3, <1>5 DEF j

\* n is in the place of t.
SplitOff(i, j, t, n) ==
  /\ j \in Intention
  /\ Same(i, j, {"fils", "status", "pere", "op", "goal", "suspended", "broken"})
  /\ j.fils = [i.fils EXCEPT ![i.pere[t]] = (i.fils[i.pere[t]] \ {t}) \cup {n}]
  /\ j.status = [i.status EXCEPT ![n] = i.status[t]]
  /\ j.pere = [i.pere EXCEPT ![n] = i.pere[t]]
  /\ j.op = [i.op EXCEPT ![n] = i.op[t]]
  /\ j.goal = [i.goal EXCEPT ![n] = i.goal[t]]
  /\ j.suspended = [i.suspended EXCEPT ![n] = t]
  /\ j.broken = i.broken \cup {t, n}

LEMMA SplitFields ==
  ASSUME NEW i \in Intention, NEW t \in Tib, NEW n \in Tib
  PROVE  SplitOff(i, split_thread_intention_block(i, t, n), t, n)
<1> DEFINE j == split_thread_intention_block(i, t, n)
<1>1. IsRecord(j)
  BY Fields, Update DEF split_thread_intention_block, Replace
<1>2. j.maintain = i.maintain /\ j.watched = i.watched /\ j.waits = i.waits /\ j.active = i.active /\ j.asleep = i.asleep /\ j.section = i.section /\ j.opened = i.opened
  BY Fields DEF split_thread_intention_block, Replace, IsRecord, Field
<1>3. j.fils = [i.fils EXCEPT ![i.pere[t]] = (i.fils[i.pere[t]] \ {t}) \cup {n}]
  BY Fields DEF split_thread_intention_block, Replace, IsRecord, Field
<1>4. j.status = [i.status EXCEPT ![n] = i.status[t]]
  BY Fields DEF split_thread_intention_block, Replace, IsRecord, Field
<1>5. j.pere = [i.pere EXCEPT ![n] = i.pere[t]]
  BY Fields DEF split_thread_intention_block, Replace, IsRecord, Field
<1>6. j.op = [i.op EXCEPT ![n] = i.op[t]]
  BY Fields DEF split_thread_intention_block, Replace, IsRecord, Field
<1>7. j.goal = [i.goal EXCEPT ![n] = i.goal[t]]
  BY Fields DEF split_thread_intention_block, Replace, IsRecord, Field
<1>8. j.suspended = [i.suspended EXCEPT ![n] = t]
  BY Fields DEF split_thread_intention_block, Replace, IsRecord, Field
<1>9. j.broken = i.broken \cup {t, n}
  BY Fields DEF split_thread_intention_block, Replace, IsRecord, Field
<1> HIDE DEF j
<1>10. Same(i, j, {"fils", "status", "pere", "op", "goal", "suspended", "broken"})
  BY <1>2 DEF Same, Field
<1>11. j.fils \in [Tib \cup {Top} -> SUBSET Tib]
  BY <1>3, Fields
<1>12. j.status \in [Tib -> Status]
  BY <1>4, Fields
<1>13. j.pere \in [Tib -> Tib \cup {Top}]
  BY <1>5, Fields
<1>14. j.op \in [Tib -> Op]
  BY <1>6, Fields
<1>15. j.goal \in [Tib -> GoalState]
  BY <1>7, Fields
<1>16. j.suspended \in [Tib -> Tib \cup {None}]
  BY <1>8, Fields
<1>17. j.broken \in SUBSET Tib
  BY <1>9, Fields
<1>18. j \in Intention
  BY <1>1, <1>10, <1>11, <1>12, <1>13, <1>14, <1>15, <1>16, <1>17, Fields DEF Same, Field
<1> QED BY <1>10, <1>3, <1>4, <1>5, <1>6, <1>7, <1>8, <1>9, <1>18 DEF j, SplitOff

LEMMA SectionWithoutFields ==
  ASSUME NEW i \in Intention, NEW gone \in SUBSET Tib
  PROVE  LET j == SectionWithout(i, gone)
         IN  j \in Intention /\ Same(i, j, {"section", "opened"})
<1> DEFINE j == SectionWithout(i, gone)
<1>1. CASE i.section # None /\ i.opened \in gone
  BY <1>1, EndSection DEF SectionWithout
<1>2. CASE ~(i.section # None /\ i.opened \in gone) /\ i.section \in gone
  <2> DEFINE k == [i EXCEPT !.section = None]
  <2>1. j = k
    BY <1>2 DEF SectionWithout
  <2>2. IsRecord(k) /\ k.section = None
    BY Fields, Update DEF IsRecord, Field
  <2>3. Same(i, k, {"section", "opened"}) /\ k.opened = i.opened
    BY Fields DEF IsRecord, Field, Same
  <2> HIDE DEF k
  <2>4. k \in Intention
    BY <2>2, <2>3, Fields DEF Same, Field
  <2> QED BY <2>1, <2>3, <2>4
<1>3. CASE ~(i.section # None /\ i.opened \in gone) /\ i.section \notin gone
  BY <1>3 DEF SectionWithout, Same
<1> QED BY <1>1, <1>2, <1>3

LEMMA PropagateFields ==
  ASSUME NEW i \in Intention, NEW t \in Tib, i.pere[t] # Top
  PROVE  LET j == propagate_critical_section(i, t)
         IN  j \in Intention /\ Same(i, j, {"section", "opened"})
<1> DEFINE j == propagate_critical_section(i, t)
<1>1. CASE i.section = None
  BY <1>1 DEF propagate_critical_section, Same
<1>2. CASE i.section # None /\ i.opened = t
  BY <1>2, EndSection DEF propagate_critical_section
<1>3. CASE i.section # None /\ i.opened # t
  <2> DEFINE k == [i EXCEPT !.section = i.pere[t]]
  <2>1. j = k
    BY <1>3 DEF propagate_critical_section
  <2>2. IsRecord(k) /\ k.section = i.pere[t] /\ i.pere[t] \in Tib
    BY Fields, Update DEF IsRecord, Field
  <2>3. Same(i, k, {"section", "opened"}) /\ k.opened = i.opened
    BY Fields DEF IsRecord, Field, Same
  <2> HIDE DEF k
  <2>4. k \in Intention
    BY <2>2, <2>3, Fields DEF Same, Field
  <2> QED BY <2>1, <2>3, <2>4
<1> QED BY <1>1, <1>2, <1>3

\* j is i without the threads of gone, whatever becomes of the section.
Removal(i, j, gone) ==
  /\ j.status = [t \in Tib |-> IF t \in gone THEN "free" ELSE i.status[t]]
  /\ j.pere = [t \in Tib |-> IF t \in gone THEN Top ELSE i.pere[t]]
  /\ j.fils = [f \in Tib \cup {Top} |->
                IF f \in gone THEN {} ELSE {t \in i.fils[f] : ~(t \in gone /\ i.pere[t] = f)}]
  /\ j.suspended = [t \in Tib |-> IF t \in gone THEN None ELSE i.suspended[t]]
  /\ j.op = [t \in Tib |-> IF t \in gone THEN "body" ELSE i.op[t]]
  /\ j.goal = [t \in Tib |-> IF t \in gone THEN "none" ELSE i.goal[t]]
  /\ j.maintain = [t \in Tib |-> IF t \in gone THEN "none" ELSE i.maintain[t]]
  /\ j.broken = i.broken \ gone /\ j.watched = i.watched \ gone /\ j.waits = i.waits \ gone
  /\ j.active = [t \in Tib |-> IF t \in gone THEN Removed(i.active[t]) ELSE i.active[t]]
  /\ j.asleep = i.asleep

LEMMA RemoveFields ==
  ASSUME NEW i \in Intention, NEW S \in SUBSET Tib
  PROVE  /\ RemovedWith(i, S) \in SUBSET Tib
         /\ remove_and_free_tib_list(i, S) \in Intention
         /\ Removal(i, remove_and_free_tib_list(i, S), RemovedWith(i, S))
<1> DEFINE gone == RemovedWith(i, S)
           k == SectionWithout(i, gone)
           l == Unlisted(k, gone)
           j == FreeThreads(l, gone)
<1>1. gone \in SUBSET Tib
  BY DEF RemovedWith, Closure
<1>2. remove_and_free_tib_list(i, S) = j
  BY DEF remove_and_free_tib_list
<1> HIDE DEF gone
<1>3. k \in Intention /\ Same(i, k, {"section", "opened"})
  BY <1>1, SectionWithoutFields
<1> HIDE DEF k
<1>4. /\ l \in Intention /\ Same(k, l, {"fils", "active"})
      /\ l.fils = [f \in Tib \cup {Top} |-> {t \in k.fils[f] : ~(t \in gone /\ k.pere[t] = f)}]
      /\ l.active = [t \in Tib |-> IF t \in gone THEN Removed(k.active[t]) ELSE k.active[t]]
  BY <1>1, <1>3, UnlistedFields
<1> HIDE DEF l
<1>5. /\ l.status = i.status /\ l.pere = i.pere /\ l.suspended = i.suspended /\ l.op = i.op
      /\ l.goal = i.goal /\ l.maintain = i.maintain /\ l.broken = i.broken /\ l.watched = i.watched
      /\ l.waits = i.waits /\ l.asleep = i.asleep
      /\ l.fils = [f \in Tib \cup {Top} |-> {t \in i.fils[f] : ~(t \in gone /\ i.pere[t] = f)}]
      /\ l.active = [t \in Tib |-> IF t \in gone THEN Removed(i.active[t]) ELSE i.active[t]]
  BY <1>3, <1>4 DEF Same, Field
<1>6. Freed(l, j, gone)
  BY <1>1, <1>4, FreeFields
<1> HIDE DEF j
<1>7. j.active = l.active /\ j.asleep = l.asleep /\ j \in Intention
  BY <1>6 DEF Same, Field, Freed
<1>8. j.fils = [f \in Tib \cup {Top} |->
                 IF f \in gone THEN {} ELSE {t \in i.fils[f] : ~(t \in gone /\ i.pere[t] = f)}]
  BY <1>5, <1>6 DEF Freed
<1>9. Removal(i, j, gone)
  BY <1>5, <1>6, <1>7, <1>8 DEF Removal, Freed
<1> QED BY <1>1, <1>2, <1>7, <1>9 DEF gone


LEMMA BehindTib ==
  ASSUME NEW i \in Intention
  PROVE  Behind(i) \subseteq Tib
<1> SUFFICES ASSUME NEW n \in Tib, i.suspended[n] # None PROVE i.suspended[n] \in Tib
  BY DEF Behind
<1> QED BY Fields

-----------------------------------------------------------------------------
(* What is below a thread, and what is removed with it *)

\* C holds S, what follows from it by next, and nothing else.
LeastClosed(C, S, next) ==
  /\ C \subseteq Tib /\ S \subseteq C
  /\ \A u \in C : next[u] \subseteq C
  /\ \A D \in SUBSET Tib : S \subseteq D /\ (\A u \in D : next[u] \subseteq D) => C \subseteq D
  /\ \A t \in C : t \in S \/ \E u \in C : t \in next[u]

LEMMA ClosureLeast ==
  ASSUME NEW S \in SUBSET Tib, NEW next, \A u \in Tib : next[u] \subseteq Tib
  PROVE  LeastClosed(Closure(S, next), S, next)
<1> DEFINE C == Closure(S, next)
<1>1. C \subseteq Tib /\ S \subseteq C
  BY DEF Closure
<1>2. \A u \in C : next[u] \subseteq C
  BY DEF Closure
<1>3. ASSUME NEW D \in SUBSET Tib, S \subseteq D, \A u \in D : next[u] \subseteq D
      PROVE  C \subseteq D
  BY <1>3 DEF Closure
<1>4. ASSUME NEW t \in C, t \notin S, \A u \in C : t \notin next[u]
      PROVE  FALSE
  <2> DEFINE D == C \ {t}
  <2>1. D \in SUBSET Tib /\ S \subseteq D
    BY <1>1, <1>4
  <2>2. \A u \in D : next[u] \subseteq D
    BY <1>2, <1>4
  <2> HIDE DEF D, C
  <2>3. C \subseteq D
    BY <1>3, <2>1, <2>2
  <2> QED BY <1>4, <2>3 DEF D
<1> HIDE DEF C
<1> QED BY <1>1, <1>2, <1>3, <1>4 DEF LeastClosed, C

LEMMA BelowLeast ==
  ASSUME NEW i \in Intention, NEW t \in Tib
  PROVE  LeastClosed(Below(i, {t}), {t}, i.fils)
<1>1. \A u \in Tib : i.fils[u] \subseteq Tib
  BY Fields
<1> QED BY <1>1, ClosureLeast DEF Below

LEMMA BelowSetLeast ==
  ASSUME NEW i \in Intention, NEW S \in SUBSET Tib
  PROVE  LeastClosed(Below(i, S), S, i.fils)
<1>1. \A u \in Tib : i.fils[u] \subseteq Tib
  BY Fields
<1> QED BY <1>1, ClosureLeast DEF Below

LEMMA RemovedLeast ==
  ASSUME NEW i \in Intention, NEW S \in SUBSET Tib
  PROVE  LeastClosed(RemovedWith(i, S), S, Edges(i))
<1>1. \A u \in Tib : Edges(i)[u] \subseteq Tib
  BY Fields DEF Edges
<1>2. RemovedWith(i, S) = Closure(S, Edges(i))
  BY DEF RemovedWith, Edges
<1> QED BY <1>1, <1>2, ClosureLeast

\* With fewer sons there are fewer threads below.
LEMMA BelowFewer ==
  ASSUME NEW i \in Intention, NEW j \in Intention, NEW t \in Tib, NEW D \in SUBSET Tib,
         t \in D, \A u \in D : j.fils[u] \subseteq D
  PROVE  Below(j, {t}) \subseteq D
<1>1. LeastClosed(Below(j, {t}), {t}, j.fils)
  BY BelowLeast
<1>2. {t} \subseteq D
  OBVIOUS
<1> QED BY <1>1, <1>2 DEF LeastClosed

LEMMA TreeReached ==
  ASSUME NEW i \in Intention, Listed(i), Replaced(i)
  PROVE  RemovedWith(i, i.fils[Top]) = Live(i) <=> Reached(i)
<1> DEFINE C == RemovedWith(i, i.fils[Top])
<1>1. i.fils[Top] \in SUBSET Tib /\ LeastClosed(C, i.fils[Top], Edges(i))
  BY RemovedLeast, Fields
<1>2. \A u \in Tib : Edges(i)[u] = i.fils[u] \cup ({i.suspended[u]} \ {None})
  BY DEF Edges
<1> HIDE DEF C
<1>3. Live(i) \subseteq Tib /\ i.fils[Top] \subseteq Live(i)
  BY DEF Live, Listed
<1>4. \A u \in Live(i) : Edges(i)[u] \subseteq Live(i)
  BY <1>2, <1>3 DEF Listed, Replaced
<1>5. C \subseteq Live(i)
  BY <1>1, <1>3, <1>4 DEF LeastClosed
<1>6. ASSUME Reached(i) PROVE Live(i) \subseteq C
  <2>1. \A u \in C : u \in Tib /\ i.fils[u] \subseteq C /\ (i.suspended[u] # None => i.suspended[u] \in C)
    BY <1>1, <1>2 DEF LeastClosed
  <2>2. C \in SUBSET Tib /\ i.fils[Top] \subseteq C
    BY <1>1 DEF LeastClosed
  <2> QED BY <1>6, <2>1, <2>2 DEF Reached
<1>7. ASSUME Live(i) = C, NEW D \in SUBSET Tib, i.fils[Top] \subseteq D,
             \A u \in D : i.fils[u] \subseteq D,
             \A u \in D : i.suspended[u] # None => i.suspended[u] \in D
      PROVE  Live(i) \subseteq D
  <2>1. \A u \in D : Edges(i)[u] \subseteq D
    BY <1>2, <1>7
  <2> QED BY <1>1, <1>7, <2>1 DEF LeastClosed
<1>8. C = Live(i) => Reached(i)
  BY <1>7 DEF Reached
<1> QED BY <1>5, <1>6, <1>8 DEF C


\* What is removed with S, sons of f.
Gone(i, f, S, gone) ==
  /\ gone \subseteq Live(i) /\ S \subseteq gone /\ f \notin gone
  /\ \A u \in gone : i.fils[u] \subseteq gone
  /\ \A u \in gone : i.suspended[u] # None => i.suspended[u] \in gone
  /\ \A t \in gone \ S : t \in i.fils[i.pere[t]] => i.pere[t] \in gone
  /\ \A n \in Tib : i.suspended[n] # None /\ i.suspended[n] \in gone => n \in gone

LEMMA RemovedGone ==
  ASSUME NEW i \in Intention, Tree(i), NEW f \in Tib \cup {Top}, NEW S, S \subseteq i.fils[f]
  PROVE  Gone(i, f, S, RemovedWith(i, S))
<1> DEFINE gone == RemovedWith(i, S)
<1>1. S \in SUBSET Tib
  BY Fields
<1>2. LeastClosed(gone, S, Edges(i))
  BY <1>1, RemovedLeast
<1>3. \A u \in Tib : Edges(i)[u] = i.fils[u] \cup ({i.suspended[u]} \ {None})
  BY DEF Edges
<1> HIDE DEF gone
<1>4. /\ \A u \in gone : u \in Tib /\ i.fils[u] \subseteq gone
      /\ \A u \in gone : i.suspended[u] # None => i.suspended[u] \in gone
  BY <1>2, <1>3 DEF LeastClosed
<1>5. \A t \in gone \ S : \E u \in gone : t \in i.fils[u] \/ (t = i.suspended[u] /\ t # None)
  BY <1>2, <1>3 DEF LeastClosed
<1>6. Listed(i) /\ Replaced(i) /\ Reached(i)
  BY DEF Tree
<1>7. \A u \in Live(i) : Edges(i)[u] \subseteq Live(i)
  BY <1>3, <1>6 DEF Listed, Replaced, Live
<1>8. Live(i) \in SUBSET Tib /\ S \subseteq Live(i)
  BY <1>6 DEF Live, Listed
<1>9. gone \subseteq Live(i) /\ S \subseteq gone
  BY <1>2, <1>7, <1>8 DEF LeastClosed
<1>10. \A t \in gone \ S : t \in i.fils[i.pere[t]] => i.pere[t] \in gone
  BY <1>4, <1>5, <1>6 DEF Listed, Replaced
<1>11. \A n \in Tib : i.suspended[n] # None /\ i.suspended[n] \in gone => n \in gone
  <2> SUFFICES ASSUME NEW n \in Tib, i.suspended[n] # None, i.suspended[n] \in gone
               PROVE  n \in gone
    OBVIOUS
  <2>1. i.suspended[n] \notin i.fils[i.pere[i.suspended[n]]]
    BY <1>6 DEF Replaced
  <2>2. i.suspended[n] \notin S
    BY <1>6, <2>1 DEF Listed
  <2>3. PICK u \in gone : i.suspended[n] \in i.fils[u] \/ i.suspended[n] = i.suspended[u]
    BY <1>5, <2>2
  <2>4. u \in Tib \cup {Top} /\ i.suspended[n] \notin i.fils[u]
    BY <1>4, <1>6, <2>1 DEF Listed
  <2> QED BY <1>4, <1>6, <2>3, <2>4 DEF Replaced
<1>12. ASSUME f \in gone PROVE FALSE
  <2> DEFINE X == Live(i) \ gone
  <2>1. Top \notin gone
    BY <1>4, TibAssumption
  <2>2. i.fils[Top] \subseteq X
    BY <1>6, <1>10, <1>12, <2>1 DEF Listed
  <2>3. \A u \in X : i.fils[u] \subseteq X
    BY <1>6, <1>8, <1>10, <1>12 DEF Listed
  <2>4. \A u \in X : i.suspended[u] # None => i.suspended[u] \in X
    BY <1>6, <1>8, <1>11 DEF Replaced
  <2>5. X \in SUBSET Tib
    BY <1>8
  <2>6. Live(i) \subseteq X
    BY <1>6, <2>2, <2>3, <2>4, <2>5 DEF Reached
  <2> QED BY <1>9, <1>12, <2>6
<1>13. Gone(i, f, S, gone)
  BY <1>4, <1>9, <1>10, <1>11, <1>12 DEF Gone
<1> QED BY <1>13 DEF gone


-----------------------------------------------------------------------------
(* Kinds of steps: S, sons of f, are removed *)

\* With the last of its sons gone, f goes on if it is not suspended.
Resumed(i, f, S) == f \in Tib /\ S = i.fils[f] /\ S # {} /\ i.status[f] = "ACTIVE"

TreeRemoved(i, j, gone) ==
  /\ j.status = [t \in Tib |-> IF t \in gone THEN "free" ELSE i.status[t]]
  /\ j.pere = [t \in Tib |-> IF t \in gone THEN Top ELSE i.pere[t]]
  /\ j.suspended = [t \in Tib |-> IF t \in gone THEN None ELSE i.suspended[t]]
  /\ j.maintain = [t \in Tib |-> IF t \in gone THEN "none" ELSE i.maintain[t]]
  /\ j.op = [t \in Tib |-> IF t \in gone THEN "body" ELSE i.op[t]]
  /\ j.broken = i.broken \ gone /\ j.watched \subseteq i.watched \ gone /\ j.waits = i.waits \ gone

SonsRemoved(i, j, gone) ==
  j.fils = [g \in Tib \cup {Top} |->
             IF g \in gone THEN {} ELSE {t \in i.fils[g] : ~(t \in gone /\ i.pere[t] = g)}]

GoalsRemoved(i, j, f, gone) ==
  /\ \A t \in Tib : j.goal[t] = IF t \in gone THEN "none" ELSE IF t = f THEN j.goal[t] ELSE i.goal[t]
  /\ f \in Tib /\ f \notin gone => j.goal[f] \in {i.goal[f], "achieved"}

ActiveRemoved(i, j, f, S, gone) ==
  j.active = [t \in Tib |->
               IF t \in gone THEN Removed(i.active[t])
               ELSE IF t = f /\ Resumed(i, f, S) THEN i.active[t] + 1 ELSE i.active[t]]

Removes(i, j, f, S) ==
  LET gone == RemovedWith(i, S)
  IN  /\ TreeRemoved(i, j, gone) /\ SonsRemoved(i, j, gone)
      /\ GoalsRemoved(i, j, f, gone) /\ ActiveRemoved(i, j, f, S, gone)

LEMMA RemovesTree ==
  ASSUME NEW i \in Intention, NEW j \in Intention, TreeInv(i),
         NEW f \in Live(i) \cup {Top}, NEW S, S \subseteq i.fils[f], Removes(i, j, f, S)
  PROVE  /\ TreeInv(j)
         /\ Gone(i, f, S, RemovedWith(i, S))
         /\ \A g \in Tib \cup {Top} : g \notin RemovedWith(i, S) =>
              j.fils[g] = IF g = f THEN i.fils[g] \ S ELSE i.fils[g]
<1> DEFINE gone == RemovedWith(i, S)
<1>1. /\ j.status = [t \in Tib |-> IF t \in gone THEN "free" ELSE i.status[t]]
      /\ j.pere = [t \in Tib |-> IF t \in gone THEN Top ELSE i.pere[t]]
      /\ j.fils = [g \in Tib \cup {Top} |->
                    IF g \in gone THEN {} ELSE {t \in i.fils[g] : ~(t \in gone /\ i.pere[t] = g)}]
      /\ j.suspended = [t \in Tib |-> IF t \in gone THEN None ELSE i.suspended[t]]
      /\ j.maintain = [t \in Tib |-> IF t \in gone THEN "none" ELSE i.maintain[t]]
  BY DEF Removes, TreeRemoved, SonsRemoved, GoalsRemoved, ActiveRemoved
<1>2. /\ \A t \in Tib : j.goal[t] = IF t \in gone THEN "none" ELSE IF t = f THEN j.goal[t] ELSE i.goal[t]
      /\ j.broken = i.broken \ gone /\ j.watched \subseteq i.watched \ gone /\ j.waits = i.waits \ gone
      /\ j.active = [t \in Tib |->
                      IF t \in gone THEN Removed(i.active[t])
                      ELSE IF t = f /\ Resumed(i, f, S) THEN i.active[t] + 1 ELSE i.active[t]]
  BY DEF Removes, TreeRemoved, SonsRemoved, GoalsRemoved, ActiveRemoved
<1>3. f \in Tib \cup {Top} /\ Gone(i, f, S, gone)
  BY RemovedGone DEF TreeInv, Live
<1> HIDE DEF gone
<1>4. Listed(i) /\ Replaced(i) /\ Reached(i) /\ \A t \in Live(i) : t \in i.fils[i.pere[t]] \/ t \in Behind(i)
  BY DEF TreeInv, Tree
<1>5. \A g \in Tib \cup {Top} :
        j.fils[g] = IF g \in gone THEN {} ELSE IF g = f THEN i.fils[g] \ S ELSE i.fils[g]
  <2> SUFFICES ASSUME NEW g \in Tib \cup {Top}, g \notin gone
               PROVE  j.fils[g] = IF g = f THEN i.fils[g] \ S ELSE i.fils[g]
    BY <1>1
  <2>1. j.fils[g] = {t \in i.fils[g] : ~(t \in gone /\ i.pere[t] = g)}
    BY <1>1
  <2>2. \A t \in i.fils[g] : i.pere[t] = g /\ (t \in gone => t \in S)
    BY <1>3, <1>4 DEF Gone, Listed
  <2>3. \A t \in S : i.pere[t] = f /\ t \in gone
    BY <1>3, <1>4 DEF Gone, Listed
  <2> QED BY <2>1, <2>2, <2>3
<1>6. Live(j) = Live(i) \ gone
  BY <1>1, <1>3 DEF Live, Free, Gone
<1>7. Behind(j) = Behind(i) \ gone
  BY <1>1, <1>3 DEF Behind, Gone
<1>8. Listed(j)
  <2> SUFFICES ASSUME NEW g \in Tib \cup {Top}, NEW t \in j.fils[g]
               PROVE  t \in Live(j) /\ j.pere[t] = g /\ g \notin Free(j)
    BY DEF Listed
  <2>1. g \notin gone /\ t \in i.fils[g]
    BY <1>5
  <2>2. t \in Live(i) /\ i.pere[t] = g /\ g \notin Free(i)
    BY <1>4, <2>1 DEF Listed
  <2>3. t \notin gone
    BY <1>1, <2>1, <2>2
  <2> QED BY <1>1, <1>6, <2>1, <2>2, <2>3 DEF Free, Live
<1>9. Replaced(j)
  <2> SUFFICES ASSUME NEW n \in Tib, j.suspended[n] # None
               PROVE  LET t == j.suspended[n]
                      IN  /\ n \in Live(j) /\ t \in Live(j)
                          /\ j.pere[n] = j.pere[t] /\ t \notin j.fils[j.pere[t]]
                          /\ \A m \in Tib : j.suspended[m] = t => m = n
    BY DEF Replaced
  <2>1. n \notin gone /\ j.suspended[n] = i.suspended[n]
    BY <1>1
  <2> DEFINE t == j.suspended[n]
  <2>2. /\ n \in Live(i) /\ t \in Live(i) /\ i.pere[n] = i.pere[t] /\ t \notin i.fils[i.pere[t]]
        /\ \A m \in Tib : i.suspended[m] = t => m = n
    BY <1>4, <2>1 DEF Replaced
  <2>3. t \notin gone
    BY <1>3, <2>1 DEF Gone
  <2>4. \A m \in Tib : j.suspended[m] = t => m = n
    BY <1>1, <2>2
  <2>5. n \in Live(j) /\ t \in Live(j)
    BY <1>6, <2>1, <2>2, <2>3
  <2>6. j.pere[n] = i.pere[n] /\ j.pere[t] = i.pere[t] /\ i.pere[t] \in Tib \cup {Top}
    BY <1>1, <2>1, <2>2, <2>3, Fields DEF Live
  <2>7. t \notin j.fils[j.pere[t]]
    BY <1>5, <2>2, <2>6
  <2> QED BY <2>2, <2>4, <2>5, <2>6, <2>7
<1>10. ASSUME NEW t \in Live(j) PROVE t \in j.fils[j.pere[t]] \/ t \in Behind(j)
  <2>1. t \in Live(i) /\ t \notin gone /\ t \in Tib
    BY <1>6 DEF Live
  <2>2. j.pere[t] = i.pere[t] /\ i.pere[t] \in Tib \cup {Top}
    BY <1>1, <2>1, Fields
  <2>3. CASE t \in i.fils[i.pere[t]]
    <3>1. i.pere[t] \notin gone
      BY <1>3, <2>1, <2>3 DEF Gone
    <3>2. t \notin S
      BY <1>3, <2>1 DEF Gone
    <3> QED BY <1>5, <2>2, <2>3, <3>1, <3>2
  <2>4. CASE t \in Behind(i)
    BY <1>7, <2>1, <2>4
  <2> QED BY <1>4, <2>1, <2>3, <2>4
<1>11. Reached(j)
  <2> SUFFICES ASSUME NEW C \in SUBSET Tib, j.fils[Top] \subseteq C,
                      \A u \in C : j.fils[u] \subseteq C,
                      \A u \in C : j.suspended[u] # None => j.suspended[u] \in C
               PROVE  Live(j) \subseteq C
    BY DEF Reached
  <2> DEFINE D == C \cup gone
  <2>1. D \in SUBSET Tib /\ Top \notin gone
    BY <1>3, TibAssumption DEF Gone, Live
  <2>2. ASSUME NEW g \in Tib \cup {Top}, g \notin gone PROVE i.fils[g] \subseteq j.fils[g] \cup gone
    <3>1. S \subseteq gone
      BY <1>3 DEF Gone
    <3>2. j.fils[g] = i.fils[g] \ S \/ j.fils[g] = i.fils[g]
      BY <1>5, <2>2
    <3> QED BY <3>1, <3>2
  <2>3. i.fils[Top] \subseteq D
    BY <2>1, <2>2
  <2>4. \A u \in D : i.fils[u] \subseteq D
    BY <1>3, <2>1, <2>2 DEF Gone
  <2>5. \A u \in D : i.suspended[u] # None => i.suspended[u] \in D
    BY <1>1, <1>3 DEF Gone
  <2>6. Live(i) \subseteq D
    BY <1>4, <2>1, <2>3, <2>4, <2>5 DEF Reached
  <2> QED BY <1>6, <2>6
<1>12. Tree(j)
  BY <1>8, <1>9, <1>10, <1>11 DEF Tree
<1>13. ActiveInv(j)
  <2> SUFFICES ASSUME NEW t \in Tib
               PROVE  /\ j.active[t] = IF j.status[t] = "ACTIVE" /\ j.fils[t] = {} THEN 1 ELSE 0
                      /\ t \in j.waits <=> j.status[t] \in {"SLEEPING", "SUSP_SLEEPING", "ACTION_WAIT"}
                      /\ j.fils[t] # {} => j.status[t] \in {"ACTIVE", "SUSP_ACTIVE"}
    BY DEF ActiveInv
  <2>1. /\ i.active[t] = IF i.status[t] = "ACTIVE" /\ i.fils[t] = {} THEN 1 ELSE 0
        /\ t \in i.waits <=> i.status[t] \in {"SLEEPING", "SUSP_SLEEPING", "ACTION_WAIT"}
        /\ i.fils[t] # {} => i.status[t] \in {"ACTIVE", "SUSP_ACTIVE"}
    BY DEF TreeInv, ActiveInv
  <2>2. CASE t \in gone
    <3>1. j.status[t] = "free" /\ j.active[t] = Removed(i.active[t]) /\ j.fils[t] = {} /\ t \notin j.waits
      BY <1>1, <1>2, <1>5, <2>2
    <3> QED BY <2>1, <3>1 DEF Removed
  <2>3. CASE t \notin gone /\ t # f
    <3>1. j.status[t] = i.status[t] /\ j.active[t] = i.active[t] /\ j.fils[t] = i.fils[t] /\ (t \in j.waits <=> t \in i.waits)
      BY <1>1, <1>2, <1>5, <2>3
    <3> QED BY <2>1, <3>1
  <2>4. CASE t \notin gone /\ t = f
    <3>1. j.status[t] = i.status[t] /\ j.fils[t] = i.fils[t] \ S /\ (t \in j.waits <=> t \in i.waits)
      BY <1>1, <1>2, <1>5, <2>4
    <3>2. j.active[t] = IF S = i.fils[t] /\ S # {} /\ i.status[t] = "ACTIVE" THEN i.active[t] + 1 ELSE i.active[t]
      BY <1>2, <2>4 DEF Resumed
    <3> QED BY <2>1, <2>4, <3>1, <3>2
  <2> QED BY <2>2, <2>3, <2>4
<1>14. SuspendedInv(j)
  <2>1. /\ \A t \in Live(i) \ Behind(i) :
             i.status[t] # "JOINING" =>
               (Suspended(i, t) <=> i.pere[t] # Top /\ Suspended(i, i.pere[t]))
        /\ \A t \in Behind(i) :
             i.status[t] = "SUSP_ACTIVE" /\ t \notin i.watched /\ i.maintain[t] = "maintain"
        /\ \A t \in i.broken : t \in Behind(i) \/ i.suspended[t] # None
    BY DEF TreeInv, SuspendedInv
  <2>2. ASSUME NEW t \in Live(j) \ Behind(j), j.status[t] # "JOINING"
        PROVE  Suspended(j, t) <=> j.pere[t] # Top /\ Suspended(j, j.pere[t])
    <3>1. t \in Live(i) \ Behind(i) /\ t \notin gone /\ t \in Tib
      BY <1>6, <1>7 DEF Live
    <3>2. j.status[t] = i.status[t] /\ j.pere[t] = i.pere[t]
      BY <1>1, <3>1
    <3>3. i.pere[t] \notin gone
      BY <1>3, <1>4, <3>1 DEF Gone
    <3>4. i.pere[t] # Top => i.pere[t] \in Tib /\ j.status[i.pere[t]] = i.status[i.pere[t]]
      BY <1>1, <3>1, <3>3, Fields
    <3> QED BY <2>1, <2>2, <3>1, <3>2, <3>4 DEF Suspended
  <2>3. ASSUME NEW t \in Behind(j)
        PROVE  j.status[t] = "SUSP_ACTIVE" /\ t \notin j.watched /\ j.maintain[t] = "maintain"
    <3>1. t \in Behind(i) /\ t \notin gone /\ t \in Tib
      BY <1>7, BehindTib
    <3> QED BY <1>1, <1>2, <2>1, <3>1
  <2>4. ASSUME NEW t \in j.broken PROVE t \in Behind(j) \/ j.suspended[t] # None
    <3>1. t \in i.broken /\ t \notin gone /\ t \in Tib
      BY <1>2, Fields
    <3> QED BY <1>1, <1>7, <2>1, <3>1
  <2> QED BY <2>2, <2>3, <2>4 DEF SuspendedInv
<1>15. WaitInv(j)
  <2> SUFFICES ASSUME NEW u \in Tib, j.maintain[u] = "maintain", NEW t \in Below(j, {u})
               PROVE  j.status[t] # "ACTION_WAIT"
    BY DEF WaitInv
  <2>1. i.maintain[u] = "maintain"
    BY <1>1
  <2>2. LeastClosed(Below(i, {u}), {u}, i.fils)
    BY BelowLeast
  <2>3. \A v \in Tib : j.fils[v] \subseteq i.fils[v]
    BY <1>5
  <2>4. \A v \in Below(i, {u}) : j.fils[v] \subseteq Below(i, {u})
    BY <2>2, <2>3 DEF LeastClosed
  <2>5. Below(j, {u}) \subseteq Below(i, {u})
    BY <2>2, <2>4, BelowFewer DEF LeastClosed
  <2>6. i.status[t] # "ACTION_WAIT" /\ t \in Tib
    BY <2>1, <2>2, <2>5 DEF TreeInv, WaitInv, LeastClosed
  <2> QED BY <1>1, <2>6
<1>16. FreeInv(j)
  <2>1. /\ \A t \in Free(i) : i.goal[t] = "none" /\ i.maintain[t] = "none"
        /\ i.watched \subseteq Live(i) /\ i.broken \subseteq Live(i)
    BY DEF TreeInv, FreeInv
  <2>2. Free(j) = Free(i) \cup gone /\ gone \subseteq Tib
    BY <1>1, <1>3 DEF Free, Gone, Live
  <2>3. f \notin Free(i)
    BY TibAssumption DEF Live, Free
  <2> QED BY <1>1, <1>2, <1>6, <2>1, <2>2, <2>3 DEF FreeInv, Free
<1> QED BY <1>3, <1>5, <1>12, <1>13, <1>14, <1>15, <1>16 DEF TreeInv, gone


-----------------------------------------------------------------------------
(* Kinds of steps: no thread comes or goes *)

Stays(i, j) ==
  /\ j.pere = i.pere /\ j.fils = i.fils /\ j.suspended = i.suspended
  /\ j.broken \subseteq i.broken /\ j.watched \subseteq i.watched
  /\ \A t \in Tib : j.maintain[t] = i.maintain[t] \/ (j.maintain[t] = "none" /\ t \in i.watched)
  /\ \A t \in Tib : i.status[t] = "free" => j.goal[t] = i.goal[t]

SameStatus(i, j, t) ==
  j.status[t] = i.status[t] /\ j.active[t] = i.active[t] /\ (t \in j.waits <=> t \in i.waits)

\* A thread without sons goes to sleep, wakes up or joins.
NewStatus(i, j, t) ==
  /\ t \in Live(i) \ Behind(i) /\ i.fils[t] = {}
  /\ i.status[t] # "JOINING" /\ j.status[t] # "free"
  /\ j.active[t] = IF j.status[t] = "ACTIVE" THEN 1 ELSE 0
  /\ t \in j.waits <=> j.status[t] \in {"SLEEPING", "SUSP_SLEEPING", "ACTION_WAIT"}
  /\ j.status[t] # "JOINING" => (Suspended(j, t) <=> Suspended(i, t))
  /\ j.status[t] = "ACTION_WAIT" =>
       \A u \in Tib : i.maintain[u] = "maintain" => t \notin Below(i, {u})

LEMMA StaysTree ==
  ASSUME NEW i \in Intention, NEW j \in Intention, TreeInv(i), Stays(i, j),
         \A t \in Tib : SameStatus(i, j, t) \/ NewStatus(i, j, t)
  PROVE  TreeInv(j)
<1>1. /\ j.pere = i.pere /\ j.fils = i.fils /\ j.suspended = i.suspended
      /\ j.broken \subseteq i.broken /\ j.watched \subseteq i.watched
      /\ \A t \in Tib : j.maintain[t] = i.maintain[t] \/ (j.maintain[t] = "none" /\ t \in i.watched)
      /\ \A t \in Tib : i.status[t] = "free" => j.goal[t] = i.goal[t]
  BY DEF Stays
<1>2. \A t \in Tib : i.status[t] = "free" <=> j.status[t] = "free"
  BY DEF SameStatus, NewStatus, Live, Free
<1>3. Free(j) = Free(i) /\ Live(j) = Live(i)
  BY <1>2 DEF Live, Free
<1>4. Behind(j) = Behind(i)
  BY <1>1 DEF Behind
<1>5. Tree(j)
  BY <1>1, <1>3, <1>4 DEF TreeInv, Tree, Listed, Replaced, Reached
<1>6. ActiveInv(j)
  <2> SUFFICES ASSUME NEW t \in Tib
               PROVE  /\ j.active[t] = IF j.status[t] = "ACTIVE" /\ j.fils[t] = {} THEN 1 ELSE 0
                      /\ t \in j.waits <=> j.status[t] \in {"SLEEPING", "SUSP_SLEEPING", "ACTION_WAIT"}
                      /\ j.fils[t] # {} => j.status[t] \in {"ACTIVE", "SUSP_ACTIVE"}
    BY DEF ActiveInv
  <2>1. CASE SameStatus(i, j, t)
    BY <1>1, <2>1 DEF SameStatus, TreeInv, ActiveInv
  <2>2. CASE NewStatus(i, j, t)
    BY <1>1, <2>2 DEF NewStatus
  <2> QED BY <2>1, <2>2
<1>7. \A t \in Tib : j.status[t] # "JOINING" => i.status[t] # "JOINING" /\ (Suspended(j, t) <=> Suspended(i, t))
  BY DEF SameStatus, NewStatus, Suspended
<1>8. SuspendedInv(j)
  <2>1. /\ \A t \in Live(i) \ Behind(i) :
             i.status[t] # "JOINING" =>
               (Suspended(i, t) <=> i.pere[t] # Top /\ Suspended(i, i.pere[t]))
        /\ \A t \in Behind(i) :
             i.status[t] = "SUSP_ACTIVE" /\ t \notin i.watched /\ i.maintain[t] = "maintain"
        /\ \A t \in i.broken : t \in Behind(i) \/ i.suspended[t] # None
    BY DEF TreeInv, SuspendedInv
  <2>2. ASSUME NEW t \in Live(j) \ Behind(j), j.status[t] # "JOINING"
        PROVE  Suspended(j, t) <=> j.pere[t] # Top /\ Suspended(j, j.pere[t])
    <3>1. t \in Tib /\ t \in i.fils[i.pere[t]]
      BY <1>3, <1>4 DEF Live, TreeInv, Tree
    <3>2. i.pere[t] # Top => i.pere[t] \in Tib /\ i.fils[i.pere[t]] # {}
      BY <3>1, Fields
    <3>3. i.pere[t] # Top => SameStatus(i, j, i.pere[t])
      BY <3>2 DEF NewStatus
    <3>4. i.pere[t] # Top => (Suspended(j, i.pere[t]) <=> Suspended(i, i.pere[t]))
      BY <3>3 DEF SameStatus, Suspended
    <3> QED BY <1>1, <1>3, <1>4, <1>7, <2>1, <2>2, <3>1, <3>4
  <2>3. ASSUME NEW t \in Behind(j)
        PROVE  j.status[t] = "SUSP_ACTIVE" /\ t \notin j.watched /\ j.maintain[t] = "maintain"
    <3>1. t \in Behind(i) /\ t \in Tib
      BY <1>4, BehindTib
    <3>2. SameStatus(i, j, t)
      BY <3>1 DEF NewStatus
    <3> QED BY <1>1, <2>1, <3>1, <3>2 DEF SameStatus
  <2>4. ASSUME NEW t \in j.broken PROVE t \in Behind(j) \/ j.suspended[t] # None
    BY <1>1, <1>4, <2>1
  <2> QED BY <2>2, <2>3, <2>4 DEF SuspendedInv
<1>9. WaitInv(j)
  <2> SUFFICES ASSUME NEW u \in Tib, j.maintain[u] = "maintain", NEW t \in Below(j, {u})
               PROVE  j.status[t] # "ACTION_WAIT"
    BY DEF WaitInv
  <2>1. i.maintain[u] = "maintain" /\ t \in Below(i, {u})
    BY <1>1 DEF Below
  <2>2. i.status[t] # "ACTION_WAIT" /\ t \in Tib
    BY <2>1, BelowLeast DEF TreeInv, WaitInv, LeastClosed
  <2>3. SameStatus(i, j, t) \/ NewStatus(i, j, t)
    BY <2>2
  <2> QED BY <2>1, <2>2, <2>3 DEF SameStatus, NewStatus
<1>10. FreeInv(j)
  <2>1. /\ \A t \in Free(i) : i.goal[t] = "none" /\ i.maintain[t] = "none"
        /\ i.watched \subseteq Live(i) /\ i.broken \subseteq Live(i)
    BY DEF TreeInv, FreeInv
  <2> QED BY <1>1, <1>3, <2>1 DEF FreeInv, Free
<1> QED BY <1>5, <1>6, <1>8, <1>9, <1>10 DEF TreeInv


-----------------------------------------------------------------------------
(* Kinds of steps: n is a new son of f, which may get its first maintain *)

FreeSons(i, n) == i.fils[n] = {} /\ i.suspended[n] = None /\ n \notin Behind(i)

LEMMA FreeLeaf ==
  ASSUME NEW i \in Intention, Tree(i), NEW n \in Free(i)
  PROVE  FreeSons(i, n) /\ n \in Tib /\ \A f \in Tib \cup {Top} : n \notin i.fils[f]
<1>1. n \in Tib /\ n \notin Live(i)
  BY DEF Free, Live
<1>2. i.fils[n] = {}
  BY <1>1 DEF Tree, Listed
<1>3. i.suspended[n] = None
  BY <1>1 DEF Tree, Replaced
<1>4. n \notin Behind(i)
  BY <1>1 DEF Tree, Replaced, Behind
<1>5. \A f \in Tib \cup {Top} : n \notin i.fils[f]
  BY <1>1 DEF Tree, Listed
<1> QED BY <1>1, <1>2, <1>3, <1>4, <1>5 DEF FreeSons

Adds(i, j, f, n) ==
  /\ n \in Free(i) /\ f \in Live(i) \cup {Top} /\ (f # Top => i.status[f] = "ACTIVE")
  /\ j.status = [i.status EXCEPT ![n] = "ACTIVE"]
  /\ j.pere = [i.pere EXCEPT ![n] = f]
  /\ j.fils = [i.fils EXCEPT ![f] = i.fils[f] \cup {n}]
  /\ j.suspended = i.suspended /\ j.broken = i.broken /\ j.waits = i.waits
  /\ j.watched \subseteq i.watched \cup {f}
  /\ \A t \in Tib : j.maintain[t] = i.maintain[t] \/ (t = f /\ i.fils[f] = {})
  /\ \A t \in Tib : i.status[t] = "free" /\ t # n => j.goal[t] = i.goal[t]
  /\ \A t \in Tib : j.active[t] = IF t = n THEN 1 ELSE IF t = f THEN 0 ELSE i.active[t]

LEMMA AddsTree ==
  ASSUME NEW i \in Intention, NEW j \in Intention, TreeInv(i), NEW f, NEW n, Adds(i, j, f, n)
  PROVE  TreeInv(j)
<1>1. n \in Free(i) /\ f \in Live(i) \cup {Top} /\ (f # Top => i.status[f] = "ACTIVE")
  BY DEF Adds
<1>2. /\ j.status = [i.status EXCEPT ![n] = "ACTIVE"]
      /\ j.pere = [i.pere EXCEPT ![n] = f]
      /\ j.fils = [i.fils EXCEPT ![f] = i.fils[f] \cup {n}]
      /\ j.suspended = i.suspended /\ j.broken = i.broken /\ j.waits = i.waits
  BY DEF Adds
<1>3. /\ j.watched \subseteq i.watched \cup {f}
      /\ \A t \in Tib : j.maintain[t] = i.maintain[t] \/ (t = f /\ i.fils[f] = {})
      /\ \A t \in Tib : i.status[t] = "free" /\ t # n => j.goal[t] = i.goal[t]
      /\ \A t \in Tib : j.active[t] = IF t = n THEN 1 ELSE IF t = f THEN 0 ELSE i.active[t]
  BY DEF Adds
<1>4. FreeSons(i, n) /\ n \in Tib /\ \A g \in Tib \cup {Top} : n \notin i.fils[g]
  BY <1>1, FreeLeaf DEF TreeInv
<1>5. Listed(i) /\ Replaced(i) /\ Reached(i) /\ \A t \in Live(i) : t \in i.fils[i.pere[t]] \/ t \in Behind(i)
  BY DEF TreeInv, Tree
<1>6. f \in Tib \cup {Top} /\ f # n /\ i.status[n] = "free" /\ (f \in Tib => i.status[f] = "ACTIVE")
  BY <1>1, <1>4, TibAssumption DEF Live, Free
<1>7. \A g \in Tib \cup {Top} : j.fils[g] = IF g = f THEN i.fils[f] \cup {n} ELSE i.fils[g]
  BY <1>2, <1>6, Fields
<1>8. \A t \in Tib : /\ j.status[t] = IF t = n THEN "ACTIVE" ELSE i.status[t]
                     /\ j.pere[t] = IF t = n THEN f ELSE i.pere[t]
  BY <1>2, Fields
<1>9. Live(j) = Live(i) \cup {n} /\ Free(j) = Free(i) \ {n}
  BY <1>4, <1>8 DEF Live, Free
<1>10. Behind(j) = Behind(i)
  BY <1>2 DEF Behind
<1>11. Listed(j)
  <2> SUFFICES ASSUME NEW g \in Tib \cup {Top}, NEW t \in j.fils[g]
               PROVE  t \in Live(j) /\ j.pere[t] = g /\ g \notin Free(j)
    BY DEF Listed
  <2>1. CASE t = n
    <3>1. g = f
      BY <1>4, <1>7, <2>1
    <3> QED BY <1>4, <1>6, <1>8, <1>9, <2>1, <3>1, TibAssumption DEF Free
  <2>2. CASE t # n
    <3>1. t \in i.fils[g]
      BY <1>7, <2>2
    <3>2. t \in Live(i) /\ i.pere[t] = g /\ g \notin Free(i)
      BY <1>5, <3>1 DEF Listed
    <3>3. t \in Tib
      BY <3>2 DEF Live
    <3> QED BY <1>8, <1>9, <2>2, <3>2, <3>3
  <2> QED BY <2>1, <2>2
<1>12. Replaced(j)
  <2> SUFFICES ASSUME NEW m \in Tib, j.suspended[m] # None
               PROVE  LET t == j.suspended[m]
                      IN  /\ m \in Live(j) /\ t \in Live(j)
                          /\ j.pere[m] = j.pere[t] /\ t \notin j.fils[j.pere[t]]
                          /\ \A o \in Tib : j.suspended[o] = t => o = m
    BY DEF Replaced
  <2> DEFINE t == j.suspended[m]
  <2>1. t = i.suspended[m] /\ t # None
    BY <1>2
  <2>2. /\ m \in Live(i) /\ t \in Live(i) /\ i.pere[m] = i.pere[t] /\ t \notin i.fils[i.pere[t]]
        /\ \A o \in Tib : i.suspended[o] = t => o = m
    BY <1>5, <2>1 DEF Replaced
  <2>3. m # n /\ t # n /\ t \in Tib
    BY <1>1, <2>2 DEF Live
  <2> HIDE DEF t
  <2>4. j.pere[m] = i.pere[m] /\ j.pere[t] = i.pere[t] /\ i.pere[t] \in Tib \cup {Top}
    BY <1>8, <2>3, Fields
  <2>5. t \notin j.fils[j.pere[t]]
    BY <1>7, <2>2, <2>3, <2>4
  <2> QED BY <1>2, <1>9, <2>2, <2>4, <2>5 DEF t
<1>13. ASSUME NEW t \in Live(j) PROVE t \in j.fils[j.pere[t]] \/ t \in Behind(j)
  <2>1. CASE t = n
    BY <1>4, <1>6, <1>7, <1>8, <2>1
  <2>2. CASE t # n
    <3>1. t \in Live(i) /\ t \in Tib
      BY <1>9, <2>2 DEF Live
    <3>2. j.pere[t] = i.pere[t] /\ i.pere[t] \in Tib \cup {Top}
      BY <1>8, <2>2, <3>1, Fields
    <3>3. t \in i.fils[i.pere[t]] => t \in j.fils[j.pere[t]]
      BY <1>7, <3>2
    <3> QED BY <1>5, <1>10, <3>1, <3>3
  <2> QED BY <2>1, <2>2
<1>14. Reached(j)
  <2> SUFFICES ASSUME NEW C \in SUBSET Tib, j.fils[Top] \subseteq C,
                      \A u \in C : j.fils[u] \subseteq C,
                      \A u \in C : j.suspended[u] # None => j.suspended[u] \in C
               PROVE  Live(j) \subseteq C
    BY DEF Reached
  <2>1. i.fils[Top] \subseteq C /\ \A u \in C : i.fils[u] \subseteq C
    BY <1>7
  <2>2. Live(i) \subseteq C
    BY <1>2, <1>5, <2>1 DEF Reached
  <2>3. n \in j.fils[f]
    BY <1>6, <1>7
  <2>4. n \in C
    BY <1>1, <2>2, <2>3
  <2> QED BY <1>9, <2>2, <2>4
<1>15. Tree(j)
  BY <1>11, <1>12, <1>13, <1>14 DEF Tree
<1>16. ActiveInv(j)
  <2> SUFFICES ASSUME NEW t \in Tib
               PROVE  /\ j.active[t] = IF j.status[t] = "ACTIVE" /\ j.fils[t] = {} THEN 1 ELSE 0
                      /\ t \in j.waits <=> j.status[t] \in {"SLEEPING", "SUSP_SLEEPING", "ACTION_WAIT"}
                      /\ j.fils[t] # {} => j.status[t] \in {"ACTIVE", "SUSP_ACTIVE"}
    BY DEF ActiveInv
  <2>1. /\ i.active[t] = IF i.status[t] = "ACTIVE" /\ i.fils[t] = {} THEN 1 ELSE 0
        /\ t \in i.waits <=> i.status[t] \in {"SLEEPING", "SUSP_SLEEPING", "ACTION_WAIT"}
        /\ i.fils[t] # {} => i.status[t] \in {"ACTIVE", "SUSP_ACTIVE"}
    BY DEF TreeInv, ActiveInv
  <2>2. CASE t = n
    <3>1. j.status[t] = "ACTIVE" /\ j.active[t] = 1 /\ j.fils[t] = {} /\ t \notin j.waits
      BY <1>2, <1>3, <1>4, <1>6, <1>7, <1>8, <2>1, <2>2 DEF FreeSons
    <3> QED BY <3>1
  <2>3. CASE t # n /\ t # f
    <3>1. j.status[t] = i.status[t] /\ j.active[t] = i.active[t] /\ j.fils[t] = i.fils[t] /\ (t \in j.waits <=> t \in i.waits)
      BY <1>2, <1>3, <1>7, <1>8, <2>3
    <3> QED BY <2>1, <3>1
  <2>4. CASE t = f
    <3>1. j.status[t] = "ACTIVE" /\ j.active[t] = 0 /\ j.fils[t] # {} /\ (t \in j.waits <=> t \in i.waits)
      BY <1>2, <1>3, <1>6, <1>7, <1>8, <2>4
    <3> QED BY <1>6, <2>1, <2>4, <3>1
  <2> QED BY <2>2, <2>3, <2>4
<1>17. SuspendedInv(j)
  <2>1. /\ \A t \in Live(i) \ Behind(i) :
             i.status[t] # "JOINING" =>
               (Suspended(i, t) <=> i.pere[t] # Top /\ Suspended(i, i.pere[t]))
        /\ \A t \in Behind(i) :
             i.status[t] = "SUSP_ACTIVE" /\ t \notin i.watched /\ i.maintain[t] = "maintain"
        /\ \A t \in i.broken : t \in Behind(i) \/ i.suspended[t] # None
    BY DEF TreeInv, SuspendedInv
  <2>2. ASSUME NEW t \in Live(j) \ Behind(j), j.status[t] # "JOINING"
        PROVE  Suspended(j, t) <=> j.pere[t] # Top /\ Suspended(j, j.pere[t])
    <3>1. CASE t = n
      BY <1>4, <1>6, <1>8, <3>1 DEF Suspended
    <3>2. CASE t # n
      <4>1. t \in Live(i) \ Behind(i) /\ t \in Tib
        BY <1>9, <1>10, <3>2 DEF Live
      <4>2. t \in i.fils[i.pere[t]]
        BY <1>5, <4>1
      <4>3. i.pere[t] # Top => i.pere[t] \in Tib /\ i.pere[t] # n
        BY <1>4, <4>1, <4>2, Fields DEF FreeSons
      <4> QED BY <1>8, <2>1, <2>2, <3>2, <4>1, <4>3 DEF Suspended
    <3> QED BY <3>1, <3>2
  <2>3. ASSUME NEW t \in Behind(j)
        PROVE  j.status[t] = "SUSP_ACTIVE" /\ t \notin j.watched /\ j.maintain[t] = "maintain"
    <3>1. t \in Behind(i) /\ t \in Tib
      BY <1>10, BehindTib
    <3>2. t # f /\ t # n
      BY <1>4, <1>6, <2>1, <3>1 DEF FreeSons
    <3> QED BY <1>3, <1>8, <2>1, <3>1, <3>2
  <2>4. ASSUME NEW t \in j.broken PROVE t \in Behind(j) \/ j.suspended[t] # None
    BY <1>2, <1>10, <2>1
  <2> QED BY <2>2, <2>3, <2>4 DEF SuspendedInv
<1>18. WaitInv(j)
  <2> SUFFICES ASSUME NEW u \in Tib, j.maintain[u] = "maintain", NEW t \in Below(j, {u})
               PROVE  j.status[t] # "ACTION_WAIT"
    BY DEF WaitInv
  <2>1. j.status[n] # "ACTION_WAIT" /\ (f \in Tib => j.status[f] # "ACTION_WAIT")
    BY <1>4, <1>6, <1>8
  <2>2. CASE u = f /\ i.fils[f] = {}
    <3> DEFINE D == {f, n}
    <3>1. D \in SUBSET Tib /\ u \in D
      BY <1>4, <2>2
    <3>2. j.fils[f] = {n} /\ j.fils[n] = {}
      BY <1>4, <1>6, <1>7, <2>2 DEF FreeSons
    <3>3. \A v \in D : j.fils[v] \subseteq D
      BY <3>2
    <3> HIDE DEF D
    <3>4. Below(j, {u}) \subseteq D
      BY <3>1, <3>3, BelowFewer
    <3> QED BY <2>1, <2>2, <3>4 DEF D
  <2>3. CASE ~(u = f /\ i.fils[f] = {})
    <3> DEFINE D == Below(i, {u}) \cup {n}
    <3>1. i.maintain[u] = "maintain"
      BY <1>3, <2>3
    <3>2. LeastClosed(Below(i, {u}), {u}, i.fils)
      BY BelowLeast
    <3>3. D \in SUBSET Tib /\ u \in D
      BY <1>4, <3>2 DEF LeastClosed
    <3>4. ASSUME NEW v \in D PROVE j.fils[v] \subseteq D
      <4>1. v \in Tib /\ j.fils[v] \subseteq i.fils[v] \cup {n}
        BY <1>7, <3>3
      <4>2. i.fils[v] \subseteq D
        BY <1>4, <3>2 DEF LeastClosed, FreeSons
      <4> QED BY <4>1, <4>2
    <3> HIDE DEF D
    <3>5. Below(j, {u}) \subseteq D
      BY <3>3, <3>4, BelowFewer
    <3>6. \A v \in Below(i, {u}) : v \in Tib /\ i.status[v] # "ACTION_WAIT"
      BY <3>1, <3>2 DEF TreeInv, WaitInv, LeastClosed
    <3> QED BY <1>8, <2>1, <3>5, <3>6 DEF D
  <2> QED BY <2>2, <2>3
<1>19. FreeInv(j)
  <2>1. /\ \A t \in Free(i) : i.goal[t] = "none" /\ i.maintain[t] = "none"
        /\ i.watched \subseteq Live(i) /\ i.broken \subseteq Live(i)
    BY DEF TreeInv, FreeInv
  <2>2. f \notin Free(i) /\ (f \in j.watched => f \in Live(i))
    BY <1>1, <1>6, Fields, TibAssumption DEF Free
  <2> QED BY <1>2, <1>3, <1>9, <2>1, <2>2 DEF FreeInv, Free
<1> QED BY <1>15, <1>16, <1>17, <1>18, <1>19 DEF TreeInv


-----------------------------------------------------------------------------
(* Kinds of steps: n takes the place of t, which is suspended behind it *)

SuspendedStatus(s) ==
  CASE s = "ACTIVE" -> "SUSP_ACTIVE" [] s = "SLEEPING" -> "SUSP_SLEEPING" [] OTHER -> s

Splits(i, j, t, n) ==
  LET hit == IF i.status[t] = "ACTIVE" THEN Below(j, {t}) ELSE {}
  IN  /\ n \in Free(i) /\ t \in Live(i) \ Behind(i)
      /\ i.status[t] \in {"ACTIVE", "SUSP_ACTIVE"} /\ i.maintain[t] = "maintain"
      /\ \A u \in Tib : j.status[u] =
           LET s == IF u = n THEN i.status[t] ELSE i.status[u]
           IN  IF u \in hit THEN SuspendedStatus(s) ELSE s
      /\ j.pere = [i.pere EXCEPT ![n] = i.pere[t]]
      /\ j.fils = [i.fils EXCEPT ![i.pere[t]] = (i.fils[i.pere[t]] \ {t}) \cup {n}]
      /\ j.suspended = [i.suspended EXCEPT ![n] = t]
      /\ j.broken = i.broken \cup {t, n} /\ j.watched = i.watched \ {t}
      /\ j.maintain = i.maintain /\ j.waits = i.waits
      /\ \A u \in Tib : u # n => j.goal[u] = i.goal[u]
      /\ \A u \in Tib : j.active[u] =
           LET a == IF u \in hit THEN Removed(i.active[u]) ELSE i.active[u]
           IN  IF u = n /\ i.status[t] = "ACTIVE" THEN a + 1 ELSE a

LEMMA SplitsTree ==
  ASSUME NEW i \in Intention, NEW j \in Intention, TreeInv(i), NEW t, NEW n, Splits(i, j, t, n)
  PROVE  TreeInv(j)
<1> DEFINE hit == IF i.status[t] = "ACTIVE" THEN Below(j, {t}) ELSE {}
           p == i.pere[t]
<1>1. /\ n \in Free(i) /\ t \in Live(i) \ Behind(i)
      /\ i.status[t] \in {"ACTIVE", "SUSP_ACTIVE"} /\ i.maintain[t] = "maintain"
  BY DEF Splits
<1>2. \A u \in Tib : j.status[u] =
        LET s == IF u = n THEN i.status[t] ELSE i.status[u]
        IN  IF u \in hit THEN SuspendedStatus(s) ELSE s
  BY DEF Splits
<1>3. /\ j.pere = [i.pere EXCEPT ![n] = p]
      /\ j.fils = [i.fils EXCEPT ![p] = (i.fils[p] \ {t}) \cup {n}]
      /\ j.suspended = [i.suspended EXCEPT ![n] = t]
  BY DEF Splits
<1>4. /\ j.broken = i.broken \cup {t, n} /\ j.watched = i.watched \ {t}
      /\ j.maintain = i.maintain /\ j.waits = i.waits
      /\ \A u \in Tib : u # n => j.goal[u] = i.goal[u]
  BY DEF Splits
<1>5. \A u \in Tib : j.active[u] =
        LET a == IF u \in hit THEN Removed(i.active[u]) ELSE i.active[u]
        IN  IF u = n /\ i.status[t] = "ACTIVE" THEN a + 1 ELSE a
  BY DEF Splits
<1>6. FreeSons(i, n) /\ n \in Tib /\ \A g \in Tib \cup {Top} : n \notin i.fils[g]
  BY <1>1, FreeLeaf DEF TreeInv
<1>7. Listed(i) /\ Replaced(i) /\ Reached(i) /\ \A u \in Live(i) : u \in i.fils[i.pere[u]] \/ u \in Behind(i)
  BY DEF TreeInv, Tree
<1>8. t \in Tib /\ t # n /\ t \in i.fils[p] /\ p \in Tib \cup {Top} /\ t # None
  BY <1>1, <1>7, Fields, TibAssumption DEF Live, Free
<1>9. p \notin Free(i) /\ p # n
  BY <1>1, <1>7, <1>8 DEF Listed
<1>10. p \notin RemovedWith(i, {t})
  BY <1>8, RemovedGone DEF TreeInv, Gone
<1> HIDE DEF p
<1>11. \A g \in Tib \cup {Top} : j.fils[g] = IF g = p THEN (i.fils[p] \ {t}) \cup {n} ELSE i.fils[g]
  BY <1>3, <1>8, Fields
<1>12. \A u \in Tib : /\ j.pere[u] = IF u = n THEN p ELSE i.pere[u]
                      /\ j.suspended[u] = IF u = n THEN t ELSE i.suspended[u]
  BY <1>3, Fields
<1>13. i.pere[t] = p
  BY DEF p
\* Neither the new thread nor the father is below t.
<1>14. LeastClosed(Below(j, {t}), {t}, j.fils)
  BY <1>8, BelowLeast
<1>15. LeastClosed(Below(i, {t}), {t}, i.fils)
  BY <1>8, BelowLeast
<1>16. p \notin Below(i, {t})
  <2>1. LeastClosed(RemovedWith(i, {t}), {t}, Edges(i))
    BY <1>8, RemovedLeast
  <2>2. \A u \in RemovedWith(i, {t}) : u \in Tib /\ i.fils[u] \subseteq RemovedWith(i, {t})
    BY <2>1 DEF LeastClosed, Edges
  <2>3. RemovedWith(i, {t}) \in SUBSET Tib /\ {t} \subseteq RemovedWith(i, {t})
    BY <2>1 DEF LeastClosed
  <2>4. Below(i, {t}) \subseteq RemovedWith(i, {t})
    BY <1>15, <2>2, <2>3 DEF LeastClosed
  <2> QED BY <1>10, <2>4
<1>17. Below(j, {t}) \subseteq Below(i, {t})
  <2>1. \A u \in Below(i, {t}) : u \in Tib /\ u # p /\ i.fils[u] \subseteq Below(i, {t})
    BY <1>15, <1>16 DEF LeastClosed
  <2>2. \A u \in Below(i, {t}) : j.fils[u] \subseteq Below(i, {t})
    BY <1>11, <2>1
  <2> QED BY <1>8, <1>15, <2>2, BelowFewer DEF LeastClosed
<1>18. p \notin Below(j, {t})
  BY <1>16, <1>17
<1>19. n \notin Below(j, {t})
  <2> SUFFICES ASSUME n \in Below(j, {t}) PROVE FALSE
    OBVIOUS
  <2>1. PICK u \in Below(j, {t}) : n \in j.fils[u]
    BY <1>8, <1>14 DEF LeastClosed
  <2>2. u \in Tib /\ u # p
    BY <1>14, <1>18 DEF LeastClosed
  <2> QED BY <1>6, <1>11, <2>1, <2>2
<1>20. hit \subseteq Tib /\ n \notin hit /\ p \notin hit /\ hit \subseteq Below(i, {t})
  BY <1>14, <1>17, <1>18, <1>19 DEF LeastClosed
<1>21. \A u \in Tib : j.status[u] = IF u = n THEN i.status[t] ELSE IF u \in hit THEN SuspendedStatus(i.status[u]) ELSE i.status[u]
  BY <1>2, <1>20
<1>22. \A u \in Tib : (u \in hit /\ u # t) => i.pere[u] \in hit /\ u \in i.fils[i.pere[u]]
  <2> SUFFICES ASSUME NEW u \in Tib, u \in hit, u # t PROVE i.pere[u] \in hit /\ u \in i.fils[i.pere[u]]
    OBVIOUS
  <2>1. PICK v \in hit : u \in j.fils[v]
    BY <1>14 DEF LeastClosed
  <2>2. v \in Tib /\ v # p /\ u \in i.fils[v]
    BY <1>11, <1>20, <2>1
  <2> QED BY <1>7, <2>2 DEF Listed
<1>23. \A u \in Tib \cup {Top} : u \in hit => i.fils[u] \subseteq hit
  BY <1>11, <1>14, <1>20 DEF LeastClosed
<1>24. i.status[t] = "ACTIVE" => t \in hit
  BY <1>14 DEF LeastClosed
<1>25. i.status[t] # "ACTIVE" => hit = {}
  OBVIOUS
<1> HIDE DEF hit
<1>26. \A u \in Tib : (i.status[u] = "free" /\ u # n) <=> j.status[u] = "free"
  BY <1>1, <1>8, <1>21 DEF SuspendedStatus
<1>27. Live(j) = Live(i) \cup {n} /\ Free(j) = Free(i) \ {n}
  BY <1>1, <1>6, <1>26 DEF Live, Free
<1>28. Behind(j) = Behind(i) \cup {t}
  <2>1. i.suspended[n] = None
    BY <1>6 DEF FreeSons
  <2> QED BY <1>6, <1>8, <1>12, <2>1 DEF Behind
<1>29. Listed(j)
  <2> SUFFICES ASSUME NEW g \in Tib \cup {Top}, NEW u \in j.fils[g]
               PROVE  u \in Live(j) /\ j.pere[u] = g /\ g \notin Free(j)
    BY DEF Listed
  <2>1. CASE u = n
    <3>1. g = p
      BY <1>6, <1>11, <2>1
    <3> QED BY <1>6, <1>9, <1>12, <1>27, <2>1, <3>1
  <2>2. CASE u # n
    <3>1. u \in i.fils[g]
      BY <1>11, <2>2
    <3>2. u \in Live(i) /\ i.pere[u] = g /\ g \notin Free(i)
      BY <1>7, <3>1 DEF Listed
    <3>3. u \in Tib
      BY <3>2 DEF Live
    <3> QED BY <1>12, <1>27, <2>2, <3>2, <3>3
  <2> QED BY <2>1, <2>2
<1>30. Replaced(j)
  <2> SUFFICES ASSUME NEW m \in Tib, j.suspended[m] # None
               PROVE  LET u == j.suspended[m]
                      IN  /\ m \in Live(j) /\ u \in Live(j)
                          /\ j.pere[m] = j.pere[u] /\ u \notin j.fils[j.pere[u]]
                          /\ \A o \in Tib : j.suspended[o] = u => o = m
    BY DEF Replaced
  <2> DEFINE u == j.suspended[m]
  <2>1. CASE m = n
    <3>1. u = t
      BY <1>12, <2>1
    <3>2. j.pere[m] = p /\ j.pere[u] = p
      BY <1>8, <1>12, <1>13, <2>1, <3>1
    <3>3. t \notin j.fils[p]
      BY <1>8, <1>11
    <3>4. \A o \in Tib : i.suspended[o] # t
      BY <1>1, <1>8 DEF Behind
    <3>5. \A o \in Tib : j.suspended[o] = u => o = m
      BY <1>12, <2>1, <3>1, <3>4
    <3> QED BY <1>1, <1>27, <2>1, <3>1, <3>2, <3>3, <3>5
  <2>2. CASE m # n
    <3>1. u = i.suspended[m] /\ u # None
      BY <1>12, <2>2
    <3>2. /\ m \in Live(i) /\ u \in Live(i) /\ i.pere[m] = i.pere[u] /\ u \notin i.fils[i.pere[u]]
          /\ \A o \in Tib : i.suspended[o] = u => o = m
      BY <1>7, <3>1 DEF Replaced
    <3>3. u \in Behind(i)
      BY <3>1 DEF Behind
    <3>4. u # t /\ u # n /\ u \in Tib
      BY <1>1, <3>2, <3>3 DEF Live
    <3> HIDE DEF u
    <3>5. j.pere[m] = i.pere[m] /\ j.pere[u] = i.pere[u] /\ i.pere[u] \in Tib \cup {Top}
      BY <1>12, <2>2, <3>4, Fields
    <3>6. u \notin j.fils[j.pere[u]]
      BY <1>11, <3>2, <3>4, <3>5
    <3>7. \A o \in Tib : j.suspended[o] = u => o = m
      BY <1>12, <3>2, <3>4
    <3> QED BY <1>27, <3>2, <3>5, <3>6, <3>7 DEF u
  <2> QED BY <2>1, <2>2
<1>31. ASSUME NEW u \in Live(j) PROVE u \in j.fils[j.pere[u]] \/ u \in Behind(j)
  <2>1. CASE u = n
    BY <1>6, <1>8, <1>11, <1>12, <2>1
  <2>2. CASE u = t
    BY <1>28, <2>2
  <2>3. CASE u # n /\ u # t
    <3>1. u \in Live(i) /\ u \in Tib
      BY <1>27, <2>3 DEF Live
    <3>2. j.pere[u] = i.pere[u] /\ i.pere[u] \in Tib \cup {Top}
      BY <1>12, <2>3, <3>1, Fields
    <3>3. u \in i.fils[i.pere[u]] => u \in j.fils[j.pere[u]]
      BY <1>11, <2>3, <3>2
    <3> QED BY <1>7, <1>28, <3>1, <3>3
  <2> QED BY <2>1, <2>2, <2>3
<1>32. Reached(j)
  <2> SUFFICES ASSUME NEW C \in SUBSET Tib, j.fils[Top] \subseteq C,
                      \A u \in C : j.fils[u] \subseteq C,
                      \A u \in C : j.suspended[u] # None => j.suspended[u] \in C
               PROVE  Live(j) \subseteq C
    BY DEF Reached
  <2>1. ASSUME NEW g \in C \cup {Top} PROVE i.fils[g] \subseteq C
    <3>1. j.fils[g] \subseteq C /\ g \in Tib \cup {Top}
      OBVIOUS
    <3>2. CASE g = p
      <4>1. n \in C
        BY <1>11, <3>1, <3>2
      <4>2. t \in C
        BY <1>6, <1>8, <1>12, <4>1
      <4> QED BY <1>11, <3>1, <3>2, <4>2
    <3>3. CASE g # p
      BY <1>11, <3>1, <3>3
    <3> QED BY <3>2, <3>3
  <2>2. \A u \in C : i.suspended[u] # None => i.suspended[u] \in C
    BY <1>6, <1>12 DEF FreeSons
  <2>3. Live(i) \subseteq C
    BY <1>7, <2>1, <2>2 DEF Reached
  <2>4. p \in C \cup {Top}
    BY <1>8, <1>9, <2>3 DEF Live, Free
  <2>5. n \in C
    BY <1>8, <1>11, <2>4
  <2> QED BY <1>27, <2>3, <2>5
<1>33. Tree(j)
  BY <1>29, <1>30, <1>31, <1>32 DEF Tree
<1>34. \A u \in Tib : u \in hit => i.status[u] # "ACTION_WAIT" /\ i.status[u] # "free"
  <2>1. \A u \in Tib : u \in hit => i.status[u] # "ACTION_WAIT"
    BY <1>1, <1>8, <1>20 DEF TreeInv, WaitInv
  <2>2. ASSUME NEW u \in Tib, u \in hit PROVE u \in Live(i)
    <3>1. u = t \/ (i.pere[u] \in Tib \cup {Top} /\ u \in i.fils[i.pere[u]])
      BY <1>22, <2>2, Fields
    <3> QED BY <1>1, <1>7, <3>1 DEF Listed
  <2> QED BY <2>1, <2>2 DEF Live, Free
<1>35. ActiveInv(j)
  <2> SUFFICES ASSUME NEW u \in Tib
               PROVE  /\ j.active[u] = IF j.status[u] = "ACTIVE" /\ j.fils[u] = {} THEN 1 ELSE 0
                      /\ u \in j.waits <=> j.status[u] \in {"SLEEPING", "SUSP_SLEEPING", "ACTION_WAIT"}
                      /\ j.fils[u] # {} => j.status[u] \in {"ACTIVE", "SUSP_ACTIVE"}
    BY DEF ActiveInv
  <2>1. /\ i.active[u] = IF i.status[u] = "ACTIVE" /\ i.fils[u] = {} THEN 1 ELSE 0
        /\ u \in i.waits <=> i.status[u] \in {"SLEEPING", "SUSP_SLEEPING", "ACTION_WAIT"}
        /\ i.fils[u] # {} => i.status[u] \in {"ACTIVE", "SUSP_ACTIVE"}
    BY DEF TreeInv, ActiveInv
  <2>2. CASE u = n
    <3>1. i.status[n] = "free" /\ i.fils[n] = {}
      BY <1>1, <1>6 DEF Free, FreeSons
    <3>2. j.fils[n] = {} /\ j.status[n] = i.status[t] /\ n \notin j.waits
      BY <1>4, <1>6, <1>9, <1>11, <1>21, <2>1, <2>2, <3>1
    <3>3. j.active[n] = IF i.status[t] = "ACTIVE" THEN i.active[n] + 1 ELSE i.active[n]
      BY <1>5, <1>6, <1>20
    <3> QED BY <1>1, <2>1, <2>2, <3>1, <3>2, <3>3
  <2>3. CASE u # n /\ u \in hit
    <3>1. j.active[u] = Removed(i.active[u]) /\ j.status[u] = SuspendedStatus(i.status[u])
      BY <1>5, <1>21, <2>3
    <3>2. j.fils[u] = i.fils[u] /\ (u \in j.waits <=> u \in i.waits)
      BY <1>4, <1>11, <1>20, <2>3
    <3>3. i.status[u] # "ACTION_WAIT"
      BY <1>34, <2>3
    <3>4. j.status[u] # "ACTIVE" /\ j.active[u] = 0
      BY <2>1, <3>1 DEF SuspendedStatus, Removed
    <3> QED BY <2>1, <3>1, <3>2, <3>3, <3>4 DEF SuspendedStatus
  <2>4. CASE u # n /\ u \notin hit
    <3>1. j.active[u] = i.active[u] /\ j.status[u] = i.status[u] /\ (u \in j.waits <=> u \in i.waits)
      BY <1>4, <1>5, <1>21, <2>4
    <3>2. j.fils[u] = {} <=> i.fils[u] = {}
      BY <1>8, <1>11
    <3> QED BY <2>1, <3>1, <3>2
  <2> QED BY <2>2, <2>3, <2>4
<1>36. SuspendedInv(j)
  <2>1. /\ \A u \in Live(i) \ Behind(i) :
             i.status[u] # "JOINING" =>
               (Suspended(i, u) <=> i.pere[u] # Top /\ Suspended(i, i.pere[u]))
        /\ \A u \in Behind(i) :
             i.status[u] = "SUSP_ACTIVE" /\ u \notin i.watched /\ i.maintain[u] = "maintain"
        /\ \A u \in i.broken : u \in Behind(i) \/ i.suspended[u] # None
    BY DEF TreeInv, SuspendedInv
  <2>2. p # Top => p \in Tib /\ j.status[p] = i.status[p]
    BY <1>8, <1>9, <1>20, <1>21
  <2>3. ASSUME NEW u \in Live(j) \ Behind(j), j.status[u] # "JOINING"
        PROVE  Suspended(j, u) <=> j.pere[u] # Top /\ Suspended(j, j.pere[u])
    <3>1. CASE u = n
      <4>1. j.pere[u] = p /\ j.status[u] = i.status[t]
        BY <1>6, <1>12, <1>21, <3>1
      <4>2. Suspended(i, t) <=> p # Top /\ Suspended(i, p)
        BY <1>1, <1>13, <2>1
      <4> QED BY <2>2, <4>1, <4>2 DEF Suspended
    <3>2. CASE u # n
      <4>1. u \in Live(i) \ Behind(i) /\ u \in Tib /\ u # t /\ u \in i.fils[i.pere[u]]
        BY <1>7, <1>27, <1>28, <2>3, <3>2 DEF Live
      <4>2. j.pere[u] = i.pere[u] /\ i.pere[u] \in Tib \cup {Top} /\ i.pere[u] # n
        BY <1>6, <1>12, <3>2, <4>1, Fields DEF FreeSons
      <4>3. CASE u \in hit
        <5>1. i.pere[u] \in hit /\ i.pere[u] \in Tib /\ i.pere[u] # Top
          BY <1>20, <1>22, <4>1, <4>3, TibAssumption
        <5>2. i.status[i.pere[u]] \in {"ACTIVE", "SUSP_ACTIVE"}
          BY <4>1, <5>1 DEF TreeInv, ActiveInv
        <5>3. j.status[i.pere[u]] = "SUSP_ACTIVE"
          BY <1>21, <4>2, <5>1, <5>2 DEF SuspendedStatus
        <5>4. j.status[u] = SuspendedStatus(i.status[u]) /\ i.status[u] # "ACTION_WAIT" /\ i.status[u] # "free"
          BY <1>21, <1>34, <3>2, <4>1, <4>3
        <5>5. i.status[u] \in Status
          BY <4>1, Fields
        <5>6. j.status[u] \in {"SUSP_ACTIVE", "SUSP_SLEEPING"}
          BY <2>3, <5>4, <5>5 DEF SuspendedStatus, Status
        <5> QED BY <4>2, <5>1, <5>3, <5>6 DEF Suspended
      <4>4. CASE u \notin hit
        <5>1. i.pere[u] \notin hit
          BY <1>23, <4>1, <4>2, <4>4
        <5>2. j.status[u] = i.status[u] /\ (i.pere[u] # Top => j.status[i.pere[u]] = i.status[i.pere[u]])
          BY <1>21, <3>2, <4>1, <4>2, <4>4, <5>1
        <5> QED BY <2>1, <2>3, <4>1, <4>2, <5>2 DEF Suspended
      <4> QED BY <4>3, <4>4
    <3> QED BY <3>1, <3>2
  <2>4. ASSUME NEW u \in Behind(j)
        PROVE  j.status[u] = "SUSP_ACTIVE" /\ u \notin j.watched /\ j.maintain[u] = "maintain"
    <3>1. CASE u = t
      <4>1. j.status[t] = "SUSP_ACTIVE"
        BY <1>1, <1>8, <1>21, <1>24 DEF SuspendedStatus
      <4> QED BY <1>1, <1>4, <3>1, <4>1
    <3>2. CASE u # t
      <4>1. u \in Behind(i) /\ u \in Tib /\ u # n
        BY <1>6, <1>28, <2>4, <3>2, BehindTib DEF FreeSons
      <4>2. j.status[u] = SuspendedStatus(i.status[u]) \/ j.status[u] = i.status[u]
        BY <1>21, <4>1
      <4> QED BY <1>4, <2>1, <4>1, <4>2 DEF SuspendedStatus
    <3> QED BY <3>1, <3>2
  <2>5. ASSUME NEW u \in j.broken PROVE u \in Behind(j) \/ j.suspended[u] # None
    <3>1. u \in Tib
      BY Fields
    <3> QED BY <1>4, <1>8, <1>12, <1>28, <2>1, <3>1
  <2> QED BY <2>3, <2>4, <2>5 DEF SuspendedInv
<1>37. WaitInv(j)
  <2> SUFFICES ASSUME NEW u \in Tib, j.maintain[u] = "maintain", NEW v \in Below(j, {u})
               PROVE  j.status[v] # "ACTION_WAIT"
    BY DEF WaitInv
  <2> DEFINE D == Below(i, {u}) \cup {n}
  <2>1. i.maintain[u] = "maintain"
    BY <1>4
  <2>2. LeastClosed(Below(i, {u}), {u}, i.fils)
    BY BelowLeast
  <2>3. D \in SUBSET Tib /\ u \in D
    BY <1>6, <2>2 DEF LeastClosed
  <2>4. ASSUME NEW w \in D PROVE j.fils[w] \subseteq D
    <3>1. w \in Tib /\ j.fils[w] \subseteq i.fils[w] \cup {n}
      BY <1>11, <2>3
    <3>2. i.fils[w] \subseteq D
      BY <1>6, <2>2 DEF LeastClosed, FreeSons
    <3> QED BY <3>1, <3>2
  <2> HIDE DEF D
  <2>5. Below(j, {u}) \subseteq D
    BY <2>3, <2>4, BelowFewer
  <2>6. \A w \in Below(i, {u}) : w \in Tib /\ i.status[w] # "ACTION_WAIT"
    BY <2>1, <2>2 DEF TreeInv, WaitInv, LeastClosed
  <2>7. v \in Tib /\ (v = n \/ i.status[v] # "ACTION_WAIT")
    BY <1>6, <2>5, <2>6 DEF D
  <2> QED BY <1>1, <1>21, <2>7 DEF SuspendedStatus
<1>38. FreeInv(j)
  <2>1. /\ \A u \in Free(i) : i.goal[u] = "none" /\ i.maintain[u] = "none"
        /\ i.watched \subseteq Live(i) /\ i.broken \subseteq Live(i)
    BY DEF TreeInv, FreeInv
  <2> QED BY <1>1, <1>4, <1>27, <2>1 DEF FreeInv, Free
<1> QED BY <1>33, <1>35, <1>36, <1>37, <1>38 DEF TreeInv


-----------------------------------------------------------------------------
(* Kinds of steps: n makes place for the thread it has suspended *)

ContinuedStatus(s, sons) ==
  CASE sons # {} \/ s = "SUSP_ACTIVE" -> "ACTIVE"
    [] sons = {} /\ s = "SUSP_SLEEPING" -> "SLEEPING"
    [] OTHER -> s

Continues(i, j, n) ==
  LET t == i.suspended[n]
      hit == Below(j, {t})
  IN  /\ n \in Tib /\ t # None /\ i.status[n] = "ACTIVE" /\ i.fils[n] = {}
      /\ \A u \in Tib : j.status[u] =
           IF u = n THEN "free" ELSE IF u \in hit THEN ContinuedStatus(i.status[u], j.fils[u]) ELSE i.status[u]
      /\ j.pere = [i.pere EXCEPT ![n] = Top]
      /\ j.fils = [i.fils EXCEPT ![i.pere[n]] = (i.fils[i.pere[n]] \ {n}) \cup {t}]
      /\ j.suspended = [i.suspended EXCEPT ![n] = None]
      /\ j.broken = i.broken \ {t, n} /\ j.watched \subseteq (i.watched \cup {t}) \ {n}
      /\ j.maintain = [i.maintain EXCEPT ![n] = "none"] /\ j.waits = i.waits \ {n}
      /\ \A u \in Tib : j.goal[u] = IF u = n THEN "none" ELSE i.goal[u]
      /\ \A u \in Tib : j.active[u] =
           IF u = n THEN Removed(i.active[u])
           ELSE IF u \in hit /\ j.fils[u] = {} /\ i.status[u] = "SUSP_ACTIVE" THEN i.active[u] + 1
           ELSE i.active[u]

LEMMA ContinuesTree ==
  ASSUME NEW i \in Intention, NEW j \in Intention, TreeInv(i), NEW n, Continues(i, j, n)
  PROVE  TreeInv(j)
<1> DEFINE t == i.suspended[n]
           hit == Below(j, {t})
           p == i.pere[n]
<1>1. n \in Tib /\ t # None /\ i.status[n] = "ACTIVE" /\ i.fils[n] = {}
  BY DEF Continues
<1>2. \A u \in Tib : j.status[u] =
        IF u = n THEN "free" ELSE IF u \in hit THEN ContinuedStatus(i.status[u], j.fils[u]) ELSE i.status[u]
  BY DEF Continues
<1>3. /\ j.pere = [i.pere EXCEPT ![n] = Top]
      /\ j.fils = [i.fils EXCEPT ![p] = (i.fils[p] \ {n}) \cup {t}]
      /\ j.suspended = [i.suspended EXCEPT ![n] = None]
  BY DEF Continues
<1>4. /\ j.broken = i.broken \ {t, n} /\ j.watched \subseteq (i.watched \cup {t}) \ {n}
      /\ j.maintain = [i.maintain EXCEPT ![n] = "none"] /\ j.waits = i.waits \ {n}
      /\ \A u \in Tib : j.goal[u] = IF u = n THEN "none" ELSE i.goal[u]
  BY DEF Continues
<1>5. \A u \in Tib : j.active[u] =
        IF u = n THEN Removed(i.active[u])
        ELSE IF u \in hit /\ j.fils[u] = {} /\ i.status[u] = "SUSP_ACTIVE" THEN i.active[u] + 1
        ELSE i.active[u]
  BY DEF Continues
<1>6. t \in Tib
  BY <1>1, Fields
<1>7. Listed(i) /\ Replaced(i) /\ Reached(i) /\ \A u \in Live(i) : u \in i.fils[i.pere[u]] \/ u \in Behind(i)
  BY DEF TreeInv, Tree
<1>8. /\ \A u \in Live(i) \ Behind(i) :
           i.status[u] # "JOINING" =>
             (Suspended(i, u) <=> i.pere[u] # Top /\ Suspended(i, i.pere[u]))
      /\ \A u \in Behind(i) :
           i.status[u] = "SUSP_ACTIVE" /\ u \notin i.watched /\ i.maintain[u] = "maintain"
      /\ \A u \in i.broken : u \in Behind(i) \/ i.suspended[u] # None
  BY DEF TreeInv, SuspendedInv
<1>9. t \in Behind(i) /\ i.status[t] = "SUSP_ACTIVE" /\ i.maintain[t] = "maintain"
  BY <1>1, <1>8 DEF Behind
<1>10. /\ n \in Live(i) /\ t \in Live(i) /\ i.pere[t] = p /\ t \notin i.fils[p]
       /\ \A m \in Tib : i.suspended[m] = t => m = n
  BY <1>1, <1>7 DEF Replaced
<1>11. n # t /\ n \notin Behind(i) /\ n \in i.fils[p] /\ p \in Tib \cup {Top} /\ p # n
  BY <1>1, <1>7, <1>8, <1>9, <1>10, Fields
<1>12. LeastClosed(hit, {t}, j.fils)
  BY <1>6, BelowLeast
<1> HIDE DEF t, hit, p
<1>13. \A g \in Tib \cup {Top} : j.fils[g] = IF g = p THEN (i.fils[p] \ {n}) \cup {t} ELSE i.fils[g]
  BY <1>3, <1>11, Fields
<1>14. \A u \in Tib : /\ j.pere[u] = IF u = n THEN Top ELSE i.pere[u]
                      /\ j.suspended[u] = IF u = n THEN None ELSE i.suspended[u]
                      /\ j.maintain[u] = IF u = n THEN "none" ELSE i.maintain[u]
  BY <1>3, <1>4, Fields
<1>15. i.suspended[n] = t /\ i.pere[n] = p
  BY DEF t, p
<1>16. hit \subseteq Tib /\ t \in hit /\ \A u \in hit : j.fils[u] \subseteq hit
  BY <1>12 DEF LeastClosed
<1>17. \A u \in hit : u # t => i.pere[u] \in hit /\ i.pere[u] # n /\ u \in i.fils[i.pere[u]] /\ u \in j.fils[i.pere[u]]
  <2> SUFFICES ASSUME NEW u \in hit, u # t
               PROVE i.pere[u] \in hit /\ i.pere[u] # n /\ u \in i.fils[i.pere[u]] /\ u \in j.fils[i.pere[u]]
    OBVIOUS
  <2>1. PICK v \in hit : u \in j.fils[v]
    BY <1>12 DEF LeastClosed
  <2>2. v \in Tib /\ u \in i.fils[v]
    BY <1>13, <1>16, <2>1
  <2>3. i.pere[u] = v
    BY <1>7, <2>2 DEF Listed
  <2> QED BY <1>1, <2>1, <2>2, <2>3
<1>18. \A u \in Tib : ContinuedStatus(i.status[u], j.fils[u]) = "free" => i.status[u] = "free"
  BY DEF ContinuedStatus
<1>19. \A u \in Tib : j.fils[u] # {} => i.fils[u] # {}
  BY <1>11, <1>13
<1>20. \A u \in Tib : i.fils[u] # {} => i.status[u] \in {"ACTIVE", "SUSP_ACTIVE"}
  BY DEF TreeInv, ActiveInv
<1>21. \A u \in Tib : j.status[u] = "free" <=> (i.status[u] = "free" \/ u = n)
  <2> SUFFICES ASSUME NEW u \in Tib, u # n PROVE j.status[u] = "free" <=> i.status[u] = "free"
    BY <1>2
  <2>1. i.status[u] = "free" => j.fils[u] = {}
    BY <1>19, <1>20
  <2>2. i.status[u] = "free" /\ j.fils[u] = {} => ContinuedStatus(i.status[u], j.fils[u]) = "free"
    BY DEF ContinuedStatus
  <2> QED BY <1>2, <1>18, <2>1, <2>2
<1>22. Live(j) = Live(i) \ {n} /\ Free(j) = Free(i) \cup {n}
  BY <1>1, <1>21 DEF Live, Free
<1>23. Behind(j) = Behind(i) \ {t}
  BY <1>1, <1>9, <1>10, <1>14, <1>15 DEF Behind
<1>24. Listed(j)
  <2> SUFFICES ASSUME NEW g \in Tib \cup {Top}, NEW u \in j.fils[g]
               PROVE  u \in Live(j) /\ j.pere[u] = g /\ g \notin Free(j)
    BY DEF Listed
  <2>1. g # n
    BY <1>1, <1>11, <1>13
  <2>2. CASE u = t
    <3>1. g = p
      <4> SUFFICES ASSUME g # p PROVE FALSE
        OBVIOUS
      <4>1. t \in i.fils[g]
        BY <1>13, <2>2
      <4> QED BY <1>7, <1>10, <4>1 DEF Listed
    <3>2. p \notin Free(i)
      BY <1>7, <1>11 DEF Listed
    <3> QED BY <1>6, <1>10, <1>11, <1>14, <1>22, <2>2, <3>1, <3>2
  <2>3. CASE u # t
    <3>1. u \in i.fils[g] /\ (g = p => u # n)
      BY <1>13, <2>3
    <3>2. u \in Live(i) /\ i.pere[u] = g /\ g \notin Free(i)
      BY <1>7, <3>1 DEF Listed
    <3>3. u \in Tib /\ u # n
      BY <1>15, <3>1, <3>2 DEF Live
    <3> QED BY <1>14, <1>22, <2>1, <3>2, <3>3
  <2> QED BY <2>2, <2>3
<1>25. Replaced(j)
  <2> SUFFICES ASSUME NEW m \in Tib, j.suspended[m] # None
               PROVE  LET u == j.suspended[m]
                      IN  /\ m \in Live(j) /\ u \in Live(j)
                          /\ j.pere[m] = j.pere[u] /\ u \notin j.fils[j.pere[u]]
                          /\ \A o \in Tib : j.suspended[o] = u => o = m
    BY DEF Replaced
  <2> DEFINE u == j.suspended[m]
  <2>1. m # n /\ u = i.suspended[m] /\ u # None
    BY <1>14
  <2>2. /\ m \in Live(i) /\ u \in Live(i) /\ i.pere[m] = i.pere[u] /\ u \notin i.fils[i.pere[u]]
        /\ \A o \in Tib : i.suspended[o] = u => o = m
    BY <1>7, <2>1 DEF Replaced
  <2>3. u \in Behind(i)
    BY <2>1 DEF Behind
  <2>4. u # t /\ u # n /\ u \in Tib
    BY <1>10, <1>11, <2>1, <2>2, <2>3 DEF Live
  <2> HIDE DEF u
  <2>5. j.pere[m] = i.pere[m] /\ j.pere[u] = i.pere[u] /\ i.pere[u] \in Tib \cup {Top}
    BY <1>14, <2>1, <2>4, Fields
  <2>6. u \notin j.fils[j.pere[u]]
    BY <1>13, <2>2, <2>4, <2>5
  <2>7. \A o \in Tib : j.suspended[o] = u => o = m
    BY <1>14, <2>1, <2>2
  <2> QED BY <1>22, <2>1, <2>2, <2>4, <2>5, <2>6, <2>7 DEF u
<1>26. ASSUME NEW u \in Live(j) PROVE u \in j.fils[j.pere[u]] \/ u \in Behind(j)
  <2>1. u \in Live(i) /\ u \in Tib /\ u # n
    BY <1>22 DEF Live
  <2>2. CASE u = t
    BY <1>10, <1>11, <1>13, <1>14, <2>1, <2>2
  <2>3. CASE u # t
    <3>1. j.pere[u] = i.pere[u] /\ i.pere[u] \in Tib \cup {Top}
      BY <1>14, <2>1, Fields
    <3>2. u \in i.fils[i.pere[u]] => u \in j.fils[j.pere[u]]
      BY <1>13, <2>1, <3>1
    <3> QED BY <1>7, <1>23, <2>1, <2>3, <3>2
  <2> QED BY <2>2, <2>3
<1>27. Reached(j)
  <2> SUFFICES ASSUME NEW C \in SUBSET Tib, j.fils[Top] \subseteq C,
                      \A u \in C : j.fils[u] \subseteq C,
                      \A u \in C : j.suspended[u] # None => j.suspended[u] \in C
               PROVE  Live(j) \subseteq C
    BY DEF Reached
  <2>1. \A u \in C : u # n => (i.suspended[u] # None => i.suspended[u] \in C \ {n})
    BY <1>11, <1>14 DEF Behind
  <2>2. CASE t \in C
    <3> DEFINE D == C \cup {n}
    <3>1. ASSUME NEW g \in D \cup {Top} PROVE i.fils[g] \subseteq D
      <4>1. g \in Tib \cup {Top} /\ (g # n => j.fils[g] \subseteq C)
        BY <1>1
      <4>2. g # n => i.fils[g] \subseteq j.fils[g] \cup {n}
        BY <1>13, <4>1
      <4> QED BY <1>1, <4>1, <4>2
    <3>2. \A u \in D : i.suspended[u] # None => i.suspended[u] \in D
      BY <1>15, <2>1, <2>2
    <3>3. D \in SUBSET Tib
      BY <1>1
    <3>4. Live(i) \subseteq D
      BY <1>7, <3>1, <3>2, <3>3 DEF Reached
    <3> QED BY <1>22, <3>4
  <2>3. CASE t \notin C
    <3> DEFINE D == C \ {n}
    <3>1. ASSUME NEW g \in D \cup {Top} PROVE i.fils[g] \subseteq D
      <4>1. g \in Tib \cup {Top} /\ j.fils[g] \subseteq C
        OBVIOUS
      <4>2. g # p
        BY <1>13, <2>3, <4>1
      <4>3. i.fils[g] = j.fils[g]
        BY <1>13, <4>1, <4>2
      <4>4. n \notin i.fils[g]
        BY <1>7, <1>15, <4>1, <4>2 DEF Listed
      <4> QED BY <4>1, <4>3, <4>4
    <3>2. \A u \in D : i.suspended[u] # None => i.suspended[u] \in D
      BY <2>1
    <3>3. D \in SUBSET Tib
      OBVIOUS
    <3>4. Live(i) \subseteq D
      BY <1>7, <3>1, <3>2, <3>3 DEF Reached
    <3> QED BY <1>22, <3>4
  <2> QED BY <2>2, <2>3
<1>28. Tree(j)
  BY <1>24, <1>25, <1>26, <1>27 DEF Tree
<1>29. ActiveInv(j)
  <2> SUFFICES ASSUME NEW u \in Tib
               PROVE  /\ j.active[u] = IF j.status[u] = "ACTIVE" /\ j.fils[u] = {} THEN 1 ELSE 0
                      /\ u \in j.waits <=> j.status[u] \in {"SLEEPING", "SUSP_SLEEPING", "ACTION_WAIT"}
                      /\ j.fils[u] # {} => j.status[u] \in {"ACTIVE", "SUSP_ACTIVE"}
    BY DEF ActiveInv
  <2>1. /\ i.active[u] = IF i.status[u] = "ACTIVE" /\ i.fils[u] = {} THEN 1 ELSE 0
        /\ u \in i.waits <=> i.status[u] \in {"SLEEPING", "SUSP_SLEEPING", "ACTION_WAIT"}
        /\ i.fils[u] # {} => i.status[u] \in {"ACTIVE", "SUSP_ACTIVE"}
    BY DEF TreeInv, ActiveInv
  <2>2. j.fils[u] = {} <=> i.fils[u] = {}
    BY <1>11, <1>13
  <2>3. CASE u = n
    <3>1. j.status[u] = "free" /\ j.active[u] = Removed(i.active[u]) /\ j.fils[u] = {} /\ u \notin j.waits
      BY <1>1, <1>2, <1>4, <1>5, <2>2, <2>3
    <3> QED BY <1>1, <2>1, <2>3, <3>1 DEF Removed
  <2>4. CASE u # n /\ u \in hit
    <3>1. j.status[u] = ContinuedStatus(i.status[u], j.fils[u])
      BY <1>2, <2>4
    <3>2. j.active[u] = IF j.fils[u] = {} /\ i.status[u] = "SUSP_ACTIVE" THEN i.active[u] + 1 ELSE i.active[u]
      BY <1>5, <2>4
    <3>3. u \in j.waits <=> u \in i.waits
      BY <1>4, <2>4
    <3> QED BY <2>1, <2>2, <3>1, <3>2, <3>3 DEF ContinuedStatus
  <2>5. CASE u # n /\ u \notin hit
    <3>1. j.active[u] = i.active[u] /\ j.status[u] = i.status[u] /\ (u \in j.waits <=> u \in i.waits)
      BY <1>2, <1>4, <1>5, <2>5
    <3> QED BY <2>1, <2>2, <3>1
  <2> QED BY <2>3, <2>4, <2>5
<1>30. SuspendedInv(j)
  <2>1. \A v \in Tib : v # n /\ v \in hit /\ j.fils[v] # {} => j.status[v] = "ACTIVE"
    BY <1>2 DEF ContinuedStatus
  <2>2. p # Top => p \in Tib /\ j.status[p] = "ACTIVE"
    <3> SUFFICES ASSUME p # Top PROVE p \in Tib /\ j.status[p] = "ACTIVE"
      OBVIOUS
    <3>1. p \in Tib /\ i.fils[p] # {}
      BY <1>11
    <3>2. i.status[p] \in {"ACTIVE", "SUSP_ACTIVE"} /\ j.fils[p] # {}
      BY <1>13, <1>20, <3>1
    <3>3. ~Suspended(i, p)
      BY <1>1, <1>8, <1>10, <1>11, <1>15 DEF Suspended
    <3>4. i.status[p] = "ACTIVE"
      BY <3>2, <3>3 DEF Suspended
    <3> QED BY <1>2, <1>11, <2>1, <3>1, <3>2, <3>4
  <2>3. ASSUME NEW u \in Live(j) \ Behind(j), j.status[u] # "JOINING"
        PROVE  Suspended(j, u) <=> j.pere[u] # Top /\ Suspended(j, j.pere[u])
    <3>1. CASE u = t
      <4>1. j.status[t] = "ACTIVE"
        BY <1>2, <1>6, <1>9, <1>11, <1>16 DEF ContinuedStatus
      <4>2. j.pere[t] = p
        BY <1>6, <1>10, <1>11, <1>14
      <4> QED BY <2>2, <3>1, <4>1, <4>2 DEF Suspended
    <3>2. CASE u # t
      <4>1. u \in Live(i) \ Behind(i) /\ u \in Tib /\ u # n /\ u \in i.fils[i.pere[u]]
        BY <1>7, <1>22, <1>23, <2>3, <3>2 DEF Live
      <4>2. j.pere[u] = i.pere[u] /\ i.pere[u] \in Tib \cup {Top} /\ i.pere[u] # n
        BY <1>1, <1>14, <4>1, Fields
      <4>3. CASE u \in hit
        <5>1. i.pere[u] \in hit /\ i.pere[u] \in Tib /\ j.fils[i.pere[u]] # {}
          BY <1>16, <1>17, <3>2, <4>3
        <5>2. j.status[i.pere[u]] = "ACTIVE"
          BY <2>1, <4>2, <5>1
        <5>3. j.status[u] = ContinuedStatus(i.status[u], j.fils[u])
          BY <1>2, <4>1, <4>3
        <5>4. j.status[u] \notin {"SUSP_ACTIVE", "SUSP_SLEEPING"}
          BY <5>3 DEF ContinuedStatus
        <5> QED BY <4>2, <5>2, <5>4 DEF Suspended
      <4>4. CASE u \notin hit
        <5>1. u \in j.fils[i.pere[u]]
          BY <1>13, <4>1, <4>2
        <5>2. i.pere[u] \notin hit
          BY <1>16, <4>4, <5>1
        <5>3. j.status[u] = i.status[u] /\ (i.pere[u] # Top => j.status[i.pere[u]] = i.status[i.pere[u]])
          BY <1>2, <4>1, <4>2, <4>4, <5>2
        <5> QED BY <1>8, <2>3, <4>1, <4>2, <5>3 DEF Suspended
      <4> QED BY <4>3, <4>4
    <3> QED BY <3>1, <3>2
  <2>4. ASSUME NEW u \in Behind(j)
        PROVE  j.status[u] = "SUSP_ACTIVE" /\ u \notin j.watched /\ j.maintain[u] = "maintain"
    <3>1. u \in Behind(i) /\ u # t /\ u \in Tib /\ u # n
      BY <1>11, <1>23, BehindTib
    <3>2. PICK m \in Tib : u = i.suspended[m] /\ u # None
      BY <3>1 DEF Behind
    <3>3. u \notin i.fils[i.pere[u]]
      BY <1>7, <3>2 DEF Replaced
    <3>4. u \notin hit
      BY <1>17, <3>1, <3>3
    <3> QED BY <1>2, <1>4, <1>8, <1>14, <3>1, <3>4
  <2>5. ASSUME NEW u \in j.broken PROVE u \in Behind(j) \/ j.suspended[u] # None
    <3>1. u \in Tib /\ u \in i.broken /\ u # t /\ u # n
      BY <1>4, Fields
    <3> QED BY <1>8, <1>14, <1>23, <3>1
  <2> QED BY <2>3, <2>4, <2>5 DEF SuspendedInv
<1>31. WaitInv(j)
  <2> SUFFICES ASSUME NEW u \in Tib, j.maintain[u] = "maintain", NEW v \in Below(j, {u})
               PROVE  j.status[v] # "ACTION_WAIT"
    BY DEF WaitInv
  <2> DEFINE D == Below(i, {u}) \cup Below(i, {t})
  <2>1. i.maintain[u] = "maintain"
    BY <1>14
  <2>2. LeastClosed(Below(i, {u}), {u}, i.fils) /\ LeastClosed(Below(i, {t}), {t}, i.fils)
    BY <1>6, BelowLeast
  <2>3. D \in SUBSET Tib /\ u \in D /\ t \in D
    BY <2>2 DEF LeastClosed
  <2>4. ASSUME NEW w \in D PROVE j.fils[w] \subseteq D
    <3>1. w \in Tib /\ j.fils[w] \subseteq i.fils[w] \cup {t}
      BY <1>13, <2>3
    <3>2. i.fils[w] \subseteq D
      BY <2>2 DEF LeastClosed
    <3> QED BY <2>3, <3>1, <3>2
  <2>5. \A w \in D : w \in Tib /\ i.status[w] # "ACTION_WAIT"
    BY <1>6, <1>9, <2>1, <2>3 DEF TreeInv, WaitInv
  <2> HIDE DEF D
  <2>6. Below(j, {u}) \subseteq D
    BY <2>3, <2>4, BelowFewer
  <2>7. v \in Tib /\ i.status[v] # "ACTION_WAIT"
    BY <2>5, <2>6
  <2> QED BY <1>2, <2>7 DEF ContinuedStatus
<1>32. FreeInv(j)
  <2>1. /\ \A u \in Free(i) : i.goal[u] = "none" /\ i.maintain[u] = "none"
        /\ i.watched \subseteq Live(i) /\ i.broken \subseteq Live(i)
    BY DEF TreeInv, FreeInv
  <2>2. \A u \in Free(j) : u \in Tib /\ (u \in Free(i) \/ u = n)
    BY <1>1, <1>22 DEF Free
  <2>3. \A u \in Free(j) : j.goal[u] = "none" /\ j.maintain[u] = "none"
    BY <1>4, <1>14, <2>1, <2>2
  <2> QED BY <1>4, <1>10, <1>11, <1>22, <2>1, <2>3 DEF FreeInv
<1> QED BY <1>28, <1>29, <1>30, <1>31, <1>32 DEF TreeInv


-----------------------------------------------------------------------------
(* The fields that the other operations change *)

LEMMA SetGoals ==
  ASSUME NEW i \in Intention, NEW g \in [Tib -> GoalState]
  PROVE  LET j == [i EXCEPT !.goal = g]
         IN  /\ j \in Intention
             /\ Same(i, j, {"goal"})
             /\ j.goal = g
<1> DEFINE j == [i EXCEPT !.goal = g]
<1>1. IsRecord(j)
  BY Fields, Update DEF IsRecord
<1>2. Same(i, j, {"goal"})
  BY Fields DEF IsRecord, Field, Same
<1>3. j.goal = g
  BY Fields DEF IsRecord, Field
<1> HIDE DEF j
<1>4. j.goal \in [Tib -> GoalState]
  BY <1>3, Fields
<1>5. j \in Intention
  BY <1>1, <1>2, <1>4, Fields DEF Same, Field
<1> QED BY <1>2, <1>3, <1>5 DEF j

LEMMA SetWatched ==
  ASSUME NEW i \in Intention, NEW W \in SUBSET Tib
  PROVE  LET j == [i EXCEPT !.watched = W]
         IN  /\ j \in Intention
             /\ Same(i, j, {"watched"})
             /\ j.watched = W
<1> DEFINE j == [i EXCEPT !.watched = W]
<1>1. IsRecord(j)
  BY Fields, Update DEF IsRecord
<1>2. Same(i, j, {"watched"})
  BY Fields DEF IsRecord, Field, Same
<1>3. j.watched = W
  BY Fields DEF IsRecord, Field
<1> HIDE DEF j
<1>4. j.watched \in SUBSET Tib
  BY <1>3, Fields
<1>5. j \in Intention
  BY <1>1, <1>2, <1>4, Fields DEF Same, Field
<1> QED BY <1>2, <1>3, <1>5 DEF j

LEMMA SetWaits ==
  ASSUME NEW i \in Intention, NEW W \in SUBSET Tib
  PROVE  LET j == [i EXCEPT !.waits = W]
         IN  /\ j \in Intention
             /\ Same(i, j, {"waits"})
             /\ j.waits = W
<1> DEFINE j == [i EXCEPT !.waits = W]
<1>1. IsRecord(j)
  BY Fields, Update DEF IsRecord
<1>2. Same(i, j, {"waits"})
  BY Fields DEF IsRecord, Field, Same
<1>3. j.waits = W
  BY Fields DEF IsRecord, Field
<1> HIDE DEF j
<1>4. j.waits \in SUBSET Tib
  BY <1>3, Fields
<1>5. j \in Intention
  BY <1>1, <1>2, <1>4, Fields DEF Same, Field
<1> QED BY <1>2, <1>3, <1>5 DEF j

LEMMA SetBroken ==
  ASSUME NEW i \in Intention, NEW B \in SUBSET Tib
  PROVE  LET j == [i EXCEPT !.broken = B]
         IN  /\ j \in Intention
             /\ Same(i, j, {"broken"})
             /\ j.broken = B
<1> DEFINE j == [i EXCEPT !.broken = B]
<1>1. IsRecord(j)
  BY Fields, Update DEF IsRecord
<1>2. Same(i, j, {"broken"})
  BY Fields DEF IsRecord, Field, Same
<1>3. j.broken = B
  BY Fields DEF IsRecord, Field
<1> HIDE DEF j
<1>4. j.broken \in SUBSET Tib
  BY <1>3, Fields
<1>5. j \in Intention
  BY <1>1, <1>2, <1>4, Fields DEF Same, Field
<1> QED BY <1>2, <1>3, <1>5 DEF j

LEMMA SetSection ==
  ASSUME NEW i \in Intention, NEW s \in Tib \cup {None, Dangling}
  PROVE  LET j == [i EXCEPT !.section = s]
         IN  /\ j \in Intention
             /\ Same(i, j, {"section"})
             /\ j.section = s
<1> DEFINE j == [i EXCEPT !.section = s]
<1>1. IsRecord(j)
  BY Fields, Update DEF IsRecord
<1>2. Same(i, j, {"section"})
  BY Fields DEF IsRecord, Field, Same
<1>3. j.section = s
  BY Fields DEF IsRecord, Field
<1> HIDE DEF j
<1>4. j.section \in Tib \cup {None, Dangling}
  BY <1>3, Fields
<1>5. j \in Intention
  BY <1>1, <1>2, <1>4, Fields DEF Same, Field
<1> QED BY <1>2, <1>3, <1>5 DEF j

LEMMA SetGoal ==
  ASSUME NEW i \in Intention, NEW t \in Tib, NEW g \in GoalState
  PROVE  LET j == [i EXCEPT !.goal[t] = g]
         IN  /\ j \in Intention
             /\ Same(i, j, {"goal"})
             /\ j.goal = [i.goal EXCEPT ![t] = g]
<1> DEFINE j == [i EXCEPT !.goal[t] = g]
<1>1. IsRecord(j)
  BY Fields, Update DEF IsRecord
<1>2. Same(i, j, {"goal"})
  BY Fields DEF IsRecord, Field, Same
<1>3. j.goal = [i.goal EXCEPT ![t] = g]
  BY Fields DEF IsRecord, Field
<1> HIDE DEF j
<1>4. j.goal \in [Tib -> GoalState]
  BY <1>3, Fields
<1>5. j \in Intention
  BY <1>1, <1>2, <1>4, Fields DEF Same, Field
<1> QED BY <1>2, <1>3, <1>5 DEF j

LEMMA SetOp ==
  ASSUME NEW i \in Intention, NEW t \in Tib, NEW o \in Op
  PROVE  LET j == [i EXCEPT !.op[t] = o]
         IN  /\ j \in Intention
             /\ Same(i, j, {"op"})
             /\ j.op = [i.op EXCEPT ![t] = o]
<1> DEFINE j == [i EXCEPT !.op[t] = o]
<1>1. IsRecord(j)
  BY Fields, Update DEF IsRecord
<1>2. Same(i, j, {"op"})
  BY Fields DEF IsRecord, Field, Same
<1>3. j.op = [i.op EXCEPT ![t] = o]
  BY Fields DEF IsRecord, Field
<1> HIDE DEF j
<1>4. j.op \in [Tib -> Op]
  BY <1>3, Fields
<1>5. j \in Intention
  BY <1>1, <1>2, <1>4, Fields DEF Same, Field
<1> QED BY <1>2, <1>3, <1>5 DEF j

LEMMA SetStatus ==
  ASSUME NEW i \in Intention, NEW t \in Tib, NEW s \in Status
  PROVE  LET j == [i EXCEPT !.status[t] = s]
         IN  /\ j \in Intention
             /\ Same(i, j, {"status"})
             /\ j.status = [i.status EXCEPT ![t] = s]
<1> DEFINE j == [i EXCEPT !.status[t] = s]
<1>1. IsRecord(j)
  BY Fields, Update DEF IsRecord
<1>2. Same(i, j, {"status"})
  BY Fields DEF IsRecord, Field, Same
<1>3. j.status = [i.status EXCEPT ![t] = s]
  BY Fields DEF IsRecord, Field
<1> HIDE DEF j
<1>4. j.status \in [Tib -> Status]
  BY <1>3, Fields
<1>5. j \in Intention
  BY <1>1, <1>2, <1>4, Fields DEF Same, Field
<1> QED BY <1>2, <1>3, <1>5 DEF j

\* t sleeps.
Sleeps(i, j, t, s) ==
  /\ j \in Intention
  /\ Same(i, j, {"status", "waits", "active"})
  /\ j.status = [i.status EXCEPT ![t] = s]
  /\ j.waits = i.waits \cup {t}
  /\ j.active = [i.active EXCEPT ![t] = Removed(i.active[t])]

LEMMA SleepFields ==
  ASSUME NEW i \in Intention, NEW t \in Tib, NEW s \in Status
  PROVE  Sleeps(i, remove_from_active_tib([i EXCEPT !.status[t] = s, !.waits = @ \cup {t}], t), t, s)
<1> DEFINE j == remove_from_active_tib([i EXCEPT !.status[t] = s, !.waits = @ \cup {t}], t)
<1>1. IsRecord(j)
  BY Fields, Update DEF remove_from_active_tib
<1>2. Same(i, j, {"status", "waits", "active"})
  BY Fields DEF remove_from_active_tib, IsRecord, Field, Same
<1>3. j.status = [i.status EXCEPT ![t] = s]
  BY Fields DEF remove_from_active_tib, IsRecord, Field
<1>4. j.waits = i.waits \cup {t}
  BY Fields DEF remove_from_active_tib, IsRecord, Field
<1>5. j.active = [i.active EXCEPT ![t] = Removed(i.active[t])]
  BY Fields DEF remove_from_active_tib, IsRecord, Field
<1> HIDE DEF j
<1>6. j.status \in [Tib -> Status]
  BY <1>3, Fields
<1>7. j.waits \in SUBSET Tib
  BY <1>4, Fields
<1>8. j.active \in [Tib -> Nat]
  BY <1>5, Fields DEF Removed
<1>9. j \in Intention
  BY <1>1, <1>2, <1>6, <1>7, <1>8, Fields DEF Same, Field
<1> QED BY <1>2, <1>3, <1>4, <1>5, <1>9 DEF j, Sleeps

LEMMA JoinFields ==
  ASSUME NEW i \in Intention, NEW t \in Tib, NEW s \in Status
  PROVE  LET j == remove_from_active_tib([i EXCEPT !.status[t] = s], t)
         IN  /\ j \in Intention
             /\ Same(i, j, {"status", "active"})
             /\ j.status = [i.status EXCEPT ![t] = s]
             /\ j.active = [i.active EXCEPT ![t] = Removed(i.active[t])]
<1> DEFINE j == remove_from_active_tib([i EXCEPT !.status[t] = s], t)
<1>1. IsRecord(j)
  BY Fields, Update DEF remove_from_active_tib
<1>2. Same(i, j, {"status", "active"})
  BY Fields DEF remove_from_active_tib, IsRecord, Field, Same
<1>3. j.status = [i.status EXCEPT ![t] = s]
  BY Fields DEF remove_from_active_tib, IsRecord, Field
<1>4. j.active = [i.active EXCEPT ![t] = Removed(i.active[t])]
  BY Fields DEF remove_from_active_tib, IsRecord, Field
<1> HIDE DEF j
<1>5. j.status \in [Tib -> Status]
  BY <1>3, Fields
<1>6. j.active \in [Tib -> Nat]
  BY <1>4, Fields DEF Removed
<1>7. j \in Intention
  BY <1>1, <1>2, <1>5, <1>6, Fields DEF Same, Field
<1> QED BY <1>2, <1>3, <1>4, <1>7 DEF j

\* The new son n of t.
Intended(i, j, t, n, op, maintain) ==
  /\ j \in Intention
  /\ Same(i, j, {"status", "pere", "fils", "op", "section", "maintain", "watched", "active"})
  /\ j.status = [i.status EXCEPT ![n] = "ACTIVE"]
  /\ j.pere = [i.pere EXCEPT ![n] = t]
  /\ j.fils = [i.fils EXCEPT ![t] = {n}]
  /\ j.op = [i.op EXCEPT ![n] = op]
  /\ j.section = IF i.section = t THEN n ELSE i.section
  /\ j.maintain = [i.maintain EXCEPT ![t] = IF maintain = "none" THEN i.maintain[t] ELSE maintain]
  /\ j.watched = IF maintain = "none" THEN i.watched ELSE i.watched \cup {t}
  /\ j.active = [[i.active EXCEPT ![n] = i.active[n] + 1] EXCEPT ![t] = Removed([i.active EXCEPT ![n] = i.active[n] + 1][t])]

LEMMA IntendFields ==
  ASSUME NEW i \in Intention, NEW t \in Tib, NEW n \in Tib, NEW op \in Op,
         NEW maintain \in Maintain
  PROVE  Intended(i, intend_op_in_thread_intention_block(i, t, n, op, maintain), t, n, op, maintain)
<1> DEFINE j == intend_op_in_thread_intention_block(i, t, n, op, maintain)
<1>1. IsRecord(j)
  BY Fields, Update DEF intend_op_in_thread_intention_block, add_in_active_tib, remove_from_active_tib
<1>2. j.suspended = i.suspended /\ j.goal = i.goal /\ j.broken = i.broken /\ j.waits = i.waits /\ j.asleep = i.asleep /\ j.opened = i.opened
  BY Fields DEF intend_op_in_thread_intention_block, add_in_active_tib, remove_from_active_tib, IsRecord, Field
<1>3. j.status = [i.status EXCEPT ![n] = "ACTIVE"]
  BY Fields DEF intend_op_in_thread_intention_block, add_in_active_tib, remove_from_active_tib, IsRecord, Field
<1>4. j.pere = [i.pere EXCEPT ![n] = t]
  BY Fields DEF intend_op_in_thread_intention_block, add_in_active_tib, remove_from_active_tib, IsRecord, Field
<1>5. j.fils = [i.fils EXCEPT ![t] = {n}]
  BY Fields DEF intend_op_in_thread_intention_block, add_in_active_tib, remove_from_active_tib, IsRecord, Field
<1>6. j.op = [i.op EXCEPT ![n] = op]
  BY Fields DEF intend_op_in_thread_intention_block, add_in_active_tib, remove_from_active_tib, IsRecord, Field
<1>7. j.section = IF i.section = t THEN n ELSE i.section
  BY Fields DEF intend_op_in_thread_intention_block, add_in_active_tib, remove_from_active_tib, IsRecord, Field
<1>8. j.maintain = [i.maintain EXCEPT ![t] = IF maintain = "none" THEN i.maintain[t] ELSE maintain]
  BY Fields DEF intend_op_in_thread_intention_block, add_in_active_tib, remove_from_active_tib, IsRecord, Field
<1>9. j.watched = IF maintain = "none" THEN i.watched ELSE i.watched \cup {t}
  BY Fields DEF intend_op_in_thread_intention_block, add_in_active_tib, remove_from_active_tib, IsRecord, Field
<1>10. j.active = [[i.active EXCEPT ![n] = i.active[n] + 1] EXCEPT ![t] = Removed([i.active EXCEPT ![n] = i.active[n] + 1][t])]
  BY Fields DEF intend_op_in_thread_intention_block, add_in_active_tib, remove_from_active_tib, IsRecord, Field
<1> HIDE DEF j
<1>11. Same(i, j, {"status", "pere", "fils", "op", "section", "maintain", "watched", "active"})
  BY <1>2 DEF Same, Field
<1>12. j.status \in [Tib -> Status]
  BY <1>3, Fields DEF Status
<1>13. j.pere \in [Tib -> Tib \cup {Top}]
  BY <1>4, Fields
<1>14. j.fils \in [Tib \cup {Top} -> SUBSET Tib]
  BY <1>5, Fields
<1>15. j.op \in [Tib -> Op]
  BY <1>6, Fields
<1>16. j.section \in Tib \cup {None, Dangling}
  BY <1>7, Fields
<1>17. j.maintain \in [Tib -> Maintain]
  BY <1>8, Fields DEF Maintain
<1>18. j.watched \in SUBSET Tib
  BY <1>9, Fields
<1>19. j.active \in [Tib -> Nat]
  BY <1>10, Fields DEF Removed
<1>20. j \in Intention
  BY <1>1, <1>11, <1>12, <1>13, <1>14, <1>15, <1>16, <1>17, <1>18, <1>19, Fields DEF Same, Field
<1> QED BY <1>11, <1>3, <1>4, <1>5, <1>6, <1>7, <1>8, <1>9, <1>10, <1>20 DEF j, Intended

\* The new brother n of t.
NewBrother(i, j, t, n, first, second) ==
  /\ j \in Intention
  /\ Same(i, j, {"status", "pere", "op", "fils", "goal", "active"})
  /\ j.status = [i.status EXCEPT ![n] = "ACTIVE"]
  /\ j.pere = [i.pere EXCEPT ![n] = i.pere[t]]
  /\ j.op = [i.op EXCEPT ![n] = "body"]
  /\ j.fils = [i.fils EXCEPT ![i.pere[t]] = i.fils[i.pere[t]] \cup {n}]
  /\ j.goal = [i.goal EXCEPT ![t] = first, ![n] = second]
  /\ j.active = [i.active EXCEPT ![n] = i.active[n] + 1]

LEMMA BrotherFields ==
  ASSUME NEW i \in Intention, NEW t \in Tib, NEW n \in Tib, NEW first \in GoalState,
         NEW second \in GoalState
  PROVE  NewBrother(i, add_in_active_tib([i EXCEPT !.status[n] = "ACTIVE", !.pere[n] = i.pere[t], !.op[n] = "body", !.fils[i.pere[t]] = @ \cup {n}, !.goal = [@ EXCEPT ![t] = first, ![n] = second]], n), t, n, first, second)
<1> DEFINE j == add_in_active_tib([i EXCEPT !.status[n] = "ACTIVE", !.pere[n] = i.pere[t], !.op[n] = "body", !.fils[i.pere[t]] = @ \cup {n}, !.goal = [@ EXCEPT ![t] = first, ![n] = second]], n)
<1>1. IsRecord(j)
  BY Fields, Update DEF add_in_active_tib
<1>2. j.suspended = i.suspended /\ j.broken = i.broken /\ j.maintain = i.maintain /\ j.watched = i.watched /\ j.waits = i.waits /\ j.asleep = i.asleep /\ j.section = i.section /\ j.opened = i.opened
  BY Fields DEF add_in_active_tib, IsRecord, Field
<1>3. j.status = [i.status EXCEPT ![n] = "ACTIVE"]
  BY Fields DEF add_in_active_tib, IsRecord, Field
<1>4. j.pere = [i.pere EXCEPT ![n] = i.pere[t]]
  BY Fields DEF add_in_active_tib, IsRecord, Field
<1>5. j.op = [i.op EXCEPT ![n] = "body"]
  BY Fields DEF add_in_active_tib, IsRecord, Field
<1>6. j.fils = [i.fils EXCEPT ![i.pere[t]] = i.fils[i.pere[t]] \cup {n}]
  BY Fields DEF add_in_active_tib, IsRecord, Field
<1>7. j.goal = [i.goal EXCEPT ![t] = first, ![n] = second]
  BY Fields DEF add_in_active_tib, IsRecord, Field
<1>8. j.active = [i.active EXCEPT ![n] = i.active[n] + 1]
  BY Fields DEF add_in_active_tib, IsRecord, Field
<1> HIDE DEF j
<1>9. Same(i, j, {"status", "pere", "op", "fils", "goal", "active"})
  BY <1>2 DEF Same, Field
<1>10. j.status \in [Tib -> Status]
  BY <1>3, Fields DEF Status
<1>11. j.pere \in [Tib -> Tib \cup {Top}]
  BY <1>4, Fields
<1>12. "body" \in Op
  BY DEF Op
<1>13. j.op \in [Tib -> Op]
  BY <1>5, <1>12, Fields
<1>14. j.fils \in [Tib \cup {Top} -> SUBSET Tib]
  BY <1>6, Fields
<1>15. j.goal \in [Tib -> GoalState]
  BY <1>7, Fields
<1>16. j.active \in [Tib -> Nat]
  BY <1>8, Fields
<1>17. j \in Intention
  BY <1>1, <1>9, <1>10, <1>11, <1>13, <1>14, <1>15, <1>16, Fields DEF Same, Field
<1> QED BY <1>9, <1>3, <1>4, <1>5, <1>6, <1>7, <1>8, <1>17 DEF j, NewBrother


-----------------------------------------------------------------------------
(* What the composed operations do *)

\* Removing what S holds after, or before, its father is resumed.
LEMMA RemovalRemoves ==
  ASSUME NEW i \in Intention, NEW f \in Tib \cup {Top}, NEW S \in SUBSET Tib,
         NEW b \in Intention, Same(i, b, {"active", "goal", "section", "opened"}),
         NEW k \in Intention, Removal(b, k, RemovedWith(b, S)),
         NEW j \in Intention, Same(k, j, {"active", "watched", "section", "asleep"}),
         j.watched \subseteq k.watched,
         f \notin RemovedWith(i, S),
         \A t \in Tib : b.goal[t] = i.goal[t] \/ (t = f /\ b.goal[t] = "achieved"),
         \A t \in Tib : t # f => b.active[t] = i.active[t] /\ j.active[t] = k.active[t],
         f \in Tib => \/ b.active[f] = i.active[f] /\ j.active[f] = k.active[f] /\ ~Resumed(i, f, S)
                      \/ b.active[f] = i.active[f] + 1 /\ j.active[f] = k.active[f] /\ Resumed(i, f, S)
                      \/ b.active[f] = i.active[f] /\ j.active[f] = k.active[f] + 1 /\ Resumed(i, f, S)
  PROVE  Removes(i, j, f, S)
<1> DEFINE gone == RemovedWith(i, S)
<1>1. /\ b.status = i.status /\ b.pere = i.pere /\ b.fils = i.fils /\ b.suspended = i.suspended
      /\ b.op = i.op /\ b.maintain = i.maintain /\ b.broken = i.broken /\ b.watched = i.watched
      /\ b.waits = i.waits
  BY DEF Same, Field
<1>2. RemovedWith(b, S) = gone
  BY <1>1 DEF RemovedWith
<1>3. /\ j.status = k.status /\ j.pere = k.pere /\ j.fils = k.fils /\ j.suspended = k.suspended
      /\ j.op = k.op /\ j.maintain = k.maintain /\ j.broken = k.broken /\ j.goal = k.goal
      /\ j.waits = k.waits
  BY DEF Same, Field
<1> HIDE DEF gone
<1> Removal(b, k, gone)
  BY <1>2
<1>4. k.fils = [g \in Tib \cup {Top} |->
                IF g \in gone THEN {} ELSE {t \in b.fils[g] : ~(t \in gone /\ b.pere[t] = g)}]
  BY DEF Removal
<1>5. j.fils = [g \in Tib \cup {Top} |->
                IF g \in gone THEN {} ELSE {t \in i.fils[g] : ~(t \in gone /\ i.pere[t] = g)}]
  BY <1>1, <1>3, <1>4
<1>6. /\ j.status = [t \in Tib |-> IF t \in gone THEN "free" ELSE i.status[t]]
      /\ j.pere = [t \in Tib |-> IF t \in gone THEN Top ELSE i.pere[t]]
  BY <1>1, <1>3 DEF Removal
<1>7. /\ j.suspended = [t \in Tib |-> IF t \in gone THEN None ELSE i.suspended[t]]
      /\ j.maintain = [t \in Tib |-> IF t \in gone THEN "none" ELSE i.maintain[t]]
      /\ j.op = [t \in Tib |-> IF t \in gone THEN "body" ELSE i.op[t]]
  BY <1>1, <1>3 DEF Removal
<1>8. j.broken = i.broken \ gone /\ j.watched \subseteq i.watched \ gone /\ j.waits = i.waits \ gone
  BY <1>1, <1>2, <1>3 DEF Removal
<1>9. k.goal = [t \in Tib |-> IF t \in gone THEN "none" ELSE b.goal[t]]
  BY <1>2 DEF Removal
<1>10. /\ \A t \in Tib : j.goal[t] = IF t \in gone THEN "none" ELSE IF t = f THEN j.goal[t] ELSE i.goal[t]
       /\ f \in Tib /\ f \notin gone => j.goal[f] \in {i.goal[f], "achieved"}
  BY <1>3, <1>9
<1>11. k.active = [t \in Tib |-> IF t \in gone THEN Removed(b.active[t]) ELSE b.active[t]]
  BY <1>2 DEF Removal
<1>12. \A t \in Tib : j.active[t] = IF t \in gone THEN Removed(i.active[t])
                                   ELSE IF t = f /\ Resumed(i, f, S) THEN i.active[t] + 1 ELSE i.active[t]
  <2> SUFFICES ASSUME NEW t \in Tib
               PROVE  j.active[t] = IF t \in gone THEN Removed(i.active[t])
                                    ELSE IF t = f /\ Resumed(i, f, S) THEN i.active[t] + 1 ELSE i.active[t]
    OBVIOUS
  <2>1. CASE t # f
    BY <1>11, <2>1
  <2>2. CASE t = f
    <3>1. f \in Tib /\ f \notin gone
      BY <2>2 DEF gone
    <3>2. k.active[f] = b.active[f]
      BY <1>11, <3>1
    <3> QED BY <2>2, <3>1, <3>2
  <2> QED BY <2>1, <2>2
<1>13. j.active = [t \in Tib |-> IF t \in gone THEN Removed(i.active[t])
                                 ELSE IF t = f /\ Resumed(i, f, S) THEN i.active[t] + 1 ELSE i.active[t]]
  <2>1. j.active \in [Tib -> Nat]
    BY Fields
  <2> QED BY <1>12, <2>1
<1>14. TreeRemoved(i, j, gone)
  BY <1>6, <1>7, <1>8 DEF TreeRemoved
<1>15. SonsRemoved(i, j, gone)
  BY <1>5 DEF SonsRemoved
<1>16. GoalsRemoved(i, j, f, gone)
  BY <1>10 DEF GoalsRemoved
<1>17. ActiveRemoved(i, j, f, S, gone)
  BY <1>13 DEF ActiveRemoved
<1> QED BY <1>14, <1>15, <1>16, <1>17 DEF Removes, gone

LEMMA RemovesWatch ==
  ASSUME NEW i \in Intention, NEW j \in Intention, TreeInv(i), NEW f \in Live(i) \cup {Top},
         NEW S, S \subseteq i.fils[f], Removes(i, j, f, S),
         NEW X, Watch(i, X), X \subseteq RemovedWith(i, S)
  PROVE  Watch(j, {})
<1> DEFINE gone == RemovedWith(i, S)
<1>1. Gone(i, f, S, gone)
  BY RemovesTree
<1>2. /\ j.status = [t \in Tib |-> IF t \in gone THEN "free" ELSE i.status[t]]
      /\ j.suspended = [t \in Tib |-> IF t \in gone THEN None ELSE i.suspended[t]]
      /\ j.op = [t \in Tib |-> IF t \in gone THEN "body" ELSE i.op[t]]
  BY DEF Removes, TreeRemoved, SonsRemoved, GoalsRemoved, ActiveRemoved
<1>3. /\ \A t \in Tib : j.goal[t] = IF t \in gone THEN "none" ELSE IF t = f THEN j.goal[t] ELSE i.goal[t]
      /\ f \in Tib /\ f \notin gone => j.goal[f] \in {i.goal[f], "achieved"}
      /\ j.watched \subseteq i.watched \ gone
  BY DEF Removes, TreeRemoved, SonsRemoved, GoalsRemoved, ActiveRemoved
<1> HIDE DEF gone
<1>4. Behind(j) \subseteq Behind(i) \ gone
  BY <1>1, <1>2 DEF Behind, Gone
<1>5. ASSUME NEW t \in j.watched \cup Behind(j)
      PROVE  /\ j.status[t] \in {"ACTIVE", "SUSP_ACTIVE"}
             /\ j.op[t] = "body" \/ (j.op[t] = "action" /\ j.goal[t] # "none")
  <2>1. t \in i.watched \cup Behind(i) /\ t \notin gone /\ t \in Tib
    BY <1>3, <1>4, <1>5, BehindTib, Fields
  <2>2. t \notin X
    BY <2>1 DEF gone
  <2>3. /\ i.status[t] \in {"ACTIVE", "SUSP_ACTIVE"}
        /\ i.op[t] = "body" \/ (i.op[t] = "action" /\ i.goal[t] # "none")
    BY <2>1, <2>2 DEF Watch
  <2>4. j.status[t] = i.status[t] /\ j.op[t] = i.op[t]
    BY <1>2, <2>1
  <2>5. j.goal[t] = i.goal[t] \/ j.goal[t] = "achieved"
    BY <1>3, <2>1
  <2> QED BY <2>3, <2>4, <2>5
<1>6. ASSUME NEW t \in Tib, j.goal[t] = "posted" PROVE j.op[t] = "body"
  <2>1. t \notin gone => i.goal[t] = "posted"
    BY <1>3, <1>6
  <2> QED BY <1>2, <2>1 DEF Watch
<1> QED BY <1>5, <1>6 DEF Watch


LEMMA RemoveOnly ==
  ASSUME NEW i \in Intention, NEW f \in Tib \cup {Top}, NEW S \in SUBSET Tib,
         ~Resumed(i, f, S), f \notin RemovedWith(i, S)
  PROVE  Removes(i, remove_and_free_tib_list(i, S), f, S)
<1> DEFINE j == remove_and_free_tib_list(i, S)
<1>1. j \in Intention /\ Removal(i, j, RemovedWith(i, S))
  BY RemoveFields
<1>2. Same(i, i, {"active", "goal", "section", "opened"}) /\ Same(j, j, {"active", "watched", "section", "asleep"})
  BY DEF Same
<1> HIDE DEF j
<1>3. Removes(i, j, f, S)
  BY <1>1, <1>2, RemovalRemoves
<1> QED BY <1>3 DEF j

LEMMA GiveBackFields ==
  ASSUME NEW i \in Intention, NEW t \in Tib, i.pere[t] # Top
  PROVE  LET j == GiveBack(i, t)
         IN  /\ j \in Intention /\ Same(i, j, {"active", "section", "opened"})
             /\ j.active = [i.active EXCEPT ![i.pere[t]] = i.active[i.pere[t]] + 1]
<1> DEFINE f == i.pere[t]
           k == add_in_active_tib(i, f)
           j == propagate_critical_section(k, t)
<1>1. f \in Tib
  BY Fields
<1>2. k \in Intention /\ Same(i, k, {"active"}) /\ k.active = [i.active EXCEPT ![f] = i.active[f] + 1]
  BY <1>1, AddActive
<1> HIDE DEF k
<1>3. k.pere = i.pere
  BY <1>2 DEF Same, Field
<1>4. j \in Intention /\ Same(k, j, {"section", "opened"})
  BY <1>2, <1>3, PropagateFields
<1> HIDE DEF j
<1>5. Same(i, j, {"active", "section", "opened"}) /\ j.active = k.active
  BY <1>2, <1>4 DEF Same, Field
<1> QED BY <1>2, <1>4, <1>5 DEF GiveBack, j, k

LEMMA PreserveFailsFields ==
  ASSUME in \in Intention, NEW t \in Tib, PreserveFails(t)
  PROVE  /\ in' \in Intention
         /\ in.fils[t] = {} => Same(in, in', {"watched"}) /\ in'.watched \subseteq in.watched
         /\ in.fils[t] # {} /\ t \notin RemovedWith(in, in.fils[t]) => Removes(in, in', t, in.fils[t])
<1> DEFINE S == in.fils[t]
           freed == remove_and_free_tib_list(in, S)
           marked == IF in.section # None /\ freed.section = None /\ freed.opened # None
                     THEN [freed EXCEPT !.section = t] ELSE freed
           added == add_in_active_tib(marked, t)
           failed == IF in.fils[t] = {} THEN in
                     ELSE IF in.status[t] = "ACTIVE" THEN continue_intention(added) ELSE marked
<1>1. in' = [failed EXCEPT !.watched = @ \ {t}]
  BY DEF PreserveFails
<1>2. S \in SUBSET Tib
  BY Fields
<1> HIDE DEF S
<1>3. freed \in Intention /\ Removal(in, freed, RemovedWith(in, S))
  BY <1>2, RemoveFields
<1> HIDE DEF freed
<1>4. marked \in Intention /\ Same(freed, marked, {"section"})
  <2>1. [freed EXCEPT !.section = t] \in Intention /\ Same(freed, [freed EXCEPT !.section = t], {"section"})
    BY <1>3, SetSection
  <2> QED BY <1>3, <2>1 DEF Same
<1> HIDE DEF marked
<1>5. added \in Intention /\ Same(marked, added, {"active"}) /\ added.active = [marked.active EXCEPT ![t] = marked.active[t] + 1]
  BY <1>4, AddActive
<1> HIDE DEF added
<1>6. continue_intention(added) \in Intention /\ Same(added, continue_intention(added), {"asleep"})
  BY <1>5, Continue
<1>7. failed \in Intention
  BY <1>4, <1>6
<1>8. /\ in.fils[t] = {} => failed = in
      /\ in.fils[t] # {} /\ in.status[t] = "ACTIVE" => Same(added, failed, {"asleep"})
      /\ in.fils[t] # {} /\ in.status[t] # "ACTIVE" => failed = marked
  BY <1>6
<1> HIDE DEF failed
<1>9. /\ in' \in Intention /\ Same(failed, in', {"watched"}) /\ in'.watched = failed.watched \ {t}
  <2>1. failed.watched \ {t} \in SUBSET Tib
    BY <1>7, Fields
  <2> QED BY <1>1, <1>7, <2>1, SetWatched
<1>10. ASSUME in.fils[t] # {}, t \notin RemovedWith(in, S) PROVE Removes(in, in', t, S)
  <2>1. Same(in, in, {"active", "goal", "section", "opened"})
    BY DEF Same
  <2>2. CASE in.status[t] = "ACTIVE"
    <3>1. Resumed(in, t, S)
      BY <1>10, <2>2 DEF Resumed, S
    <3>2. /\ Same(freed, in', {"active", "watched", "section", "asleep"})
          /\ in'.active = [freed.active EXCEPT ![t] = freed.active[t] + 1] /\ in'.watched \subseteq freed.watched
      BY <1>4, <1>5, <1>8, <1>9, <1>10, <2>2 DEF Same, Field
    <3>3. /\ \A u \in Tib : u # t => in'.active[u] = freed.active[u]
          /\ in'.active[t] = freed.active[t] + 1
      BY <1>3, <3>2, Fields
    <3> QED BY <1>2, <1>3, <1>9, <1>10, <2>1, <3>1, <3>2, <3>3, RemovalRemoves
  <2>3. CASE in.status[t] # "ACTIVE"
    <3>1. ~Resumed(in, t, S)
      BY <2>3 DEF Resumed
    <3>2. /\ Same(freed, in', {"active", "watched", "section", "asleep"})
          /\ in'.active = freed.active /\ in'.watched \subseteq freed.watched
      BY <1>4, <1>8, <1>9, <1>10, <2>3 DEF Same, Field
    <3> QED BY <1>2, <1>3, <1>9, <1>10, <2>1, <3>1, <3>2, RemovalRemoves
  <2> QED BY <2>2, <2>3
<1>11. in.fils[t] = {} => Same(in, in', {"watched"}) /\ in'.watched \subseteq in.watched
  BY <1>8, <1>9
<1> QED BY <1>9, <1>10, <1>11 DEF S

\* satisfied_thread and failed_thread: done is in, or in with the goal of the
\* father achieved.
LEMMA GiveBackRemoves ==
  ASSUME NEW i \in Intention, NEW t \in Tib, i.pere[t] # Top, NEW S \in SUBSET Tib,
         NEW done \in Intention, Same(i, done, {"goal"}),
         \A u \in Tib : done.goal[u] = i.goal[u] \/ (u = i.pere[t] /\ done.goal[u] = "achieved")
  PROVE  /\ i.pere[t] \in Tib
         /\ remove_and_free_tib_list(GiveBack(done, t), S) \in Intention
         /\ i.pere[t] \notin RemovedWith(i, S) /\ Resumed(i, i.pere[t], S) =>
              Removes(i, remove_and_free_tib_list(GiveBack(done, t), S), i.pere[t], S)
<1> DEFINE f == i.pere[t]
           back == GiveBack(done, t)
           j == remove_and_free_tib_list(back, S)
<1>1. f \in Tib
  BY Fields
<1>2. done.pere = i.pere /\ done.active = i.active
  BY DEF Same, Field
<1>3. /\ back \in Intention /\ Same(done, back, {"active", "section", "opened"})
      /\ back.active = [i.active EXCEPT ![f] = i.active[f] + 1]
  BY <1>2, GiveBackFields
<1> HIDE DEF back
<1>4. j \in Intention /\ Removal(back, j, RemovedWith(back, S))
  BY <1>3, RemoveFields
<1> HIDE DEF j, f
<1>5. ASSUME f \notin RemovedWith(i, S), Resumed(i, f, S) PROVE Removes(i, j, f, S)
  <2>1. Same(i, back, {"active", "goal", "section", "opened"}) /\ back.goal = done.goal
    BY <1>3 DEF Same, Field
  <2>2. Same(j, j, {"active", "watched", "section", "asleep"})
    BY DEF Same
  <2>3. \A u \in Tib : u # f => back.active[u] = i.active[u]
    BY <1>3, Fields
  <2>4. back.active[f] = i.active[f] + 1
    BY <1>1, <1>3, Fields
  <2>5. \A u \in Tib : back.goal[u] = i.goal[u] \/ (u = f /\ back.goal[u] = "achieved")
    BY <2>1 DEF f
  <2>6. f \in Tib \cup {Top} /\ \A u \in Tib : u # f => back.active[u] = i.active[u] /\ j.active[u] = j.active[u]
    BY <1>1, <2>3
  <2>7. back.active[f] = i.active[f] + 1 /\ j.active[f] = j.active[f] /\ Resumed(i, f, S) /\ j.watched \subseteq j.watched
    BY <1>5, <2>4
  <2> QED BY <1>3, <1>4, <1>5, <2>1, <2>2, <2>5, <2>6, <2>7, RemovalRemoves
<1> QED BY <1>1, <1>4, <1>5 DEF j, back, f


\* What MaintainFails does with t and the new thread n.
Suspends(i, t, n) ==
  LET split  == split_thread_intention_block(i, t, n)
      unlock == IF i.section # None THEN end_critical_section(split) ELSE split
      failed == IF i.status[t] = "ACTIVE"
                THEN continue_intention(add_in_active_tib(suspend_tib(unlock, t), n))
                ELSE split
  IN  [failed EXCEPT !.watched = @ \ {t}]

LEMMA MaintainFailsFields ==
  ASSUME in \in Intention, TreeInv(in), Watch(in, {}), NEW t \in Tib, NEW n \in Free(in),
         t \in in.watched, in.maintain[t] = "maintain",
         in' = Suspends(in, t, n)
  PROVE  /\ Splits(in, in', t, n)
         /\ in'.op = [in.op EXCEPT ![n] = in.op[t]]
         /\ in'.goal = [in.goal EXCEPT ![n] = in.goal[t]]
<1> DEFINE split  == split_thread_intention_block(in, t, n)
           unlock == IF in.section # None THEN end_critical_section(split) ELSE split
           susp   == suspend_tib(unlock, t)
           added  == add_in_active_tib(susp, n)
           failed == IF in.status[t] = "ACTIVE" THEN continue_intention(added) ELSE split
           p      == in.pere[t]
<1>1. in' = [failed EXCEPT !.watched = @ \ {t}]
  BY DEF Suspends
<1>2. n \in Tib
  BY DEF Free
<1>3. /\ split \in Intention
      /\ Same(in, split, {"fils", "status", "pere", "op", "goal", "suspended", "broken"})
      /\ split.fils = [in.fils EXCEPT ![p] = (in.fils[p] \ {t}) \cup {n}]
      /\ split.status = [in.status EXCEPT ![n] = in.status[t]]
      /\ split.pere = [in.pere EXCEPT ![n] = p]
      /\ split.op = [in.op EXCEPT ![n] = in.op[t]]
      /\ split.goal = [in.goal EXCEPT ![n] = in.goal[t]]
      /\ split.suspended = [in.suspended EXCEPT ![n] = t]
      /\ split.broken = in.broken \cup {t, n}
  <2>1. SplitOff(in, split, t, n)
    BY <1>2, SplitFields
  <2> QED BY <2>1 DEF SplitOff, p
<1> HIDE DEF split, p
<1>4. unlock \in Intention /\ Same(split, unlock, {"section", "opened"})
  <2>1. end_critical_section(split) \in Intention /\ Same(split, end_critical_section(split), {"section", "opened"})
    BY <1>3, EndSection
  <2> QED BY <1>3, <2>1 DEF Same
<1> HIDE DEF unlock
<1>5. /\ susp \in Intention /\ Same(unlock, susp, {"status", "active"})
      /\ susp.status = [u \in Tib |-> IF u \notin Below(unlock, {t}) THEN unlock.status[u]
                                      ELSE CASE unlock.status[u] = "ACTIVE" -> "SUSP_ACTIVE"
                                             [] unlock.status[u] = "SLEEPING" -> "SUSP_SLEEPING"
                                             [] OTHER -> unlock.status[u]]
      /\ susp.active = [u \in Tib |-> IF u \in Below(unlock, {t}) THEN Removed(unlock.active[u]) ELSE unlock.active[u]]
  BY <1>4, SuspendFields
<1> HIDE DEF susp
<1>6. added \in Intention /\ Same(susp, added, {"active"}) /\ added.active = [susp.active EXCEPT ![n] = susp.active[n] + 1]
  BY <1>2, <1>5, AddActive
<1> HIDE DEF added
<1>7. continue_intention(added) \in Intention /\ Same(added, continue_intention(added), {"asleep"})
  BY <1>6, Continue
<1>8. failed \in Intention
  BY <1>3, <1>7
<1>9. /\ in.status[t] = "ACTIVE" => Same(added, failed, {"asleep"})
      /\ in.status[t] # "ACTIVE" => failed = split
  BY <1>7
<1> HIDE DEF failed
<1>10. /\ in' \in Intention /\ Same(failed, in', {"watched"}) /\ in'.watched = failed.watched \ {t}
  <2>1. failed.watched \ {t} \in SUBSET Tib
    BY <1>8, Fields
  <2> QED BY <1>1, <1>8, <2>1, SetWatched
<1>11. Same(split, in', {"section", "opened", "status", "active", "asleep", "watched"}) /\ in'.watched = in.watched \ {t}
  <2>1. CASE in.status[t] = "ACTIVE"
    BY <1>3, <1>4, <1>5, <1>6, <1>9, <1>10, <2>1 DEF Same, Field
  <2>2. CASE in.status[t] # "ACTIVE"
    BY <1>3, <1>9, <1>10, <2>2 DEF Same, Field
  <2> QED BY <2>1, <2>2
<1>12. /\ in'.fils = split.fils /\ in'.pere = split.pere /\ in'.op = split.op /\ in'.goal = split.goal
       /\ in'.suspended = split.suspended /\ in'.broken = split.broken
       /\ in'.maintain = in.maintain /\ in'.waits = in.waits
  BY <1>3, <1>11 DEF Same, Field
<1> DEFINE hit == IF in.status[t] = "ACTIVE" THEN Below(in', {t}) ELSE {}
<1>13. unlock.fils = in'.fils /\ unlock.status = split.status /\ unlock.active = in.active
  BY <1>3, <1>4, <1>12 DEF Same, Field
<1>14. Below(unlock, {t}) = Below(in', {t})
  BY <1>13 DEF Below
<1>15. /\ in.status[t] = "ACTIVE" => in'.status = susp.status /\ in'.active = added.active
       /\ in.status[t] # "ACTIVE" => in'.status = split.status /\ in'.active = in.active
  <2>1. in'.status = failed.status /\ in'.active = failed.active
    BY <1>10 DEF Same, Field
  <2>2. in.status[t] = "ACTIVE" => failed.status = susp.status /\ failed.active = added.active
    BY <1>6, <1>9 DEF Same, Field
  <2>3. in.status[t] # "ACTIVE" => failed.status = split.status /\ failed.active = in.active
    BY <1>3, <1>9 DEF Same, Field
  <2> QED BY <2>1, <2>2, <2>3
<1>16. \A u \in Tib : split.status[u] = IF u = n THEN in.status[t] ELSE in.status[u]
  BY <1>3, Fields
<1>17. \A u \in Tib : in'.status[u] =
         LET s == IF u = n THEN in.status[t] ELSE in.status[u]
         IN  IF u \in hit THEN SuspendedStatus(s) ELSE s
  <2>1. CASE in.status[t] = "ACTIVE"
    <3>1. \A u \in Tib : susp.status[u] = IF u \in hit THEN SuspendedStatus(split.status[u]) ELSE split.status[u]
      BY <1>5, <1>13, <1>14, <2>1 DEF SuspendedStatus
    <3> HIDE DEF hit
    <3> QED BY <1>15, <1>16, <2>1, <3>1
  <2>2. CASE in.status[t] # "ACTIVE"
    BY <1>15, <1>16, <2>2
  <2> QED BY <2>1, <2>2
<1>18. \A u \in Tib : in'.active[u] =
         LET a == IF u \in hit THEN Removed(in.active[u]) ELSE in.active[u]
         IN  IF u = n /\ in.status[t] = "ACTIVE" THEN a + 1 ELSE a
  <2>1. CASE in.status[t] = "ACTIVE"
    <3>1. \A u \in Tib : susp.active[u] = IF u \in hit THEN Removed(in.active[u]) ELSE in.active[u]
      BY <1>5, <1>13, <1>14, <2>1
    <3> HIDE DEF hit
    <3>2. \A u \in Tib : in'.active[u] = IF u = n THEN susp.active[u] + 1 ELSE susp.active[u]
      BY <1>5, <1>6, <1>15, <2>1, Fields
    <3> QED BY <2>1, <3>1, <3>2
  <2>2. CASE in.status[t] # "ACTIVE"
    BY <1>15, <2>2
  <2> QED BY <2>1, <2>2
<1>19. \A u \in Tib : u # n => in'.goal[u] = in.goal[u]
  BY <1>3, <1>12, Fields
<1>20. /\ t \in Live(in) \ Behind(in) /\ in.status[t] \in {"ACTIVE", "SUSP_ACTIVE"}
  BY DEF TreeInv, SuspendedInv, FreeInv, Watch
<1>21. Splits(in, in', t, n)
  BY <1>3, <1>11, <1>12, <1>17, <1>18, <1>19, <1>20 DEF Splits, p
<1> QED BY <1>3, <1>12, <1>21


\* The restorer n of i goes; w is i with its place taken, and perhaps watched.
LEMMA RestoredFields ==
  ASSUME NEW i \in Intention, NEW n \in Tib, i.suspended[n] # None
  PROVE  Restored(i, n) \in Intention
<1>1. i.suspended[n] \in Tib
  BY Fields
<1> DEFINE k == Replace(i, n, i.suspended[n])
<1>2. k \in Intention
  BY <1>1, ReplaceFields
<1> HIDE DEF k
<1>3. continue_tib(k, i.suspended[n]) \in Intention
  BY <1>1, <1>2, ContinueFields
<1> QED BY <1>3 DEF Restored, k

LEMMA RestorerGoneFields ==
  ASSUME NEW w \in Intention, NEW n \in Tib
  PROVE  RestorerGone(w, n) \in Intention
<1> DEFINE t == w.suspended[n]
           k == [w EXCEPT !.broken = @ \ {t}]
           r == remove_from_active_tib(k, n)
<1>1. w.broken \ {t} \in SUBSET Tib
  BY Fields
<1>2. k \in Intention
  BY <1>1, SetBroken
<1> HIDE DEF k
<1>3. r \in Intention
  BY <1>2, RemoveActive
<1> HIDE DEF r
<1>4. {n} \in SUBSET Tib
  OBVIOUS
<1>5. FreeThreads(r, {n}) \in Intention
  BY <1>3, <1>4, FreeFields DEF Freed
<1> QED BY <1>5 DEF RestorerGone, k, r

LEMMA RestorerContinues ==
  ASSUME NEW i \in Intention, NEW n \in Tib, i.suspended[n] # None, i.status[n] = "ACTIVE",
         i.fils[n] = {}, i.pere[n] # n,
         NEW w \in Intention, Same(Restored(i, n), w, {"watched"}),
         w.watched \subseteq i.watched \cup {i.suspended[n]},
         NEW j \in Intention, Same(RestorerGone(w, n), j, {"asleep"})
  PROVE  Continues(i, j, n) /\ \A u \in Tib : j.op[u] = IF u = n THEN "body" ELSE i.op[u]
<1> DEFINE t == i.suspended[n]
           p == i.pere[n]
           a == Replace(i, n, t)
           b == continue_tib(a, t)
           d == [w EXCEPT !.broken = @ \ {w.suspended[n]}]
           r == remove_from_active_tib(d, n)
           g == FreeThreads(r, {n})
<1>1. t \in Tib /\ p \in Tib \cup {Top}
  BY Fields
<1>2. /\ a \in Intention /\ Same(i, a, {"fils"})
      /\ a.fils = [i.fils EXCEPT ![p] = (i.fils[p] \ {n}) \cup {t}]
  BY <1>1, ReplaceFields
<1> HIDE DEF a
<1>3. /\ b \in Intention /\ Same(a, b, {"status", "active"})
      /\ b.status = [u \in Tib |->
           CASE u \in Below(a, {t}) /\ (a.fils[u] # {} \/ a.status[u] = "SUSP_ACTIVE") -> "ACTIVE"
             [] u \in Below(a, {t}) /\ a.fils[u] = {} /\ a.status[u] = "SUSP_SLEEPING" -> "SLEEPING"
             [] OTHER -> a.status[u]]
      /\ b.active = [u \in Tib |->
           IF u \in Below(a, {t}) /\ a.fils[u] = {} /\ a.status[u] = "SUSP_ACTIVE"
           THEN a.active[u] + 1 ELSE a.active[u]]
  BY <1>1, <1>2, ContinueFields
<1> HIDE DEF b
<1>4. Same(b, w, {"watched"})
  BY DEF Restored, a, b
<1>5. w.suspended = i.suspended /\ w.broken = i.broken
  BY <1>2, <1>3, <1>4 DEF Same, Field
<1>6. d \in Intention /\ Same(w, d, {"broken"}) /\ d.broken = i.broken \ {t}
  <2>1. w.broken \ {w.suspended[n]} \in SUBSET Tib
    BY Fields
  <2>2. d \in Intention /\ Same(w, d, {"broken"}) /\ d.broken = w.broken \ {w.suspended[n]}
    BY <2>1, SetBroken
  <2> HIDE DEF d
  <2> QED BY <1>5, <2>2
<1> HIDE DEF d
<1>7. r \in Intention /\ Same(d, r, {"active"}) /\ r.active = [d.active EXCEPT ![n] = Removed(d.active[n])]
  BY <1>6, RemoveActive
<1> HIDE DEF r
<1>8. Freed(r, g, {n})
  <2>1. {n} \in SUBSET Tib
    OBVIOUS
  <2> QED BY <1>7, <2>1, FreeFields
<1>9. Same(g, j, {"asleep"})
  BY DEF RestorerGone, g, r, d
<1> HIDE DEF g
<1>10. Same(i, r, {"fils", "status", "active", "watched", "broken"}) /\ r.broken = i.broken \ {t} /\ r.watched = w.watched
  BY <1>2, <1>3, <1>4, <1>6, <1>7 DEF Same, Field
<1>11. r.fils = a.fils /\ r.status = b.status /\ r.active = [b.active EXCEPT ![n] = Removed(b.active[n])]
  <2>1. r.fils = a.fils
    BY <1>3, <1>4, <1>6, <1>7 DEF Same, Field
  <2>2. r.status = b.status
    BY <1>4, <1>6, <1>7 DEF Same, Field
  <2>3. d.active = b.active
    BY <1>4, <1>6 DEF Same, Field
  <2> QED BY <1>7, <2>1, <2>2, <2>3
<1>12. /\ r.pere = i.pere /\ r.suspended = i.suspended /\ r.op = i.op /\ r.goal = i.goal
       /\ r.maintain = i.maintain /\ r.waits = i.waits
  BY <1>10 DEF Same, Field
<1>13. /\ j.status = g.status /\ j.pere = g.pere /\ j.fils = g.fils /\ j.suspended = g.suspended
       /\ j.op = g.op /\ j.goal = g.goal /\ j.broken = g.broken /\ j.maintain = g.maintain
       /\ j.watched = g.watched /\ j.waits = g.waits /\ j.active = r.active
  BY <1>8, <1>9 DEF Same, Field, Freed
<1>14. /\ \A u \in Tib : j.status[u] = IF u = n THEN "free" ELSE b.status[u]
       /\ \A u \in Tib : j.goal[u] = IF u = n THEN "none" ELSE i.goal[u]
       /\ \A u \in Tib : j.op[u] = IF u = n THEN "body" ELSE i.op[u]
  BY <1>8, <1>11, <1>12, <1>13 DEF Freed
<1>15. j.pere = [i.pere EXCEPT ![n] = Top]
  <2>1. j.pere = [u \in Tib |-> IF u \in {n} THEN Top ELSE i.pere[u]]
    BY <1>8, <1>12, <1>13 DEF Freed
  <2> QED BY <2>1, Fields
<1>16. j.suspended = [i.suspended EXCEPT ![n] = None]
  <2>1. j.suspended = [u \in Tib |-> IF u \in {n} THEN None ELSE i.suspended[u]]
    BY <1>8, <1>12, <1>13 DEF Freed
  <2> QED BY <2>1, Fields
<1>17. j.maintain = [i.maintain EXCEPT ![n] = "none"]
  <2>1. j.maintain = [u \in Tib |-> IF u \in {n} THEN "none" ELSE i.maintain[u]]
    BY <1>8, <1>12, <1>13 DEF Freed
  <2> QED BY <2>1, Fields
<1>18. j.fils = a.fils
  <2>1. j.fils = [f \in Tib \cup {Top} |-> IF f \in {n} THEN {} ELSE a.fils[f]]
    BY <1>8, <1>11, <1>13 DEF Freed
  <2>2. a.fils \in [Tib \cup {Top} -> SUBSET Tib]
    BY <1>2, Fields
  <2>3. a.fils[n] = {}
    BY <1>2, Fields
  <2> QED BY <2>1, <2>2, <2>3
<1>19. j.broken = i.broken \ {t, n} /\ j.watched \subseteq (i.watched \cup {t}) \ {n} /\ j.waits = i.waits \ {n}
  BY <1>8, <1>10, <1>12, <1>13 DEF Freed
<1> DEFINE hit == Below(j, {t})
<1>20. Below(a, {t}) = hit
  BY <1>18 DEF Below
<1>21. a.status = i.status /\ a.active = i.active
  BY <1>2 DEF Same, Field
<1> HIDE DEF hit
<1>22. \A u \in Tib : b.status[u] = IF u \in hit THEN ContinuedStatus(i.status[u], j.fils[u]) ELSE i.status[u]
  BY <1>3, <1>18, <1>20, <1>21 DEF ContinuedStatus
<1>23. \A u \in Tib : b.active[u] = IF u \in hit /\ j.fils[u] = {} /\ i.status[u] = "SUSP_ACTIVE"
                                    THEN i.active[u] + 1 ELSE i.active[u]
  BY <1>3, <1>18, <1>20, <1>21
<1>24. \A u \in Tib : j.status[u] =
         IF u = n THEN "free" ELSE IF u \in hit THEN ContinuedStatus(i.status[u], j.fils[u]) ELSE i.status[u]
  BY <1>14, <1>22
<1>25. \A u \in Tib : j.active[u] =
         IF u = n THEN Removed(i.active[u])
         ELSE IF u \in hit /\ j.fils[u] = {} /\ i.status[u] = "SUSP_ACTIVE" THEN i.active[u] + 1
         ELSE i.active[u]
  <2>1. \A u \in Tib : j.active[u] = IF u = n THEN Removed(b.active[u]) ELSE b.active[u]
    BY <1>3, <1>11, <1>13
  <2>2. b.active[n] = i.active[n]
    BY <1>23
  <2> QED BY <1>23, <2>1, <2>2
<1>26. j.fils = [i.fils EXCEPT ![p] = (i.fils[p] \ {n}) \cup {t}]
  BY <1>2, <1>18
<1>27. Continues(i, j, n)
  BY <1>14, <1>15, <1>16, <1>17, <1>19, <1>24, <1>25, <1>26 DEF Continues, hit, p, t
<1> QED BY <1>14, <1>27

LEMMA ContinuesWatch ==
  ASSUME NEW i \in Intention, NEW j \in Intention, TreeInv(i), Watch(i, {}), NEW n, Continues(i, j, n),
         \A u \in Tib : j.op[u] = IF u = n THEN "body" ELSE i.op[u]
  PROVE  Watch(j, {})
<1> DEFINE t == i.suspended[n]
           hit == Below(j, {t})
<1>1. n \in Tib /\ t # None /\ t \in Tib
  BY Fields DEF Continues
<1>2. /\ \A u \in Tib : j.status[u] =
           IF u = n THEN "free" ELSE IF u \in hit THEN ContinuedStatus(i.status[u], j.fils[u]) ELSE i.status[u]
      /\ j.suspended = [i.suspended EXCEPT ![n] = None]
      /\ j.watched \subseteq (i.watched \cup {t}) \ {n}
      /\ \A u \in Tib : j.goal[u] = IF u = n THEN "none" ELSE i.goal[u]
  BY DEF Continues
<1>3. t \in Behind(i) /\ Behind(j) \subseteq Behind(i)
  BY <1>1, <1>2, Fields DEF Behind
<1>4. n \notin Behind(j)
  <2>1. i.status[n] = "ACTIVE" /\ \A u \in Behind(i) : i.status[u] = "SUSP_ACTIVE"
    BY DEF Continues, TreeInv, SuspendedInv
  <2> QED BY <1>3, <2>1
<1> HIDE DEF hit, t
<1>5. ASSUME NEW u \in j.watched \cup Behind(j)
      PROVE  /\ j.status[u] \in {"ACTIVE", "SUSP_ACTIVE"}
             /\ j.op[u] = "body" \/ (j.op[u] = "action" /\ j.goal[u] # "none")
  <2>1. u \in i.watched \cup Behind(i) /\ u # n /\ u \in Tib
    BY <1>2, <1>3, <1>4, <1>5, BehindTib, Fields
  <2>2. /\ i.status[u] \in {"ACTIVE", "SUSP_ACTIVE"}
        /\ i.op[u] = "body" \/ (i.op[u] = "action" /\ i.goal[u] # "none")
    BY <2>1 DEF Watch
  <2> QED BY <1>2, <2>1, <2>2 DEF ContinuedStatus
<1>6. ASSUME NEW u \in Tib, j.goal[u] = "posted" PROVE j.op[u] = "body"
  BY <1>2, <1>6 DEF Watch
<1> QED BY <1>5, <1>6 DEF Watch


LEMMA MakeFields ==
  ASSUME NEW t \in Tib, NEW op \in Op, NEW opened \in Tib \cup {None, Dangling}
  PROVE  LET j == make_intention(t, op, opened)
         IN  j \in Intention /\ TreeInv(j) /\ Watch(j, {})
<1> DEFINE j == make_intention(t, op, opened)
<1>1. IsRecord(j)
  BY DEF make_intention, IsRecord, Field
<1>2. /\ j.status = [u \in Tib |-> IF u = t THEN "ACTIVE" ELSE "free"]
      /\ j.pere = [u \in Tib |-> Top]
      /\ j.fils = [f \in Tib \cup {Top} |-> IF f = Top THEN {t} ELSE {}]
      /\ j.suspended = [u \in Tib |-> None]
      /\ j.op = [u \in Tib |-> IF u = t THEN op ELSE "body"]
      /\ j.goal = [u \in Tib |-> "none"]
  BY DEF make_intention
<1>3. /\ j.broken = {} /\ j.watched = {} /\ j.waits = {}
      /\ j.maintain = [u \in Tib |-> "none"]
      /\ j.active = [u \in Tib |-> IF u = t THEN 1 ELSE 0]
      /\ j.asleep = FALSE /\ j.section = None /\ j.opened = opened
  BY DEF make_intention
<1> HIDE DEF j
<1>4. j.status \in [Tib -> Status] /\ j.goal \in [Tib -> GoalState] /\ j.maintain \in [Tib -> Maintain]
  BY <1>2, <1>3 DEF Status, GoalState, Maintain
<1>5. j.op \in [Tib -> Op]
  <2>1. "body" \in Op
    BY DEF Op
  <2> QED BY <1>2, <2>1
<1>6. j.fils \in [Tib \cup {Top} -> SUBSET Tib]
  BY <1>2
<1>7. j.active \in [Tib -> Nat]
  BY <1>3
<1>8. j \in Intention
  <2>1. j.pere \in [Tib -> Tib \cup {Top}] /\ j.suspended \in [Tib -> Tib \cup {None}]
    BY <1>2
  <2>2. j.broken \in SUBSET Tib /\ j.watched \in SUBSET Tib /\ j.waits \in SUBSET Tib
    BY <1>3
  <2>3. /\ j.asleep \in BOOLEAN
        /\ j.section \in Tib \cup {None, Dangling} /\ j.opened \in Tib \cup {None, Dangling}
    BY <1>3
  <2> QED BY <1>1, <1>4, <1>5, <1>6, <1>7, <2>1, <2>2, <2>3, Fields
<1>9. Top \notin Tib /\ None \notin Tib
  BY TibAssumption
<1>10. Live(j) = {t} /\ Free(j) = Tib \ {t} /\ Behind(j) = {}
  BY <1>2 DEF Live, Free, Behind
<1>11. \A u \in Tib : j.fils[u] = {}
  BY <1>2, <1>9
<1>12. j.fils[Top] = {t}
  BY <1>2
<1>13. Listed(j)
  BY <1>2, <1>9, <1>10, <1>11, <1>12 DEF Listed
<1>14. Replaced(j)
  BY <1>2 DEF Replaced
<1>15. Reached(j)
  BY <1>10, <1>12 DEF Reached
<1>16. Tree(j)
  BY <1>2, <1>10, <1>12, <1>13, <1>14, <1>15 DEF Tree
<1>17. ActiveInv(j)
  BY <1>2, <1>3, <1>11 DEF ActiveInv
<1>18. SuspendedInv(j)
  BY <1>2, <1>3, <1>10 DEF SuspendedInv, Suspended
<1>19. WaitInv(j)
  BY <1>3 DEF WaitInv
<1>20. FreeInv(j)
  BY <1>2, <1>3, <1>10 DEF FreeInv
<1>21. Watch(j, {})
  BY <1>2, <1>3, <1>10 DEF Watch
<1> QED BY <1>8, <1>16, <1>17, <1>18, <1>19, <1>20, <1>21 DEF TreeInv, j


-----------------------------------------------------------------------------
(* What each step does *)

LEMMA NobodyTypes == Nobody \in [Tib -> Nat]
BY DEF Nobody

LEMMA WakeFields ==
  ASSUME NEW i \in Intention, NEW t \in Tib
  PROVE  LET j == [wake_up_thread(i, t) EXCEPT !.waits = @ \ {t}]
         IN  /\ j \in Intention /\ Same(i, j, {"status", "active", "asleep", "waits"})
             /\ j.waits = i.waits \ {t}
             /\ i.status[t] = "SUSP_SLEEPING" =>
                  j.status = [i.status EXCEPT ![t] = "SUSP_ACTIVE"] /\ j.active = i.active
             /\ i.status[t] # "SUSP_SLEEPING" =>
                  /\ j.status = [i.status EXCEPT ![t] = "ACTIVE"]
                  /\ j.active = [i.active EXCEPT ![t] = i.active[t] + 1]
<1> DEFINE k == wake_up_thread(i, t)
           j == [k EXCEPT !.waits = @ \ {t}]
<1>1. "ACTIVE" \in Status /\ "SUSP_ACTIVE" \in Status
  BY DEF Status
<1>2. /\ k \in Intention /\ Same(i, k, {"status", "active", "asleep"})
      /\ i.status[t] = "SUSP_SLEEPING" =>
           k.status = [i.status EXCEPT ![t] = "SUSP_ACTIVE"] /\ k.active = i.active
      /\ i.status[t] # "SUSP_SLEEPING" =>
           /\ k.status = [i.status EXCEPT ![t] = "ACTIVE"]
           /\ k.active = [i.active EXCEPT ![t] = i.active[t] + 1]
  <2>1. CASE i.status[t] = "SUSP_SLEEPING"
    <3> DEFINE a == [i EXCEPT !.status[t] = "SUSP_ACTIVE"]
    <3>1. k = a
      BY <2>1 DEF wake_up_thread
    <3>2. a \in Intention /\ Same(i, a, {"status"}) /\ a.status = [i.status EXCEPT ![t] = "SUSP_ACTIVE"]
      BY <1>1, SetStatus
    <3> HIDE DEF a, k
    <3> QED BY <2>1, <3>1, <3>2 DEF Same, Field
  <2>2. CASE i.status[t] # "SUSP_SLEEPING"
    <3> DEFINE a == [i EXCEPT !.status[t] = "ACTIVE"]
               b == add_in_active_tib(a, t)
               d == continue_intention(b)
    <3>1. k = d
      BY <2>2 DEF wake_up_thread
    <3>2. a \in Intention /\ Same(i, a, {"status"}) /\ a.status = [i.status EXCEPT ![t] = "ACTIVE"]
      BY <1>1, SetStatus
    <3> HIDE DEF a, k
    <3>3. b \in Intention /\ Same(a, b, {"active"}) /\ b.active = [a.active EXCEPT ![t] = a.active[t] + 1]
      BY <3>2, AddActive
    <3> HIDE DEF b
    <3>4. d \in Intention /\ Same(b, d, {"asleep"})
      BY <3>3, Continue
    <3> HIDE DEF d
    <3>5. Same(i, d, {"status", "active", "asleep"})
      BY <3>2, <3>3, <3>4 DEF Same, Field
    <3>6. d.status = a.status /\ d.active = b.active /\ a.active = i.active
      BY <3>2, <3>3, <3>4 DEF Same, Field
    <3> QED BY <2>2, <3>1, <3>2, <3>3, <3>4, <3>5, <3>6
  <2> QED BY <2>1, <2>2
<1> HIDE DEF k
<1>3. k.waits \ {t} \in SUBSET Tib
  BY <1>2, Fields
<1>4. j \in Intention /\ Same(k, j, {"waits"}) /\ j.waits = k.waits \ {t}
  BY <1>2, <1>3, SetWaits
<1> HIDE DEF j
<1>5. /\ Same(i, j, {"status", "active", "asleep", "waits"}) /\ k.waits = i.waits
      /\ j.status = k.status /\ j.active = k.active
  BY <1>2, <1>4 DEF Same, Field
<1> QED BY <1>2, <1>4, <1>5 DEF j, k

Asleep(i, j, t, s) ==
  /\ j \in Intention /\ Same(i, j, {"status", "active", "asleep", "waits"})
  /\ j.status = [i.status EXCEPT ![t] = s]
  /\ j.waits = i.waits \cup {t}
  /\ j.active = [i.active EXCEPT ![t] = Removed(i.active[t])]

LEMMA AsleepFields ==
  ASSUME NEW i \in Intention, NEW t \in Tib, NEW s \in Status
  PROVE  Asleep(i, asleep_tib(i, t, s), t, s)
<1> DEFINE k == remove_from_active_tib([i EXCEPT !.status[t] = s, !.waits = @ \cup {t}], t)
           j == check_last_active_tib(k)
<1>1. /\ k \in Intention /\ Same(i, k, {"status", "waits", "active"})
      /\ k.status = [i.status EXCEPT ![t] = s] /\ k.waits = i.waits \cup {t}
      /\ k.active = [i.active EXCEPT ![t] = Removed(i.active[t])]
  <2>1. Sleeps(i, k, t, s)
    BY SleepFields
  <2> QED BY <2>1 DEF Sleeps
<1> HIDE DEF k
<1>2. j \in Intention /\ Same(k, j, {"asleep"})
  BY <1>1, CheckLast
<1> HIDE DEF j
<1>3. /\ Same(i, j, {"status", "active", "asleep", "waits"})
      /\ j.status = k.status /\ j.waits = k.waits /\ j.active = k.active
  BY <1>1, <1>2 DEF Same, Field
<1> QED BY <1>1, <1>2, <1>3 DEF asleep_tib, j, k, Asleep

LEMMA JoiningFields ==
  ASSUME NEW i \in Intention, NEW t \in Tib
  PROVE  LET out == IF i.section = t THEN end_critical_section(i) ELSE i
             j == check_last_active_tib(remove_from_active_tib([out EXCEPT !.status[t] = "JOINING"], t))
         IN  /\ j \in Intention /\ Same(i, j, {"status", "active", "asleep", "section", "opened"})
             /\ j.status = [i.status EXCEPT ![t] = "JOINING"]
             /\ j.active = [i.active EXCEPT ![t] = Removed(i.active[t])]
<1> DEFINE out == IF i.section = t THEN end_critical_section(i) ELSE i
           k == remove_from_active_tib([out EXCEPT !.status[t] = "JOINING"], t)
           j == check_last_active_tib(k)
<1>1. out \in Intention /\ Same(i, out, {"section", "opened"})
  BY EndSection DEF Same
<1> HIDE DEF out
<1>2. "JOINING" \in Status
  BY DEF Status
<1>3. /\ k \in Intention /\ Same(out, k, {"status", "active"})
      /\ k.status = [out.status EXCEPT ![t] = "JOINING"]
      /\ k.active = [out.active EXCEPT ![t] = Removed(out.active[t])]
  BY <1>1, <1>2, JoinFields
<1> HIDE DEF k
<1>4. j \in Intention /\ Same(k, j, {"asleep"})
  BY <1>3, CheckLast
<1> HIDE DEF j
<1>5. /\ Same(i, j, {"status", "active", "asleep", "section", "opened"})
      /\ j.status = k.status /\ j.active = k.active /\ out.status = i.status /\ out.active = i.active
  BY <1>1, <1>3, <1>4 DEF Same, Field
<1> QED BY <1>3, <1>4, <1>5 DEF j, k, out

LEMMA PostedFields ==
  ASSUME NEW i \in Intention, NEW t \in Tib
  PROVE  LET j == [i EXCEPT !.goal[t] = "posted", !.broken = @ \ {t}]
         IN  /\ j \in Intention /\ Same(i, j, {"goal", "broken"})
             /\ j.goal = [i.goal EXCEPT ![t] = "posted"] /\ j.broken = i.broken \ {t}
<1> DEFINE j == [i EXCEPT !.goal[t] = "posted", !.broken = @ \ {t}]
<1>1. IsRecord(j)
  BY Fields, Update
<1>2. Same(i, j, {"goal", "broken"})
  BY Fields DEF IsRecord, Field, Same
<1>3. j.goal = [i.goal EXCEPT ![t] = "posted"]
  BY Fields DEF IsRecord, Field
<1>4. j.broken = i.broken \ {t}
  BY Fields DEF IsRecord, Field
<1> HIDE DEF j
<1>5. j.goal \in [Tib -> GoalState]
  BY <1>3, Fields DEF GoalState
<1>6. j.broken \in SUBSET Tib
  BY <1>4, Fields
<1>7. j \in Intention
  BY <1>1, <1>2, <1>5, <1>6, Fields DEF Same, Field
<1> QED BY <1>2, <1>3, <1>4, <1>7 DEF j

LEMMA SectionFields ==
  ASSUME NEW i \in Intention, NEW t \in Tib, NEW o \in Tib \cup {None}
  PROVE  LET j == [i EXCEPT !.section = t, !.opened = o]
         IN  j \in Intention /\ Same(i, j, {"section", "opened"})
<1> DEFINE j == [i EXCEPT !.section = t, !.opened = o]
<1>1. IsRecord(j)
  BY Fields, Update
<1>2. Same(i, j, {"section", "opened"})
  BY Fields DEF IsRecord, Field, Same
<1>3. j.section = t /\ j.opened = o
  BY Fields DEF IsRecord, Field
<1> HIDE DEF j
<1>4. j \in Intention
  BY <1>1, <1>2, <1>3, Fields DEF Same, Field
<1> QED BY <1>2, <1>4 DEF j

LEMMA GoalOverFields ==
  ASSUME NEW i \in Intention, NEW t \in Tib, NEW g \in GoalState
  PROVE  LET j == [desinstall_maintain(i, t) EXCEPT !.goal[t] = g]
         IN  /\ j \in Intention /\ Same(i, j, {"watched", "maintain", "goal"})
             /\ j.watched = i.watched \ {t}
             /\ j.maintain = IF t \in i.watched THEN [i.maintain EXCEPT ![t] = "none"] ELSE i.maintain
             /\ j.goal = [i.goal EXCEPT ![t] = g]
<1> DEFINE k == desinstall_maintain(i, t)
           j == [k EXCEPT !.goal[t] = g]
<1>1. /\ k \in Intention /\ Same(i, k, {"watched", "maintain"}) /\ k.watched = i.watched \ {t}
      /\ k.maintain = IF t \in i.watched THEN [i.maintain EXCEPT ![t] = "none"] ELSE i.maintain
  BY Desinstall
<1> HIDE DEF k
<1>2. j \in Intention /\ Same(k, j, {"goal"}) /\ j.goal = [k.goal EXCEPT ![t] = g]
  BY <1>1, SetGoal
<1> HIDE DEF j
<1>3. Same(i, j, {"watched", "maintain", "goal"}) /\ k.goal = i.goal /\ j.watched = k.watched /\ j.maintain = k.maintain
  BY <1>1, <1>2 DEF Same, Field
<1> QED BY <1>1, <1>2, <1>3 DEF j, k

LEMMA SuspendsTypes ==
  ASSUME NEW i \in Intention, NEW t \in Tib, NEW n \in Tib
  PROVE  Suspends(i, t, n) \in Intention
<1> DEFINE split  == split_thread_intention_block(i, t, n)
           unlock == IF i.section # None THEN end_critical_section(split) ELSE split
           susp   == suspend_tib(unlock, t)
           added  == add_in_active_tib(susp, n)
           failed == IF i.status[t] = "ACTIVE" THEN continue_intention(added) ELSE split
<1>1. split \in Intention
  <2>1. SplitOff(i, split, t, n)
    BY SplitFields
  <2> QED BY <2>1 DEF SplitOff
<1> HIDE DEF split
<1>2. unlock \in Intention
  BY <1>1, EndSection
<1> HIDE DEF unlock
<1>3. susp \in Intention
  BY <1>2, SuspendFields
<1> HIDE DEF susp
<1>4. added \in Intention
  BY <1>3, AddActive
<1> HIDE DEF added
<1>5. failed \in Intention
  BY <1>1, <1>4, Continue
<1> HIDE DEF failed
<1>6. failed.watched \ {t} \in SUBSET Tib
  BY <1>5, Fields
<1>7. [failed EXCEPT !.watched = @ \ {t}] \in Intention
  BY <1>5, <1>6, SetWatched
<1> QED BY <1>7 DEF Suspends, failed, added, susp, unlock, split


LEMMA Literals ==
  /\ {"soak", "intend", "choose"} \subseteq Phase \ Turn
  /\ "body" \in Op /\ "in db" \in Op
  /\ \A g \in {"none", "open", "posted", "achieved", "failed"} : g \in GoalState
  /\ \A s \in {"ACTIVE", "SLEEPING", "ACTION_WAIT", "JOINING"} : s \in Status
BY DEF Phase, Turn, Op, GoalState, Status


-----------------------------------------------------------------------------
(* The invariant holds after the steps of a turn *)

\* Of what Watch is about, i and j differ in t only.
Touches(i, j, t) ==
  /\ j.suspended = i.suspended /\ j.watched \subseteq i.watched
  /\ \A u \in Tib \ {t} : j.status[u] = i.status[u] /\ j.op[u] = i.op[u] /\ j.goal[u] = i.goal[u]
  /\ j.goal[t] = "posted" => j.op[t] = "body"

Works(j, t) ==
  t \in j.watched \cup Behind(j) =>
    /\ j.status[t] \in {"ACTIVE", "SUSP_ACTIVE"}
    /\ j.op[t] = "body" \/ (j.op[t] = "action" /\ j.goal[t] # "none")

LEMMA WatchOne ==
  ASSUME NEW i \in Intention, NEW j \in Intention, NEW t \in Tib, Watch(i, {t}), Touches(i, j, t)
  PROVE  Watch(j, {t}) /\ (Works(j, t) => Watch(j, {}))
<1>1. Behind(j) = Behind(i) /\ Behind(i) \subseteq Tib
  BY BehindTib DEF Behind, Touches
<1>2. i.watched \subseteq Tib
  BY Fields
<1> QED BY <1>1, <1>2 DEF Watch, Touches, Works

\* The thread whose turn it is.
Ready(i, t) ==
  /\ i \in Intention /\ TreeInv(i) /\ t \in Tib /\ i.status[t] = "ACTIVE" /\ i.fils[t] = {}

LEMMA ReadyPlace ==
  ASSUME NEW i, NEW t, Ready(i, t)
  PROVE  /\ t \in Live(i) \ Behind(i) /\ t \notin i.waits /\ i.active[t] = 1
         /\ i.pere[t] \in Tib \cup {Top} /\ t \in i.fils[i.pere[t]] /\ i.pere[t] # t
         /\ i.pere[t] \in Live(i) \cup {Top}
         /\ i.pere[t] # Top => i.pere[t] \in Tib /\ i.status[i.pere[t]] = "ACTIVE"
<1>1. t \in Live(i) /\ t \notin Behind(i)
  BY DEF Ready, Live, Free, TreeInv, SuspendedInv
<1>2. t \notin i.waits /\ i.active[t] = 1
  BY DEF Ready, TreeInv, ActiveInv
<1>3. t \in i.fils[i.pere[t]] /\ i.pere[t] \in Tib \cup {Top}
  BY <1>1, Fields DEF Ready, TreeInv, Tree
<1>4. i.pere[t] # t /\ i.pere[t] \in Live(i) \cup {Top}
  BY <1>3 DEF Ready, TreeInv, Tree, Listed, Live
<1>5. i.pere[t] # Top => ~Suspended(i, i.pere[t])
  <2>1. i.status[t] # "JOINING" /\ ~Suspended(i, t)
    BY DEF Ready, Suspended
  <2> QED BY <1>1, <2>1 DEF Ready, TreeInv, SuspendedInv
<1>6. i.pere[t] # Top => i.pere[t] \in Tib /\ i.status[i.pere[t]] \in {"ACTIVE", "SUSP_ACTIVE"}
  BY <1>3 DEF Ready, TreeInv, ActiveInv
<1> QED BY <1>1, <1>2, <1>3, <1>4, <1>5, <1>6 DEF Suspended

\* Nothing changes but the goal of t, what watches it, and the section.
GoalStep(i, j, t) ==
  /\ j \in Intention /\ Same(i, j, {"goal", "broken", "watched", "maintain", "section", "opened"})
  /\ j.broken \subseteq i.broken /\ j.watched \subseteq i.watched
  /\ \A u \in Tib : j.maintain[u] = i.maintain[u] \/ (j.maintain[u] = "none" /\ u \in i.watched)
  /\ \A u \in Tib \ {t} : j.goal[u] = i.goal[u]
  /\ j.goal[t] = "posted" => i.op[t] = "body"

LEMMA GoalStepReady ==
  ASSUME NEW i, NEW t, Ready(i, t), Watch(i, {t}), NEW j, GoalStep(i, j, t)
  PROVE  /\ Ready(j, t) /\ j.op = i.op /\ Watch(j, {t})
         /\ i.op[t] = "body" => Watch(j, {})
<1>1. i \in Intention /\ j \in Intention /\ t \in Tib /\ TreeInv(i) /\ i.status[t] = "ACTIVE" /\ i.fils[t] = {}
  BY DEF Ready, GoalStep
<1>2. /\ j.status = i.status /\ j.pere = i.pere /\ j.fils = i.fils /\ j.suspended = i.suspended
      /\ j.active = i.active /\ j.waits = i.waits /\ j.op = i.op
  BY DEF Same, Field, GoalStep
<1>3. Stays(i, j)
  BY <1>1, <1>2 DEF Stays, GoalStep
<1>4. \A u \in Tib : SameStatus(i, j, u)
  BY <1>2 DEF SameStatus
<1>5. TreeInv(j)
  BY <1>1, <1>3, <1>4, StaysTree
<1>6. Touches(i, j, t)
  BY <1>2 DEF GoalStep, Touches
<1>7. i.op[t] = "body" => Works(j, t)
  BY <1>1, <1>2 DEF Works
<1> QED BY <1>1, <1>2, <1>5, <1>6, <1>7, WatchOne DEF Ready

LEMMA GoalOverStep ==
  ASSUME NEW i \in Intention, NEW t \in Tib, NEW g \in GoalState, i.op[t] = "body"
  PROVE  GoalStep(i, [desinstall_maintain(i, t) EXCEPT !.goal[t] = g], t)
<1> DEFINE j == [desinstall_maintain(i, t) EXCEPT !.goal[t] = g]
<1>1. /\ j \in Intention /\ Same(i, j, {"watched", "maintain", "goal"})
      /\ j.watched = i.watched \ {t}
      /\ j.maintain = IF t \in i.watched THEN [i.maintain EXCEPT ![t] = "none"] ELSE i.maintain
      /\ j.goal = [i.goal EXCEPT ![t] = g]
  BY GoalOverFields
<1> HIDE DEF j
<1>2. j.broken = i.broken /\ Same(i, j, {"goal", "broken", "watched", "maintain", "section", "opened"})
  BY <1>1 DEF Same, Field
<1>3. \A u \in Tib : j.maintain[u] = i.maintain[u] \/ (j.maintain[u] = "none" /\ u \in i.watched)
  BY <1>1, Fields
<1>4. \A u \in Tib \ {t} : j.goal[u] = i.goal[u]
  BY <1>1, Fields
<1> QED BY <1>1, <1>2, <1>3, <1>4 DEF GoalStep, j

LEMMA SetGoalStep ==
  ASSUME NEW i \in Intention, NEW t \in Tib, NEW g \in GoalState, g = "posted" => i.op[t] = "body"
  PROVE  /\ GoalStep(i, [i EXCEPT !.goal[t] = g], t)
         /\ [i EXCEPT !.goal[t] = g].goal = [i.goal EXCEPT ![t] = g]
<1> DEFINE j == [i EXCEPT !.goal[t] = g]
<1>1. j \in Intention /\ Same(i, j, {"goal"}) /\ j.goal = [i.goal EXCEPT ![t] = g]
  BY SetGoal
<1> HIDE DEF j
<1>2. /\ j.broken = i.broken /\ j.watched = i.watched /\ j.maintain = i.maintain
      /\ Same(i, j, {"goal", "broken", "watched", "maintain", "section", "opened"})
  BY <1>1 DEF Same, Field
<1>3. \A u \in Tib \ {t} : j.goal[u] = i.goal[u]
  BY <1>1, Fields
<1>4. j.goal[t] = g
  BY <1>1, Fields
<1> QED BY <1>1, <1>2, <1>3, <1>4 DEF GoalStep, j

LEMMA SectionStep ==
  ASSUME NEW i \in Intention, NEW t \in Tib, Watch(i, {t}), NEW j \in Intention, Same(i, j, {"section", "opened"})
  PROVE  GoalStep(i, j, t)
<1>1. /\ j.broken = i.broken /\ j.watched = i.watched /\ j.maintain = i.maintain /\ j.goal = i.goal
      /\ Same(i, j, {"goal", "broken", "watched", "maintain", "section", "opened"})
  BY DEF Same, Field
<1> QED BY <1>1 DEF GoalStep, Watch

LEMMA TurnReady ==
  ASSUME IInv, phase \in Turn
  PROVE  Ready(in, current) /\ Watch(in, Leaving) /\ applicable = {}
BY DEF IInv, TypeOK, TurnInv, WatchInv, Ready, Turn

\* What the next call of a turn expects.
Expected(i, t, what) ==
  /\ Ready(i, t) /\ what \in Turn
  /\ Watch(i, IF what \in {"satisfied", "failed"} THEN {t} ELSE {})
  /\ what \in {"node", "body"} => i.op[t] = "body"
  /\ what = "node" => t \notin i.watched

LEMMA CallInv ==
  ASSUME IInv, phase \in Turn, NEW i, NEW t, NEW what, Expected(i, t, what), Call(i, t, what)
  PROVE  IInv'
<1>1. applicable = {}
  BY TurnReady
<1>2. in' = i /\ current' = t /\ phase' = what /\ todo' = todo /\ applicable' = {}
  BY <1>1 DEF Call
<1>3. TypeOK'
  BY <1>2 DEF IInv, TypeOK, Expected, Ready, Turn, Phase
<1>4. TreeInv(in)' /\ TurnInv'
  BY <1>2 DEF Expected, Ready, TurnInv, TreeInv, Tree, Listed, Replaced, Reached, ActiveInv, SuspendedInv, WaitInv, FreeInv
<1>5. WatchInv'
  BY <1>2 DEF Expected, WatchInv, Watch, Leaving
<1> QED BY <1>3, <1>4, <1>5 DEF IInv

LEMMA ExecutedInv ==
  ASSUME IInv, phase \in Turn, NEW i \in Intention, TreeInv(i), Watch(i, {}),
         Executed(i) \/ Waits(i) \/ Ended(i)
  PROVE  IInv'
<1>1. applicable = {}
  BY TurnReady
<1>2. in' = i /\ current' = None /\ phase' = "choose" /\ applicable' = {}
  BY <1>1 DEF Executed, Waits, Ended
<1>3. TypeOK'
  <2>1. todo \in [Tib -> Nat]
    BY DEF IInv, TypeOK
  <2>2. todo' \in [Tib -> Nat]
    BY <2>1, NobodyTypes DEF Executed, Waits, Ended
  <2> QED BY <1>2, <2>2 DEF TypeOK, Phase
<1>4. TreeInv(in')
  BY <1>2
<1>5. Watch(in', {})
  BY <1>2
<1>6. WatchInv'
  BY <1>2, <1>5 DEF WatchInv, Leaving, Watch
<1>7. TurnInv'
  BY <1>2 DEF TurnInv, Turn
<1> QED BY <1>3, <1>4, <1>6, <1>7 DEF IInv

LEMMA WatchLeaving ==
  ASSUME NEW i, NEW t, Watch(i, {})
  PROVE  Watch(i, {t})
BY DEF Watch


\* t, which has no sons, sleeps, waits in its action or joins.
LEMMA RestsTree ==
  ASSUME NEW i, NEW t, Ready(i, t), NEW j \in Intention,
         Same(i, j, {"status", "op", "active", "asleep", "waits", "section", "opened"}),
         NEW s \in {"SLEEPING", "ACTION_WAIT", "JOINING"},
         j.status = [i.status EXCEPT ![t] = s],
         j.active = [i.active EXCEPT ![t] = Removed(i.active[t])],
         j.waits = IF s = "JOINING" THEN i.waits ELSE i.waits \cup {t},
         s = "ACTION_WAIT" => \A u \in Tib : i.maintain[u] = "maintain" => t \notin Below(i, {u})
  PROVE  TreeInv(j)
<1>1. /\ i \in Intention /\ TreeInv(i) /\ t \in Tib /\ i.fils[t] = {} /\ i.status[t] = "ACTIVE"
      /\ t \in Live(i) \ Behind(i) /\ t \notin i.waits /\ i.active[t] = 1
  BY ReadyPlace DEF Ready
<1>2. /\ j.pere = i.pere /\ j.fils = i.fils /\ j.suspended = i.suspended /\ j.broken = i.broken
      /\ j.watched = i.watched /\ j.maintain = i.maintain /\ j.goal = i.goal
  BY DEF Same, Field
<1>3. Stays(i, j)
  BY <1>2 DEF Stays
<1>4. j.status[t] = s /\ \A u \in Tib \ {t} : j.status[u] = i.status[u]
  BY <1>1, Fields
<1>5. j.active[t] = 0 /\ \A u \in Tib \ {t} : j.active[u] = i.active[u]
  BY <1>1, Fields DEF Removed
<1>6. \A u \in Tib \ {t} : u \in j.waits <=> u \in i.waits
  OBVIOUS
<1>7. t \in j.waits <=> s # "JOINING"
  BY <1>1
<1>8. NewStatus(i, j, t)
  BY <1>1, <1>4, <1>5, <1>7 DEF NewStatus, Suspended
<1>9. \A u \in Tib : SameStatus(i, j, u) \/ NewStatus(i, j, u)
  BY <1>4, <1>5, <1>6, <1>8 DEF SameStatus
<1> QED BY <1>1, <1>3, <1>9, StaysTree

LEMMA WaitingInv ==
  ASSUME IInv, execute_intention_goal_waiting
  PROVE  IInv'
<1> DEFINE i == [in EXCEPT !.op[current] = "in db"]
           j == asleep_tib(i, current, "SLEEPING")
<1>1. phase = "run" /\ in.op[current] = "waiting" /\ Waits(j)
  BY DEF execute_intention_goal_waiting, Running
<1>2. Ready(in, current) /\ Watch(in, {})
  BY <1>1, TurnReady DEF Turn, Leaving
<1>3. in \in Intention /\ current \in Tib
  BY <1>2 DEF Ready
<1>4. i \in Intention /\ Same(in, i, {"op"}) /\ i.op = [in.op EXCEPT ![current] = "in db"]
  BY <1>3, SetOp, Literals
<1> HIDE DEF i
<1>5. /\ j \in Intention /\ Same(i, j, {"status", "active", "asleep", "waits"})
      /\ j.status = [i.status EXCEPT ![current] = "SLEEPING"]
      /\ j.waits = i.waits \cup {current}
      /\ j.active = [i.active EXCEPT ![current] = Removed(i.active[current])]
  <2>1. "SLEEPING" \in Status
    BY Literals
  <2>2. Asleep(i, j, current, "SLEEPING")
    BY <1>3, <1>4, <2>1, AsleepFields
  <2> HIDE DEF j
  <2> QED BY <2>2 DEF Asleep
<1> HIDE DEF j
<1>6. /\ i.status = in.status /\ i.waits = in.waits /\ i.active = in.active
      /\ j.op = i.op /\ j.goal = in.goal /\ j.watched = in.watched /\ j.suspended = in.suspended
  BY <1>4, <1>5 DEF Same, Field
<1>7. TreeInv(j)
  <2>1. Same(in, j, {"status", "op", "active", "asleep", "waits", "section", "opened"})
    BY <1>4, <1>5 DEF Same, Field
  <2>2. /\ j.status = [in.status EXCEPT ![current] = "SLEEPING"]
        /\ j.active = [in.active EXCEPT ![current] = Removed(in.active[current])]
        /\ j.waits = in.waits \cup {current}
    BY <1>5, <1>6
  <2> QED BY <1>2, <1>5, <2>1, <2>2, RestsTree
<1>8. current \notin in.watched \cup Behind(in) /\ in.goal[current] # "posted"
  BY <1>1, <1>2, <1>3 DEF Watch
<1>9. Touches(in, j, current)
  <2>1. \A u \in Tib \ {current} : j.status[u] = in.status[u]
    BY <1>3, <1>5, <1>6, Fields
  <2>2. \A u \in Tib \ {current} : j.op[u] = in.op[u]
    BY <1>3, <1>4, <1>6, Fields
  <2> QED BY <1>6, <1>8, <2>1, <2>2 DEF Touches
<1>10. Works(j, current)
  BY <1>6, <1>8 DEF Works, Behind
<1>11. Watch(j, {})
  BY <1>2, <1>3, <1>5, <1>9, <1>10, WatchOne, WatchLeaving
<1> QED BY <1>1, <1>5, <1>7, <1>11, ExecutedInv DEF Turn

LEMMA ActionWaitsInv ==
  ASSUME IInv, ActionWaits, "wait" \notin Risks
  PROVE  IInv'
<1> DEFINE j == asleep_tib(in, current, "ACTION_WAIT")
<1>1. /\ phase = "run" /\ in.op[current] = "action" /\ in.goal[current] = "none"
      /\ ~MaintainedAbove(current) /\ Waits(j)
  BY DEF ActionWaits, Running
<1>2. Ready(in, current) /\ Watch(in, {})
  BY <1>1, TurnReady DEF Turn, Leaving
<1>3. in \in Intention /\ current \in Tib /\ FreeInv(in)
  BY <1>2 DEF Ready, TreeInv
<1>4. /\ j \in Intention /\ Same(in, j, {"status", "active", "asleep", "waits"})
      /\ j.status = [in.status EXCEPT ![current] = "ACTION_WAIT"]
      /\ j.waits = in.waits \cup {current}
      /\ j.active = [in.active EXCEPT ![current] = Removed(in.active[current])]
  <2>1. Asleep(in, j, current, "ACTION_WAIT")
    BY <1>3, AsleepFields, Literals
  <2> HIDE DEF j
  <2> QED BY <2>1 DEF Asleep
<1> HIDE DEF j
<1>5. /\ Same(in, j, {"status", "op", "active", "asleep", "waits", "section", "opened"})
      /\ j.op = in.op /\ j.goal = in.goal /\ j.watched = in.watched /\ j.suspended = in.suspended
  BY <1>4 DEF Same, Field
<1>6. \A u \in Tib : in.maintain[u] = "maintain" => current \notin Below(in, {u})
  BY <1>1, <1>3 DEF MaintainedAbove, FreeInv, Live
<1>7. TreeInv(j)
  BY <1>2, <1>4, <1>5, <1>6, RestsTree
<1>8. current \notin in.watched \cup Behind(in)
  BY <1>1, <1>2 DEF Watch
<1>9. Touches(in, j, current)
  BY <1>1, <1>3, <1>4, <1>5, Fields DEF Touches
<1>10. Works(j, current)
  BY <1>5, <1>8 DEF Works, Behind
<1>11. Watch(j, {})
  BY <1>2, <1>3, <1>4, <1>9, <1>10, WatchOne, WatchLeaving
<1> QED BY <1>1, <1>4, <1>7, <1>11, ExecutedInv DEF Turn

LEMMA JoinInv ==
  ASSUME IInv, Join
  PROVE  IInv'
<1> DEFINE out == IF in.section = current THEN end_critical_section(in) ELSE in
           j == check_last_active_tib(remove_from_active_tib([out EXCEPT !.status[current] = "JOINING"], current))
<1>1. phase = "node" /\ Waits(j)
  BY DEF Join
<1>2. Ready(in, current) /\ Watch(in, {}) /\ in.op[current] = "body" /\ current \notin in.watched
  BY <1>1, TurnReady DEF Turn, Leaving, IInv, TurnInv
<1>3. in \in Intention /\ current \in Tib
  BY <1>2 DEF Ready
<1>4. /\ j \in Intention /\ Same(in, j, {"status", "active", "asleep", "section", "opened"})
      /\ j.status = [in.status EXCEPT ![current] = "JOINING"]
      /\ j.active = [in.active EXCEPT ![current] = Removed(in.active[current])]
  BY <1>3, JoiningFields
<1> HIDE DEF j
<1>5. /\ Same(in, j, {"status", "op", "active", "asleep", "waits", "section", "opened"}) /\ j.waits = in.waits
      /\ j.op = in.op /\ j.goal = in.goal /\ j.watched = in.watched /\ j.suspended = in.suspended
  BY <1>4 DEF Same, Field
<1>6. TreeInv(j)
  BY <1>2, <1>4, <1>5, RestsTree
<1>7. Touches(in, j, current)
  BY <1>2, <1>3, <1>4, <1>5, Fields DEF Touches
<1>8. Works(j, current)
  BY <1>2, <1>5, ReadyPlace DEF Works, Behind
<1>9. Watch(j, {})
  BY <1>2, <1>3, <1>4, <1>7, <1>8, WatchOne, WatchLeaving
<1> QED BY <1>1, <1>4, <1>6, <1>9, ExecutedInv DEF Turn


\* Steps that are only a call, or give current its next goal.
LEMMA CallOnlyInv ==
  ASSUME IInv,
         \/ execute_intention_goal_satisfied_in_db \/ StartBody \/ PlainNode \/ NoEdge
         \/ ActionEnds \/ begin_critical_section \/ action_end_cs
  PROVE  IInv'
<1> SUFFICES ASSUME phase \in {"run", "node", "body"}
             PROVE  IInv'
  BY DEF execute_intention_goal_satisfied_in_db, StartBody, PlainNode, NoEdge, ActionEnds,
         begin_critical_section, action_end_cs, Running
<1>1. Ready(in, current) /\ Watch(in, {}) /\ phase \in Turn
  BY TurnReady DEF Turn, Leaving
<1>2. in \in Intention /\ current \in Tib /\ Watch(in, {current})
  BY <1>1, WatchLeaving DEF Ready
<1>3. CASE execute_intention_goal_satisfied_in_db
  BY <1>1, <1>2, <1>3, CallInv DEF execute_intention_goal_satisfied_in_db, Expected, Turn
<1>4. CASE StartBody
  BY <1>1, <1>4, CallInv DEF StartBody, Running, Expected, Turn
<1>5. CASE PlainNode
  <2>1. in.op[current] = "body"
    BY <1>5 DEF PlainNode, IInv, TurnInv, Turn
  <2>2. PICK what \in {"satisfied", "body"} : Call(in, current, what)
    BY <1>5 DEF PlainNode
  <2>3. Expected(in, current, what)
    BY <1>1, <1>2, <2>1 DEF Expected, Turn
  <2> QED BY <1>1, <2>2, <2>3, CallInv
<1>6. CASE NoEdge
  BY <1>1, <1>2, <1>6, CallInv DEF NoEdge, Expected, Turn
<1>7. CASE ActionEnds
  <2> DEFINE i == [in EXCEPT !.goal[current] = "none"]
  <2>1. GoalStep(in, i, current)
    BY <1>2, SetGoalStep, Literals
  <2>2. PICK what \in {"satisfied", "failed"} : Call(i, current, what)
    BY <1>7 DEF ActionEnds
  <2> HIDE DEF i
  <2>3. Expected(i, current, what)
    BY <1>1, <1>2, <2>1, GoalStepReady DEF Expected, Turn
  <2> QED BY <1>1, <2>2, <2>3, CallInv
<1>8. CASE begin_critical_section
  <2> DEFINE o == IF in.pere[current] = Top THEN None ELSE in.pere[current]
             i == [in EXCEPT !.section = current, !.opened = o]
  <2>1. o \in Tib \cup {None}
    BY <1>2, Fields
  <2>2. Call(i, current, "satisfied")
    BY <1>8 DEF begin_critical_section
  <2> HIDE DEF o
  <2>3. i \in Intention /\ Same(in, i, {"section", "opened"})
    BY <1>2, <2>1, SectionFields
  <2> HIDE DEF i
  <2>4. Expected(i, current, "satisfied")
    BY <1>1, <1>2, <2>3, SectionStep, GoalStepReady DEF Expected, Turn
  <2> QED BY <1>1, <2>2, <2>4, CallInv
<1>9. CASE action_end_cs
  <2> DEFINE i == end_critical_section(in)
  <2>1. i \in Intention /\ Same(in, i, {"section", "opened"})
    BY <1>2, EndSection
  <2>2. Call(i, current, "satisfied")
    BY <1>9 DEF action_end_cs
  <2> HIDE DEF i
  <2>3. Expected(i, current, "satisfied")
    BY <1>1, <1>2, <2>1, SectionStep, GoalStepReady DEF Expected, Turn
  <2> QED BY <1>1, <2>2, <2>3, CallInv
<1> QED BY <1>3, <1>4, <1>5, <1>6, <1>7, <1>8, <1>9

LEMMA GoalInv ==
  ASSUME IInv, PostRestoringGoal \/ GoalFailed \/ GoalAchieved \/ GoalOpen \/ PostFirst
  PROVE  IInv'
<1>1. phase \in {"run", "body"} /\ in.op[current] = "body"
  BY DEF PostRestoringGoal, GoalFailed, GoalAchieved, GoalOpen, PostFirst, GoalIs, Running, IInv, TurnInv, Turn
<1>2. Ready(in, current) /\ Watch(in, {}) /\ phase \in Turn
  BY <1>1, TurnReady DEF Turn, Leaving
<1>3. in \in Intention /\ current \in Tib /\ Watch(in, {current})
  BY <1>2, WatchLeaving DEF Ready
<1>4. ASSUME NEW i, GoalStep(in, i, current)
      PROVE  /\ Ready(i, current) /\ i.op[current] = "body" /\ Watch(i, {}) /\ Watch(i, {current})
             /\ i \in Intention /\ TreeInv(i)
             /\ Executed(i) => IInv'
             /\ \A what \in {"run", "failed"} : Call(i, current, what) => IInv'
             /\ current \notin i.watched => (Call(i, current, "node") => IInv')
  <2>1. /\ Ready(i, current) /\ i.op[current] = "body" /\ Watch(i, {}) /\ Watch(i, {current})
        /\ i \in Intention /\ TreeInv(i)
    BY <1>1, <1>2, <1>3, <1>4, GoalStepReady DEF Ready
  <2>2. Executed(i) => IInv'
    BY <1>2, <2>1, ExecutedInv
  <2>3. \A what \in {"run", "failed"} : Expected(i, current, what)
    BY <2>1 DEF Expected, Turn
  <2>4. current \notin i.watched => Expected(i, current, "node")
    BY <2>1 DEF Expected, Turn
  <2> QED BY <1>2, <2>1, <2>2, <2>3, <2>4, CallInv
<1>5. ASSUME NEW g \in GoalState PROVE GoalStep(in, [in EXCEPT !.goal[current] = g], current)
  BY <1>1, <1>3, <1>5, SetGoalStep
<1>6. ASSUME NEW g \in GoalState
      PROVE  GoalStep(in, [desinstall_maintain(in, current) EXCEPT !.goal[current] = g], current)
  BY <1>1, <1>3, <1>6, GoalOverStep
<1>7. "posted" \in GoalState /\ "achieved" \in GoalState /\ "none" \in GoalState
  BY Literals
<1>8. GoalStep(in, GoalOver, current) /\ current \notin GoalOver.watched
  <2>1. GoalOver.watched = in.watched \ {current}
    BY <1>3, <1>7, GoalOverFields DEF GoalOver
  <2> QED BY <1>6, <1>7, <2>1 DEF GoalOver
<1>9. CASE PostFirst
  <2>1. CASE Executed([in EXCEPT !.goal[current] = "posted"])
    BY <1>4, <1>5, <1>7, <2>1
  <2>2. CASE Call([in EXCEPT !.goal[current] = "achieved"], current, "run")
    BY <1>4, <1>5, <1>7, <2>2
  <2> QED BY <1>9, <2>1, <2>2 DEF PostFirst
<1>10. CASE GoalOpen
  BY <1>4, <1>6, <1>7, <1>10 DEF GoalOpen
<1>11. CASE GoalAchieved
  BY <1>4, <1>8, <1>11 DEF GoalAchieved
<1>12. CASE GoalFailed
  <2>1. CASE Call(GoalOver, current, "node") \/ Call(GoalOver, current, "failed")
    BY <1>4, <1>8, <2>1
  <2>2. ASSUME NEW state \in {"posted", "achieved"}, Executed([GoalOver EXCEPT !.goal[current] = state])
        PROVE  IInv'
    <3> DEFINE i == [GoalOver EXCEPT !.goal[current] = state]
    <3>1. Ready(GoalOver, current) /\ GoalOver.op[current] = "body" /\ Watch(GoalOver, {current}) /\ GoalOver \in Intention
      BY <1>4, <1>8
    <3>2. GoalStep(GoalOver, i, current)
      BY <1>3, <1>7, <3>1, SetGoalStep
    <3> HIDE DEF i
    <3>3. Ready(i, current) /\ Watch(i, {})
      BY <3>1, <3>2, GoalStepReady
    <3> QED BY <1>2, <2>2, <3>3, ExecutedInv DEF Ready, i
  <2> QED BY <1>12, <2>1, <2>2 DEF GoalFailed
<1>13. CASE PostRestoringGoal
  <2> DEFINE i == [in EXCEPT !.goal[current] = "posted", !.broken = @ \ {current}]
  <2>1. /\ i \in Intention /\ Same(in, i, {"goal", "broken"})
        /\ i.goal = [in.goal EXCEPT ![current] = "posted"] /\ i.broken = in.broken \ {current}
    BY <1>3, PostedFields
  <2>2. Executed(IF in.suspended[current] = None THEN in ELSE i)
    BY <1>13 DEF PostRestoringGoal
  <2> HIDE DEF i
  <2>3. /\ i.watched = in.watched /\ i.maintain = in.maintain
        /\ Same(in, i, {"goal", "broken", "watched", "maintain", "section", "opened"})
    BY <2>1 DEF Same, Field
  <2>4. \A u \in Tib \ {current} : i.goal[u] = in.goal[u]
    BY <2>1, Fields
  <2>5. GoalStep(in, i, current)
    BY <1>1, <2>1, <2>3, <2>4 DEF GoalStep
  <2>6. Executed(in) => IInv'
    BY <1>2, ExecutedInv DEF Ready
  <2> QED BY <1>4, <2>2, <2>5, <2>6
<1> QED BY <1>9, <1>10, <1>11, <1>12, <1>13


\* A procedure is intended for the goal of t.
LEMMA IntendTree ==
  ASSUME NEW i, NEW t, Ready(i, t), Watch(i, {}), i.op[t] = "body" \/ (i.op[t] = "action" /\ i.goal[t] # "none"),
         NEW n \in Free(i), NEW op, NEW maintain, NEW j, Intended(i, j, t, n, op, maintain)
  PROVE  TreeInv(j) /\ Watch(j, {})
<1>1. /\ i \in Intention /\ t \in Tib /\ TreeInv(i) /\ i.status[t] = "ACTIVE" /\ i.fils[t] = {}
      /\ t \in Live(i) /\ i.active[t] = 1
  BY ReadyPlace DEF Ready
<1>2. n \in Tib /\ n # t /\ i.status[n] = "free" /\ i.active[n] = 0
  BY <1>1 DEF Free, TreeInv, ActiveInv
<1>3. /\ j \in Intention
      /\ j.status = [i.status EXCEPT ![n] = "ACTIVE"]
      /\ j.pere = [i.pere EXCEPT ![n] = t]
      /\ j.fils = [i.fils EXCEPT ![t] = {n}]
      /\ j.op = [i.op EXCEPT ![n] = op]
      /\ j.maintain = [i.maintain EXCEPT ![t] = IF maintain = "none" THEN i.maintain[t] ELSE maintain]
      /\ j.watched = IF maintain = "none" THEN i.watched ELSE i.watched \cup {t}
      /\ j.active = [[i.active EXCEPT ![n] = i.active[n] + 1] EXCEPT ![t] = Removed([i.active EXCEPT ![n] = i.active[n] + 1][t])]
  BY DEF Intended
<1>4. j.suspended = i.suspended /\ j.broken = i.broken /\ j.waits = i.waits /\ j.goal = i.goal
  BY DEF Intended, Same, Field
<1>5. \A u \in Tib : j.active[u] = IF u = n THEN 1 ELSE IF u = t THEN 0 ELSE i.active[u]
  <2>1. i.active \in [Tib -> Nat]
    BY <1>1, Fields
  <2>2. [i.active EXCEPT ![n] = i.active[n] + 1][t] = 1
    BY <1>1, <1>2, <2>1
  <2>3. Removed(1) = 0
    BY DEF Removed
  <2> QED BY <1>1, <1>2, <1>3, <2>1, <2>2, <2>3
<1>6. \A u \in Tib : j.maintain[u] = i.maintain[u] \/ (u = t /\ i.fils[t] = {})
  BY <1>1, <1>3, Fields
<1>7. j.fils = [i.fils EXCEPT ![t] = i.fils[t] \cup {n}]
  BY <1>1, <1>3
<1>8. Adds(i, j, t, n)
  BY <1>1, <1>2, <1>3, <1>4, <1>5, <1>6, <1>7 DEF Adds
<1>9. TreeInv(j)
  BY <1>1, <1>3, <1>8, AddsTree
<1>10. Behind(j) = Behind(i) /\ Behind(i) \subseteq Tib /\ i.watched \subseteq Tib
  BY <1>1, <1>4, BehindTib, Fields DEF Behind
<1>11. n \notin Behind(i) \cup i.watched /\ i.goal[n] = "none"
  <2>1. FreeSons(i, n)
    BY <1>1, FreeLeaf DEF TreeInv
  <2>2. n \notin Live(i)
    BY DEF Live
  <2> QED BY <1>1, <2>1, <2>2 DEF FreeSons, TreeInv, FreeInv
<1>12. \A u \in Tib \ {n} : j.status[u] = i.status[u] /\ j.op[u] = i.op[u]
  BY <1>1, <1>2, <1>3, Fields
<1>13. ASSUME NEW u \in j.watched \cup Behind(j)
       PROVE  /\ j.status[u] \in {"ACTIVE", "SUSP_ACTIVE"}
              /\ j.op[u] = "body" \/ (j.op[u] = "action" /\ j.goal[u] # "none")
  <2>1. u \in Tib \ {n} /\ (u \in i.watched \cup Behind(i) \/ u = t)
    BY <1>1, <1>2, <1>3, <1>10, <1>11
  <2>2. /\ i.status[u] \in {"ACTIVE", "SUSP_ACTIVE"}
        /\ i.op[u] = "body" \/ (i.op[u] = "action" /\ i.goal[u] # "none")
    BY <1>1, <2>1 DEF Watch
  <2> QED BY <1>4, <1>12, <2>1, <2>2
<1>14. ASSUME NEW u \in Tib, j.goal[u] = "posted" PROVE j.op[u] = "body"
  BY <1>4, <1>11, <1>12, <1>14 DEF Watch
<1>15. Watch(j, {})
  BY <1>13, <1>14 DEF Watch
<1> QED BY <1>9, <1>15

LEMMA ActionIntendsInv ==
  ASSUME IInv, ActionIntends
  PROVE  IInv'
<1> DEFINE i == [in EXCEPT !.goal[current] = "open"]
<1>1. phase = "run" /\ in.op[current] = "action"
  BY DEF ActionIntends, Running
<1>2. Ready(in, current) /\ Watch(in, {}) /\ phase \in Turn
  BY <1>1, TurnReady DEF Turn, Leaving
<1>3. in \in Intention /\ current \in Tib /\ Watch(in, {current})
  BY <1>2, WatchLeaving DEF Ready
<1>4. PICK n \in Free(in), op \in Op, maintain \in Maintain :
        Executed(intend_op_in_thread_intention_block(i, current, n, op, maintain))
  BY DEF ActionIntends
<1>5. GoalStep(in, i, current) /\ i.goal = [in.goal EXCEPT ![current] = "open"]
  BY <1>3, SetGoalStep, Literals
<1> HIDE DEF i
<1>6. Ready(i, current) /\ i.op = in.op /\ Watch(i, {current})
  BY <1>2, <1>3, <1>5, GoalStepReady
<1>7. i.goal[current] = "open"
  BY <1>3, <1>5, Fields
<1>8. Watch(i, {})
  BY <1>1, <1>6, <1>7 DEF Watch, Ready
<1>9. n \in Free(i) /\ n \in Tib
  BY <1>5 DEF Free, GoalStep, Same, Field
<1> DEFINE j == intend_op_in_thread_intention_block(i, current, n, op, maintain)
<1>10. Intended(i, j, current, n, op, maintain)
  BY <1>3, <1>6, <1>9, IntendFields DEF Ready
<1> HIDE DEF j
<1>11. TreeInv(j) /\ Watch(j, {})
  <2>1. i.op[current] = "action" /\ i.goal[current] # "none"
    BY <1>1, <1>6, <1>7
  <2> QED BY <1>6, <1>8, <1>9, <1>10, <2>1, IntendTree
<1>12. j \in Intention
  BY <1>10 DEF Intended
<1> QED BY <1>2, <1>4, <1>11, <1>12, ExecutedInv DEF j

LEMMA MakeThreadsInv ==
  ASSUME IInv, make_new_threads_and_post_goals
  PROVE  IInv'
<1>1. phase = "body" /\ in.op[current] = "body"
  BY DEF make_new_threads_and_post_goals, IInv, TurnInv, Turn
<1>2. Ready(in, current) /\ Watch(in, {}) /\ phase \in Turn
  BY <1>1, TurnReady DEF Turn, Leaving
<1>3. PICK n \in Free(in), first \in GoalState, second \in GoalState :
        Executed(add_in_active_tib(
          [in EXCEPT
            !.status[n] = "ACTIVE", !.pere[n] = in.pere[current], !.op[n] = "body",
            !.fils[in.pere[current]] = @ \cup {n},
            !.goal = [@ EXCEPT ![current] = first, ![n] = second]], n))
  BY Literals DEF make_new_threads_and_post_goals
<1> DEFINE f == in.pere[current]
           j == add_in_active_tib(
                  [in EXCEPT
                    !.status[n] = "ACTIVE", !.pere[n] = in.pere[current], !.op[n] = "body",
                    !.fils[in.pere[current]] = @ \cup {n},
                    !.goal = [@ EXCEPT ![current] = first, ![n] = second]], n)
<1>4. /\ in \in Intention /\ current \in Tib /\ TreeInv(in) /\ current \in Live(in)
      /\ f \in Live(in) \cup {Top} /\ current \in in.fils[f] /\ f \in Tib \cup {Top}
      /\ f # Top => f \in Tib /\ in.status[f] = "ACTIVE"
  BY <1>2, ReadyPlace DEF Ready
<1>5. n \in Tib /\ n # current /\ in.status[n] = "free" /\ in.active[n] = 0
  BY <1>4 DEF Free, Live, TreeInv, ActiveInv
<1>6. NewBrother(in, j, current, n, first, second)
  BY <1>4, <1>5, BrotherFields
<1> HIDE DEF j
<1>7. /\ j \in Intention
      /\ j.status = [in.status EXCEPT ![n] = "ACTIVE"]
      /\ j.pere = [in.pere EXCEPT ![n] = f]
      /\ j.op = [in.op EXCEPT ![n] = "body"]
      /\ j.fils = [in.fils EXCEPT ![f] = in.fils[f] \cup {n}]
      /\ j.goal = [in.goal EXCEPT ![current] = first, ![n] = second]
      /\ j.active = [in.active EXCEPT ![n] = in.active[n] + 1]
  BY <1>6 DEF NewBrother
<1>8. /\ j.suspended = in.suspended /\ j.broken = in.broken /\ j.waits = in.waits
      /\ j.watched = in.watched /\ j.maintain = in.maintain
  BY <1>6 DEF NewBrother, Same, Field
<1> HIDE DEF f
<1>9. f # n
  BY <1>4, <1>5, TibAssumption
<1>10. \A u \in Tib : j.active[u] = IF u = n THEN 1 ELSE IF u = f THEN 0 ELSE in.active[u]
  <2>1. f \in Tib => in.active[f] = 0
    BY <1>4 DEF TreeInv, ActiveInv
  <2>2. in.active \in [Tib -> Nat]
    BY <1>4, Fields
  <2> QED BY <1>5, <1>7, <2>1, <2>2
<1>11. \A u \in Tib : in.status[u] = "free" /\ u # n => j.goal[u] = in.goal[u]
  BY <1>4, <1>7, Fields DEF Live, Free
<1>12. Adds(in, j, f, n)
  BY <1>4, <1>7, <1>8, <1>10, <1>11 DEF Adds
<1>13. TreeInv(j)
  BY <1>4, <1>7, <1>12, AddsTree
<1>14. Behind(j) = Behind(in) /\ Behind(in) \subseteq Tib /\ in.watched \subseteq Tib
  BY <1>4, <1>8, BehindTib, Fields DEF Behind
<1>15. n \notin Behind(in) \cup in.watched
  <2>1. FreeSons(in, n)
    BY <1>4, FreeLeaf DEF TreeInv
  <2>2. n \notin Live(in)
    BY DEF Live
  <2> QED BY <1>4, <2>1, <2>2 DEF FreeSons, TreeInv, FreeInv
<1>16. \A u \in Tib \ {n, current} : j.status[u] = in.status[u] /\ j.op[u] = in.op[u] /\ j.goal[u] = in.goal[u]
  BY <1>4, <1>5, <1>7, Fields
<1>17. /\ j.op[n] = "body" /\ j.op[current] = in.op[current] /\ j.status[current] = in.status[current]
  BY <1>4, <1>5, <1>7, Fields
<1>18. ASSUME NEW u \in j.watched \cup Behind(j)
       PROVE  /\ j.status[u] \in {"ACTIVE", "SUSP_ACTIVE"}
              /\ j.op[u] = "body" \/ (j.op[u] = "action" /\ j.goal[u] # "none")
  <2>1. u \in Tib \ {n} /\ u \in in.watched \cup Behind(in)
    BY <1>8, <1>14, <1>15
  <2> QED BY <1>1, <1>2, <1>16, <1>17, <2>1 DEF Watch
<1>19. ASSUME NEW u \in Tib, j.goal[u] = "posted" PROVE j.op[u] = "body"
  BY <1>1, <1>2, <1>16, <1>17, <1>19 DEF Watch
<1>20. Watch(j, {})
  BY <1>18, <1>19 DEF Watch
<1> QED BY <1>2, <1>3, <1>7, <1>13, <1>20, ExecutedInv DEF j


\* i is in, perhaps without the sons of the thread the restorer has suspended.
LEMMA RestoreTree ==
  ASSUME NEW i, NEW n, Ready(i, n), Watch(i, {}), i.suspended[n] # None,
         NEW w \in Intention, Same(Restored(i, n), w, {"watched"}),
         w.watched \subseteq i.watched \cup {i.suspended[n]},
         NEW j \in Intention, Same(RestorerGone(w, n), j, {"asleep"})
  PROVE  TreeInv(j) /\ Watch(j, {})
<1>1. i \in Intention /\ n \in Tib /\ TreeInv(i) /\ i.status[n] = "ACTIVE" /\ i.fils[n] = {} /\ i.pere[n] # n
  BY ReadyPlace DEF Ready
<1>2. Continues(i, j, n) /\ \A u \in Tib : j.op[u] = IF u = n THEN "body" ELSE i.op[u]
  BY <1>1, RestorerContinues
<1> QED BY <1>1, <1>2, ContinuesTree, ContinuesWatch

LEMMA RestoreInv ==
  ASSUME IInv, restore_suspended_tib
  PROVE  IInv'
<1> DEFINE t == in.suspended[current]
           k == Restored(in, current)
           w == [k EXCEPT !.watched = @ \cup {t}]
           r == RestorerGone(w, current)
           j == check_last_active_tib(r)
<1>1. phase = "run" /\ t # None /\ Executed(j)
  BY DEF restore_suspended_tib, GoalIs, Running
<1>2. Ready(in, current) /\ Watch(in, {}) /\ phase \in Turn
  BY <1>1, TurnReady DEF Turn, Leaving
<1>3. in \in Intention /\ current \in Tib /\ t \in Tib
  BY <1>1, <1>2, Fields DEF Ready
<1>4. k \in Intention
  BY <1>1, <1>3, RestoredFields
<1>5. k.watched = in.watched
  <2> DEFINE a == Replace(in, current, t)
  <2>1. a \in Intention /\ Same(in, a, {"fils"})
    BY <1>3, ReplaceFields
  <2> HIDE DEF a
  <2>2. Same(a, continue_tib(a, t), {"status", "active"})
    BY <1>3, <2>1, ContinueFields
  <2>3. k = continue_tib(a, t)
    BY DEF Restored, a
  <2> HIDE DEF k
  <2> QED BY <2>1, <2>2, <2>3 DEF Same, Field
<1> HIDE DEF k, t
<1>6. w \in Intention /\ Same(k, w, {"watched"}) /\ w.watched = in.watched \cup {t}
  <2>1. k.watched \cup {t} \in SUBSET Tib
    BY <1>3, <1>4, Fields
  <2>2. w \in Intention /\ Same(k, w, {"watched"}) /\ w.watched = k.watched \cup {t}
    BY <1>4, <2>1, SetWatched
  <2> HIDE DEF w
  <2> QED BY <1>5, <2>2
<1> HIDE DEF w
<1>7. r \in Intention
  BY <1>3, <1>6, RestorerGoneFields
<1>8. j \in Intention /\ Same(r, j, {"asleep"})
  <2> HIDE DEF r
  <2> QED BY <1>7, CheckLast
<1> HIDE DEF j
<1>9. TreeInv(j) /\ Watch(j, {})
  BY <1>1, <1>2, <1>6, <1>8, RestoreTree DEF k, t
<1> QED BY <1>1, <1>2, <1>8, <1>9, ExecutedInv DEF j

LEMMA RestoreAndFailInv ==
  ASSUME IInv, restore_and_fail_suspended_tib
  PROVE  IInv'
<1> DEFINE t == in.suspended[current]
           S == in.fils[t]
           gone == RemovedWith(in, S)
           i == remove_and_free_tib_list(in, S)
           k == Restored(i, current)
           j == RestorerGone(k, current)
<1>1. phase = "run" /\ t # None /\ Executed(j)
  BY DEF restore_and_fail_suspended_tib, GoalIs, Running
<1>2. Ready(in, current) /\ Watch(in, {}) /\ phase \in Turn
  BY <1>1, TurnReady DEF Turn, Leaving
<1>3. /\ in \in Intention /\ current \in Tib /\ TreeInv(in) /\ in.fils[current] = {}
      /\ in.status[current] = "ACTIVE" /\ current \in Live(in) /\ t \in Tib
  BY <1>1, <1>2, ReadyPlace, Fields DEF Ready
<1>4. t \in Live(in) /\ in.status[t] = "SUSP_ACTIVE"
  BY <1>1, <1>3 DEF TreeInv, SuspendedInv, Tree, Replaced, Behind
<1>5. S \in SUBSET Tib
  BY <1>3, Fields
<1>6. Gone(in, t, S, gone)
  BY <1>3, <1>5, RemovedGone DEF TreeInv
<1>7. t \notin gone /\ current \notin gone
  BY <1>1, <1>3, <1>6 DEF Gone
<1>8. Removes(in, i, t, S)
  <2>1. ~Resumed(in, t, S)
    BY <1>4 DEF Resumed
  <2>2. t \in Tib \cup {Top} /\ t \notin RemovedWith(in, S)
    BY <1>3, <1>7
  <2> HIDE DEF t, S, i
  <2> QED BY <1>3, <1>5, <2>1, <2>2, RemoveOnly DEF i
<1>9. i \in Intention
  BY <1>3, <1>5, RemoveFields
<1> HIDE DEF i
<1>10. TreeInv(i) /\ Watch(i, {})
  <2>1. t \in Live(in) \cup {Top} /\ S \subseteq in.fils[t] /\ {} \subseteq RemovedWith(in, S)
    BY <1>4
  <2> HIDE DEF t, S
  <2> QED BY <1>2, <1>3, <1>8, <1>9, <2>1, RemovesTree, RemovesWatch
<1>11. /\ i.status = [u \in Tib |-> IF u \in gone THEN "free" ELSE in.status[u]]
       /\ i.suspended = [u \in Tib |-> IF u \in gone THEN None ELSE in.suspended[u]]
       /\ i.fils = [g \in Tib \cup {Top} |->
             IF g \in gone THEN {} ELSE {u \in in.fils[g] : ~(u \in gone /\ in.pere[u] = g)}]
  BY <1>8 DEF Removes, TreeRemoved, SonsRemoved
<1> HIDE DEF gone
<1>12. Ready(i, current) /\ i.suspended[current] = t
  BY <1>3, <1>7, <1>9, <1>10, <1>11 DEF Ready
<1> HIDE DEF t, S
<1>13. k \in Intention
  BY <1>1, <1>3, <1>9, <1>12, RestoredFields
<1>14. k.watched = i.watched
  <2> DEFINE a == Replace(i, current, t)
  <2>1. a \in Intention /\ Same(i, a, {"fils"})
    BY <1>3, <1>9, ReplaceFields
  <2> HIDE DEF a
  <2>2. Same(a, continue_tib(a, t), {"status", "active"})
    BY <1>3, <2>1, ContinueFields
  <2>3. k = continue_tib(a, t)
    BY <1>12 DEF Restored, a
  <2> HIDE DEF k
  <2> QED BY <2>1, <2>2, <2>3 DEF Same, Field
<1>15. j \in Intention
  <2> HIDE DEF k
  <2> QED BY <1>3, <1>13, RestorerGoneFields
<1>16. Same(Restored(i, current), k, {"watched"}) /\ Same(j, j, {"asleep"})
  BY DEF Same
<1>17. TreeInv(j) /\ Watch(j, {})
  <2>1. k.watched \subseteq i.watched \cup {i.suspended[current]} /\ i.suspended[current] # None
    BY <1>1, <1>12, <1>14
  <2> HIDE DEF k
  <2> DEFINE jj == RestorerGone(k, current)
  <2>2. jj \in Intention /\ Same(RestorerGone(k, current), jj, {"asleep"})
    BY <1>15, <1>16
  <2> HIDE DEF jj
  <2>3. TreeInv(jj) /\ Watch(jj, {})
    BY <1>10, <1>12, <1>13, <1>16, <2>1, <2>2, RestoreTree
  <2> QED BY <2>3 DEF jj
<1>18. Executed(j)
  BY <1>1 DEF i, t, S
<1> HIDE DEF j
<1> QED BY <1>2, <1>15, <1>17, <1>18, ExecutedInv


\* Sons of f are removed and nothing else happens.
LEMMA RemoveOnlyTree ==
  ASSUME NEW i \in Intention, TreeInv(i), NEW f \in Live(i) \cup {Top}, NEW S, S \subseteq i.fils[f],
         ~Resumed(i, f, S), NEW X, Watch(i, X), X \subseteq S
  PROVE  /\ remove_and_free_tib_list(i, S) \in Intention
         /\ TreeInv(remove_and_free_tib_list(i, S)) /\ Watch(remove_and_free_tib_list(i, S), {})
         /\ Removes(i, remove_and_free_tib_list(i, S), f, S)
<1> DEFINE j == remove_and_free_tib_list(i, S)
<1>1. f \in Tib \cup {Top}
  BY DEF Live
<1>2. S \in SUBSET Tib
  BY <1>1, Fields
<1>3. j \in Intention
  BY <1>2, RemoveFields
<1>4. Gone(i, f, S, RemovedWith(i, S))
  BY <1>1, RemovedGone DEF TreeInv
<1>5. Removes(i, j, f, S)
  BY <1>1, <1>2, <1>4, RemoveOnly DEF Gone
<1> HIDE DEF j
<1>6. X \subseteq RemovedWith(i, S)
  BY <1>4 DEF Gone
<1>7. TreeInv(j) /\ Watch(j, {})
  BY <1>3, <1>5, <1>6, RemovesTree, RemovesWatch
<1> QED BY <1>3, <1>5, <1>7 DEF j

LEMMA LastJoinInv ==
  ASSUME IInv, LastJoin
  PROVE  IInv'
<1> DEFINE f == in.pere[current]
           gone == RemovedWith(in, Joining)
           j == remove_and_free_tib_list(in, Joining)
<1>1. phase = "node" /\ Call(j, current, "body") /\ in.op[current] = "body"
  BY DEF LastJoin, IInv, TurnInv, Turn
<1>2. Ready(in, current) /\ Watch(in, {}) /\ phase \in Turn
  BY <1>1, TurnReady DEF Turn, Leaving
<1>3. /\ in \in Intention /\ current \in Tib /\ TreeInv(in) /\ in.fils[current] = {}
      /\ in.status[current] = "ACTIVE" /\ current \in in.fils[f]
      /\ f \in Live(in) \cup {Top}
  BY <1>2, ReadyPlace DEF Ready
<1>4. Joining \subseteq in.fils[f] /\ current \notin Joining
  BY DEF Joining, Brothers
<1>5. ~Resumed(in, f, Joining)
  BY <1>3, <1>4 DEF Resumed
<1>6. Gone(in, f, Joining, gone) /\ f \in Tib \cup {Top}
  BY <1>3, <1>4, RemovedGone DEF TreeInv, Live
<1>7. current \notin gone
  BY <1>3, <1>4, <1>6 DEF Gone
<1> HIDE DEF f
<1>8. j \in Intention /\ TreeInv(j) /\ Watch(j, {}) /\ Removes(in, j, f, Joining)
  <2>1. {} \subseteq Joining
    OBVIOUS
  <2> QED BY <1>2, <1>3, <1>4, <1>5, <2>1, RemoveOnlyTree
<1> HIDE DEF j
<1>9. /\ j.status = [u \in Tib |-> IF u \in gone THEN "free" ELSE in.status[u]]
      /\ j.op = [u \in Tib |-> IF u \in gone THEN "body" ELSE in.op[u]]
      /\ j.fils = [g \in Tib \cup {Top} |->
            IF g \in gone THEN {} ELSE {u \in in.fils[g] : ~(u \in gone /\ in.pere[u] = g)}]
  BY <1>8 DEF Removes, TreeRemoved, SonsRemoved
<1> HIDE DEF gone
<1>10. Ready(j, current) /\ j.op[current] = "body"
  BY <1>1, <1>3, <1>7, <1>8, <1>9 DEF Ready
<1>11. Expected(j, current, "body")
  BY <1>8, <1>10 DEF Expected, Turn
<1>12. Call(j, current, "body")
  BY <1>1 DEF j
<1> QED BY <1>2, <1>11, <1>12, CallInv

\* The sons S of the father of current end, and it goes on.
LEMMA GiveBackTree ==
  ASSUME NEW i, NEW t, Ready(i, t), Watch(i, {t}), NEW f, f = i.pere[t], f # Top, NEW S, t \in S, S = i.fils[f],
         NEW done \in {i, [i EXCEPT !.goal[f] = "achieved"]}
  PROVE  LET j == remove_and_free_tib_list(GiveBack(done, t), S)
         IN  Ready(j, f) /\ Watch(j, {})
<1> DEFINE j == remove_and_free_tib_list(GiveBack(done, t), S)
<1>1. /\ i \in Intention /\ TreeInv(i) /\ t \in Tib
      /\ f \in Tib /\ f \in Live(i) \cup {Top} /\ i.status[f] = "ACTIVE"
  BY ReadyPlace DEF Ready
<1>2. S \in SUBSET Tib
  BY <1>1, Fields
<1>3. Gone(i, f, S, RemovedWith(i, S))
  BY <1>1, RemovedGone DEF TreeInv
<1>4. f \notin RemovedWith(i, S) /\ {t} \subseteq RemovedWith(i, S)
  BY <1>3 DEF Gone
<1>5. Resumed(i, f, S)
  BY <1>1 DEF Resumed
<1>6. i.pere[t] # Top /\ i.pere[t] \notin RemovedWith(i, S) /\ Resumed(i, i.pere[t], S)
  BY <1>4, <1>5
<1>7. /\ done \in Intention /\ Same(i, done, {"goal"})
      /\ \A u \in Tib : done.goal[u] = i.goal[u] \/ (u = i.pere[t] /\ done.goal[u] = "achieved")
  <2> DEFINE d == [i EXCEPT !.goal[f] = "achieved"]
  <2>1. d \in Intention /\ Same(i, d, {"goal"}) /\ d.goal = [i.goal EXCEPT ![f] = "achieved"]
    <3>1. i \in Intention /\ f \in Tib /\ "achieved" \in GoalState
      BY <1>1, Literals
    <3> QED BY <3>1, SetGoal
  <2>2. done = i \/ done = d
    OBVIOUS
  <2> HIDE DEF d
  <2>3. CASE done = i
    BY <1>1, <2>3 DEF Same
  <2>4. CASE done = d
    BY <1>1, <2>1, <2>4, Fields
  <2> QED BY <2>2, <2>3, <2>4
<1>8. j \in Intention /\ Removes(i, j, f, S)
  BY <1>1, <1>2, <1>6, <1>7, GiveBackRemoves
<1> HIDE DEF j
<1>9. S \subseteq i.fils[f]
  OBVIOUS
<1>10. TreeInv(j) /\ Watch(j, {})
  BY <1>1, <1>4, <1>8, <1>9, RemovesTree, RemovesWatch
<1>11. j.fils[f] = {}
  <2>1. j.fils = [g \in Tib \cup {Top} |->
          IF g \in RemovedWith(i, S) THEN {} ELSE {u \in i.fils[g] : ~(u \in RemovedWith(i, S) /\ i.pere[u] = g)}]
    BY <1>8 DEF Removes, SonsRemoved
  <2>2. \A u \in i.fils[f] : u \in RemovedWith(i, S) /\ i.pere[u] = f
    BY <1>1, <1>3 DEF Gone, TreeInv, Tree, Listed
  <2> QED BY <1>1, <2>1, <2>2
<1>12. j.status[f] = "ACTIVE"
  <2>1. j.status = [u \in Tib |-> IF u \in RemovedWith(i, S) THEN "free" ELSE i.status[u]]
    BY <1>8 DEF Removes, TreeRemoved
  <2> QED BY <1>1, <1>4, <2>1
<1>13. Ready(j, f) /\ Watch(j, {})
  BY <1>1, <1>8, <1>10, <1>11, <1>12 DEF Ready
<1> QED BY <1>13 DEF j

LEMMA EndingInv ==
  ASSUME IInv, SatisfiedLast \/ SatisfiedNotLast \/ failed_thread
  PROVE  IInv'
<1> DEFINE f == in.pere[current]
<1>1. phase \in {"satisfied", "failed"}
  BY DEF SatisfiedLast, SatisfiedNotLast, failed_thread
<1>2. Ready(in, current) /\ Watch(in, {current}) /\ phase \in Turn
  BY <1>1, TurnReady DEF Turn, Leaving
<1>3. /\ in \in Intention /\ current \in Tib /\ TreeInv(in) /\ current \in in.fils[f]
      /\ f \in Live(in) \cup {Top} /\ f \in Tib \cup {Top}
  BY <1>2, ReadyPlace DEF Ready
<1>4. in.fils[f] \in SUBSET Tib /\ in.goal \in [Tib -> GoalState]
  BY <1>3, Fields
<1>5. ASSUME NEW S, current \in S, S \subseteq in.fils[f], ~Resumed(in, f, S),
             \/ Executed(remove_and_free_tib_list(in, S)) \/ Ended(remove_and_free_tib_list(in, S))
      PROVE  IInv'
  <2> DEFINE j == remove_and_free_tib_list(in, S)
  <2>1. {current} \subseteq S
    BY <1>5
  <2>2. j \in Intention /\ TreeInv(j) /\ Watch(j, {})
    BY <1>2, <1>3, <1>5, <2>1, RemoveOnlyTree
  <2> HIDE DEF j
  <2> QED BY <1>2, <1>5, <2>2, ExecutedInv DEF j
<1>6. f = Top => \A S : ~Resumed(in, f, S)
  BY TibAssumption DEF Resumed
<1>7. CASE SatisfiedNotLast
  <2>1. ~Resumed(in, f, {current})
    BY <1>3, <1>7 DEF SatisfiedNotLast, Last, Brothers, Resumed
  <2>2. Executed(remove_and_free_tib_list(in, {current}))
    BY <1>7 DEF SatisfiedNotLast
  <2> QED BY <1>3, <1>5, <2>1, <2>2
<1>8. CASE SatisfiedLast
  <2>1. in.fils[f] = {current}
    BY <1>3, <1>8 DEF SatisfiedLast, Last, Brothers
  <2>2. CASE f = Top
    <3>1. Ended(remove_and_free_tib_list(in, {current}))
      BY <1>8, <2>2 DEF SatisfiedLast
    <3> QED BY <1>3, <1>5, <1>6, <2>1, <2>2, <3>1
  <2>3. CASE f # Top
    <3> DEFINE done == [in EXCEPT !.goal[f] = "achieved"]
               j == remove_and_free_tib_list(GiveBack(done, current), {current})
    <3>1. Executed(j) \/ Call(j, f, "run")
      BY <1>8, <2>3 DEF SatisfiedLast
    <3>2. f \in Tib
      BY <1>3, <2>3
    <3>3. done \in {in, done} /\ current \in in.fils[f] /\ f = in.pere[current]
      BY <1>3
    <3>4. LET k == remove_and_free_tib_list(GiveBack(done, current), in.fils[f])
          IN  Ready(k, f) /\ Watch(k, {})
      <4> HIDE DEF f
      <4> QED BY <1>2, <1>3, <2>3, <3>3, GiveBackTree
    <3>5. Ready(j, f) /\ Watch(j, {})
      BY <2>1, <3>4
    <3> HIDE DEF j, f
    <3>6. Expected(j, f, "run")
      BY <3>5 DEF Expected, Turn
    <3>7. j \in Intention /\ TreeInv(j)
      BY <3>5 DEF Ready
    <3> QED BY <1>2, <3>1, <3>5, <3>6, <3>7, CallInv, ExecutedInv
  <2> QED BY <2>2, <2>3
<1>9. CASE failed_thread
  <2>1. CASE f = Top
    <3>1. Ended(remove_and_free_tib_list(in, in.fils[f]))
      BY <1>9, <2>1 DEF failed_thread
    <3> QED BY <1>3, <1>5, <1>6, <2>1, <3>1
  <2>2. CASE f # Top
    <3> DEFINE j == remove_and_free_tib_list(GiveBack(in, current), in.fils[f])
    <3>1. Call(j, f, "run")
      BY <1>9, <2>2 DEF failed_thread
    <3>2. in \in {in, [in EXCEPT !.goal[f] = "achieved"]} /\ f = in.pere[current]
      OBVIOUS
    <3>3. Ready(j, f) /\ Watch(j, {})
      <4> HIDE DEF f
      <4> QED BY <1>2, <1>3, <2>2, <3>2, GiveBackTree
    <3> HIDE DEF j, f
    <3>4. Expected(j, f, "run")
      BY <3>3 DEF Expected, Turn
    <3> QED BY <1>2, <3>1, <3>4, CallInv
  <2> QED BY <2>1, <2>2
<1> QED BY <1>7, <1>8, <1>9


-----------------------------------------------------------------------------
(* The invariant holds after the steps between two executions *)

Applies(i, S) == \A t \in S : t \in Live(i) /\ i.op[t] = "body"

LEMMA SoakInv ==
  ASSUME IInv, in' \in Intention, TreeInv(in'), Watch(in', {}), Applies(in', applicable'),
         phase' \in {"soak", "intend"}, phase' = "soak" => applicable' = {},
         UNCHANGED <<todo, current>>
  PROVE  IInv'
<1>1. TypeOK'
  BY DEF IInv, TypeOK, Applies, Live, Phase
<1>2. WatchInv'
  BY DEF WatchInv, Leaving, Applies, Watch, Live
<1>3. TurnInv'
  BY DEF TurnInv, Turn
<1> QED BY <1>1, <1>2, <1>3 DEF IInv

LEMMA Between ==
  ASSUME IInv, phase \in {"soak", "intend"}
  PROVE  /\ in \in Intention /\ TreeInv(in) /\ Watch(in, {}) /\ Applies(in, applicable)
         /\ phase = "soak" => applicable = {}
BY DEF IInv, TypeOK, WatchInv, Leaving, Applies

LEMMA MakeInv ==
  ASSUME IInv, MakeIntention
  PROVE  IInv'
<1>1. in \in Intention /\ applicable' = {} /\ phase = "soak" /\ UNCHANGED <<phase, todo, current>>
  BY Between DEF MakeIntention
<1>2. PICK t \in Tib, op \in {"body", "action"} : in' = make_intention(t, op, in.opened)
  BY DEF MakeIntention
<1>3. op \in Op /\ in.opened \in Tib \cup {None, Dangling}
  BY <1>1, Fields DEF Op
<1>4. in' \in Intention /\ TreeInv(in') /\ Watch(in', {})
  <2> DEFINE j == make_intention(t, op, in.opened)
  <2>1. j \in Intention /\ TreeInv(j) /\ Watch(j, {})
    BY <1>3, MakeFields
  <2> HIDE DEF j
  <2> QED BY <1>2, <2>1 DEF j
<1>5. Applies(in', applicable')
  BY <1>1 DEF Applies
<1> QED BY <1>1, <1>4, <1>5, SoakInv

LEMMA DeleteInv ==
  ASSUME IInv, delete_intention
  PROVE  IInv'
<1>1. /\ in \in Intention /\ TreeInv(in) /\ Watch(in, {})
      /\ applicable' = {} /\ phase = "soak" /\ UNCHANGED <<phase, todo, current>>
  BY Between DEF delete_intention
<1> DEFINE S == in.fils[Top]
           j == remove_and_free_tib_list(in, S)
<1>2. Top \in Live(in) \cup {Top} /\ S \subseteq in.fils[Top] /\ ~Resumed(in, Top, S) /\ {} \subseteq S
  BY TibAssumption DEF Resumed
<1> HIDE DEF S
<1>3. j \in Intention /\ TreeInv(j) /\ Watch(j, {})
  BY <1>1, <1>2, RemoveOnlyTree
<1>4. in' = j
  BY DEF delete_intention, S
<1> HIDE DEF j
<1>5. Applies(in', applicable')
  BY <1>1 DEF Applies
<1> QED BY <1>1, <1>3, <1>4, <1>5, SoakInv

LEMMA WakeInv ==
  ASSUME IInv, NEW t \in Tib, WakeUp(t)
  PROVE  IInv'
<1>1. phase \in {"soak", "intend"} /\ t \in in.waits /\ UNCHANGED <<phase, todo, current, applicable>>
  BY DEF WakeUp, Idle
<1>2. /\ in \in Intention /\ TreeInv(in) /\ Watch(in, {}) /\ Applies(in, applicable)
      /\ phase = "soak" => applicable = {}
  BY <1>1, Between
<1> DEFINE j == [wake_up_thread(in, t) EXCEPT !.waits = @ \ {t}]
<1>3. /\ j \in Intention /\ Same(in, j, {"status", "active", "asleep", "waits"})
      /\ j.waits = in.waits \ {t}
      /\ in.status[t] = "SUSP_SLEEPING" =>
           j.status = [in.status EXCEPT ![t] = "SUSP_ACTIVE"] /\ j.active = in.active
      /\ in.status[t] # "SUSP_SLEEPING" =>
           /\ j.status = [in.status EXCEPT ![t] = "ACTIVE"]
           /\ j.active = [in.active EXCEPT ![t] = in.active[t] + 1]
  BY <1>2, WakeFields
<1>4. in' = j
  BY DEF WakeUp
<1> HIDE DEF j
<1>5. /\ j.pere = in.pere /\ j.fils = in.fils /\ j.suspended = in.suspended /\ j.broken = in.broken
      /\ j.watched = in.watched /\ j.maintain = in.maintain /\ j.goal = in.goal /\ j.op = in.op
  BY <1>3 DEF Same, Field
<1>6. /\ in.status[t] \in {"SLEEPING", "SUSP_SLEEPING", "ACTION_WAIT"} /\ in.fils[t] = {} /\ in.active[t] = 0
      /\ in.status \in [Tib -> Status] /\ in.active \in [Tib -> Nat]
  BY <1>1, <1>2, Fields DEF TreeInv, ActiveInv
<1>7. t \in Live(in) \ Behind(in)
  BY <1>2, <1>6 DEF TreeInv, SuspendedInv, Live, Free
<1>8. /\ j.status[t] = IF in.status[t] = "SUSP_SLEEPING" THEN "SUSP_ACTIVE" ELSE "ACTIVE"
      /\ j.active[t] = IF in.status[t] = "SUSP_SLEEPING" THEN 0 ELSE 1
      /\ \A u \in Tib \ {t} : j.status[u] = in.status[u] /\ j.active[u] = in.active[u]
  <2>1. CASE in.status[t] = "SUSP_SLEEPING"
    BY <1>3, <1>6, <2>1
  <2>2. CASE in.status[t] # "SUSP_SLEEPING"
    BY <1>3, <1>6, <2>2
  <2> QED BY <2>1, <2>2
<1>9. NewStatus(in, j, t)
  BY <1>3, <1>6, <1>7, <1>8 DEF NewStatus, Suspended
<1>10. \A u \in Tib : SameStatus(in, j, u) \/ NewStatus(in, j, u)
  BY <1>3, <1>8, <1>9 DEF SameStatus
<1>11. Stays(in, j)
  BY <1>5 DEF Stays
<1>12. TreeInv(j)
  BY <1>2, <1>3, <1>10, <1>11, StaysTree
<1>13. t \notin in.watched \cup Behind(in)
  BY <1>2, <1>6 DEF Watch
<1>14. Touches(in, j, t) /\ Works(j, t)
  <2>1. j.goal[t] = "posted" => j.op[t] = "body"
    BY <1>2, <1>5 DEF Watch
  <2> QED BY <1>5, <1>8, <1>13, <2>1 DEF Touches, Works, Behind
<1>15. Watch(j, {})
  BY <1>2, <1>3, <1>14, WatchLeaving, WatchOne
<1>16. Applies(j, applicable)
  BY <1>2, <1>5, <1>7, <1>8 DEF Applies, Live, Free
<1> QED BY <1>1, <1>2, <1>3, <1>4, <1>12, <1>15, <1>16, SoakInv

LEMMA PreserveInv ==
  ASSUME IInv, NEW t \in Tib, PreserveFails(t)
  PROVE  IInv'
<1>1. /\ phase \in {"soak", "intend"} /\ t \in in.watched /\ applicable' = applicable \cap Live(in')
      /\ UNCHANGED <<phase, todo, current>>
  BY DEF PreserveFails, Idle, Soaked
<1>2. /\ in \in Intention /\ TreeInv(in) /\ Watch(in, {}) /\ Applies(in, applicable)
      /\ phase = "soak" => applicable = {}
  BY <1>1, Between
<1>3. /\ in' \in Intention
      /\ in.fils[t] = {} => Same(in, in', {"watched"}) /\ in'.watched \subseteq in.watched
      /\ in.fils[t] # {} /\ t \notin RemovedWith(in, in.fils[t]) => Removes(in, in', t, in.fils[t])
  BY <1>2, PreserveFailsFields
<1>4. t \in Live(in)
  BY <1>1, <1>2 DEF TreeInv, FreeInv
<1>5. CASE in.fils[t] = {}
  <2>1. Same(in, in', {"watched"}) /\ in'.watched \subseteq in.watched
    BY <1>3, <1>5
  <2>2. /\ in'.pere = in.pere /\ in'.fils = in.fils /\ in'.suspended = in.suspended /\ in'.broken = in.broken
        /\ in'.maintain = in.maintain /\ in'.goal = in.goal /\ in'.op = in.op
        /\ in'.status = in.status /\ in'.active = in.active /\ in'.waits = in.waits
    BY <2>1 DEF Same, Field
  <2>3. Stays(in, in') /\ \A u \in Tib : SameStatus(in, in', u)
    BY <2>1, <2>2 DEF Stays, SameStatus
  <2>4. TreeInv(in')
    BY <1>2, <1>3, <2>3, StaysTree
  <2>5. Watch(in', {})
    BY <1>2, <2>1, <2>2 DEF Watch, Behind
  <2>6. Applies(in', applicable')
    BY <1>1, <1>2, <2>2 DEF Applies, Live, Free
  <2> QED BY <1>1, <1>2, <1>3, <2>4, <2>5, <2>6, SoakInv
<1>6. CASE in.fils[t] # {}
  <2> DEFINE S == in.fils[t]
             gone == RemovedWith(in, S)
  <2>1. Gone(in, t, S, gone)
    BY <1>2, RemovedGone DEF TreeInv
  <2>2. Removes(in, in', t, S)
    BY <1>3, <1>6, <2>1 DEF Gone
  <2>3. TreeInv(in') /\ Watch(in', {})
    <3>1. t \in Live(in) \cup {Top} /\ S \subseteq in.fils[t] /\ {} \subseteq RemovedWith(in, S)
      BY <1>4
    <3> HIDE DEF S
    <3> QED BY <1>2, <1>3, <2>2, <3>1, RemovesTree, RemovesWatch
  <2>4. /\ in'.status = [u \in Tib |-> IF u \in gone THEN "free" ELSE in.status[u]]
        /\ in'.op = [u \in Tib |-> IF u \in gone THEN "body" ELSE in.op[u]]
    BY <2>2 DEF Removes, TreeRemoved
  <2> HIDE DEF gone
  <2>5. Applies(in', applicable')
    BY <1>1, <1>2, <2>4 DEF Applies, Live, Free
  <2> QED BY <1>1, <1>2, <1>3, <2>3, <2>5, SoakInv
<1> QED BY <1>5, <1>6

LEMMA MaintainInv ==
  ASSUME IInv, NEW t \in Tib, MaintainFails(t)
  PROVE  IInv'
<1>1. /\ phase \in {"soak", "intend"} /\ t \in in.watched /\ in.maintain[t] = "maintain"
      /\ UNCHANGED <<phase, todo, current, applicable>>
  BY DEF MaintainFails, Idle
<1>2. /\ in \in Intention /\ TreeInv(in) /\ Watch(in, {}) /\ Applies(in, applicable)
      /\ phase = "soak" => applicable = {}
  BY <1>1, Between
<1>3. PICK n \in Free(in) : in' = Suspends(in, t, n)
  BY DEF MaintainFails, Suspends
<1>4. in' \in Intention /\ n \in Tib
  BY <1>2, <1>3, SuspendsTypes DEF Free
<1>5. /\ Splits(in, in', t, n)
      /\ in'.op = [in.op EXCEPT ![n] = in.op[t]]
      /\ in'.goal = [in.goal EXCEPT ![n] = in.goal[t]]
  BY <1>1, <1>2, <1>3, MaintainFailsFields
<1>6. TreeInv(in')
  BY <1>2, <1>4, <1>5, SplitsTree
<1>7. /\ \A u \in Tib : \E h \in BOOLEAN : in'.status[u] =
           LET s == IF u = n THEN in.status[t] ELSE in.status[u]
           IN  IF h THEN SuspendedStatus(s) ELSE s
      /\ in'.suspended = [in.suspended EXCEPT ![n] = t] /\ in'.watched = in.watched \ {t}
      /\ t \in Live(in)
  BY <1>5 DEF Splits
<1>8. n \notin Behind(in) \cup in.watched /\ n # t /\ n \notin Live(in)
  <2>1. FreeSons(in, n)
    BY <1>2, FreeLeaf DEF TreeInv
  <2>2. n \notin Live(in)
    BY DEF Live
  <2> QED BY <1>2, <1>7, <2>1, <2>2 DEF FreeSons, TreeInv, FreeInv
<1>9. Behind(in') \subseteq Behind(in) \cup {t} /\ Behind(in) \subseteq Tib /\ in.watched \subseteq Tib
  BY <1>2, <1>4, <1>7, BehindTib, Fields DEF Behind
<1>10. /\ \A u \in Tib \ {n} : in'.op[u] = in.op[u] /\ in'.goal[u] = in.goal[u]
       /\ in'.op[n] = in.op[t] /\ in'.goal[n] = in.goal[t]
  BY <1>2, <1>4, <1>5, Fields
<1>11. ASSUME NEW u \in in'.watched \cup Behind(in')
       PROVE  /\ in'.status[u] \in {"ACTIVE", "SUSP_ACTIVE"}
              /\ in'.op[u] = "body" \/ (in'.op[u] = "action" /\ in'.goal[u] # "none")
  <2>1. u \in in.watched \cup Behind(in) /\ u \in Tib /\ u # n
    BY <1>1, <1>7, <1>8, <1>9, <1>11
  <2>2. /\ in.status[u] \in {"ACTIVE", "SUSP_ACTIVE"}
        /\ in.op[u] = "body" \/ (in.op[u] = "action" /\ in.goal[u] # "none")
    BY <1>2, <2>1 DEF Watch
  <2> QED BY <1>7, <1>10, <2>1, <2>2 DEF SuspendedStatus
<1>12. ASSUME NEW u \in Tib, in'.goal[u] = "posted" PROVE in'.op[u] = "body"
  BY <1>2, <1>10, <1>12 DEF Watch
<1>13. Watch(in', {})
  BY <1>11, <1>12 DEF Watch
<1>14. Applies(in', applicable')
  <2> SUFFICES ASSUME NEW u \in applicable PROVE u \in Live(in') /\ in'.op[u] = "body"
    BY <1>1 DEF Applies
  <2>1. u \in Tib /\ in.status[u] # "free" /\ in.op[u] = "body" /\ u # n
    BY <1>2, <1>8 DEF Applies, Live, Free
  <2> QED BY <1>7, <1>10, <2>1 DEF Live, Free, SuspendedStatus
<1> QED BY <1>1, <1>2, <1>4, <1>6, <1>13, <1>14, SoakInv

LEMMA IntendInv ==
  ASSUME IInv, NEW t \in Tib, Intend(t)
  PROVE  IInv'
<1>1. /\ phase = "intend" /\ t \in applicable /\ in.status[t] = "ACTIVE" /\ in.fils[t] = {}
      /\ applicable' = applicable \ {t} /\ UNCHANGED <<phase, todo, current>>
  BY DEF Intend
<1>2. in \in Intention /\ TreeInv(in) /\ Watch(in, {}) /\ Applies(in, applicable)
  BY <1>1, Between
<1>3. PICK n \in Free(in), op \in Op, maintain \in Maintain :
        in' = intend_op_in_thread_intention_block(in, t, n, op, maintain)
  BY DEF Intend
<1>4. n \in Tib
  BY DEF Free
<1>5. Intended(in, in', t, n, op, maintain)
  BY <1>2, <1>3, <1>4, IntendFields
<1>6. Ready(in, t) /\ in.op[t] = "body"
  BY <1>1, <1>2 DEF Ready, Applies
<1>7. TreeInv(in') /\ Watch(in', {})
  BY <1>2, <1>5, <1>6, IntendTree
<1>8. /\ in' \in Intention
      /\ in'.status = [in.status EXCEPT ![n] = "ACTIVE"] /\ in'.op = [in.op EXCEPT ![n] = op]
  BY <1>5 DEF Intended
<1>9. \A u \in Tib \ {n} : in'.status[u] = in.status[u] /\ in'.op[u] = in.op[u]
  BY <1>2, <1>4, <1>8, Fields
<1>10. Applies(in', applicable')
  BY <1>1, <1>2, <1>9 DEF Applies, Live, Free
<1> QED BY <1>1, <1>7, <1>8, <1>10, SoakInv

LEMMA FindSoakInv ==
  ASSUME IInv, find_soak_goal
  PROVE  IInv'
<1>1. phase = "soak" /\ phase' = "intend" /\ UNCHANGED <<todo, current>>
  BY DEF find_soak_goal
<1>2. in \in Intention /\ TreeInv(in) /\ Watch(in, {})
  BY <1>1, Between
<1> DEFINE posted == {t \in Tib : in.goal[t] = "posted"}
           tried  == {t \in posted : in.status[t] = "ACTIVE"}
<1>3. PICK found \in SUBSET tried :
        /\ applicable' = found
        /\ in' = [in EXCEPT !.goal = [t \in Tib |->
                   IF t \in tried \ found THEN "failed"
                   ELSE IF t \in posted THEN "open" ELSE in.goal[t]]]
  BY DEF find_soak_goal
<1> DEFINE g == [t \in Tib |-> IF t \in tried \ found THEN "failed"
                               ELSE IF t \in posted THEN "open" ELSE in.goal[t]]
<1>4. in.goal \in [Tib -> GoalState] /\ "failed" \in GoalState /\ "open" \in GoalState
  BY <1>2, Fields, Literals
<1>5. \A t \in Tib : g[t] = in.goal[t] \/ (in.goal[t] = "posted" /\ g[t] \in {"failed", "open"})
  OBVIOUS
<1>6. \A t \in Tib : g[t] # "posted"
  OBVIOUS
<1>7. \A t \in found : t \in Tib /\ in.goal[t] = "posted" /\ in.status[t] = "ACTIVE"
  OBVIOUS
<1> HIDE DEF posted, tried
<1>8. g \in [Tib -> GoalState]
  BY <1>4
<1> HIDE DEF g
<1>9. in' \in Intention /\ Same(in, in', {"goal"}) /\ in'.goal = g
  BY <1>2, <1>3, <1>8, SetGoals DEF g
<1>10. /\ in'.pere = in.pere /\ in'.fils = in.fils /\ in'.suspended = in.suspended /\ in'.broken = in.broken
       /\ in'.maintain = in.maintain /\ in'.watched = in.watched /\ in'.op = in.op
       /\ in'.status = in.status /\ in'.active = in.active /\ in'.waits = in.waits
  BY <1>9 DEF Same, Field
<1>11. \A t \in Tib : in.status[t] = "free" => in'.goal[t] = in.goal[t]
  BY <1>2, <1>5, <1>9 DEF TreeInv, FreeInv, Free
<1>12. Stays(in, in') /\ \A u \in Tib : SameStatus(in, in', u)
  BY <1>10, <1>11 DEF Stays, SameStatus
<1>13. TreeInv(in')
  BY <1>2, <1>9, <1>12, StaysTree
<1>14. in.watched \subseteq Tib /\ Behind(in') = Behind(in) /\ Behind(in) \subseteq Tib
  BY <1>2, <1>10, BehindTib, Fields DEF Behind
<1>15. Watch(in', {})
  BY <1>2, <1>5, <1>6, <1>9, <1>10, <1>14 DEF Watch
<1>16. Applies(in', applicable')
  BY <1>2, <1>3, <1>7, <1>10 DEF Applies, Live, Free, Watch
<1> QED BY <1>1, <1>9, <1>13, <1>15, <1>16, SoakInv


LEMMA ChooseInv ==
  ASSUME IInv, execute_intention \/ EndTurn \/ \E t \in Tib : Choose(t)
  PROVE  IInv'
<1>1. in \in Intention /\ TreeInv(in) /\ TypeOK /\ WatchInv
  BY DEF IInv, TypeOK
<1>2. CASE execute_intention
  <2>1. Watch(in, {}) /\ in.active \in [Tib -> Nat]
    BY <1>1, <1>2, Between, Fields DEF execute_intention
  <2>2. in' = in /\ phase' = "choose" /\ applicable' = {} /\ current' = current
    BY <1>2 DEF execute_intention
  <2>3. todo' \in [Tib -> Nat]
    BY <1>2, <2>1, NobodyTypes DEF execute_intention
  <2>4. TypeOK'
    BY <1>1, <2>2, <2>3 DEF TypeOK, Phase
  <2>5. WatchInv'
    BY <2>1, <2>2 DEF WatchInv, Leaving, Watch
  <2>6. TurnInv' /\ TreeInv(in')
    BY <1>1, <2>2 DEF TurnInv, Turn
  <2> QED BY <2>4, <2>5, <2>6 DEF IInv
<1>3. ASSUME phase = "choose", in' = in, applicable' = applicable, todo' \in [Tib -> Nat],
             \/ phase' \in {"choose", "soak"} /\ current' = current
             \/ /\ phase' = "run" /\ current' \in Tib
                /\ in.status[current'] = "ACTIVE" /\ in.fils[current'] = {}
      PROVE  IInv'
  <2>1. Watch(in, {}) /\ applicable = {}
    BY <1>1, <1>3 DEF WatchInv, Leaving
  <2>2. TypeOK'
    BY <1>1, <1>3 DEF TypeOK, Phase
  <2>3. WatchInv'
    BY <1>3, <2>1 DEF WatchInv, Leaving, Watch
  <2>4. TurnInv' /\ TreeInv(in')
    BY <1>1, <1>3 DEF TurnInv, Turn
  <2> QED BY <2>2, <2>3, <2>4 DEF IInv
<1>4. CASE EndTurn
  BY <1>1, <1>3, <1>4 DEF EndTurn, TypeOK
<1>5. ASSUME NEW t \in Tib, Choose(t) PROVE IInv'
  <2>1. phase = "choose" /\ in' = in /\ applicable' = applicable
    BY <1>5 DEF Choose
  <2>2. todo \in [Tib -> Nat] /\ todo[t] \in Nat /\ todo[t] > 0
    BY <1>1, <1>5 DEF Choose, TypeOK
  <2>3. CASE in.active[t] = 0
    BY <1>3, <1>5, <2>1, <2>3, NobodyTypes DEF Choose
  <2>4. CASE in.active[t] # 0
    <3>1. in.status[t] = "ACTIVE" /\ in.fils[t] = {}
      BY <1>1, <2>4 DEF TreeInv, ActiveInv
    <3>2. todo' = [todo EXCEPT ![t] = todo[t] - 1] /\ current' = t /\ phase' = "run"
      BY <1>5, <2>4 DEF Choose
    <3>3. todo' \in [Tib -> Nat]
      <4>1. todo[t] - 1 \in Nat
        BY <2>2
      <4> QED BY <2>2, <3>2, <4>1
    <3> QED BY <1>3, <2>1, <3>1, <3>2, <3>3
  <2> QED BY <2>3, <2>4
<1> QED BY <1>2, <1>4, <1>5

LEMMA InvStep ==
  ASSUME "wait" \notin Risks, IInv, [Next]_vars
  PROVE  IInv'
<1>1. CASE UNCHANGED vars
  <2>1. in' = in /\ phase' = phase /\ todo' = todo /\ current' = current /\ applicable' = applicable
    BY <1>1 DEF vars
  <2> QED BY <2>1 DEF IInv, TypeOK, WatchInv, Watch, Leaving, TurnInv
<1>2. CASE Soak
  BY <1>2, MakeInv, DeleteInv, WakeInv, PreserveInv, MaintainInv, IntendInv, FindSoakInv, ChooseInv DEF Soak
<1>3. CASE Execute
  BY <1>3, ChooseInv, WaitingInv, CallOnlyInv, ActionWaitsInv, ActionIntendsInv, GoalInv, RestoreInv,
     RestoreAndFailInv, MakeThreadsInv, JoinInv, LastJoinInv, EndingInv
  DEF Execute, execute_intention_action, execute_intention_body
<1> QED BY <1>1, <1>2, <1>3 DEF Next

LEMMA InvInit ==
  ASSUME Init
  PROVE  IInv
<1>1. PICK t \in Tib, op \in {"body", "action"} : in = make_intention(t, op, None)
  BY DEF Init
<1>2. op \in Op
  BY DEF Op
<1>3. in \in Intention /\ TreeInv(in) /\ Watch(in, {})
  <2> DEFINE j == make_intention(t, op, None)
  <2>1. j \in Intention /\ TreeInv(j) /\ Watch(j, {})
    BY <1>2, MakeFields
  <2> HIDE DEF j
  <2> QED BY <1>1, <2>1 DEF j
<1>4. phase = "soak" /\ todo = Nobody /\ current = None /\ applicable = {}
  BY DEF Init
<1>5. TypeOK
  BY <1>3, <1>4, NobodyTypes DEF TypeOK, Phase
<1>6. WatchInv /\ TurnInv
  BY <1>3, <1>4 DEF WatchInv, Leaving, TurnInv, Turn
<1> QED BY <1>3, <1>5, <1>6 DEF IInv

-----------------------------------------------------------------------------
(* What the invariant shows *)

\* What is suspended is what stands behind another thread, or below what does.
LEMMA StoppedBelow ==
  ASSUME NEW i \in Intention, TreeInv(i), NEW S, S \subseteq Behind(i), NEW t \in Below(i, S)
  PROVE  t \in Live(i) /\ (Suspended(i, t) \/ i.status[t] = "JOINING")
<1> DEFINE D == {u \in Live(i) : Suspended(i, u) \/ i.status[u] = "JOINING"}
<1>1. S \in SUBSET Tib
  BY BehindTib
<1>2. LeastClosed(Below(i, S), S, i.fils)
  BY <1>1, BelowSetLeast
<1>3. Behind(i) \subseteq D
  BY DEF TreeInv, Tree, Replaced, SuspendedInv, Behind, Suspended
<1>4. \A u \in D : i.fils[u] \subseteq D
  <2> SUFFICES ASSUME NEW u \in D, NEW v \in i.fils[u] PROVE v \in D
    OBVIOUS
  <2>1. u \in Tib /\ u # Top
    BY TibAssumption DEF Live
  <2>2. v \in Live(i) /\ i.pere[v] = u
    BY <2>1 DEF TreeInv, Tree, Listed
  <2>3. Suspended(i, u)
    BY <2>1 DEF TreeInv, ActiveInv, Suspended
  <2>4. v \notin Behind(i)
    BY <2>2 DEF TreeInv, Tree, Replaced, Behind
  <2> QED BY <2>1, <2>2, <2>3, <2>4 DEF TreeInv, SuspendedInv
<1>5. D \in SUBSET Tib
  BY DEF Live
<1>6. Below(i, S) \subseteq D
  BY <1>2, <1>3, <1>4, <1>5 DEF LeastClosed
<1> QED BY <1>6

LEMMA SuspendedBelow ==
  ASSUME NEW i \in Intention, TreeInv(i), NEW t \in Live(i), Suspended(i, t)
  PROVE  t \in Below(i, Behind(i))
<1> DEFINE stopped == Below(i, Behind(i))
           D == {u \in Live(i) : Suspended(i, u) => u \in stopped}
<1>1. LeastClosed(stopped, Behind(i), i.fils)
  <2>1. Behind(i) \in SUBSET Tib
    BY BehindTib
  <2> QED BY <2>1, BelowSetLeast
<1> HIDE DEF stopped
<1>2. \A v \in Live(i) : v \in i.fils[i.pere[v]] => v \notin Behind(i)
  BY DEF TreeInv, Tree, Replaced, Behind
<1>3. ASSUME NEW v \in Live(i), v \in i.fils[i.pere[v]], Suspended(i, v)
      PROVE  i.pere[v] # Top /\ Suspended(i, i.pere[v])
  BY <1>2, <1>3 DEF TreeInv, SuspendedInv, Suspended
<1>4. i.fils[Top] \subseteq D
  BY <1>3 DEF TreeInv, Tree, Listed
<1>5. \A u \in D : i.fils[u] \subseteq D
  <2> SUFFICES ASSUME NEW u \in D, NEW v \in i.fils[u] PROVE v \in D
    OBVIOUS
  <2>1. v \in Live(i) /\ i.pere[v] = u
    BY DEF TreeInv, Tree, Listed, Live
  <2>2. Suspended(i, v) => u \in stopped
    BY <1>3, <2>1
  <2> QED BY <1>1, <2>1, <2>2 DEF LeastClosed
<1>6. \A u \in D : i.suspended[u] # None => i.suspended[u] \in D
  <2> SUFFICES ASSUME NEW u \in D, i.suspended[u] # None PROVE i.suspended[u] \in D
    OBVIOUS
  <2>1. i.suspended[u] \in Behind(i) /\ i.suspended[u] \in Live(i)
    BY DEF TreeInv, Tree, Replaced, Behind, Live
  <2> QED BY <1>1, <2>1 DEF LeastClosed
<1>7. D \in SUBSET Tib
  BY DEF Live
<1>8. Live(i) \subseteq D
  BY <1>4, <1>5, <1>6, <1>7 DEF TreeInv, Tree, Reached
<1> QED BY <1>8 DEF stopped

LEMMA InvThreadTree ==
  ASSUME IInv
  PROVE  ThreadTree
<1>1. in \in Intention /\ Tree(in)
  BY DEF IInv, TypeOK, TreeInv
<1>2. Listed(in) /\ Replaced(in) /\ Reached(in) /\ \A t \in Live(in) : t \in in.fils[in.pere[t]] \/ t \in Behind(in)
  BY <1>1 DEF Tree
<1>3. RemovedWith(in, in.fils[Top]) = Live(in)
  BY <1>1, <1>2, TreeReached
<1>4. ASSUME NEW t \in Live(in), t \in in.fils[in.pere[t]]
      PROVE  {n \in Live(in) : in.suspended[n] = t} = {}
  <2>1. t # None
    BY TibAssumption DEF Live
  <2> QED BY <1>2, <1>4, <2>1 DEF Replaced, Live
<1>5. ASSUME NEW t \in Live(in), t \notin in.fils[in.pere[t]]
      PROVE  \E n \in Live(in) : {m \in Live(in) : in.suspended[m] = t} = {n} /\ in.pere[n] = in.pere[t]
  <2>1. PICK n \in Tib : in.suspended[n] = t /\ t # None
    BY <1>2, <1>5 DEF Behind
  <2>2. n \in Live(in) /\ in.pere[n] = in.pere[t] /\ \A m \in Tib : in.suspended[m] = t => m = n
    BY <1>2, <2>1 DEF Replaced
  <2>3. {m \in Live(in) : in.suspended[m] = t} = {n}
    BY <2>1, <2>2 DEF Live
  <2> QED BY <2>2, <2>3
<1>6. \A f \in Tib \cup {Top} : \A t \in in.fils[f] : t \in Live(in) /\ in.pere[t] = f /\ f \notin Free(in)
  BY <1>2 DEF Listed
<1> QED BY <1>3, <1>4, <1>5, <1>6 DEF ThreadTree

LEMMA InvRestorable ==
  ASSUME IInv
  PROVE  SuspendedAreRestorable
<1>1. in \in Intention /\ TreeInv(in)
  BY DEF IInv, TypeOK
<1>2. {in.suspended[n] : n \in Live(in)} \ {None} = Behind(in)
  BY <1>1 DEF TreeInv, Tree, Replaced, Behind, Live
<1> SUFFICES ASSUME NEW t \in Live(in)
             PROVE  /\ Suspended(in, t) <=> t \in Below(in, Behind(in)) /\ in.status[t] # "JOINING"
                    /\ t \in in.broken => t \in Below(in, Behind(in)) \/ in.suspended[t] # None
  BY <1>2 DEF SuspendedAreRestorable, Suspended
<1>3. t \in Below(in, Behind(in)) => Suspended(in, t) \/ in.status[t] = "JOINING"
  BY <1>1, StoppedBelow
<1>4. Suspended(in, t) => t \in Below(in, Behind(in)) /\ in.status[t] # "JOINING"
  BY <1>1, SuspendedBelow DEF Suspended
<1>5. Behind(in) \subseteq Below(in, Behind(in))
  <2>1. Behind(in) \in SUBSET Tib
    BY <1>1, BehindTib
  <2> QED BY <1>1, <2>1, BelowSetLeast DEF LeastClosed
<1>6. t \in in.broken => t \in Behind(in) \/ in.suspended[t] # None
  BY <1>1 DEF TreeInv, SuspendedInv
<1> QED BY <1>3, <1>4, <1>5, <1>6

LEMMA InvOnlyActive ==
  ASSUME IInv
  PROVE  OnlyActiveExecute
<1> SUFFICES ASSUME phase = "run"
             PROVE  /\ in.status[current] = "ACTIVE"
                    /\ \A n \in Live(in) :
                         in.suspended[n] # None => current \notin Below(in, {in.suspended[n]})
  BY DEF OnlyActiveExecute
<1>1. in \in Intention /\ TreeInv(in) /\ in.status[current] = "ACTIVE"
  BY TurnReady DEF Ready, Turn
<1>2. ASSUME NEW n \in Live(in), in.suspended[n] # None PROVE current \notin Below(in, {in.suspended[n]})
  <2>1. {in.suspended[n]} \subseteq Behind(in)
    BY <1>2 DEF Behind, Live
  <2> QED BY <1>1, <2>1, StoppedBelow DEF Suspended
<1> QED BY <1>1, <1>2

-----------------------------------------------------------------------------
(* The theorems *)

\* As long as no action waits below a maintained goal, every field of a thread
\* and every list of the intention keeps its type.
THEOREM TypeCorrect ==
  ASSUME "wait" \notin Risks
  PROVE  Spec => []TypeOK
<1>1. IInv /\ [Next]_vars => IInv'
  BY InvStep
<1>2. IInv => TypeOK
  BY DEF IInv
<1> QED BY <1>1, <1>2, InvInit, PTL DEF Spec

\* The threads are a tree at every moment: each in one place, the son of its
\* father or behind the one thread that stands for it, and none is lost.
THEOREM ThreadTreeCorrect ==
  ASSUME "wait" \notin Risks
  PROVE  Spec => []ThreadTree
<1>1. IInv /\ [Next]_vars => IInv'
  BY InvStep
<1> QED BY <1>1, InvInit, InvThreadTree, PTL DEF Spec

\* The list of active threads, edited at sixteen places of activate.c and
\* intend.c, is always that of the threads that can execute, and who sleeps has
\* a condition to wake it.
THEOREM ActiveOrAwaitedCorrect ==
  ASSUME "wait" \notin Risks
  PROVE  Spec => []ActiveOrAwaited
<1>1. IInv /\ [Next]_vars => IInv'
  BY InvStep
<1>2. IInv => ActiveOrAwaited
  BY DEF IInv, TreeInv, ActiveInv, ActiveOrAwaited
<1> QED BY <1>1, <1>2, InvInit, PTL DEF Spec

\* Below a maintained condition that has failed nothing executes.
THEOREM OnlyActiveExecuteCorrect ==
  ASSUME "wait" \notin Risks
  PROVE  Spec => []OnlyActiveExecute
<1>1. IInv /\ [Next]_vars => IInv'
  BY InvStep
<1> QED BY <1>1, InvInit, InvOnlyActive, PTL DEF Spec

\* A thread is suspended exactly as long as a thread that is to restore the
\* condition stands in its place, or in that of a thread above it.
THEOREM SuspendedAreRestorableCorrect ==
  ASSUME "wait" \notin Risks
  PROVE  Spec => []SuspendedAreRestorable
<1>1. IInv /\ [Next]_vars => IInv'
  BY InvStep
<1> QED BY <1>1, InvInit, InvRestorable, PTL DEF Spec

=============================================================================
