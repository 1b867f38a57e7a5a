------------------------- MODULE ThreadsSectionProofs -------------------------
(***************************************************************************)
(* The critical section of Threads: that its thread is there and can       *)
(* execute, below the thread whose procedure opened it, when procedures    *)
(* take none of the risks that the code warns of or mishandles.            *)
(***************************************************************************)
EXTENDS ThreadsProofs

-----------------------------------------------------------------------------
(* The inductive invariant *)

\* From the opener o down to the thread s of the section there are no brothers,
\* and nothing is suspended.
Chain(i, o, s) ==
  /\ o \in Live(i) /\ s \in Below(i, {o})
  /\ \A u \in Below(i, {o}) : i.suspended[u] = None /\ \A t \in i.fils[u] : i.fils[u] = {t}

Executable == {"ACTIVE", "SLEEPING", "ACTION_WAIT"}

SectionInv(i) ==
  /\ i.section # None =>
       i.section \in Live(i) /\ i.fils[i.section] = {} /\ i.status[i.section] \in Executable
  /\ i.opened # None => i.section # None /\ Chain(i, i.opened, i.section)

\* Only bodies split.
Single(i) ==
  \A f \in Tib \cup {Top} : \A t \in i.fils[f] : i.op[t] # "body" => i.fils[f] = {t}

\* A restorer stands for what it has suspended, also in what it executes.
Restoring(i, leaving) ==
  \A n \in Tib : i.suspended[n] # None =>
    /\ i.op[n] = i.op[i.suspended[n]]
    /\ n \notin leaving => i.op[n] = "body" \/ (i.op[n] = "action" /\ i.goal[n] # "none")

Sections(i, leaving) == SectionInv(i) /\ Single(i) /\ Restoring(i, leaving)

\* Outside the step that begins it, a section has been opened by a thread.
Owned(i) == i.section # None => i.opened # None

\* In a section only its thread has its turn.
SectionTurn ==
  in.section # None =>
    /\ phase = "choose" => \A t \in Tib : todo[t] > 0 => t = in.section
    /\ phase \in Turn => current = in.section
    /\ in.opened = None => phase = "satisfied" /\ in.pere[in.section] = Top

SInv == Sections(in, Leaving) /\ SectionTurn

-----------------------------------------------------------------------------
(* The threads between the opener and the section *)

LEMMA BelowSelf ==
  ASSUME NEW i \in Intention, NEW o \in Tib
  PROVE  /\ o \in Below(i, {o}) /\ Below(i, {o}) \subseteq Tib
         /\ \A u \in Below(i, {o}) : i.fils[u] \subseteq Below(i, {o})
BY BelowLeast DEF LeastClosed

LEMMA BelowSame ==
  ASSUME NEW i, NEW j, j.fils = i.fils, NEW S
  PROVE  Below(j, S) = Below(i, S)
BY DEF Below

\* The thread of the section is below every thread of the chain.
LEMMA ChainEnd ==
  ASSUME NEW i \in Intention, NEW o \in Tib, NEW s, Chain(i, o, s), i.fils[s] = {},
         NEW v \in Below(i, {o})
  PROVE  v \in Tib /\ s \in Below(i, {v}) /\ (i.fils[v] = {} => v = s)
<1> DEFINE D == {u \in Below(i, {o}) : s \in Below(i, {u})}
<1>1. o \in D /\ D \subseteq Tib
  BY BelowSelf DEF Chain
<1>2. \A u \in D : i.fils[u] \subseteq D
  <2> SUFFICES ASSUME NEW u \in D, NEW w \in i.fils[u] PROVE w \in D
    OBVIOUS
  <2>1. u \in Tib /\ u \in Below(i, {o}) /\ w \in Below(i, {o}) /\ w \in Tib /\ i.fils[u] = {w}
    BY BelowSelf DEF Chain
  <2> DEFINE E == {u} \cup Below(i, {w})
  <2>2. E \in SUBSET Tib /\ u \in E /\ \A x \in E : i.fils[x] \subseteq E
    BY <2>1, BelowSelf
  <2>3. Below(i, {u}) \subseteq E
    <3> HIDE DEF E
    <3> QED BY <2>1, <2>2, BelowFewer
  <2>4. s # u
    BY <2>1
  <2> QED BY <2>1, <2>3, <2>4
<1>3. Below(i, {o}) \subseteq D
  BY <1>1, <1>2, BelowFewer
<1>4. v \in Tib /\ s \in Below(i, {v})
  BY <1>1, <1>3
<1>5. ASSUME i.fils[v] = {} PROVE v = s
  <2>1. Below(i, {v}) \subseteq {v}
    BY <1>4, <1>5, BelowFewer
  <2> QED BY <1>4, <2>1
<1> QED BY <1>4, <1>5

\* What is below a suspended thread is suspended too, or joins.
LEMMA BelowSuspended ==
  ASSUME NEW i \in Intention, TreeInv(i), NEW v \in Live(i), Suspended(i, v),
         NEW w \in Below(i, {v})
  PROVE  Suspended(i, w) \/ i.status[w] = "JOINING"
<1>1. v \in Below(i, Behind(i)) /\ v \in Tib
  BY SuspendedBelow DEF Live
<1>2. Behind(i) \in SUBSET Tib
  BY BehindTib
<1>3. /\ Below(i, Behind(i)) \in SUBSET Tib
      /\ \A u \in Below(i, Behind(i)) : i.fils[u] \subseteq Below(i, Behind(i))
  BY <1>2, BelowSetLeast DEF LeastClosed
<1>4. Below(i, {v}) \subseteq Below(i, Behind(i))
  BY <1>1, <1>3, BelowFewer
<1> QED BY <1>4, StoppedBelow

LEMMA ChainUnsuspended ==
  ASSUME NEW i \in Intention, TreeInv(i), SectionInv(i), i.opened # None,
         NEW v \in Below(i, {i.opened})
  PROVE  v \in Live(i) /\ ~Suspended(i, v)
<1>1. /\ i.section \in Live(i) /\ i.fils[i.section] = {} /\ i.status[i.section] \in Executable
      /\ Chain(i, i.opened, i.section) /\ i.opened \in Tib
  BY DEF SectionInv, Chain, Live
<1>2. v \in Tib /\ i.section \in Below(i, {v}) /\ (i.fils[v] = {} => v = i.section)
  BY <1>1, ChainEnd
<1>3. v \in Live(i)
  BY <1>1, <1>2 DEF Live, Free, TreeInv, Tree, Listed
<1> QED BY <1>1, <1>2, <1>3, BelowSuspended DEF Suspended, Executable

\* What is removed with sons of f holds nothing of the chain, unless f is of it.
LEMMA GoneBelow ==
  ASSUME NEW i \in Intention, Tree(i), NEW f \in Tib \cup {Top}, NEW S, S \subseteq i.fils[f],
         NEW gone, Gone(i, f, S, gone),
         NEW o \in Tib, o \notin gone, NEW v \in Below(i, {o}), v \in gone
  PROVE  f \in Below(i, {o})
<1> SUFFICES ASSUME f \notin Below(i, {o}) PROVE FALSE
  OBVIOUS
<1> DEFINE D == Below(i, {o}) \ gone
<1>1. o \in D /\ D \in SUBSET Tib
  BY BelowSelf
<1>2. \A u \in D : i.fils[u] \subseteq D
  <2> SUFFICES ASSUME NEW u \in D, NEW w \in i.fils[u], w \in gone PROVE FALSE
    BY <1>1, BelowSelf
  <2>1. u \in Tib /\ i.pere[w] = u /\ w \in i.fils[i.pere[w]]
    BY <1>1 DEF Tree, Listed
  <2>2. w \notin S
    BY <2>1 DEF Tree, Listed
  <2> QED BY <2>1, <2>2 DEF Gone
<1>3. Below(i, {o}) \subseteq D
  BY <1>1, <1>2, BelowFewer
<1> QED BY <1>3

\* What is left of the chain.
LEMMA BelowRemoved ==
  ASSUME NEW i \in Intention, NEW j \in Intention, Tree(i), NEW f, NEW S, NEW gone,
         gone \subseteq Tib,
         Gone(i, f, S, gone), SonsRemoved(i, j, gone), NEW o \in Tib, o \notin gone
  PROVE  /\ Below(j, {o}) \subseteq Below(i, {o}) \ gone
         /\ Below(i, {o}) \subseteq Below(j, {o}) \cup gone
<1>1. /\ \A u \in Tib \ gone : \A w \in j.fils[u] : w \in i.fils[u] /\ w \notin gone
      /\ \A u \in Tib \ gone : i.fils[u] \subseteq j.fils[u] \cup gone
  BY DEF SonsRemoved, Tree, Listed
<1> DEFINE D == Below(i, {o}) \ gone
           E == Below(j, {o}) \cup gone
<1>2. Below(j, {o}) \subseteq D
  <2>1. D \in SUBSET Tib /\ o \in D /\ \A u \in D : j.fils[u] \subseteq D
    BY <1>1, BelowSelf
  <2> QED BY <2>1, BelowFewer
<1>3. Below(i, {o}) \subseteq E
  <2>1. E \in SUBSET Tib /\ o \in E
    BY BelowSelf
  <2>2. \A u \in E : i.fils[u] \subseteq E
    BY <1>1, <2>1, BelowSelf DEF Gone
  <2> QED BY <2>1, <2>2, BelowFewer
<1> QED BY <1>2, <1>3

-----------------------------------------------------------------------------
(* What becomes of the section *)

\* s is the thread of a section, which o has opened.
Begun(i, j, s, o) ==
  j \in Intention /\ Same(i, j, {"section", "opened"}) /\ j.section = s /\ j.opened = o

LEMMA SetBoth ==
  ASSUME NEW i \in Intention, NEW s \in Tib, NEW o \in Tib \cup {None}
  PROVE  Begun(i, [i EXCEPT !.section = s, !.opened = o], s, o)
<1> DEFINE j == [i EXCEPT !.section = s, !.opened = o]
<1>1. j \in Intention /\ Same(i, j, {"section", "opened"})
  BY SectionFields
<1>2. j.section = s /\ j.opened = o
  BY Fields DEF IsRecord, Field
<1> HIDE DEF j
<1> QED BY <1>1, <1>2 DEF Begun, j

LEMMA WithoutSection ==
  ASSUME NEW i \in Intention, NEW gone \in SUBSET Tib
  PROVE  LET j == SectionWithout(i, gone)
             ends == i.section # None /\ i.opened \in gone
         IN  /\ j \in Intention
             /\ j.section = IF ends \/ i.section \in gone THEN None ELSE i.section
             /\ j.opened = IF ends THEN None ELSE i.opened
<1> DEFINE j == SectionWithout(i, gone)
<1>1. j \in Intention
  BY SectionWithoutFields
<1>2. CASE i.section # None /\ i.opened \in gone
  BY <1>1, <1>2, EndSection DEF SectionWithout
<1>3. CASE ~(i.section # None /\ i.opened \in gone) /\ i.section \in gone
  <2>1. j = [i EXCEPT !.section = None] /\ None \in Tib \cup {None, Dangling}
    BY <1>3 DEF SectionWithout
  <2>2. j.section = None /\ Same(i, j, {"section"})
    BY <2>1, SetSection
  <2>3. j.opened = i.opened
    BY <2>2 DEF Same, Field
  <2> QED BY <1>1, <1>3, <2>2, <2>3
<1>4. CASE ~(i.section # None /\ i.opened \in gone) /\ i.section \notin gone
  BY <1>1, <1>4 DEF SectionWithout
<1> QED BY <1>2, <1>3, <1>4

\* A section that a thread has opened never outlives its threads.
LEMMA RemoveSection ==
  ASSUME NEW i \in Intention, NEW S \in SUBSET Tib, i.opened # None => i.section # None
  PROVE  LET j == remove_and_free_tib_list(i, S)
             gone == RemovedWith(i, S)
         IN  /\ j.section = IF i.opened \in gone \/ i.section \in gone THEN None ELSE i.section
             /\ j.opened = IF i.opened \in gone THEN None ELSE i.opened
<1> DEFINE gone == RemovedWith(i, S)
           k == SectionWithout(i, gone)
           l == Unlisted(k, gone)
           j == FreeThreads(l, gone)
<1>1. gone \in SUBSET Tib
  BY DEF RemovedWith, Closure
<1>2. remove_and_free_tib_list(i, S) = j
  BY DEF remove_and_free_tib_list
<1> HIDE DEF gone
<1>3. None \notin gone
  BY <1>1, TibAssumption
<1>4. /\ k \in Intention
      /\ k.section = IF i.opened \in gone \/ i.section \in gone THEN None ELSE i.section
      /\ k.opened = IF i.opened \in gone THEN None ELSE i.opened
  BY <1>1, <1>3, WithoutSection
<1> HIDE DEF k
<1>5. l \in Intention /\ l.section = k.section /\ l.opened = k.opened
  <2>1. l \in Intention /\ Same(k, l, {"fils", "active"})
    BY <1>1, <1>4, UnlistedFields
  <2> HIDE DEF l
  <2> QED BY <2>1 DEF Same, Field
<1> HIDE DEF l
<1>6. /\ j.section = IF l.section \in gone THEN Dangling ELSE l.section
      /\ j.opened = IF l.opened \in gone THEN Dangling ELSE l.opened
  BY <1>1, <1>5, FreeFields DEF Freed
<1> HIDE DEF j
<1>7. j.section = k.section /\ j.opened = k.opened
  BY <1>3, <1>4, <1>5, <1>6
<1> QED BY <1>2, <1>4, <1>7 DEF gone

LEMMA GiveBackSection ==
  ASSUME NEW i \in Intention, NEW t \in Tib, i.pere[t] # Top
  PROVE  LET j == GiveBack(i, t)
         IN  /\ i.section = None => j.section = None /\ j.opened = i.opened
             /\ i.section # None /\ i.opened = t => j.section = None /\ j.opened = None
             /\ i.section # None /\ i.opened # t => j.section = i.pere[t] /\ j.opened = i.opened
<1> DEFINE f == i.pere[t]
           k == add_in_active_tib(i, f)
           j == propagate_critical_section(k, t)
<1>1. f \in Tib
  BY Fields
<1>2. k \in Intention /\ Same(i, k, {"active"})
  BY <1>1, AddActive
<1> HIDE DEF k
<1>3. k.pere = i.pere /\ k.section = i.section /\ k.opened = i.opened
  BY <1>2 DEF Same, Field
<1>4. CASE i.section = None
  BY <1>3, <1>4 DEF propagate_critical_section, GiveBack, k
<1>5. CASE i.section # None /\ i.opened = t
  <2>1. j = end_critical_section(k)
    BY <1>3, <1>5 DEF propagate_critical_section
  <2> QED BY <1>2, <1>5, <2>1, EndSection DEF GiveBack, k
<1>6. CASE i.section # None /\ i.opened # t
  <2>1. j = [k EXCEPT !.section = f] /\ f \in Tib \cup {None, Dangling}
    BY <1>1, <1>3, <1>6 DEF propagate_critical_section
  <2>2. j.section = f /\ Same(k, j, {"section"})
    BY <1>2, <2>1, SetSection
  <2>3. j.opened = i.opened
    BY <1>3, <2>2 DEF Same, Field
  <2> QED BY <1>6, <2>2, <2>3 DEF GiveBack, k
<1> QED BY <1>4, <1>5, <1>6

-----------------------------------------------------------------------------
(* Kinds of steps *)

\* No thread comes or goes, and the section stays or ends.
LEMMA SectionStays ==
  ASSUME NEW i \in Intention, NEW j \in Intention, SectionInv(i),
         j.fils = i.fils, j.suspended = i.suspended,
         \A u \in Tib : i.status[u] # "free" => j.status[u] # "free",
         \/ j.section = None /\ j.opened = None
         \/ /\ j.section = i.section /\ j.opened = i.opened
            /\ j.section # None => j.status[j.section] \in Executable
  PROVE  SectionInv(j)
<1>1. CASE j.section = None /\ j.opened = None
  BY <1>1 DEF SectionInv
<1>2. CASE j.section = i.section /\ j.opened = i.opened
             /\ (j.section # None => j.status[j.section] \in Executable)
  <2>1. Live(i) \subseteq Live(j)
    BY DEF Live, Free
  <2>2. Below(j, {j.opened}) = Below(i, {i.opened})
    BY <1>2, BelowSame
  <2>3. j.opened # None => Chain(j, j.opened, j.section)
    BY <1>2, <2>1, <2>2 DEF SectionInv, Chain
  <2> QED BY <1>2, <2>1, <2>3 DEF SectionInv
<1> QED BY <1>1, <1>2

LEMMA ProceduresStay ==
  ASSUME NEW i \in Intention, NEW j \in Intention, NEW X, NEW Y, Single(i), Restoring(i, X),
         X \subseteq Y,
         j.fils = i.fils, j.suspended = i.suspended, j.op = i.op,
         \A u \in Tib \ Y : i.op[u] = "action" /\ i.goal[u] # "none" => j.goal[u] # "none"
  PROVE  Single(j) /\ Restoring(j, Y)
BY DEF Single, Restoring

\* n is the new and only son of t.
LEMMA SectionIntended ==
  ASSUME NEW i, NEW t, Ready(i, t), NEW n \in Free(i), NEW op, NEW maintain, NEW j,
         Intended(i, j, t, n, op, maintain), Sections(i, {})
  PROVE  Sections(j, {}) /\ (Owned(i) => Owned(j))
<1>1. /\ i \in Intention /\ t \in Tib /\ TreeInv(i) /\ t \in Live(i) /\ i.fils[t] = {} /\ t # Top
  BY ReadyPlace, TibAssumption DEF Ready
<1>2. n \in Tib /\ n # t /\ i.status[n] = "free" /\ n \notin Live(i)
  BY <1>1 DEF Free, Live
<1>3. i.fils[n] = {} /\ i.suspended[n] = None /\ n \notin Behind(i)
        /\ \A f \in Tib \cup {Top} : n \notin i.fils[f]
  BY <1>1, FreeLeaf DEF FreeSons, TreeInv
<1>4. /\ j \in Intention
      /\ j.status = [i.status EXCEPT ![n] = "ACTIVE"]
      /\ j.fils = [i.fils EXCEPT ![t] = {n}]
      /\ j.op = [i.op EXCEPT ![n] = op]
      /\ j.section = IF i.section = t THEN n ELSE i.section
  BY DEF Intended
<1>5. j.suspended = i.suspended /\ j.goal = i.goal /\ j.opened = i.opened
  BY DEF Intended, Same, Field
<1>6. /\ \A u \in Tib \cup {Top} : j.fils[u] = IF u = t THEN {n} ELSE i.fils[u]
      /\ \A u \in Tib : j.status[u] = IF u = n THEN "ACTIVE" ELSE i.status[u]
      /\ \A u \in Tib : u # n => j.op[u] = i.op[u]
  BY <1>1, <1>2, <1>4, Fields
<1>7. Live(i) \cup {n} \subseteq Live(j)
  BY <1>2, <1>6 DEF Live, Free
<1>8. j.section # None => j.section \in Live(j) /\ j.fils[j.section] = {}
        /\ j.status[j.section] \in Executable
  <2>1. CASE i.section = t
    BY <1>2, <1>3, <1>4, <1>6, <1>7, <2>1 DEF Executable
  <2>2. CASE i.section # t
    <3>1. i.section # None => i.section \in Tib /\ i.section # n
      BY <1>2 DEF Sections, SectionInv, Live
    <3> QED BY <1>4, <1>6, <1>7, <2>2, <3>1 DEF Sections, SectionInv
  <2> QED BY <2>1, <2>2
<1>9. ASSUME j.opened # None PROVE j.section # None /\ Chain(j, j.opened, j.section)
  <2> DEFINE o == i.opened
             B == Below(i, {o})
  <2>1. j.opened = o /\ o \in Tib /\ o \in Live(i) /\ Chain(i, o, i.section)
          /\ i.section # None /\ i.fils[i.section] = {}
    BY <1>5, <1>9 DEF Sections, SectionInv, Chain, Live
  <2> HIDE DEF o
  <2>2. o \in B /\ B \subseteq Tib /\ \A u \in B : i.fils[u] \subseteq B
    BY <1>1, <2>1, BelowSelf
  <2>3. t \in B => t = i.section
    BY <1>1, <2>1, ChainEnd
  <2>4. n \notin B
    <3>1. B \subseteq Live(i)
      <4>1. \A u \in Live(i) : i.fils[u] \subseteq Live(i)
        BY <1>1 DEF TreeInv, Tree, Listed, Live
      <4>2. Live(i) \in SUBSET Tib
        BY DEF Live
      <4> QED BY <1>1, <2>1, <4>1, <4>2, BelowFewer
    <3> QED BY <1>2, <3>1
  <2>5. /\ j.section # None /\ j.section \in Below(j, {o})
        /\ \A u \in Below(j, {o}) : u \in B \/ u = n
    <3>1. CASE i.section = t
      <4> DEFINE D == B \cup {n}
                 E == Below(j, {o})
      <4>1. E \subseteq D
        <5>1. D \in SUBSET Tib /\ o \in D /\ \A u \in D : j.fils[u] \subseteq D
          BY <1>2, <1>3, <1>6, <2>2
        <5> HIDE DEF D
        <5> QED BY <1>4, <2>1, <5>1, BelowFewer
      <4>2. o \in E /\ E \subseteq Tib /\ \A u \in E : j.fils[u] \subseteq E
        BY <1>4, <2>1, BelowSelf
      <4> HIDE DEF E
      <4>3. B \subseteq E
        <5>1. \A u \in E : i.fils[u] \subseteq E
          BY <1>1, <1>6, <4>2
        <5> QED BY <1>1, <2>1, <4>2, <5>1, BelowFewer
      <4>4. t \in B
        BY <2>1, <3>1 DEF Chain
      <4>5. n \in E
        BY <1>1, <1>6, <4>2, <4>3, <4>4
      <4> QED BY <1>2, <1>4, <3>1, <4>1, <4>5, TibAssumption DEF E
    <3>2. CASE i.section # t
      <4> DEFINE E == Below(j, {o})
      <4>1. t \notin B
        BY <2>3, <3>2
      <4>2. \A u \in B : j.fils[u] \subseteq B
        BY <1>6, <2>2, <4>1
      <4>3. E \subseteq B
        BY <1>4, <2>1, <2>2, <4>2, BelowFewer
      <4>4. o \in E /\ E \subseteq Tib /\ \A u \in E : j.fils[u] \subseteq E
        BY <1>4, <2>1, BelowSelf
      <4> HIDE DEF E
      <4>5. B \subseteq E
        <5>1. \A u \in E : i.fils[u] \subseteq E
          BY <1>6, <4>1, <4>3, <4>4
        <5> QED BY <1>1, <2>1, <4>4, <5>1, BelowFewer
      <4> QED BY <1>4, <2>1, <3>2, <4>3, <4>5 DEF Chain, E
    <3> QED BY <3>1, <3>2
  <2>6. \A u \in Below(j, {o}) : j.suspended[u] = None /\ \A w \in j.fils[u] : j.fils[u] = {w}
    <3> SUFFICES ASSUME NEW u \in Below(j, {o})
                 PROVE  j.suspended[u] = None /\ \A w \in j.fils[u] : j.fils[u] = {w}
      OBVIOUS
    <3>1. CASE u = n
      BY <1>2, <1>3, <1>5, <1>6, <3>1
    <3>2. CASE u \in B
      <4>1. u \in Tib /\ i.suspended[u] = None /\ \A w \in i.fils[u] : i.fils[u] = {w}
        BY <2>1, <2>2, <3>2 DEF Chain
      <4> QED BY <1>5, <1>6, <4>1
    <3> QED BY <2>5, <3>1, <3>2
  <2> QED BY <1>7, <2>1, <2>5, <2>6 DEF Chain
<1>10. Single(j)
  <2> SUFFICES ASSUME NEW f \in Tib \cup {Top}, NEW u \in j.fils[f], j.op[u] # "body"
               PROVE  j.fils[f] = {u}
    BY DEF Single
  <2>1. CASE f = t
    BY <1>6, <2>1
  <2>2. CASE f # t
    <3>1. j.fils[f] = i.fils[f] /\ u \in i.fils[f] /\ u \in Tib /\ u # n
      BY <1>1, <1>3, <1>6, <2>2, Fields
    <3> QED BY <1>6, <3>1 DEF Single, Sections
  <2> QED BY <2>1, <2>2
<1>11. Restoring(j, {})
  <2> SUFFICES ASSUME NEW m \in Tib, j.suspended[m] # None
               PROVE  /\ j.op[m] = j.op[j.suspended[m]]
                      /\ j.op[m] = "body" \/ (j.op[m] = "action" /\ j.goal[m] # "none")
    BY DEF Restoring
  <2>1. m # n /\ i.suspended[m] \in Tib /\ i.suspended[m] # n
    BY <1>1, <1>3, <1>5, BehindTib DEF Behind
  <2> QED BY <1>5, <1>6, <2>1 DEF Sections, Restoring
<1>12. Owned(i) => Owned(j)
  BY <1>1, <1>4, <1>5, TibAssumption DEF Owned
<1> QED BY <1>8, <1>9, <1>10, <1>11, <1>12 DEF Sections, SectionInv

\* Sons of f are removed.  The section ends, stays where it is, or goes to f.
LEMMA SectionRemoves ==
  ASSUME NEW i \in Intention, NEW j \in Intention, TreeInv(i), SectionInv(i),
         NEW f \in Live(i) \cup {Top}, NEW S, S \subseteq i.fils[f], Removes(i, j, f, S),
         \/ j.section = None /\ j.opened = None
         \/ /\ j.section = i.section /\ j.opened = i.opened
            /\ i.section # None /\ i.section \notin RemovedWith(i, S)
         \/ /\ j.section = f /\ j.opened = i.opened /\ i.opened # None /\ S = i.fils[f]
            /\ i.opened \notin RemovedWith(i, S) /\ f \in Below(i, {i.opened})
  PROVE  SectionInv(j)
<1> DEFINE gone == RemovedWith(i, S)
           o == i.opened
<1>1. CASE j.section = None /\ j.opened = None
  BY <1>1 DEF SectionInv
<1>2. /\ Gone(i, f, S, gone) /\ SonsRemoved(i, j, gone) /\ Tree(i)
      /\ \A g \in Tib \cup {Top} : g \notin gone =>
           j.fils[g] = IF g = f THEN i.fils[g] \ S ELSE i.fils[g]
      /\ j.status = [t \in Tib |-> IF t \in gone THEN "free" ELSE i.status[t]]
      /\ j.suspended = [t \in Tib |-> IF t \in gone THEN None ELSE i.suspended[t]]
  <2>1. /\ Gone(i, f, S, gone)
        /\ \A g \in Tib \cup {Top} : g \notin gone =>
             j.fils[g] = IF g = f THEN i.fils[g] \ S ELSE i.fils[g]
    BY RemovesTree
  <2>2. SonsRemoved(i, j, gone) /\ TreeRemoved(i, j, gone)
    BY DEF Removes
  <2>3. Tree(i)
    BY DEF TreeInv
  <2> HIDE DEF gone
  <2> QED BY <2>1, <2>2, <2>3 DEF TreeRemoved
<1>3. gone \subseteq Tib /\ f \in Tib \cup {Top} /\ f \notin gone
  BY <1>2 DEF Gone, Live
<1> HIDE DEF gone
<1>4. /\ Live(i) \ gone \subseteq Live(j)
      /\ \A u \in Tib \ gone : j.fils[u] \subseteq i.fils[u] /\ j.suspended[u] = i.suspended[u]
           /\ j.status[u] = i.status[u]
  BY <1>2, <1>3 DEF Live, Free
\* What remains of the chain is one.
<1>5. ASSUME o # None, o \notin gone, NEW s \in Below(i, {o}), s \notin gone
      PROVE  Chain(j, o, s)
  <2>1. Chain(i, o, i.section) /\ o \in Live(i) /\ o \in Tib
    BY <1>5 DEF SectionInv, Chain, Live
  <2> HIDE DEF o
  <2>2. Below(j, {o}) \subseteq Below(i, {o}) \ gone /\ s \in Below(j, {o})
    BY <1>2, <1>3, <1>5, <2>1, BelowRemoved
  <2>3. Below(i, {o}) \subseteq Tib
    BY <2>1, BelowSelf
  <2>4. \A u \in Below(j, {o}) : j.suspended[u] = None /\ \A w \in j.fils[u] : j.fils[u] = {w}
    <3> SUFFICES ASSUME NEW u \in Below(j, {o})
                 PROVE  j.suspended[u] = None /\ \A w \in j.fils[u] : j.fils[u] = {w}
      OBVIOUS
    <3>1. u \in Tib \ gone /\ i.suspended[u] = None /\ \A w \in i.fils[u] : i.fils[u] = {w}
      BY <2>1, <2>2, <2>3 DEF Chain
    <3>2. j.fils[u] \subseteq i.fils[u] /\ j.suspended[u] = i.suspended[u]
      BY <1>4, <3>1
    <3>3. \A w \in j.fils[u] : j.fils[u] = {w}
      <4> SUFFICES ASSUME NEW w \in j.fils[u] PROVE j.fils[u] = {w}
        OBVIOUS
      <4>1. i.fils[u] = {w}
        BY <3>1, <3>2
      <4> QED BY <3>2, <4>1
    <3> QED BY <3>1, <3>2, <3>3
  <2> QED BY <1>4, <1>5, <2>1, <2>2, <2>4 DEF Chain
<1>6. ASSUME j.section = i.section, j.opened = o, i.section # None, i.section \notin gone
      PROVE  SectionInv(j)
  <2>1. i.section \in Live(i) /\ i.fils[i.section] = {} /\ i.status[i.section] \in Executable
          /\ i.section \in Tib
    BY <1>6 DEF SectionInv, Live
  <2>2. j.section \in Live(j) /\ j.fils[j.section] = {} /\ j.status[j.section] \in Executable
    BY <1>4, <1>6, <2>1
  <2>3. ASSUME o # None PROVE Chain(j, o, i.section)
    <3>1. o \in Tib /\ i.section \in Below(i, {o}) /\ Chain(i, o, i.section)
      BY <2>3 DEF SectionInv, Chain, Live
    <3> HIDE DEF o
    <3>2. o \notin gone
      <4> SUFFICES ASSUME o \in gone PROVE FALSE
        OBVIOUS
      <4>1. Below(i, {o}) \subseteq gone
        BY <1>2, <1>3, <3>1, BelowFewer DEF Gone
      <4> QED BY <1>6, <3>1, <4>1
    <3> QED BY <1>5, <1>6, <2>3, <3>1, <3>2
  <2> QED BY <1>6, <2>2, <2>3 DEF SectionInv
<1>7. ASSUME j.section = f, j.opened = o, o # None, S = i.fils[f], o \notin gone,
             f \in Below(i, {o})
      PROVE  SectionInv(j)
  <2>1. o \in Tib /\ Chain(i, o, i.section)
    BY <1>7 DEF SectionInv, Chain, Live
  <2>2. f \in Live(i) /\ ~Suspended(i, f)
    BY <1>7, ChainUnsuspended
  <2>3. f \in Tib /\ f \in Below(i, {o})
    BY <1>7, <2>2 DEF Live
  <2>4. j.fils[f] = {} /\ j.status[f] = i.status[f]
    BY <1>2, <1>3, <1>4, <1>7, <2>3
  <2>5. i.fils[f] # {} => i.status[f] \in {"ACTIVE", "SUSP_ACTIVE"}
    BY <2>3 DEF TreeInv, ActiveInv
  <2>6. i.fils[f] = {} => f = i.section /\ i.status[f] \in Executable
    <3>1. i.section # None /\ i.fils[i.section] = {} /\ i.status[i.section] \in Executable
      BY <1>7 DEF SectionInv
    <3> HIDE DEF o
    <3>2. PICK s : s = i.section
      OBVIOUS
    <3>3. o \in Tib /\ Chain(i, o, s) /\ i.fils[s] = {} /\ f \in Below(i, {o})
      BY <2>1, <2>3, <3>1, <3>2
    <3>4. i.fils[f] = {} => f = s
      BY <3>3, ChainEnd
    <3> QED BY <3>1, <3>2, <3>4
  <2>7. i.status[f] \in Executable
    BY <2>2, <2>5, <2>6 DEF Suspended, Executable
  <2>8. Chain(j, o, f)
    BY <1>3, <1>5, <1>7
  <2> QED BY <1>3, <1>4, <1>7, <2>2, <2>3, <2>4, <2>7, <2>8, TibAssumption DEF SectionInv, Live
<1> QED BY <1>1, <1>6, <1>7 DEF gone, o

LEMMA ProceduresRemove ==
  ASSUME NEW i \in Intention, NEW j \in Intention, TreeInv(i), NEW f \in Live(i) \cup {Top},
         NEW S, S \subseteq i.fils[f], Removes(i, j, f, S), Single(i),
         NEW X, Restoring(i, X), X \subseteq S
  PROVE  Single(j) /\ Restoring(j, {})
<1> DEFINE gone == RemovedWith(i, S)
<1>1. /\ Gone(i, f, S, gone)
      /\ j.fils = [g \in Tib \cup {Top} |->
                    IF g \in gone THEN {} ELSE {t \in i.fils[g] : ~(t \in gone /\ i.pere[t] = g)}]
      /\ j.suspended = [t \in Tib |-> IF t \in gone THEN None ELSE i.suspended[t]]
      /\ j.op = [t \in Tib |-> IF t \in gone THEN "body" ELSE i.op[t]]
  BY RemovesTree DEF Removes, TreeRemoved, SonsRemoved
<1>2. /\ \A t \in Tib : j.goal[t] = IF t \in gone THEN "none"
                                    ELSE IF t = f THEN j.goal[t] ELSE i.goal[t]
      /\ f \in Tib /\ f \notin gone => j.goal[f] \in {i.goal[f], "achieved"}
  BY DEF Removes, GoalsRemoved
<1> HIDE DEF gone
<1>3. Single(j)
  <2> SUFFICES ASSUME NEW g \in Tib \cup {Top}, NEW t \in j.fils[g], j.op[t] # "body"
               PROVE  j.fils[g] = {t}
    BY DEF Single
  <2>1. t \in i.fils[g] /\ t \in Tib /\ j.fils[g] \subseteq i.fils[g] /\ t \notin gone
    BY <1>1, Fields
  <2>2. i.op[t] # "body"
    BY <1>1, <2>1
  <2> QED BY <2>1, <2>2 DEF Single
<1>4. ASSUME NEW n \in Tib, j.suspended[n] # None
      PROVE  /\ j.op[n] = j.op[j.suspended[n]]
             /\ j.op[n] = "body" \/ (j.op[n] = "action" /\ j.goal[n] # "none")
  <2>1. n \notin gone /\ j.suspended[n] = i.suspended[n] /\ i.suspended[n] # None
    BY <1>1, <1>4
  <2>2. i.suspended[n] \in Tib /\ i.suspended[n] \notin gone /\ n \notin X
    BY <1>1, <2>1, Fields DEF Gone
  <2>3. j.op[n] = i.op[n] /\ j.op[j.suspended[n]] = i.op[i.suspended[n]]
    BY <1>1, <2>1, <2>2
  <2>4. j.goal[n] = i.goal[n] \/ j.goal[n] = "achieved"
    BY <1>2, <2>1
  <2> QED BY <2>1, <2>2, <2>3, <2>4 DEF Restoring
<1> QED BY <1>3, <1>4 DEF Restoring

\* b takes the place of a, and its procedure.
LEMMA SingleReplaced ==
  ASSUME NEW i \in Intention, NEW j \in Intention, Listed(i), Single(i),
         NEW p \in Tib \cup {Top}, NEW a \in i.fils[p], NEW b \in Tib,
         j.fils = [i.fils EXCEPT ![p] = (i.fils[p] \ {a}) \cup {b}],
         j.op[b] = i.op[a], \A u \in Tib \ {a, b} : j.op[u] = i.op[u], b \notin i.fils[p] \/ b = a,
         \A f \in Tib \cup {Top} : b \notin i.fils[f]
  PROVE  Single(j)
<1> SUFFICES ASSUME NEW f \in Tib \cup {Top}, NEW u \in j.fils[f], j.op[u] # "body"
             PROVE  j.fils[f] = {u}
  BY DEF Single
<1>1. \A g \in Tib \cup {Top} : j.fils[g] = IF g = p THEN (i.fils[p] \ {a}) \cup {b} ELSE i.fils[g]
  BY Fields
<1>2. u \in Tib
  BY Fields
<1>3. CASE f = p /\ u = b
  <2>1. i.fils[p] = {a}
    BY <1>3 DEF Single
  <2> QED BY <1>1, <1>3, <2>1
<1>4. CASE f = p /\ u # b
  <2>1. u \in i.fils[p] /\ u # a
    BY <1>1, <1>4
  <2>2. i.op[u] # "body"
    BY <1>2, <1>4, <2>1
  <2>3. i.fils[p] = {u}
    BY <2>1, <2>2 DEF Single
  <2> QED BY <2>1, <2>3
<1>5. CASE f # p
  <2>1. j.fils[f] = i.fils[f] /\ u \in i.fils[f] /\ u # b
    BY <1>1, <1>5
  <2>2. u # a
    BY <1>5, <2>1 DEF Listed
  <2>3. i.op[u] # "body"
    BY <1>2, <2>1, <2>2
  <2> QED BY <2>1, <2>3 DEF Single
<1> QED BY <1>3, <1>4, <1>5

LEMMA BelowEqual ==
  ASSUME NEW i \in Intention, NEW j \in Intention, NEW o \in Tib,
         \A u \in Below(i, {o}) : j.fils[u] = i.fils[u]
  PROVE  Below(j, {o}) = Below(i, {o})
<1>1. Below(i, {o}) \in SUBSET Tib /\ o \in Below(i, {o})
        /\ \A u \in Below(i, {o}) : i.fils[u] \subseteq Below(i, {o})
  BY BelowSelf
<1>2. Below(j, {o}) \subseteq Below(i, {o})
  BY <1>1, BelowFewer
<1>3. Below(j, {o}) \in SUBSET Tib /\ o \in Below(j, {o})
        /\ \A u \in Below(j, {o}) : j.fils[u] \subseteq Below(j, {o})
  BY BelowSelf
<1>4. Below(i, {o}) \subseteq Below(j, {o})
  BY <1>2, <1>3, BelowFewer
<1> QED BY <1>2, <1>4

\* n takes the place of a thread that is suspended, outside the section.
LEMMA SectionSplits ==
  ASSUME NEW i \in Intention, NEW j \in Intention, TreeInv(i), SectionInv(i), Owned(i),
         NEW t, NEW n, Splits(i, j, t, n), i.status[t] = "SUSP_ACTIVE",
         j.section = i.section, j.opened = i.opened
  PROVE  SectionInv(j)
<1> DEFINE o == i.opened
           p == i.pere[t]
<1>1. n \in Tib /\ n \notin Live(i) /\ t \in Live(i) \ Behind(i) /\ t \in Tib
        /\ p \in Tib \cup {Top} /\ t \in i.fils[p]
  <2>1. n \in Free(i) /\ t \in Live(i) \ Behind(i)
    BY DEF Splits
  <2>2. t \in Tib /\ p \in Tib \cup {Top}
    BY <2>1, Fields DEF Live
  <2> QED BY <2>1, <2>2 DEF TreeInv, Tree, Free, Live
<1>2. /\ \A g \in Tib \cup {Top} : g # p => j.fils[g] = i.fils[g]
      /\ \A u \in Tib \ {n} : j.suspended[u] = i.suspended[u] /\ j.status[u] = i.status[u]
  <2>1. /\ j.fils = [i.fils EXCEPT ![p] = (i.fils[p] \ {t}) \cup {n}]
        /\ j.suspended = [i.suspended EXCEPT ![n] = t]
    BY DEF Splits
  <2>2. \A u \in Tib : j.status[u] = IF u = n THEN i.status[t] ELSE i.status[u]
    BY DEF Splits
  <2> QED BY <2>1, <2>2, Fields
<1>3. Live(i) \subseteq Live(j)
  BY <1>1, <1>2 DEF Live, Free
<1> HIDE DEF p
<1>4. CASE i.section = None
  BY <1>4 DEF SectionInv
<1>5. CASE i.section # None
  <2>1. o \in Live(i) /\ o \in Tib /\ o # None /\ Chain(i, o, i.section)
    BY <1>5 DEF Owned, SectionInv, Chain, Live
  <2>2. i.section \in Live(i) /\ i.fils[i.section] = {} /\ i.status[i.section] \in Executable
    BY <1>5 DEF SectionInv
  <2>3. \A u \in Below(i, {o}) : u \in Live(i) /\ ~Suspended(i, u)
    BY <2>1, ChainUnsuspended
  <2> HIDE DEF o
  <2>4. Below(i, {o}) \subseteq Tib \ {n, p}
    <3>1. Below(i, {o}) \subseteq Tib /\ \A u \in Below(i, {o}) : i.fils[u] \subseteq Below(i, {o})
      BY <2>1, BelowSelf
    <3>2. t \notin Below(i, {o})
      BY <2>3 DEF Suspended
    <3> QED BY <1>1, <2>3, <3>1, <3>2
  <2>5. Below(j, {o}) = Below(i, {o})
    BY <1>2, <2>1, <2>4, BelowEqual
  <2>6. Chain(j, o, i.section)
    BY <1>2, <1>3, <2>1, <2>4, <2>5 DEF Chain
  <2>7. i.section \in Tib \ {n, p}
    BY <2>1, <2>4 DEF Chain
  <2>8. j.section \in Live(j) /\ j.fils[j.section] = {} /\ j.status[j.section] \in Executable
    BY <1>2, <1>3, <2>2, <2>7
  <2> QED BY <1>5, <2>6, <2>8 DEF SectionInv, o
<1> QED BY <1>4, <1>5

LEMMA ProceduresSplit ==
  ASSUME NEW i \in Intention, NEW j \in Intention, TreeInv(i), Single(i), Restoring(i, {}),
         Watch(i, {}),
         NEW t \in i.watched, NEW n, Splits(i, j, t, n),
         \A u \in Tib : /\ j.op[u] = IF u = n THEN i.op[t] ELSE i.op[u]
                       /\ j.goal[u] = IF u = n THEN i.goal[t] ELSE i.goal[u]
  PROVE  Single(j) /\ Restoring(j, {})
<1> DEFINE p == i.pere[t]
<1>1. n \in Free(i) /\ t \in Live(i) \ Behind(i)
  BY DEF Splits
<1>2. t \in Tib /\ p \in Tib \cup {Top} /\ n \in Tib /\ n # t /\ t \in i.fils[p]
  BY <1>1, Fields DEF Live, Free, TreeInv, Tree
<1>3. /\ j.fils = [i.fils EXCEPT ![p] = (i.fils[p] \ {t}) \cup {n}]
      /\ j.suspended = [i.suspended EXCEPT ![n] = t]
  BY DEF Splits
<1>4. FreeSons(i, n) /\ \A f \in Tib \cup {Top} : n \notin i.fils[f]
  BY <1>1, FreeLeaf DEF TreeInv
<1>5. /\ \A u \in Tib \ {n} : j.op[u] = i.op[u] /\ j.goal[u] = i.goal[u]
           /\ j.suspended[u] = i.suspended[u]
      /\ j.op[n] = i.op[t] /\ j.goal[n] = i.goal[t] /\ j.suspended[n] = t
  BY <1>2, <1>3, Fields
<1>6. Single(j)
  <2>1. Listed(i)
    BY DEF TreeInv, Tree
  <2>2. j.fils = [i.fils EXCEPT ![p] = (i.fils[p] \ {t}) \cup {n}] /\ j.op[n] = i.op[t]
    BY <1>3, <1>5
  <2>3. \A u \in Tib \ {t, n} : j.op[u] = i.op[u]
    BY <1>5
  <2>4. n \in Tib /\ p \in Tib \cup {Top} /\ t \in i.fils[p]
    BY <1>2
  <2>5. (n \notin i.fils[p] \/ n = t) /\ \A f \in Tib \cup {Top} : n \notin i.fils[f]
    BY <1>4, <2>4
  <2> HIDE DEF p
  <2> QED BY <2>1, <2>2, <2>3, <2>4, <2>5, SingleReplaced
<1>7. ASSUME NEW m \in Tib, j.suspended[m] # None
      PROVE  /\ j.op[m] = j.op[j.suspended[m]]
             /\ j.op[m] = "body" \/ (j.op[m] = "action" /\ j.goal[m] # "none")
  <2>1. CASE m = n
    <3>1. i.op[t] = "body" \/ (i.op[t] = "action" /\ i.goal[t] # "none")
      BY DEF Watch
    <3> QED BY <1>2, <1>5, <2>1, <3>1
  <2>2. CASE m # n
    <3>1. i.suspended[m] # None /\ i.suspended[m] \in Tib \ {n} /\ j.suspended[m] = i.suspended[m]
      BY <1>4, <1>5, <1>7, <2>2, BehindTib DEF FreeSons, Behind
    <3> QED BY <1>5, <2>2, <3>1 DEF Restoring
  <2> QED BY <2>1, <2>2
<1> QED BY <1>6, <1>7 DEF Restoring

LEMMA ProceduresContinue ==
  ASSUME NEW i \in Intention, NEW j \in Intention, TreeInv(i), Single(i), Restoring(i, {}),
         NEW n, Ready(i, n), Continues(i, j, n),
         \A u \in Tib : j.op[u] = IF u = n THEN "body" ELSE i.op[u]
  PROVE  Single(j) /\ Restoring(j, {})
<1> DEFINE t == i.suspended[n]
           p == i.pere[n]
<1>1. /\ n \in Tib /\ t # None
      /\ j.fils = [i.fils EXCEPT ![p] = (i.fils[p] \ {n}) \cup {t}]
      /\ j.suspended = [i.suspended EXCEPT ![n] = None]
      /\ \A u \in Tib : j.goal[u] = IF u = n THEN "none" ELSE i.goal[u]
  BY DEF Continues
<1>2. t \in Tib /\ p \in Tib \cup {Top} /\ n \in i.fils[p] /\ n \notin Behind(i)
  BY <1>1, ReadyPlace, Fields
<1>3. t \in Behind(i) /\ t # n
  BY <1>1, <1>2 DEF Behind
<1>4. \A f \in Tib \cup {Top} : t \notin i.fils[f]
  BY <1>1 DEF TreeInv, Tree, Listed, Replaced
<1>5. Single(j)
  <2>1. j.op[t] = i.op[n] /\ \A u \in Tib \ {n, t} : j.op[u] = i.op[u]
    BY <1>1, <1>2, <1>3 DEF Restoring
  <2>2. Listed(i)
    BY DEF TreeInv, Tree
  <2> HIDE DEF t, p
  <2> QED BY <1>1, <1>2, <1>4, <2>1, <2>2, SingleReplaced
<1>6. ASSUME NEW m \in Tib, j.suspended[m] # None
      PROVE  /\ j.op[m] = j.op[j.suspended[m]]
             /\ j.op[m] = "body" \/ (j.op[m] = "action" /\ j.goal[m] # "none")
  <2>1. m # n /\ j.suspended[m] = i.suspended[m]
    BY <1>1, <1>6, Fields
  <2>2. i.suspended[m] \in Tib /\ i.suspended[m] # n
    BY <1>2, <1>6, <2>1, BehindTib DEF Behind
  <2> QED BY <1>1, <1>6, <2>1, <2>2 DEF Restoring
<1> QED BY <1>5, <1>6 DEF Restoring

-----------------------------------------------------------------------------
(* The invariant after a step *)

\* What is not mentioned here holds as before.
LEMMA SectionCall ==
  ASSUME NEW i, NEW t, NEW what \in Turn, Call(i, t, what),
         Sections(i, IF what \in {"satisfied", "failed"} THEN {t} ELSE {}),
         i.section # None => t = i.section,
         i.section # None /\ i.opened = None => what = "satisfied" /\ i.pere[t] = Top
  PROVE  SInv'
<1>1. in' = i /\ current' = t /\ phase' = what
  BY DEF Call
<1>2. Sections(in', Leaving')
  BY <1>1 DEF Leaving
<1>3. what # "choose"
  BY DEF Turn
<1>4. SectionTurn'
  BY <1>1, <1>3 DEF SectionTurn
<1> QED BY <1>2, <1>4 DEF SInv, Sections, SectionInv, Chain, Single, Restoring

LEMMA SectionExecuted ==
  ASSUME NEW i, Sections(i, {}), Owned(i), Executed(i) \/ Waits(i) \/ Ended(i)
  PROVE  SInv'
<1>1. in' = i /\ phase' = "choose"
  BY DEF Executed, Waits, Ended
<1>2. i.section # None => todo' = Nobody
  BY DEF Executed, Waits, Ended
<1>3. Sections(in', Leaving')
  BY <1>1 DEF Leaving
<1>4. \A t \in Tib : ~(Nobody[t] > 0)
  BY DEF Nobody
<1>5. SectionTurn'
  BY <1>1, <1>2, <1>4 DEF SectionTurn, Owned, Turn
<1> QED BY <1>3, <1>5 DEF SInv, Sections, SectionInv, Chain, Single, Restoring

LEMMA SectionSoaks ==
  ASSUME Sections(in', {}), Owned(in'), phase' \in {"soak", "intend"}
  PROVE  SInv'
<1>1. Sections(in', Leaving')
  BY DEF Leaving
<1>2. SectionTurn'
  BY DEF SectionTurn, Owned, Turn
<1> QED BY <1>1, <1>2 DEF SInv, Sections, SectionInv, Chain, Single, Restoring

LEMMA TurnSection ==
  ASSUME IInv, SInv, phase \in Turn
  PROVE  /\ Ready(in, current) /\ Sections(in, Leaving)
         /\ in.section # None => in.section = current
         /\ Owned(in) \/ (phase = "satisfied" /\ in.pere[current] = Top)
         /\ in.section = None => in.opened = None
         /\ phase \in {"run", "node", "body"} => Owned(in) /\ Sections(in, {}) /\ Watch(in, {})
<1>1. Ready(in, current) /\ Watch(in, Leaving)
  BY TurnReady
<1>2. Sections(in, Leaving) /\ (in.section # None => in.section = current)
  BY DEF SInv, SectionTurn
<1>3. Owned(in) \/ (phase = "satisfied" /\ in.pere[current] = Top)
  BY DEF SInv, SectionTurn, Owned
<1>4. in.section = None => in.opened = None
  BY <1>2 DEF Sections, SectionInv
<1> QED BY <1>1, <1>2, <1>3, <1>4 DEF Leaving

LEMMA BetweenSection ==
  ASSUME IInv, SInv, phase \notin Turn
  PROVE  /\ in \in Intention /\ TreeInv(in) /\ Watch(in, {}) /\ Sections(in, {}) /\ Owned(in)
         /\ in.section = None => in.opened = None
<1>1. in \in Intention /\ TreeInv(in) /\ Watch(in, Leaving) /\ Leaving = {}
  BY DEF IInv, TypeOK, WatchInv, Leaving, Turn
<1>2. Sections(in, {}) /\ Owned(in)
  BY <1>1 DEF SInv, SectionTurn, Owned, Turn
<1> QED BY <1>1, <1>2 DEF Sections, SectionInv

\* A restorer that leaves is looked at no more.
LEMMA SectionsLeaving ==
  ASSUME NEW i, NEW t, Sections(i, {})
  PROVE  Sections(i, {t})
BY DEF Sections, Restoring

\* The goal of the thread whose turn it is changes; its section stays or ends.
LEMMA GoalStepSection ==
  ASSUME NEW i, NEW t, Ready(i, t), Sections(i, {}), NEW j, GoalStep(i, j, t),
         \/ j.section = None /\ j.opened = None
         \/ j.section = i.section /\ j.opened = i.opened
  PROVE  /\ Sections(j, {t}) /\ (i.op[t] = "body" => Sections(j, {}))
         /\ (Owned(i) => Owned(j))
<1>1. i \in Intention /\ j \in Intention /\ t \in Tib
  BY DEF Ready, GoalStep
<1>2. /\ j.status = i.status /\ j.fils = i.fils /\ j.suspended = i.suspended /\ j.op = i.op
      /\ \A u \in Tib \ {t} : j.goal[u] = i.goal[u]
  BY DEF GoalStep, Same, Field
<1>3. SectionInv(j)
  BY <1>1, <1>2, SectionStays DEF Sections, SectionInv
<1>4. Single(i) /\ Restoring(i, {})
  BY DEF Sections
<1>5. Single(j) /\ Restoring(j, {t})
  <2>1. \A u \in Tib \ {t} : i.op[u] = "action" /\ i.goal[u] # "none" => j.goal[u] # "none"
    BY <1>2
  <2> QED BY <1>1, <1>2, <1>4, <2>1, ProceduresStay
<1>6. ASSUME i.op[t] = "body" PROVE Restoring(j, {})
  <2>1. \A u \in Tib \ {} : i.op[u] = "action" /\ i.goal[u] # "none" => j.goal[u] # "none"
    BY <1>2, <1>6
  <2> QED BY <1>1, <1>2, <1>4, <2>1, ProceduresStay
<1> QED BY <1>3, <1>5, <1>6 DEF Sections, Owned

-----------------------------------------------------------------------------
(* The steps of a turn in which no thread comes or goes *)

LEMMA CallsSection ==
  ASSUME IInv, SInv,
         execute_intention_goal_satisfied_in_db \/ StartBody \/ PlainNode \/ NoEdge
  PROVE  SInv'
<1>1. phase \in {"run", "node", "body"}
  BY DEF execute_intention_goal_satisfied_in_db, StartBody, PlainNode, NoEdge, Running
<1>2. /\ Sections(in, {}) /\ Owned(in)
      /\ in.section # None => in.section = current
  BY <1>1, TurnSection DEF Turn
<1>3. PICK what \in {"satisfied", "body"} : Call(in, current, what)
  BY DEF execute_intention_goal_satisfied_in_db, StartBody, PlainNode, NoEdge
<1>4. Sections(in, IF what \in {"satisfied", "failed"} THEN {current} ELSE {})
  BY <1>2, SectionsLeaving
<1>5. what \in Turn
  BY DEF Turn
<1> QED BY <1>2, <1>3, <1>4, <1>5, SectionCall DEF Owned

LEMMA ActionEndsSection ==
  ASSUME IInv, SInv, ActionEnds
  PROVE  SInv'
<1> DEFINE i == [in EXCEPT !.goal[current] = "none"]
<1>1. phase = "run"
  BY DEF ActionEnds, Running
<1>2. /\ Ready(in, current) /\ Sections(in, {}) /\ Owned(in) /\ in \in Intention /\ current \in Tib
      /\ in.section # None => in.section = current
  BY <1>1, TurnSection DEF Turn, Ready
<1>3. PICK what \in {"satisfied", "failed"} : Call(i, current, what)
  BY DEF ActionEnds
<1>4. GoalStep(in, i, current) /\ Same(in, i, {"goal"})
  BY <1>2, SetGoalStep, SetGoal, Literals
<1> HIDE DEF i
<1>5. i.section = in.section /\ i.opened = in.opened
  BY <1>4 DEF Same, Field
<1>6. Sections(i, {current})
  BY <1>2, <1>4, <1>5, GoalStepSection
<1>7. Sections(i, IF what \in {"satisfied", "failed"} THEN {current} ELSE {}) /\ what \in Turn
  BY <1>6 DEF Turn
<1> QED BY <1>2, <1>3, <1>5, <1>7, SectionCall DEF Owned

\* An action has no brothers, and the father that opens the section is below no
\* restorer: nothing is suspended behind it.
LEMMA BeginSection ==
  ASSUME IInv, SInv, begin_critical_section, "restore" \notin Risks
  PROVE  SInv'
<1> DEFINE f == in.pere[current]
           o == IF f = Top THEN None ELSE f
           i == [in EXCEPT !.section = current, !.opened = o]
<1>1. /\ phase = "run" /\ in.op[current] = "action" /\ in.goal[current] = "none" /\ in.opened = None
      /\ ~Restores(current) /\ Call(i, current, "satisfied")
  BY DEF begin_critical_section, Running
<1>2. /\ Ready(in, current) /\ Sections(in, {}) /\ Owned(in) /\ in \in Intention /\ current \in Tib
      /\ in.status[current] = "ACTIVE" /\ in.fils[current] = {}
  BY <1>1, TurnSection DEF Turn, Ready
<1>3. /\ f \in Tib \cup {Top} /\ current \in in.fils[f] /\ current \in Live(in)
      /\ f \in Live(in) \cup {Top} /\ None \notin Tib
  BY <1>2, ReadyPlace, TibAssumption
<1>4. in.fils[f] = {current}
  BY <1>1, <1>2, <1>3 DEF Sections, Single
<1>5. in.suspended[current] = None
  BY <1>1, <1>2 DEF Sections, Restoring
<1>6. f # Top => f \in Live(in) /\ in.suspended[f] = None
  BY <1>1, <1>3 DEF Restores
<1>7. o \in Tib \cup {None}
  BY <1>3
<1> HIDE DEF o
<1>8. i \in Intention /\ Same(in, i, {"section", "opened"}) /\ i.section = current /\ i.opened = o
  <2>1. Begun(in, i, current, o)
    BY <1>2, <1>7, SetBoth
  <2> HIDE DEF i
  <2> QED BY <2>1 DEF Begun
<1> HIDE DEF i
<1>9. /\ i.fils = in.fils /\ i.suspended = in.suspended /\ i.status = in.status /\ i.op = in.op
      /\ i.goal = in.goal /\ i.pere = in.pere
  BY <1>8 DEF Same, Field
<1>10. Live(i) = Live(in)
  BY <1>9 DEF Live, Free
<1>11. ASSUME o # None PROVE Chain(i, o, current)
  <2>1. o = f /\ f # Top /\ f \in Tib /\ f \in Live(in) /\ in.suspended[f] = None
    BY <1>3, <1>6, <1>11 DEF o
  <2> HIDE DEF f
  <2> DEFINE D == {f, current}
  <2>2. D \in SUBSET Tib /\ f \in D /\ \A u \in D : i.fils[u] \subseteq D
    BY <1>2, <1>4, <1>9, <2>1
  <2>3. Below(i, {f}) \subseteq D
    <3> HIDE DEF D
    <3> QED BY <1>8, <2>1, <2>2, BelowFewer
  <2>4. current \in Below(i, {f})
    <3>1. f \in Below(i, {f}) /\ i.fils[f] \subseteq Below(i, {f})
      BY <1>8, <2>1, BelowSelf
    <3> QED BY <1>4, <1>9, <3>1
  <2>5. \A u \in D : i.suspended[u] = None /\ \A t \in i.fils[u] : i.fils[u] = {t}
    BY <1>2, <1>4, <1>5, <1>9, <2>1
  <2> QED BY <1>10, <2>1, <2>3, <2>4, <2>5 DEF Chain
<1>12. SectionInv(i)
  BY <1>2, <1>3, <1>8, <1>9, <1>10, <1>11 DEF SectionInv, Executable
<1>13. Sections(i, {current})
  BY <1>2, <1>9, <1>12 DEF Sections, Single, Restoring
<1>14. Sections(i, IF "satisfied" \in {"satisfied", "failed"} THEN {current} ELSE {})
         /\ "satisfied" \in Turn
  BY <1>13 DEF Turn
<1>15. i.opened = None => i.pere[current] = Top
  BY <1>3, <1>8, <1>9 DEF o
<1> QED BY <1>1, <1>8, <1>14, <1>15, SectionCall DEF i

LEMMA EndsSection ==
  ASSUME IInv, SInv, action_end_cs
  PROVE  SInv'
<1> DEFINE i == end_critical_section(in)
<1>1. phase = "run" /\ Call(i, current, "satisfied")
  BY DEF action_end_cs, Running
<1>2. /\ Ready(in, current) /\ Sections(in, {}) /\ Watch(in, {}) /\ in \in Intention
           /\ current \in Tib
  BY <1>1, TurnSection DEF Turn, Ready
<1>3. i \in Intention /\ Same(in, i, {"section", "opened"}) /\ i.section = None /\ i.opened = None
  BY <1>2, EndSection
<1> HIDE DEF i
<1>4. GoalStep(in, i, current)
  BY <1>2, <1>3, WatchLeaving, SectionStep
<1>5. Sections(i, {current})
  BY <1>2, <1>3, <1>4, GoalStepSection
<1>6. Sections(i, IF "satisfied" \in {"satisfied", "failed"} THEN {current} ELSE {})
        /\ "satisfied" \in Turn
  BY <1>5 DEF Turn
<1> QED BY <1>1, <1>3, <1>6, SectionCall DEF i

LEMMA GoalsSection ==
  ASSUME IInv, SInv, PostRestoringGoal \/ GoalFailed \/ GoalAchieved \/ GoalOpen \/ PostFirst
  PROVE  SInv'
<1>1. phase \in {"run", "body"} /\ in.op[current] = "body"
  BY DEF PostRestoringGoal, GoalFailed, GoalAchieved, GoalOpen, PostFirst, GoalIs, Running, IInv,
     TurnInv, Turn
<1>2. /\ Ready(in, current) /\ Sections(in, {}) /\ Owned(in) /\ Watch(in, {})
      /\ in \in Intention /\ current \in Tib
      /\ in.section # None => in.section = current
  BY <1>1, TurnSection DEF Turn, Ready
\* A step of the goal of current that leaves the section alone.
<1>3. ASSUME NEW k, Ready(k, current), k.op[current] = "body", Sections(k, {}), Owned(k),
             k.section # None => k.section = current,
             NEW i, GoalStep(k, i, current), i.section = k.section, i.opened = k.opened
      PROVE  /\ Sections(i, {}) /\ Owned(i) /\ (i.section # None => i.section = current)
             /\ Executed(i) => SInv'
             /\ \A what \in {"run", "node", "failed"} : Call(i, current, what) => SInv'
  <2>1. Sections(i, {}) /\ Owned(i) /\ (i.section # None => i.section = current)
    BY <1>3, GoalStepSection
  <2>2. Executed(i) => SInv'
    BY <2>1, SectionExecuted
  <2>3. ASSUME NEW what \in {"run", "node", "failed"}, Call(i, current, what) PROVE SInv'
    <3>1. Sections(i, IF what \in {"satisfied", "failed"} THEN {current} ELSE {}) /\ what \in Turn
      BY <2>1, SectionsLeaving DEF Turn
    <3> QED BY <2>1, <2>3, <3>1, SectionCall DEF Owned
  <2> QED BY <2>1, <2>2, <2>3
<1>4. "posted" \in GoalState /\ "achieved" \in GoalState /\ "none" \in GoalState
  BY Literals
<1>5. ASSUME NEW g \in GoalState
      PROVE  LET i == [in EXCEPT !.goal[current] = g]
             IN  GoalStep(in, i, current) /\ i.section = in.section /\ i.opened = in.opened
  <2> DEFINE i == [in EXCEPT !.goal[current] = g]
  <2>1. GoalStep(in, i, current) /\ Same(in, i, {"goal"})
    BY <1>1, <1>2, <1>5, SetGoalStep, SetGoal
  <2> HIDE DEF i
  <2>2. i.section = in.section /\ i.opened = in.opened
    BY <2>1 DEF Same, Field
  <2> QED BY <2>1, <2>2 DEF i
<1>6. ASSUME NEW g \in GoalState
      PROVE  LET i == [desinstall_maintain(in, current) EXCEPT !.goal[current] = g]
             IN  GoalStep(in, i, current) /\ i.section = in.section /\ i.opened = in.opened
  <2> DEFINE i == [desinstall_maintain(in, current) EXCEPT !.goal[current] = g]
  <2>1. GoalStep(in, i, current) /\ Same(in, i, {"watched", "maintain", "goal"})
    BY <1>1, <1>2, <1>6, GoalOverStep, GoalOverFields
  <2> HIDE DEF i
  <2>2. i.section = in.section /\ i.opened = in.opened
    BY <2>1 DEF Same, Field
  <2> QED BY <2>1, <2>2 DEF i
<1>7. CASE PostFirst
  <2>1. ASSUME NEW g \in {"posted", "achieved"},
               \/ Executed([in EXCEPT !.goal[current] = g])
               \/ Call([in EXCEPT !.goal[current] = g], current, "run")
        PROVE  SInv'
    <3> DEFINE i == [in EXCEPT !.goal[current] = g]
    <3>1. GoalStep(in, i, current) /\ i.section = in.section /\ i.opened = in.opened
      BY <1>4, <1>5
    <3> HIDE DEF i
    <3> QED BY <1>1, <1>2, <1>3, <2>1, <3>1 DEF i
  <2> QED BY <1>7, <2>1 DEF PostFirst
<1>8. CASE GoalOpen
  <2> DEFINE i == [desinstall_maintain(in, current) EXCEPT !.goal[current] = "posted"]
  <2>1. GoalStep(in, i, current) /\ i.section = in.section /\ i.opened = in.opened
    BY <1>4, <1>6
  <2>2. Executed(i)
    BY <1>8 DEF GoalOpen
  <2> HIDE DEF i
  <2> QED BY <1>1, <1>2, <1>3, <2>1, <2>2
<1>9. GoalStep(in, GoalOver, current) /\ GoalOver.section = in.section
        /\ GoalOver.opened = in.opened
  BY <1>4, <1>6 DEF GoalOver
<1>10. /\ Executed(GoalOver) => SInv'
       /\ \A what \in {"run", "node", "failed"} : Call(GoalOver, current, what) => SInv'
       /\ Sections(GoalOver, {}) /\ Owned(GoalOver)
       /\ GoalOver.section # None => GoalOver.section = current
  BY <1>1, <1>2, <1>3, <1>9
<1>11. CASE GoalAchieved
  BY <1>10, <1>11 DEF GoalAchieved
<1>12. CASE GoalFailed
  <2>1. CASE Call(GoalOver, current, "node") \/ Call(GoalOver, current, "failed")
    BY <1>10, <2>1
  <2>2. ASSUME NEW state \in {"posted", "achieved"},
               Executed([GoalOver EXCEPT !.goal[current] = state])
        PROVE  SInv'
    <3> DEFINE i == [GoalOver EXCEPT !.goal[current] = state]
    <3>1. Ready(GoalOver, current) /\ GoalOver.op[current] = "body" /\ GoalOver \in Intention
      <4>1. Watch(in, {current}) /\ GoalStep(in, GoalOver, current)
        BY <1>2, <1>9, WatchLeaving
      <4>2. Ready(GoalOver, current) /\ GoalOver.op = in.op
        BY <1>2, <4>1, GoalStepReady
      <4> QED BY <1>1, <4>2 DEF Ready
    <3>2. GoalStep(GoalOver, i, current) /\ Same(GoalOver, i, {"goal"})
      BY <1>2, <1>4, <3>1, SetGoalStep, SetGoal
    <3> HIDE DEF i
    <3>3. i.section = GoalOver.section /\ i.opened = GoalOver.opened
      BY <3>2 DEF Same, Field
    <3> QED BY <1>3, <1>10, <2>2, <3>1, <3>2, <3>3 DEF i
  <2> QED BY <1>12, <2>1, <2>2 DEF GoalFailed
<1>13. CASE PostRestoringGoal
  <2> DEFINE i == [in EXCEPT !.goal[current] = "posted", !.broken = @ \ {current}]
  <2>1. /\ i \in Intention /\ Same(in, i, {"goal", "broken"})
        /\ i.goal = [in.goal EXCEPT ![current] = "posted"] /\ i.broken = in.broken \ {current}
    BY <1>2, PostedFields
  <2>2. Executed(in) \/ Executed(i)
    BY <1>13 DEF PostRestoringGoal
  <2> HIDE DEF i
  <2>3. /\ i.watched = in.watched /\ i.maintain = in.maintain
        /\ Same(in, i, {"goal", "broken", "watched", "maintain", "section", "opened"})
        /\ i.section = in.section /\ i.opened = in.opened
    BY <2>1 DEF Same, Field
  <2>4. \A u \in Tib \ {current} : i.goal[u] = in.goal[u]
    BY <1>2, <2>1, Fields
  <2>5. GoalStep(in, i, current)
    BY <1>1, <2>1, <2>3, <2>4 DEF GoalStep
  <2>6. Executed(in) => SInv'
    BY <1>2, SectionExecuted
  <2> QED BY <1>1, <1>2, <1>3, <2>2, <2>3, <2>5, <2>6
<1> QED BY <1>7, <1>8, <1>11, <1>12, <1>13

\* The thread of a section may sleep, or wait in its action.
LEMMA WaitsSection ==
  ASSUME IInv, SInv, execute_intention_goal_waiting \/ ActionWaits
  PROVE  SInv'
<1>1. phase = "run" /\ in.op[current] \in {"waiting", "action"}
  BY DEF execute_intention_goal_waiting, ActionWaits, Running
<1>2. /\ Ready(in, current) /\ Sections(in, {}) /\ Owned(in) /\ Watch(in, {})
      /\ in \in Intention /\ current \in Tib
      /\ in.section # None => in.section = current
  BY <1>1, TurnSection DEF Turn, Ready
<1>3. ASSUME NEW i, i \in Intention, Same(in, i, {"op"}), Single(i), Restoring(i, {}),
             NEW s \in {"SLEEPING", "ACTION_WAIT"}, NEW j, Asleep(i, j, current, s), Waits(j)
      PROVE  SInv'
  <2>1. /\ j \in Intention /\ Same(i, j, {"status", "active", "asleep", "waits"})
        /\ j.status = [i.status EXCEPT ![current] = s]
    BY <1>3 DEF Asleep
  <2>2. i.status = in.status /\ i.section = in.section /\ i.opened = in.opened
          /\ i.fils = in.fils /\ i.suspended = in.suspended
    BY <1>3 DEF Same, Field
  <2>3. /\ j.section = i.section /\ j.opened = i.opened /\ j.fils = i.fils
             /\ j.suspended = i.suspended
        /\ j.op = i.op /\ j.goal = i.goal
    BY <2>1 DEF Same, Field
  <2>4. /\ j.status[current] = s /\ \A u \in Tib \ {current} : j.status[u] = in.status[u]
    BY <1>2, <1>3, <2>1, <2>2, Fields
  <2>5. SectionInv(j)
    <3>1. SectionInv(in)
      BY <1>2 DEF Sections
    <3>2. j.fils = in.fils /\ j.suspended = in.suspended /\ j.section = in.section
            /\ j.opened = in.opened
      BY <2>2, <2>3
    <3>3. s # "free" /\ s \in Executable
      BY DEF Executable
    <3>4. \A u \in Tib : in.status[u] # "free" => j.status[u] # "free"
      BY <2>4, <3>3
    <3>5. j.section # None => j.status[j.section] \in Executable
      BY <1>2, <2>4, <3>2, <3>3
    <3> QED BY <1>2, <2>1, <3>1, <3>2, <3>4, <3>5, SectionStays
  <2>6. Single(j) /\ Restoring(j, {})
    BY <1>3, <2>3 DEF Single, Restoring
  <2>7. Owned(j)
    BY <1>2, <2>2, <2>3 DEF Owned
  <2> QED BY <1>3, <2>5, <2>6, <2>7, SectionExecuted DEF Sections
<1>4. CASE ActionWaits
  <2> DEFINE j == asleep_tib(in, current, "ACTION_WAIT")
  <2>1. Asleep(in, j, current, "ACTION_WAIT") /\ Waits(j)
    BY <1>2, <1>4, AsleepFields, Literals DEF ActionWaits
  <2>2. Same(in, in, {"op"})
    BY DEF Same
  <2> HIDE DEF j
  <2> QED BY <1>2, <1>3, <2>1, <2>2 DEF Sections
<1>5. CASE execute_intention_goal_waiting
  <2> DEFINE i == [in EXCEPT !.op[current] = "in db"]
             j == asleep_tib(i, current, "SLEEPING")
  <2>1. i \in Intention /\ Same(in, i, {"op"}) /\ i.op = [in.op EXCEPT ![current] = "in db"]
    BY <1>2, SetOp, Literals
  <2>2. in.op[current] = "waiting" /\ Waits(j)
    BY <1>5 DEF execute_intention_goal_waiting, Running
  <2> HIDE DEF i
  <2>3. Asleep(i, j, current, "SLEEPING")
    BY <1>2, <2>1, AsleepFields, Literals
  <2> HIDE DEF j
  <2>4. i.fils = in.fils /\ i.suspended = in.suspended /\ i.goal = in.goal
    BY <2>1 DEF Same, Field
  <2>5. i.op[current] = "in db" /\ \A u \in Tib \ {current} : i.op[u] = in.op[u]
    BY <1>2, <2>1, Fields
  <2>6. Single(i)
    <3> SUFFICES ASSUME NEW f \in Tib \cup {Top}, NEW u \in in.fils[f], i.op[u] # "body"
                 PROVE  in.fils[f] = {u}
      BY <2>4 DEF Single
    <3>1. u \in Tib
      BY <1>2, Fields
    <3>2. in.op[u] # "body"
      BY <2>2, <2>5, <3>1
    <3> QED BY <1>2, <3>2 DEF Sections, Single
  <2>7. Restoring(i, {})
    <3> SUFFICES ASSUME NEW n \in Tib, in.suspended[n] # None
                 PROVE  /\ i.op[n] = i.op[in.suspended[n]]
                        /\ i.op[n] = "body" \/ (i.op[n] = "action" /\ in.goal[n] # "none")
      BY <2>4 DEF Restoring
    <3>1. /\ in.op[n] = in.op[in.suspended[n]] /\ in.suspended[n] \in Tib
          /\ in.op[n] = "body" \/ (in.op[n] = "action" /\ in.goal[n] # "none")
      BY <1>2, Fields DEF Sections, Restoring
    <3>2. n # current /\ in.suspended[n] # current
      BY <2>2, <3>1
    <3> QED BY <2>5, <3>1, <3>2
  <2> QED BY <1>3, <2>1, <2>2, <2>3, <2>6, <2>7
<1> QED BY <1>4, <1>5

LEMMA JoiningSection ==
  ASSUME NEW i \in Intention, NEW t \in Tib
  PROVE  LET out == IF i.section = t THEN end_critical_section(i) ELSE i
             j == check_last_active_tib(
                    remove_from_active_tib([out EXCEPT !.status[t] = "JOINING"], t))
         IN  /\ j.section = IF i.section = t THEN None ELSE i.section
             /\ j.opened = IF i.section = t THEN None ELSE i.opened
<1> DEFINE out == IF i.section = t THEN end_critical_section(i) ELSE i
           k == remove_from_active_tib([out EXCEPT !.status[t] = "JOINING"], t)
           j == check_last_active_tib(k)
<1>1. /\ out \in Intention
      /\ out.section = IF i.section = t THEN None ELSE i.section
      /\ out.opened = IF i.section = t THEN None ELSE i.opened
  BY EndSection
<1> HIDE DEF out
<1>2. k \in Intention /\ Same(out, k, {"status", "active"})
  BY <1>1, JoinFields, Literals
<1> HIDE DEF k
<1>3. Same(k, j, {"asleep"})
  BY <1>2, CheckLast
<1> HIDE DEF j
<1>4. j.section = out.section /\ j.opened = out.opened
  BY <1>2, <1>3 DEF Same, Field
<1> QED BY <1>1, <1>4 DEF j, k, out

LEMMA JoinSection ==
  ASSUME IInv, SInv, Join
  PROVE  SInv'
<1> DEFINE out == IF in.section = current THEN end_critical_section(in) ELSE in
           j == check_last_active_tib(
                  remove_from_active_tib([out EXCEPT !.status[current] = "JOINING"], current))
<1>1. phase = "node" /\ Waits(j)
  BY DEF Join
<1>2. /\ Ready(in, current) /\ Sections(in, {}) /\ Owned(in)
      /\ in \in Intention /\ current \in Tib
      /\ in.section # None => in.section = current
      /\ in.section = None => in.opened = None
  BY <1>1, TurnSection DEF Turn, Ready
<1>3. /\ j \in Intention /\ Same(in, j, {"status", "active", "asleep", "section", "opened"})
      /\ j.status = [in.status EXCEPT ![current] = "JOINING"]
  BY <1>2, JoiningFields
<1>4. /\ j.section = IF in.section = current THEN None ELSE in.section
      /\ j.opened = IF in.section = current THEN None ELSE in.opened
  BY <1>2, JoiningSection
<1> HIDE DEF j
<1>5. j.section = None /\ j.opened = None
  BY <1>2, <1>4
<1>6. j.fils = in.fils /\ j.suspended = in.suspended /\ j.op = in.op /\ j.goal = in.goal
  BY <1>3 DEF Same, Field
<1>7. Sections(j, {}) /\ Owned(j)
  BY <1>2, <1>5, <1>6 DEF Sections, SectionInv, Single, Restoring, Owned
<1> QED BY <1>1, <1>7, SectionExecuted

LEMMA ActionIntendsSection ==
  ASSUME IInv, SInv, ActionIntends
  PROVE  SInv'
<1> DEFINE i == [in EXCEPT !.goal[current] = "open"]
<1>1. phase = "run" /\ in.op[current] = "action"
  BY DEF ActionIntends, Running
<1>2. /\ Ready(in, current) /\ Sections(in, {}) /\ Owned(in) /\ Watch(in, {})
      /\ in \in Intention /\ current \in Tib
  BY <1>1, TurnSection DEF Turn, Ready
<1>3. PICK n \in Free(in), op \in Op, maintain \in Maintain :
        Executed(intend_op_in_thread_intention_block(i, current, n, op, maintain))
  BY DEF ActionIntends
<1>4. GoalStep(in, i, current) /\ i.goal = [in.goal EXCEPT ![current] = "open"]
        /\ Same(in, i, {"goal"})
  BY <1>2, SetGoalStep, SetGoal, Literals
<1> HIDE DEF i
<1>5. i.section = in.section /\ i.opened = in.opened /\ i.op = in.op /\ i.status = in.status
        /\ i.suspended = in.suspended
  BY <1>4 DEF Same, Field
<1>6. Watch(in, {current})
  BY <1>2, WatchLeaving
<1>7. Ready(i, current)
  BY <1>2, <1>4, <1>6, GoalStepReady
<1>8. Sections(i, {current}) /\ Owned(i)
  BY <1>2, <1>4, <1>5, GoalStepSection
<1>9. i.goal[current] = "open"
  BY <1>2, <1>4, Fields
<1>10. Sections(i, {})
  BY <1>1, <1>5, <1>8, <1>9 DEF Sections, Restoring
<1>11. n \in Free(i) /\ n \in Tib
  BY <1>5 DEF Free
<1> DEFINE j == intend_op_in_thread_intention_block(i, current, n, op, maintain)
<1>12. Intended(i, j, current, n, op, maintain)
  BY <1>2, <1>7, <1>11, IntendFields DEF Ready
<1>13. Executed(j)
  BY <1>3
<1> HIDE DEF j
<1>14. Sections(j, {}) /\ Owned(j)
  BY <1>7, <1>8, <1>10, <1>11, <1>12, SectionIntended
<1> QED BY <1>13, <1>14, SectionExecuted

\* No thread splits in a section.
LEMMA MakeThreadsSection ==
  ASSUME IInv, SInv, make_new_threads_and_post_goals, "split" \notin Risks
  PROVE  SInv'
<1>1. phase = "body" /\ in.op[current] = "body" /\ in.section = None
  BY DEF make_new_threads_and_post_goals, IInv, TurnInv, Turn
<1>2. /\ Ready(in, current) /\ Sections(in, {}) /\ in \in Intention /\ current \in Tib
           /\ in.opened = None
      /\ TreeInv(in)
  BY <1>1, TurnSection DEF Turn, Ready
<1> DEFINE f == in.pere[current]
<1>3. PICK n \in Free(in), first \in GoalState, second \in GoalState :
        Executed(add_in_active_tib(
          [in EXCEPT
            !.status[n] = "ACTIVE", !.pere[n] = in.pere[current], !.op[n] = "body",
            !.fils[in.pere[current]] = @ \cup {n},
            !.goal = [@ EXCEPT ![current] = first, ![n] = second]], n))
  BY Literals DEF make_new_threads_and_post_goals
<1> DEFINE j == add_in_active_tib(
                  [in EXCEPT
                    !.status[n] = "ACTIVE", !.pere[n] = in.pere[current], !.op[n] = "body",
                    !.fils[in.pere[current]] = @ \cup {n},
                    !.goal = [@ EXCEPT ![current] = first, ![n] = second]], n)
<1>4. n \in Tib /\ f \in Tib \cup {Top} /\ current \in in.fils[f]
  BY <1>2, ReadyPlace DEF Free
<1>5. NewBrother(in, j, current, n, first, second)
  BY <1>2, <1>4, BrotherFields
<1> HIDE DEF j
<1>6. /\ j.op = [in.op EXCEPT ![n] = "body"]
      /\ j.fils = [in.fils EXCEPT ![f] = in.fils[f] \cup {n}]
      /\ j.goal = [in.goal EXCEPT ![current] = first, ![n] = second]
      /\ j.suspended = in.suspended /\ j.section = None /\ j.opened = None
  BY <1>1, <1>2, <1>5 DEF NewBrother, Same, Field
<1>7. FreeSons(in, n) /\ \A g \in Tib \cup {Top} : n \notin in.fils[g]
  BY <1>2, FreeLeaf DEF TreeInv
<1> HIDE DEF f
<1>8. /\ \A g \in Tib \cup {Top} : j.fils[g] = IF g = f THEN in.fils[g] \cup {n} ELSE in.fils[g]
      /\ \A u \in Tib : j.op[u] = IF u = n THEN "body" ELSE in.op[u]
      /\ \A u \in Tib \ {n, current} : j.goal[u] = in.goal[u]
  <2>1. /\ in.fils \in [Tib \cup {Top} -> SUBSET Tib]
        /\ in.op \in [Tib -> Op] /\ in.goal \in [Tib -> GoalState]
    BY <1>2, Fields
  <2>2. \A g \in Tib \cup {Top} : j.fils[g] = IF g = f THEN in.fils[g] \cup {n} ELSE in.fils[g]
    BY <1>6, <2>1
  <2>3. \A u \in Tib : j.op[u] = IF u = n THEN "body" ELSE in.op[u]
    BY <1>6, <2>1
  <2>4. \A u \in Tib \ {n, current} : j.goal[u] = in.goal[u]
    BY <1>6, <2>1
  <2> QED BY <2>2, <2>3, <2>4
<1>9. Single(j)
  <2> SUFFICES ASSUME NEW g \in Tib \cup {Top}, NEW u \in j.fils[g], j.op[u] # "body"
               PROVE  j.fils[g] = {u}
    BY DEF Single
  <2>1. u # n /\ u \in in.fils[g]
    BY <1>4, <1>8
  <2>2. in.op[u] # "body" /\ u \in Tib
    BY <1>2, <1>8, <2>1, Fields
  <2>3. in.fils[g] = {u}
    BY <1>2, <2>1, <2>2 DEF Sections, Single
  <2>4. g # f
    BY <1>1, <1>4, <2>2, <2>3
  <2> QED BY <1>8, <2>3, <2>4
<1>10. Restoring(j, {})
  <2> SUFFICES ASSUME NEW m \in Tib, in.suspended[m] # None
               PROVE  /\ j.op[m] = j.op[in.suspended[m]]
                      /\ j.op[m] = "body" \/ (j.op[m] = "action" /\ j.goal[m] # "none")
    BY <1>6 DEF Restoring
  <2>1. /\ in.op[m] = in.op[in.suspended[m]]
        /\ in.op[m] = "body" \/ (in.op[m] = "action" /\ in.goal[m] # "none")
    BY <1>2 DEF Sections, Restoring
  <2>2. m # n /\ in.suspended[m] # n /\ in.suspended[m] \in Tib
    BY <1>2, <1>7, BehindTib DEF FreeSons, Behind
  <2> QED BY <1>1, <1>8, <2>1, <2>2
<1>11. Sections(j, {}) /\ Owned(j)
  BY <1>6, <1>9, <1>10 DEF Sections, SectionInv, Owned
<1> QED BY <1>3, <1>11, SectionExecuted DEF j

-----------------------------------------------------------------------------
(* The steps in which threads are removed *)

\* Sons of f are removed, of a chain only when its opener is removed with them.
LEMMA RemoveSections ==
  ASSUME NEW i \in Intention, TreeInv(i), NEW f \in Live(i) \cup {Top}, NEW S,
         S \subseteq i.fils[f],
         ~Resumed(i, f, S), NEW X, Watch(i, X), Sections(i, X), X \subseteq S,
         i.section = None => i.opened = None,
         i.opened # None /\ f \in Below(i, {i.opened}) => i.section \notin RemovedWith(i, S)
  PROVE  LET j == remove_and_free_tib_list(i, S)
         IN  /\ Sections(j, {}) /\ (j.section = None => j.opened = None)
             /\ Owned(i) \/ i.section \in RemovedWith(i, S) => Owned(j)
             /\ j.section \in {None, i.section}
<1> DEFINE j == remove_and_free_tib_list(i, S)
           gone == RemovedWith(i, S)
<1>1. /\ j \in Intention /\ Removes(i, j, f, S)
  BY RemoveOnlyTree
<1>2. f \in Tib \cup {Top} /\ S \in SUBSET Tib /\ Tree(i)
  BY Fields DEF Live, TreeInv
<1>3. Gone(i, f, S, gone)
  BY <1>2, RemovedGone
<1>4. gone \subseteq Tib /\ None \notin gone
  <2>1. gone \subseteq Tib
    BY DEF RemovedWith, Closure
  <2> HIDE DEF gone
  <2> QED BY <2>1, TibAssumption
<1>5. /\ j.section = IF i.opened \in gone \/ i.section \in gone THEN None ELSE i.section
      /\ j.opened = IF i.opened \in gone THEN None ELSE i.opened
  <2>1. i.opened # None => i.section # None
    OBVIOUS
  <2> QED BY <1>2, <2>1, RemoveSection
<1> HIDE DEF j, gone
<1>6. i.opened # None /\ i.section \in gone => i.opened \in gone
  <2> SUFFICES ASSUME i.opened # None, i.section \in gone, i.opened \notin gone PROVE FALSE
    OBVIOUS
  <2>1. PICK o : o = i.opened
    OBVIOUS
  <2>2. PICK s : s = i.section
    OBVIOUS
  <2>3. o \in Tib /\ s \in Below(i, {o})
    BY <2>1, <2>2 DEF Sections, SectionInv, Chain, Live
  <2>4. f \in Below(i, {o})
    BY <1>2, <1>3, <2>1, <2>2, <2>3, GoneBelow
  <2> QED BY <2>1, <2>4 DEF gone
<1>7. \/ j.section = None /\ j.opened = None
      \/ j.section = i.section /\ j.opened = i.opened /\ i.section # None /\ i.section \notin gone
  BY <1>4, <1>5, <1>6
<1>8. SectionInv(i) /\ Single(i) /\ Restoring(i, X)
  BY DEF Sections
<1>9. SectionInv(j)
  BY <1>1, <1>7, <1>8, SectionRemoves DEF gone
<1>10. Single(j) /\ Restoring(j, {})
  BY <1>1, <1>8, ProceduresRemove
<1>11. Owned(i) \/ i.section \in gone => Owned(j)
  BY <1>7 DEF Owned
<1> QED BY <1>7, <1>9, <1>10, <1>11 DEF Sections, j, gone

\* Top is below no thread: with all its sons a section goes as a whole.
LEMMA RemoveAll ==
  ASSUME NEW i \in Intention, TreeInv(i), NEW S, S \subseteq i.fils[Top],
         NEW X, Watch(i, X), Sections(i, X), X \subseteq S, i.section = None => i.opened = None
  PROVE  LET j == remove_and_free_tib_list(i, S)
         IN  /\ Sections(j, {}) /\ (j.section = None => j.opened = None)
             /\ Owned(i) \/ i.section \in RemovedWith(i, S) => Owned(j)
             /\ j.section \in {None, i.section}
<1>1. Top \notin Tib
  BY TibAssumption
<1>2. Top \notin Below(i, {i.opened}) /\ ~Resumed(i, Top, S) /\ Top \in Live(i) \cup {Top}
  BY <1>1 DEF Below, Closure, Resumed
<1> QED BY <1>2, RemoveSections

LEMMA DeleteSection ==
  ASSUME IInv, SInv, delete_intention
  PROVE  SInv'
<1>1. phase = "soak" /\ phase' = "soak"
  BY DEF delete_intention
<1>2. /\ in \in Intention /\ TreeInv(in) /\ Watch(in, {}) /\ Sections(in, {}) /\ Owned(in)
      /\ in.section = None => in.opened = None
  BY <1>1, BetweenSection DEF Turn
<1> DEFINE S == in.fils[Top]
           j == remove_and_free_tib_list(in, S)
<1>3. S \subseteq in.fils[Top] /\ {} \subseteq S
  OBVIOUS
<1> HIDE DEF S
<1>4. Sections(j, {}) /\ Owned(j)
  BY <1>2, <1>3, RemoveAll
<1>5. in' = j
  BY DEF delete_intention, S
<1> HIDE DEF j
<1> QED BY <1>1, <1>4, <1>5, SectionSoaks

LEMMA LastJoinSection ==
  ASSUME IInv, SInv, LastJoin
  PROVE  SInv'
<1> DEFINE f == in.pere[current]
           j == remove_and_free_tib_list(in, Joining)
<1>1. phase = "node" /\ Call(j, current, "body")
  BY DEF LastJoin
<1>2. /\ Ready(in, current) /\ Sections(in, {}) /\ Owned(in) /\ Watch(in, {})
      /\ in.section # None => in.section = current
      /\ in.section = None => in.opened = None
  BY <1>1, TurnSection DEF Turn
<1>3. /\ in \in Intention /\ current \in Tib /\ TreeInv(in) /\ in.fils[current] = {}
      /\ current \in in.fils[f] /\ f \in Live(in) \cup {Top}
  BY <1>2, ReadyPlace DEF Ready
<1>4. Joining \subseteq in.fils[f] /\ current \notin Joining /\ {} \subseteq Joining
  BY DEF Joining, Brothers
<1>5. ~Resumed(in, f, Joining)
  BY <1>3, <1>4 DEF Resumed
<1>6. current \notin RemovedWith(in, Joining)
  <2>1. f \in Tib \cup {Top} /\ Tree(in)
    BY <1>3 DEF Live, TreeInv
  <2>2. Gone(in, f, Joining, RemovedWith(in, Joining))
    BY <1>3, <1>4, <2>1, RemovedGone
  <2> QED BY <1>3, <1>4, <2>2 DEF Gone
<1>7. in.opened # None /\ f \in Below(in, {in.opened}) => in.section \notin RemovedWith(in, Joining)
  BY <1>2, <1>6
<1> HIDE DEF f
<1>8. Sections(j, {}) /\ Owned(j) /\ j.section \in {None, in.section}
  BY <1>2, <1>3, <1>4, <1>5, <1>7, RemoveSections
<1> HIDE DEF j
<1>9. "body" \in Turn /\ Sections(j, IF "body" \in {"satisfied", "failed"} THEN {current} ELSE {})
  BY <1>8 DEF Turn
<1> QED BY <1>1, <1>2, <1>8, <1>9, SectionCall DEF j, Owned

\* The goal of f is perhaps achieved.
Done(i, f, done) == done \in {i, [i EXCEPT !.goal[f] = "achieved"]}

\* The thread t and its brothers end, and the section goes to the father or ends.
LEMMA GiveBackSections ==
  ASSUME NEW i, NEW t, Ready(i, t), Watch(i, {t}), Sections(i, {t}),
         NEW f, f = i.pere[t], f # Top, NEW S, t \in S, S = i.fils[f],
         NEW done, Done(i, f, done),
         i.section # None => i.section = t /\ i.opened # None,
         i.section = None => i.opened = None
  PROVE  LET j == remove_and_free_tib_list(GiveBack(done, t), S)
         IN  Sections(j, {}) /\ Owned(j) /\ (j.section # None => j.section = f)
<1> DEFINE back == GiveBack(done, t)
           j == remove_and_free_tib_list(back, S)
           gone == RemovedWith(i, S)
           o == i.opened
<1>1. /\ i \in Intention /\ TreeInv(i) /\ t \in Tib
      /\ f \in Tib /\ f \in Live(i) \cup {Top} /\ i.status[f] = "ACTIVE"
  BY ReadyPlace DEF Ready
<1>2. S \in SUBSET Tib /\ Tree(i)
  BY <1>1, Fields DEF TreeInv
<1>3. Gone(i, f, S, gone)
  BY <1>1, <1>2, RemovedGone
<1>4. f \notin gone /\ {t} \subseteq gone
  BY <1>3 DEF Gone
<1>5. i.pere[t] # Top /\ i.pere[t] \notin gone /\ Resumed(i, i.pere[t], S)
  BY <1>1, <1>4 DEF Resumed
<1>6. /\ done \in Intention /\ Same(i, done, {"goal"})
      /\ \A u \in Tib : done.goal[u] = i.goal[u] \/ (u = i.pere[t] /\ done.goal[u] = "achieved")
  <2> DEFINE d == [i EXCEPT !.goal[f] = "achieved"]
  <2>1. d \in Intention /\ Same(i, d, {"goal"}) /\ d.goal = [i.goal EXCEPT ![f] = "achieved"]
    <3>1. i \in Intention /\ f \in Tib /\ "achieved" \in GoalState
      BY <1>1, Literals
    <3> QED BY <3>1, SetGoal
  <2>2. done = i \/ done = d
    BY DEF Done
  <2> HIDE DEF d
  <2>3. CASE done = i
    BY <1>1, <2>3 DEF Same
  <2>4. CASE done = d
    BY <1>1, <2>1, <2>4, Fields
  <2> QED BY <2>2, <2>3, <2>4
<1>7. j \in Intention /\ Removes(i, j, f, S)
  BY <1>1, <1>2, <1>5, <1>6, GiveBackRemoves
<1>8. /\ done.section = i.section /\ done.opened = i.opened
      /\ done.pere = i.pere /\ done.fils = i.fils /\ done.suspended = i.suspended
  BY <1>6 DEF Same, Field
<1>9. /\ i.section = None => back.section = None /\ back.opened = None
      /\ i.section # None /\ o = t => back.section = None /\ back.opened = None
      /\ i.section # None /\ o # t => back.section = f /\ back.opened = o
  BY <1>1, <1>5, <1>6, <1>8, GiveBackSection
<1>10. back.fils = i.fils /\ back.suspended = i.suspended
  <2>1. Same(done, back, {"active", "section", "opened"})
    BY <1>1, <1>5, <1>6, <1>8, GiveBackFields
  <2> HIDE DEF back
  <2> QED BY <1>8, <2>1 DEF Same, Field
<1>11. back \in Intention
  BY <1>1, <1>5, <1>6, <1>8, GiveBackFields
<1> HIDE DEF back
<1>12. RemovedWith(back, S) = gone
  BY <1>10 DEF RemovedWith
<1>13. back.opened # None => back.section # None
  BY <1>1, <1>9, TibAssumption
<1>14. /\ j.section = IF back.opened \in gone \/ back.section \in gone THEN None ELSE back.section
       /\ j.opened = IF back.opened \in gone THEN None ELSE back.opened
  BY <1>2, <1>11, <1>12, <1>13, RemoveSection
<1> HIDE DEF j, gone
<1>15. None \notin gone
  <2>1. gone \subseteq Tib
    BY DEF gone, RemovedWith, Closure
  <2> QED BY <2>1, TibAssumption
<1>16. \/ j.section = None /\ j.opened = None
       \/ j.section = f /\ j.opened = o /\ i.section = t /\ o # None /\ o \notin gone
  BY <1>4, <1>9, <1>14, <1>15
<1>17. SectionInv(i) /\ Single(i) /\ Restoring(i, {t})
  BY DEF Sections
<1>18. SectionInv(j)
  <2>1. CASE j.section = None /\ j.opened = None
    BY <2>1 DEF SectionInv
  <2>2. CASE j.section = f /\ j.opened = o /\ i.section = t /\ o # None /\ o \notin gone
    <3>1. o \in Tib /\ t \in Below(i, {o}) /\ t \in gone
      BY <1>4, <1>17, <2>2 DEF SectionInv, Chain, Live
    <3> HIDE DEF o
    <3>2. f \in Below(i, {o})
      <4>1. f \in Tib \cup {Top} /\ S \subseteq i.fils[f] /\ o \notin gone
        BY <1>1, <2>2
      <4> QED BY <1>1, <1>2, <1>3, <3>1, <4>1, GoneBelow
    <3> QED BY <1>1, <1>7, <1>17, <2>2, <3>2, SectionRemoves DEF gone, o
  <2> QED BY <1>16, <2>1, <2>2
<1>19. Single(j) /\ Restoring(j, {})
  <2>1. {t} \subseteq S /\ S \subseteq i.fils[f]
    OBVIOUS
  <2> QED BY <1>1, <1>7, <1>17, <2>1, ProceduresRemove
<1>20. Owned(j) /\ (j.section # None => j.section = f)
  BY <1>16 DEF Owned
<1> QED BY <1>18, <1>19, <1>20 DEF Sections, j, back

LEMMA EndingSection ==
  ASSUME IInv, SInv, SatisfiedLast \/ SatisfiedNotLast \/ failed_thread
  PROVE  SInv'
<1> DEFINE f == in.pere[current]
<1>1. phase \in {"satisfied", "failed"}
  BY DEF SatisfiedLast, SatisfiedNotLast, failed_thread
<1>2. /\ Ready(in, current) /\ Watch(in, {current}) /\ Sections(in, {current})
      /\ in.section # None => in.section = current
      /\ in.section = None => in.opened = None
      /\ Owned(in) \/ (phase = "satisfied" /\ f = Top)
  <2>1. phase \in Turn /\ Leaving = {current}
    BY <1>1 DEF Turn, Leaving
  <2> QED BY <2>1, TurnSection, TurnReady
<1>3. /\ in \in Intention /\ current \in Tib /\ TreeInv(in) /\ current \in in.fils[f]
      /\ f \in Live(in) \cup {Top} /\ f \in Tib \cup {Top}
  BY <1>2, ReadyPlace DEF Ready
<1>4. ASSUME f = Top, NEW S, current \in S, S \subseteq in.fils[f],
             \/ Executed(remove_and_free_tib_list(in, S)) \/ Ended(remove_and_free_tib_list(in, S))
      PROVE  SInv'
  <2> DEFINE j == remove_and_free_tib_list(in, S)
  <2>1. {current} \subseteq S /\ S \subseteq in.fils[Top] /\ S \in SUBSET Tib
    BY <1>3, <1>4, Fields
  <2>2. current \in RemovedWith(in, S)
    BY <2>1, <1>4 DEF RemovedWith, Closure
  <2>3. Sections(j, {}) /\ (Owned(in) \/ in.section \in RemovedWith(in, S) => Owned(j))
    BY <1>2, <1>3, <2>1, RemoveAll
  <2>4. Owned(in) \/ in.section \in RemovedWith(in, S)
    BY <1>2, <2>2 DEF Owned
  <2> HIDE DEF j
  <2> QED BY <1>4, <2>3, <2>4, SectionExecuted DEF j
<1>5. ASSUME f # Top, NEW done \in {in, [in EXCEPT !.goal[f] = "achieved"]},
             \/ Executed(remove_and_free_tib_list(GiveBack(done, current), in.fils[f]))
             \/ Call(remove_and_free_tib_list(GiveBack(done, current), in.fils[f]), f, "run")
      PROVE  SInv'
  <2> DEFINE j == remove_and_free_tib_list(GiveBack(done, current), in.fils[f])
  <2>1. in.section # None => in.section = current /\ in.opened # None
    BY <1>2, <1>5 DEF Owned
  <2>2. Sections(j, {}) /\ Owned(j) /\ (j.section # None => j.section = f)
    <3> DEFINE S == in.fils[f]
    <3>1. current \in S /\ S = in.fils[f] /\ f = in.pere[current] /\ f # Top
      BY <1>3, <1>5
    <3>3. Done(in, f, done)
      BY DEF Done
    <3>4. /\ Ready(in, current) /\ Watch(in, {current}) /\ Sections(in, {current})
          /\ in.section = None => in.opened = None
      BY <1>2
    <3> HIDE DEF f, S
    <3>2. LET k == remove_and_free_tib_list(GiveBack(done, current), S)
          IN  Sections(k, {}) /\ Owned(k) /\ (k.section # None => k.section = f)
      BY <2>1, <3>1, <3>3, <3>4, GiveBackSections
    <3> QED BY <3>2 DEF S
  <2> HIDE DEF j
  <2>3. Executed(j) \/ Call(j, f, "run")
    BY <1>5 DEF j
  <2>4. "run" \in Turn /\ Sections(j, IF "run" \in {"satisfied", "failed"} THEN {f} ELSE {})
    BY <2>2 DEF Turn
  <2> HIDE DEF f
  <2> QED BY <2>2, <2>3, <2>4, SectionExecuted, SectionCall DEF Owned
<1>6. CASE SatisfiedNotLast
  <2> DEFINE S == {current}
             j == remove_and_free_tib_list(in, S)
  <2>1. phase = "satisfied" /\ ~Last /\ Executed(j)
    BY <1>6 DEF SatisfiedNotLast
  <2>2. in.fils[f] # {current} /\ S \subseteq in.fils[f] /\ S \subseteq S
    BY <1>3, <2>1 DEF Last, Brothers
  <2>3. ~Resumed(in, f, S)
    BY <1>3, <2>2 DEF Resumed
  <2>4. CASE f = Top
    BY <1>3, <1>4, <2>1, <2>2, <2>4
  <2>5. CASE f # Top
    <3>1. in.opened # None => f \notin Below(in, {in.opened})
      BY <1>2, <1>3, <2>2 DEF Sections, SectionInv, Chain
    <3> HIDE DEF f
    <3>2. Owned(in)
      BY <1>2, <2>5 DEF f
    <3>3. {current} \subseteq S
      OBVIOUS
    <3> HIDE DEF S
    <3>4. Sections(j, {}) /\ Owned(j)
      BY <1>2, <1>3, <2>2, <2>3, <3>1, <3>2, <3>3, RemoveSections
    <3> HIDE DEF j
    <3> QED BY <2>1, <3>4, SectionExecuted
  <2> QED BY <2>4, <2>5
<1>7. CASE SatisfiedLast
  <2>1. in.fils[f] = {current}
    BY <1>3, <1>7 DEF SatisfiedLast, Last, Brothers
  <2>2. CASE f = Top
    <3>1. Ended(remove_and_free_tib_list(in, in.fils[f]))
      BY <1>7, <2>1, <2>2 DEF SatisfiedLast
    <3> QED BY <1>3, <1>4, <2>2, <3>1
  <2>3. CASE f # Top
    <3> DEFINE done == [in EXCEPT !.goal[f] = "achieved"]
    <3>1. \/ Executed(remove_and_free_tib_list(GiveBack(done, current), in.fils[f]))
          \/ Call(remove_and_free_tib_list(GiveBack(done, current), in.fils[f]), f, "run")
      BY <1>7, <2>1, <2>3 DEF SatisfiedLast
    <3> QED BY <1>5, <2>3, <3>1
  <2> QED BY <2>2, <2>3
<1>8. CASE failed_thread
  <2>1. CASE f = Top
    <3>1. Ended(remove_and_free_tib_list(in, in.fils[f]))
      BY <1>8, <2>1 DEF failed_thread
    <3> QED BY <1>3, <1>4, <2>1, <3>1
  <2>2. CASE f # Top
    <3>1. Call(remove_and_free_tib_list(GiveBack(in, current), in.fils[f]), f, "run")
      BY <1>8, <2>2 DEF failed_thread
    <3> QED BY <1>5, <2>2, <3>1
  <2> QED BY <2>1, <2>2
<1> QED BY <1>6, <1>7, <1>8

-----------------------------------------------------------------------------
(* The steps that suspend threads and resume them *)

\* A restorer is in no section.
LEMMA RestorerSection ==
  ASSUME NEW i, NEW n, SectionInv(i), Owned(i), i.suspended[n] # None,
         i.section # None => i.section = n
  PROVE  i.section = None /\ i.opened = None
<1> SUFFICES ASSUME i.section # None PROVE FALSE
  BY DEF SectionInv
<1>1. Chain(i, i.opened, n)
  BY DEF SectionInv, Owned
<1> QED BY <1>1 DEF Chain

LEMMA NoSectionRestored ==
  ASSUME NEW i \in Intention, NEW n \in Tib, i.suspended[n] # None, i.section = None,
         i.opened = None,
         NEW w \in Intention, Same(Restored(i, n), w, {"watched"})
  PROVE  LET j == RestorerGone(w, n)
         IN  j.section = None /\ j.opened = None
<1> DEFINE t == i.suspended[n]
           a == Replace(i, n, t)
           b == continue_tib(a, t)
           d == [w EXCEPT !.broken = @ \ {w.suspended[n]}]
           r == remove_from_active_tib(d, n)
           g == FreeThreads(r, {n})
<1>1. t \in Tib
  BY Fields
<1>2. a \in Intention /\ Same(i, a, {"fils"})
  BY <1>1, ReplaceFields
<1> HIDE DEF a
<1>3. b \in Intention /\ Same(a, b, {"status", "active"})
  BY <1>1, <1>2, ContinueFields
<1>4. Restored(i, n) = b
  BY DEF Restored, a
<1> HIDE DEF b
<1>5. w.section = None /\ w.opened = None
  BY <1>2, <1>3, <1>4 DEF Same, Field
<1>6. d \in Intention /\ Same(w, d, {"broken"})
  <2>1. w.broken \ {w.suspended[n]} \in SUBSET Tib
    BY Fields
  <2> QED BY <2>1, SetBroken
<1> HIDE DEF d
<1>7. r \in Intention /\ Same(d, r, {"active"})
  BY <1>6, RemoveActive
<1> HIDE DEF r
<1>8. r.section = None /\ r.opened = None
  BY <1>5, <1>6, <1>7 DEF Same, Field
<1>9. g.section = None /\ g.opened = None
  <2>1. Freed(r, g, {n})
    BY <1>7, FreeFields
  <2> HIDE DEF g
  <2>2. None \notin {n}
    BY TibAssumption
  <2> QED BY <1>8, <2>1, <2>2 DEF Freed
<1>10. RestorerGone(w, n) = g
  BY DEF RestorerGone, r, d
<1> HIDE DEF g
<1> QED BY <1>9, <1>10

\* i is in, perhaps without the sons of the thread the restorer has suspended.
LEMMA RestoreSections ==
  ASSUME NEW i, NEW n, Ready(i, n), Sections(i, {}), i.suspended[n] # None, i.section = None,
         i.opened = None,
         NEW w \in Intention, Same(Restored(i, n), w, {"watched"}),
         w.watched \subseteq i.watched \cup {i.suspended[n]},
         NEW j \in Intention, Same(RestorerGone(w, n), j, {"asleep"})
  PROVE  Sections(j, {}) /\ Owned(j)
<1>1. i \in Intention /\ n \in Tib /\ TreeInv(i) /\ i.status[n] = "ACTIVE" /\ i.fils[n] = {}
        /\ i.pere[n] # n
  BY ReadyPlace DEF Ready
<1>2. Continues(i, j, n) /\ \A u \in Tib : j.op[u] = IF u = n THEN "body" ELSE i.op[u]
  BY <1>1, RestorerContinues
<1>3. Single(j) /\ Restoring(j, {})
  BY <1>1, <1>2, ProceduresContinue DEF Sections
<1>4. j.section = None /\ j.opened = None
  <2> DEFINE g == RestorerGone(w, n)
  <2>1. g.section = None /\ g.opened = None
    BY <1>1, NoSectionRestored
  <2> HIDE DEF g
  <2> QED BY <2>1 DEF Same, Field, g
<1> QED BY <1>3, <1>4 DEF Sections, SectionInv, Owned

LEMMA RestoreSection ==
  ASSUME IInv, SInv, restore_suspended_tib
  PROVE  SInv'
<1> DEFINE t == in.suspended[current]
           k == Restored(in, current)
           w == [k EXCEPT !.watched = @ \cup {t}]
           r == RestorerGone(w, current)
           j == check_last_active_tib(r)
<1>1. phase = "run" /\ t # None /\ Executed(j)
  BY DEF restore_suspended_tib, GoalIs, Running
<1>2. /\ Ready(in, current) /\ Sections(in, {}) /\ Owned(in) /\ Watch(in, {})
      /\ in.section # None => in.section = current
  BY <1>1, TurnSection DEF Turn
<1>3. in \in Intention /\ current \in Tib /\ t \in Tib
  BY <1>1, <1>2, Fields DEF Ready
<1>4. in.section = None /\ in.opened = None
  BY <1>1, <1>2, RestorerSection DEF Sections
<1>5. k \in Intention
  BY <1>1, <1>3, RestoredFields
<1>6. k.watched = in.watched
  <2> DEFINE a == Replace(in, current, t)
  <2>1. a \in Intention /\ Same(in, a, {"fils"})
    BY <1>3, ReplaceFields
  <2> HIDE DEF a
  <2>2. Same(a, continue_tib(a, t), {"status", "active"})
    BY <1>3, <2>1, ContinueFields
  <2>3. k = continue_tib(a, t)
    BY DEF Restored, a
  <2> HIDE DEF k
  <2> QED BY <2>1, <2>2, <2>3 DEF Same, Field
<1> HIDE DEF k, t
<1>7. w \in Intention /\ Same(k, w, {"watched"}) /\ w.watched = in.watched \cup {t}
  <2>1. k.watched \cup {t} \in SUBSET Tib
    BY <1>3, <1>5, Fields
  <2>2. w \in Intention /\ Same(k, w, {"watched"}) /\ w.watched = k.watched \cup {t}
    BY <1>5, <2>1, SetWatched
  <2> HIDE DEF w
  <2> QED BY <1>6, <2>2
<1> HIDE DEF w
<1>8. r \in Intention
  BY <1>3, <1>7, RestorerGoneFields
<1>9. j \in Intention /\ Same(r, j, {"asleep"})
  <2> HIDE DEF r
  <2> QED BY <1>8, CheckLast
<1> HIDE DEF j
<1>10. Sections(j, {}) /\ Owned(j)
  BY <1>1, <1>2, <1>4, <1>7, <1>9, RestoreSections DEF k, t
<1> QED BY <1>1, <1>10, SectionExecuted DEF j

LEMMA RestoreAndFailSection ==
  ASSUME IInv, SInv, restore_and_fail_suspended_tib
  PROVE  SInv'
<1> DEFINE t == in.suspended[current]
           S == in.fils[t]
           gone == RemovedWith(in, S)
           i == remove_and_free_tib_list(in, S)
           k == Restored(i, current)
           j == RestorerGone(k, current)
<1>1. phase = "run" /\ t # None /\ Executed(j)
  BY DEF restore_and_fail_suspended_tib, GoalIs, Running
<1>2. /\ Ready(in, current) /\ Sections(in, {}) /\ Owned(in) /\ Watch(in, {})
      /\ in.section # None => in.section = current
  BY <1>1, TurnSection DEF Turn
<1>3. /\ in \in Intention /\ current \in Tib /\ TreeInv(in) /\ in.fils[current] = {}
      /\ in.status[current] = "ACTIVE" /\ current \in Live(in) /\ t \in Tib
  BY <1>1, <1>2, ReadyPlace, Fields DEF Ready
<1>4. in.section = None /\ in.opened = None
  BY <1>1, <1>2, RestorerSection DEF Sections
<1>5. t \in Live(in) /\ in.status[t] = "SUSP_ACTIVE"
  BY <1>1, <1>3 DEF TreeInv, SuspendedInv, Tree, Replaced, Behind
<1>6. S \in SUBSET Tib
  BY <1>3, Fields
<1>7. Gone(in, t, S, gone)
  BY <1>3, <1>6, RemovedGone DEF TreeInv
<1>8. t \notin gone /\ current \notin gone
  BY <1>1, <1>3, <1>7 DEF Gone
<1>9. t \in Live(in) \cup {Top} /\ S \subseteq in.fils[t] /\ ~Resumed(in, t, S) /\ {} \subseteq S
  BY <1>5 DEF Resumed
<1>10. in.section = None => in.opened = None
  BY <1>4
<1>11. /\ i \in Intention /\ TreeInv(i) /\ Watch(i, {}) /\ Removes(in, i, t, S)
       /\ Sections(i, {}) /\ (i.section = None => i.opened = None)
            /\ i.section \in {None, in.section}
  <2>1. in.opened # None /\ t \in Below(in, {in.opened}) => in.section \notin RemovedWith(in, S)
    BY <1>4
  <2> HIDE DEF t, S
  <2> QED BY <1>2, <1>3, <1>9, <1>10, <2>1, RemoveOnlyTree, RemoveSections
<1> HIDE DEF i
<1>12. /\ i.status = [u \in Tib |-> IF u \in gone THEN "free" ELSE in.status[u]]
       /\ i.suspended = [u \in Tib |-> IF u \in gone THEN None ELSE in.suspended[u]]
       /\ i.fils = [g \in Tib \cup {Top} |->
             IF g \in gone THEN {} ELSE {u \in in.fils[g] : ~(u \in gone /\ in.pere[u] = g)}]
  BY <1>11 DEF Removes, TreeRemoved, SonsRemoved
<1> HIDE DEF gone
<1>13. Ready(i, current) /\ i.suspended[current] = t /\ i.section = None /\ i.opened = None
  BY <1>3, <1>4, <1>8, <1>11, <1>12 DEF Ready
<1> HIDE DEF t, S
<1>14. k \in Intention
  BY <1>1, <1>3, <1>11, <1>13, RestoredFields
<1>15. k.watched = i.watched
  <2> DEFINE a == Replace(i, current, t)
  <2>1. a \in Intention /\ Same(i, a, {"fils"})
    BY <1>3, <1>11, ReplaceFields
  <2> HIDE DEF a
  <2>2. Same(a, continue_tib(a, t), {"status", "active"})
    BY <1>3, <2>1, ContinueFields
  <2>3. k = continue_tib(a, t)
    BY <1>13 DEF Restored, a
  <2> HIDE DEF k
  <2> QED BY <2>1, <2>2, <2>3 DEF Same, Field
<1>16. j \in Intention
  <2> HIDE DEF k
  <2> QED BY <1>3, <1>14, RestorerGoneFields
<1>17. Same(Restored(i, current), k, {"watched"}) /\ Same(j, j, {"asleep"})
  BY DEF Same
<1>18. Sections(j, {}) /\ Owned(j)
  <2>1. k.watched \subseteq i.watched \cup {i.suspended[current]} /\ i.suspended[current] # None
    BY <1>1, <1>13, <1>15
  <2> HIDE DEF k
  <2> DEFINE jj == RestorerGone(k, current)
  <2>2. jj \in Intention /\ Same(RestorerGone(k, current), jj, {"asleep"})
    BY <1>16, <1>17
  <2> HIDE DEF jj
  <2>3. Sections(jj, {}) /\ Owned(jj)
    BY <1>11, <1>13, <1>14, <1>17, <2>1, <2>2, RestoreSections
  <2> QED BY <2>3 DEF jj
<1>19. Executed(j)
  BY <1>1 DEF i, t, S
<1> HIDE DEF j
<1> QED BY <1>18, <1>19, SectionExecuted

LEMMA PreserveMarks ==
  ASSUME in \in Intention, NEW t \in Tib, PreserveFails(t), in.section = None => in.opened = None
  PROVE  LET gone == RemovedWith(in, in.fils[t])
         IN  /\ in.fils[t] = {} => in'.section = in.section /\ in'.opened = in.opened
             /\ in.fils[t] # {} =>
                  /\ in'.opened = IF in.opened \in gone THEN None ELSE in.opened
                  /\ in.opened \in gone => in'.section = None
                  /\ in.opened \notin gone /\ in.section \in gone =>
                       in'.section = IF in.opened # None THEN t ELSE None
                  /\ in.opened \notin gone /\ in.section \notin gone => in'.section = in.section
<1> DEFINE S == in.fils[t]
           gone == RemovedWith(in, S)
           freed == remove_and_free_tib_list(in, S)
           marked == IF in.section # None /\ freed.section = None /\ freed.opened # None
                     THEN [freed EXCEPT !.section = t] ELSE freed
           added == add_in_active_tib(marked, t)
           failed == IF in.fils[t] = {} THEN in
                     ELSE IF in.status[t] = "ACTIVE" THEN continue_intention(added) ELSE marked
<1>1. in' = [failed EXCEPT !.watched = @ \ {t}]
  BY DEF PreserveFails
<1>2. S \in SUBSET Tib
  BY Fields
<1>3. freed \in Intention
  BY <1>2, RemoveFields
<1>4. /\ freed.section = IF in.opened \in gone \/ in.section \in gone THEN None ELSE in.section
      /\ freed.opened = IF in.opened \in gone THEN None ELSE in.opened
  BY <1>2, RemoveSection
<1>5. None \notin gone
  <2>1. gone \subseteq Tib
    BY DEF RemovedWith, Closure
  <2> HIDE DEF gone
  <2> QED BY <2>1, TibAssumption
<1> HIDE DEF freed, gone
<1>6. /\ marked \in Intention /\ marked.opened = freed.opened
      /\ marked.section = IF in.section # None /\ freed.section = None /\ freed.opened # None
                          THEN t ELSE freed.section
  <2> DEFINE m == [freed EXCEPT !.section = t]
  <2>1. m \in Intention /\ Same(freed, m, {"section"}) /\ m.section = t
    BY <1>3, SetSection
  <2>2. marked = IF in.section # None /\ freed.section = None /\ freed.opened # None
                 THEN m ELSE freed
    OBVIOUS
  <2> HIDE DEF m, marked
  <2>3. m.opened = freed.opened
    BY <2>1 DEF Same, Field
  <2> QED BY <1>3, <2>1, <2>2, <2>3
<1> HIDE DEF marked
<1>7. added \in Intention /\ Same(marked, added, {"active"})
  BY <1>6, AddActive
<1> HIDE DEF added
<1>8. continue_intention(added) \in Intention /\ Same(added, continue_intention(added), {"asleep"})
  BY <1>7, Continue
<1>9. /\ failed \in Intention
      /\ in.fils[t] = {} => failed = in
      /\ in.fils[t] # {} => failed.section = marked.section /\ failed.opened = marked.opened
  <2> DEFINE c == continue_intention(added)
  <2>1. c \in Intention /\ c.section = marked.section /\ c.opened = marked.opened
    <3> HIDE DEF c
    <3> QED BY <1>7, <1>8 DEF Same, Field, c
  <2>2. failed = IF in.fils[t] = {} THEN in ELSE IF in.status[t] = "ACTIVE" THEN c ELSE marked
    OBVIOUS
  <2> HIDE DEF failed, c
  <2> QED BY <1>6, <2>1, <2>2
<1> HIDE DEF failed
<1>10. in'.section = failed.section /\ in'.opened = failed.opened
  <2> DEFINE w == [failed EXCEPT !.watched = @ \ {t}]
  <2>1. failed.watched \ {t} \in SUBSET Tib
    BY <1>9, Fields
  <2>2. Same(failed, w, {"watched"})
    BY <1>9, <2>1, SetWatched
  <2> HIDE DEF w
  <2>3. w.section = failed.section /\ w.opened = failed.opened
    BY <2>2 DEF Same, Field
  <2> QED BY <1>1, <2>3 DEF w
<1>11. in.opened \notin gone /\ in.section \in gone /\ in.opened # None => in.section # None
  BY <1>5
<1> HIDE DEF S
<1>12. /\ in.fils[t] = {} => in'.section = in.section /\ in'.opened = in.opened
       /\ in.fils[t] # {} =>
            /\ in'.opened = IF in.opened \in gone THEN None ELSE in.opened
            /\ in.opened \in gone => in'.section = None
            /\ in.opened \notin gone /\ in.section \in gone =>
                 in'.section = IF in.opened # None THEN t ELSE None
            /\ in.opened \notin gone /\ in.section \notin gone => in'.section = in.section
  BY <1>4, <1>6, <1>9, <1>10, <1>11
<1> QED BY <1>12 DEF gone, S

LEMMA PreserveSection ==
  ASSUME IInv, SInv, NEW t \in Tib, PreserveFails(t)
  PROVE  SInv'
<1>1. phase \in {"soak", "intend"} /\ phase' = phase /\ t \in in.watched
  BY DEF PreserveFails, Idle
<1>2. /\ in \in Intention /\ TreeInv(in) /\ Sections(in, {}) /\ Owned(in)
      /\ in.section = None => in.opened = None
  BY <1>1, BetweenSection DEF Turn
<1>3. /\ in' \in Intention
      /\ in.fils[t] = {} => Same(in, in', {"watched"}) /\ in'.watched \subseteq in.watched
      /\ in.fils[t] # {} /\ t \notin RemovedWith(in, in.fils[t]) => Removes(in, in', t, in.fils[t])
  BY <1>2, PreserveFailsFields
<1>4. t \in Live(in)
  BY <1>1, <1>2 DEF TreeInv, FreeInv
<1>5. CASE in.fils[t] = {}
  <2>1. Same(in, in', {"watched"})
    BY <1>3, <1>5
  <2>2. /\ in'.fils = in.fils /\ in'.suspended = in.suspended /\ in'.op = in.op
             /\ in'.goal = in.goal
        /\ in'.status = in.status /\ in'.section = in.section /\ in'.opened = in.opened
    BY <2>1 DEF Same, Field
  <2>3. Sections(in', {}) /\ Owned(in')
    <3>1. SectionInv(in')
      BY <1>2, <1>3, <2>2, SectionStays DEF Sections, SectionInv
    <3> QED BY <1>2, <2>2, <3>1 DEF Sections, Single, Restoring, Owned
  <2> QED BY <1>1, <2>3, SectionSoaks
<1>6. CASE in.fils[t] # {}
  <2> DEFINE S == in.fils[t]
             gone == RemovedWith(in, S)
             o == in.opened
  <2>1. /\ in'.opened = IF o \in gone THEN None ELSE o
        /\ o \in gone => in'.section = None
        /\ o \notin gone /\ in.section \in gone => in'.section = IF o # None THEN t ELSE None
        /\ o \notin gone /\ in.section \notin gone => in'.section = in.section
    BY <1>2, <1>6, PreserveMarks
  <2>2. Gone(in, t, S, gone)
    BY <1>2, RemovedGone DEF TreeInv
  <2>3. Removes(in, in', t, S)
    BY <1>3, <1>6, <2>2 DEF Gone
  <2>4. t \in Live(in) \cup {Top} /\ S \subseteq in.fils[t] /\ Tree(in) /\ {} \subseteq S
    BY <1>2, <1>4 DEF TreeInv
  <2>5. Single(in) /\ Restoring(in, {}) /\ SectionInv(in)
    BY <1>2 DEF Sections
  <2>6. None \notin gone
    <3>1. gone \subseteq Tib
      BY DEF RemovedWith, Closure
    <3> HIDE DEF gone
    <3> QED BY <3>1, TibAssumption
  <2> HIDE DEF gone
  <2>7. /\ in'.section = None => in'.opened = None
        /\ in'.section # None => in'.opened # None
        /\ \/ in'.section = None /\ in'.opened = None
           \/ in'.section = in.section /\ in'.opened = o /\ in.section # None
                /\ in.section \notin gone
           \/ in'.section = t /\ in'.opened = o /\ o # None /\ o \notin gone /\ in.section \in gone
    BY <1>2, <2>1, <2>6, TibAssumption DEF Owned
  <2>8. o # None /\ o \notin gone /\ in.section \in gone => t \in Below(in, {o})
    <3> SUFFICES ASSUME o # None, o \notin gone, in.section \in gone PROVE t \in Below(in, {o})
      OBVIOUS
    <3>1. PICK s : s = in.section
      OBVIOUS
    <3>2. o \in Tib /\ s \in Below(in, {o}) /\ s \in gone
      BY <2>5, <3>1 DEF SectionInv, Chain, Live
    <3> HIDE DEF o, S
    <3> QED BY <1>2, <2>2, <2>4, <3>2, GoneBelow
  <2>9. SectionInv(in')
    <3>1. S = in.fils[t]
      OBVIOUS
    <3> HIDE DEF S
    <3> QED BY <1>2, <1>3, <2>3, <2>4, <2>5, <2>7, <2>8, <3>1, SectionRemoves DEF gone, o
  <2>10. Single(in') /\ Restoring(in', {})
    <3> HIDE DEF S
    <3> QED BY <1>2, <1>3, <2>3, <2>4, <2>5, ProceduresRemove
  <2>11. Sections(in', {}) /\ Owned(in')
    BY <2>7, <2>9, <2>10 DEF Sections, Owned
  <2> QED BY <1>1, <2>11, SectionSoaks
<1> QED BY <1>5, <1>6

LEMMA SuspendsSection ==
  ASSUME NEW i \in Intention, NEW t \in Tib, NEW n \in Tib, i.section = None => i.opened = None
  PROVE  LET j == Suspends(i, t, n)
         IN  /\ i.status[t] = "ACTIVE" => j.section = None /\ j.opened = None
             /\ i.status[t] # "ACTIVE" => j.section = i.section /\ j.opened = i.opened
<1> DEFINE split  == split_thread_intention_block(i, t, n)
           unlock == IF i.section # None THEN end_critical_section(split) ELSE split
           susp   == suspend_tib(unlock, t)
           added  == add_in_active_tib(susp, n)
           cont   == continue_intention(added)
           failed == IF i.status[t] = "ACTIVE" THEN cont ELSE split
           j      == [failed EXCEPT !.watched = @ \ {t}]
<1>1. split \in Intention /\ split.section = i.section /\ split.opened = i.opened
  <2>1. SplitOff(i, split, t, n)
    BY SplitFields
  <2> HIDE DEF split
  <2> QED BY <2>1 DEF SplitOff, Same, Field
<1> HIDE DEF split
<1>2. unlock \in Intention /\ unlock.section = None /\ unlock.opened = None
  BY <1>1, EndSection
<1> HIDE DEF unlock
<1>3. susp \in Intention /\ Same(unlock, susp, {"status", "active"})
  BY <1>2, SuspendFields
<1> HIDE DEF susp
<1>4. added \in Intention /\ Same(susp, added, {"active"})
  BY <1>3, AddActive
<1> HIDE DEF added
<1>5. cont \in Intention /\ Same(added, cont, {"asleep"})
  BY <1>4, Continue
<1> HIDE DEF cont
<1>6. cont.section = None /\ cont.opened = None
  BY <1>2, <1>3, <1>4, <1>5 DEF Same, Field
<1>7. /\ failed \in Intention
      /\ i.status[t] = "ACTIVE" => failed.section = None /\ failed.opened = None
      /\ i.status[t] # "ACTIVE" => failed.section = i.section /\ failed.opened = i.opened
  BY <1>1, <1>5, <1>6
<1> HIDE DEF failed
<1>8. j.section = failed.section /\ j.opened = failed.opened
  <2>1. failed.watched \ {t} \in SUBSET Tib
    BY <1>7, Fields
  <2>2. Same(failed, j, {"watched"})
    BY <1>7, <2>1, SetWatched
  <2> HIDE DEF j
  <2> QED BY <2>2 DEF Same, Field
<1>9. Suspends(i, t, n) = j
  BY DEF Suspends, failed, cont, added, susp, unlock, split
<1> HIDE DEF j
<1> QED BY <1>7, <1>8, <1>9

LEMMA MaintainSection ==
  ASSUME IInv, SInv, NEW t \in Tib, MaintainFails(t)
  PROVE  SInv'
<1>1. phase \in {"soak", "intend"} /\ phase' = phase /\ t \in in.watched
        /\ in.maintain[t] = "maintain"
  BY DEF MaintainFails, Idle
<1>2. /\ in \in Intention /\ TreeInv(in) /\ Watch(in, {}) /\ Sections(in, {}) /\ Owned(in)
      /\ in.section = None => in.opened = None
  BY <1>1, BetweenSection DEF Turn
<1>3. PICK n \in Free(in) : in' = Suspends(in, t, n)
  BY DEF MaintainFails, Suspends
<1>4. n \in Tib
  BY DEF Free
<1>5. in' \in Intention
  BY <1>2, <1>3, <1>4, SuspendsTypes
<1>6. /\ Splits(in, in', t, n)
      /\ in'.op = [in.op EXCEPT ![n] = in.op[t]] /\ in'.goal = [in.goal EXCEPT ![n] = in.goal[t]]
  BY <1>1, <1>2, <1>3, MaintainFailsFields
<1>7. \A u \in Tib : /\ in'.op[u] = IF u = n THEN in.op[t] ELSE in.op[u]
                     /\ in'.goal[u] = IF u = n THEN in.goal[t] ELSE in.goal[u]
  <2>1. in.op \in [Tib -> Op] /\ in.goal \in [Tib -> GoalState]
    BY <1>2, Fields
  <2> QED BY <1>6, <2>1
<1>8. /\ in.status[t] = "ACTIVE" => in'.section = None /\ in'.opened = None
      /\ in.status[t] # "ACTIVE" => in'.section = in.section /\ in'.opened = in.opened
  <2> DEFINE j == Suspends(in, t, n)
  <2>1. /\ in.status[t] = "ACTIVE" => j.section = None /\ j.opened = None
        /\ in.status[t] # "ACTIVE" => j.section = in.section /\ j.opened = in.opened
    BY <1>2, <1>4, SuspendsSection
  <2> QED BY <1>3, <2>1
<1>9. in.status[t] \in {"ACTIVE", "SUSP_ACTIVE"}
  BY <1>6 DEF Splits
<1>10. SectionInv(in')
  <2>1. CASE in.status[t] = "ACTIVE"
    BY <1>8, <2>1 DEF SectionInv
  <2>2. CASE in.status[t] # "ACTIVE"
    <3>1. in.status[t] = "SUSP_ACTIVE" /\ SectionInv(in)
      BY <1>2, <1>9, <2>2 DEF Sections
    <3> QED BY <1>2, <1>5, <1>6, <1>8, <3>1, SectionSplits
  <2> QED BY <2>1, <2>2
<1>11. Single(in') /\ Restoring(in', {})
  <2>1. Single(in) /\ Restoring(in, {})
    BY <1>2 DEF Sections
  <2>2. PICK j : j = in'
    OBVIOUS
  <2>3. /\ j \in Intention /\ Splits(in, j, t, n)
        /\ \A u \in Tib : /\ j.op[u] = IF u = n THEN in.op[t] ELSE in.op[u]
                         /\ j.goal[u] = IF u = n THEN in.goal[t] ELSE in.goal[u]
    BY <1>5, <1>6, <1>7, <2>2
  <2>4. Single(j) /\ Restoring(j, {})
    BY <1>1, <1>2, <2>1, <2>3, ProceduresSplit
  <2> QED BY <2>2, <2>4
<1>12. Sections(in', {}) /\ Owned(in')
  BY <1>2, <1>8, <1>10, <1>11 DEF Sections, Owned
<1> QED BY <1>1, <1>12, SectionSoaks

-----------------------------------------------------------------------------
(* The other steps between two executions *)

LEMMA MakeSection ==
  ASSUME IInv, SInv, MakeIntention
  PROVE  SInv'
<1>1. phase = "soak" /\ phase' = "soak" /\ in.fils[Top] = {}
  BY DEF MakeIntention
<1>2. /\ in \in Intention /\ TreeInv(in) /\ Sections(in, {}) /\ Owned(in)
      /\ in.section = None => in.opened = None
  BY <1>1, BetweenSection DEF Turn
<1>3. PICK t \in Tib, op \in {"body", "action"} : in' = make_intention(t, op, in.opened)
  BY DEF MakeIntention
<1>4. Live(in) = {}
  <2>1. /\ {} \in SUBSET Tib /\ in.fils[Top] \subseteq {}
        /\ \A u \in {} : in.fils[u] \subseteq {}
             /\ (in.suspended[u] # None => in.suspended[u] \in {})
    BY <1>1
  <2>2. Reached(in)
    BY <1>2 DEF TreeInv, Tree
  <2> QED BY <2>1, <2>2 DEF Reached
<1>5. in.opened = None
  BY <1>2, <1>4 DEF Sections, SectionInv
<1>6. /\ in'.fils = [f \in Tib \cup {Top} |-> IF f = Top THEN {t} ELSE {}]
      /\ in'.suspended = [u \in Tib |-> None] /\ in'.section = None /\ in'.opened = None
  BY <1>3, <1>5 DEF make_intention
<1>7. Sections(in', {}) /\ Owned(in')
  BY <1>6 DEF Sections, SectionInv, Single, Restoring, Owned
<1> QED BY <1>1, <1>7, SectionSoaks

LEMMA WakeSection ==
  ASSUME IInv, SInv, NEW t \in Tib, WakeUp(t)
  PROVE  SInv'
<1>1. phase \in {"soak", "intend"} /\ phase' = phase /\ t \in in.waits
  BY DEF WakeUp, Idle
<1>2. in \in Intention /\ TreeInv(in) /\ Sections(in, {}) /\ Owned(in)
  BY <1>1, BetweenSection DEF Turn
<1> DEFINE j == [wake_up_thread(in, t) EXCEPT !.waits = @ \ {t}]
<1>3. /\ j \in Intention /\ Same(in, j, {"status", "active", "asleep", "waits"})
      /\ in.status[t] = "SUSP_SLEEPING" => j.status = [in.status EXCEPT ![t] = "SUSP_ACTIVE"]
      /\ in.status[t] # "SUSP_SLEEPING" => j.status = [in.status EXCEPT ![t] = "ACTIVE"]
  BY <1>2, WakeFields
<1>4. in' = j
  BY DEF WakeUp
<1> HIDE DEF j
<1>5. /\ j.fils = in.fils /\ j.suspended = in.suspended /\ j.op = in.op /\ j.goal = in.goal
      /\ j.section = in.section /\ j.opened = in.opened
  BY <1>3 DEF Same, Field
<1>6. /\ j.status[t] = IF in.status[t] = "SUSP_SLEEPING" THEN "SUSP_ACTIVE" ELSE "ACTIVE"
      /\ \A u \in Tib \ {t} : j.status[u] = in.status[u]
  <2>1. in.status \in [Tib -> Status]
    BY <1>2, Fields
  <2> QED BY <1>3, <2>1
<1>7. SectionInv(j)
  <2>1. SectionInv(in)
    BY <1>2 DEF Sections
  <2>2. \A u \in Tib : in.status[u] # "free" => j.status[u] # "free"
    BY <1>6
  <2>3. j.section # None => j.status[j.section] \in Executable
    BY <1>5, <1>6, <2>1 DEF SectionInv, Executable, Live
  <2> QED BY <1>2, <1>3, <1>5, <2>1, <2>2, <2>3, SectionStays
<1>8. Sections(j, {}) /\ Owned(j)
  BY <1>2, <1>5, <1>7 DEF Sections, Single, Restoring, Owned
<1> QED BY <1>1, <1>4, <1>8, SectionSoaks

LEMMA IntendSection ==
  ASSUME IInv, SInv, NEW t \in Tib, Intend(t)
  PROVE  SInv'
<1>1. phase = "intend" /\ phase' = "intend" /\ in.status[t] = "ACTIVE" /\ in.fils[t] = {}
  BY DEF Intend
<1>2. in \in Intention /\ TreeInv(in) /\ Sections(in, {}) /\ Owned(in)
  BY <1>1, BetweenSection DEF Turn
<1>3. PICK n \in Free(in), op \in Op, maintain \in Maintain :
        in' = intend_op_in_thread_intention_block(in, t, n, op, maintain)
  BY DEF Intend
<1>4. n \in Tib
  BY DEF Free
<1>5. Intended(in, in', t, n, op, maintain)
  BY <1>2, <1>3, <1>4, IntendFields
<1>6. Ready(in, t)
  BY <1>1, <1>2 DEF Ready
<1>7. Sections(in', {}) /\ Owned(in')
  BY <1>2, <1>5, <1>6, SectionIntended
<1> QED BY <1>1, <1>7, SectionSoaks

\* Only goals that are posted change, and those are of bodies.
LEMMA FindSoakSection ==
  ASSUME IInv, SInv, find_soak_goal
  PROVE  SInv'
<1>1. phase = "soak" /\ phase' = "intend"
  BY DEF find_soak_goal
<1>2. in \in Intention /\ Watch(in, {}) /\ Sections(in, {}) /\ Owned(in)
  BY <1>1, BetweenSection DEF Turn
<1> DEFINE posted == {t \in Tib : in.goal[t] = "posted"}
           tried  == {t \in posted : in.status[t] = "ACTIVE"}
<1>3. PICK found \in SUBSET tried :
        in' = [in EXCEPT !.goal = [t \in Tib |->
                 IF t \in tried \ found THEN "failed"
                 ELSE IF t \in posted THEN "open" ELSE in.goal[t]]]
  BY DEF find_soak_goal
<1> DEFINE g == [t \in Tib |-> IF t \in tried \ found THEN "failed"
                               ELSE IF t \in posted THEN "open" ELSE in.goal[t]]
<1>4. in.goal \in [Tib -> GoalState] /\ "failed" \in GoalState /\ "open" \in GoalState
  BY <1>2, Fields, Literals
<1>5. \A t \in Tib : g[t] = in.goal[t] \/ in.goal[t] = "posted"
  OBVIOUS
<1> HIDE DEF posted, tried
<1>6. g \in [Tib -> GoalState]
  BY <1>4
<1> HIDE DEF g
<1>7. in' \in Intention /\ Same(in, in', {"goal"}) /\ in'.goal = g
  BY <1>2, <1>3, <1>6, SetGoals DEF g
<1>8. /\ in'.fils = in.fils /\ in'.suspended = in.suspended /\ in'.op = in.op
           /\ in'.status = in.status
      /\ in'.section = in.section /\ in'.opened = in.opened
  BY <1>7 DEF Same, Field
<1>9. SectionInv(in')
  BY <1>2, <1>7, <1>8, SectionStays DEF Sections, SectionInv
<1>10. Single(in') /\ Restoring(in', {})
  <2>1. \A u \in Tib \ {} : in.op[u] = "action" /\ in.goal[u] # "none" => in'.goal[u] # "none"
    BY <1>2, <1>5, <1>7 DEF Watch
  <2> QED BY <1>2, <1>7, <1>8, <2>1, ProceduresStay DEF Sections
<1>11. Sections(in', {}) /\ Owned(in')
  BY <1>2, <1>8, <1>9, <1>10 DEF Sections, Owned
<1> QED BY <1>1, <1>11, SectionSoaks

\* In a section only its thread is chosen.
LEMMA ChooseSection ==
  ASSUME IInv, SInv, execute_intention \/ EndTurn \/ \E t \in Tib : Choose(t)
  PROVE  SInv'
<1>1. phase \notin Turn /\ in' = in
  BY DEF execute_intention, EndTurn, Choose, Turn
<1>2. in \in Intention /\ Sections(in, {}) /\ Owned(in) /\ (in.section = None => in.opened = None)
  BY <1>1, BetweenSection
<1>3. ASSUME SectionTurn', phase' \notin {"satisfied", "failed"} PROVE SInv'
  <2>1. Sections(in', Leaving')
    BY <1>1, <1>2, <1>3 DEF Leaving
  <2> QED BY <1>3, <2>1 DEF SInv, Sections, SectionInv, Chain, Single, Restoring
<1>4. CASE execute_intention
  <2>1. phase' = "choose"
    BY <1>4 DEF execute_intention
  <2>2. in.section # None => \A t \in Tib : todo'[t] > 0 => t = in.section
    BY <1>4 DEF execute_intention
  <2>3. SectionTurn'
    BY <1>1, <1>2, <2>1, <2>2 DEF SectionTurn, Owned, Turn
  <2> QED BY <1>3, <2>1, <2>3
<1>5. CASE EndTurn
  BY <1>1, <1>2, <1>3, <1>5 DEF EndTurn, SectionTurn, Owned, Turn
<1>6. ASSUME NEW t \in Tib, Choose(t) PROVE SInv'
  <2>1. /\ phase = "choose" /\ todo[t] > 0
        /\ \/ todo' = Nobody /\ phase' = "choose"
           \/ current' = t /\ phase' = "run"
    BY <1>6 DEF Choose
  <2>2. in.section # None => t = in.section
    BY <2>1 DEF SInv, SectionTurn
  <2>3. \A u \in Tib : ~(Nobody[u] > 0)
    BY DEF Nobody
  <2>4. SectionTurn'
    <3>1. CASE todo' = Nobody /\ phase' = "choose"
      BY <1>1, <1>2, <2>3, <3>1 DEF SectionTurn, Owned, Turn
    <3>2. CASE current' = t /\ phase' = "run"
      BY <1>1, <1>2, <2>2, <3>2 DEF SectionTurn, Owned, Turn
    <3> QED BY <2>1, <3>1, <3>2
  <2> QED BY <1>3, <2>1, <2>4
<1> QED BY <1>4, <1>5, <1>6

-----------------------------------------------------------------------------
(* The theorem *)

LEMMA SectionInvStep ==
  ASSUME "split" \notin Risks, "restore" \notin Risks, IInv, SInv, [Next]_vars
  PROVE  SInv'
<1>1. CASE UNCHANGED vars
  <2>1. in' = in /\ phase' = phase /\ todo' = todo /\ current' = current
    BY <1>1 DEF vars
  <2> QED BY <2>1 DEF SInv, Sections, SectionInv, Chain, Single, Restoring, Leaving, SectionTurn
<1>2. CASE Soak
  BY <1>2, MakeSection, DeleteSection, WakeSection, PreserveSection, MaintainSection, IntendSection,
     FindSoakSection, ChooseSection
  DEF Soak
<1>3. CASE Execute
  BY <1>3, ChooseSection, WaitsSection, CallsSection, ActionIntendsSection, ActionEndsSection,
     BeginSection, EndsSection, GoalsSection, RestoreSection, RestoreAndFailSection,
     MakeThreadsSection, JoinSection, LastJoinSection, EndingSection
  DEF Execute, execute_intention_action, execute_intention_body
<1> QED BY <1>1, <1>2, <1>3 DEF Next

LEMMA SectionInvInit ==
  ASSUME Init
  PROVE  SInv
<1>1. PICK t \in Tib, op \in {"body", "action"} : in = make_intention(t, op, None)
  BY DEF Init
<1>2. /\ in.fils = [f \in Tib \cup {Top} |-> IF f = Top THEN {t} ELSE {}]
      /\ in.suspended = [u \in Tib |-> None] /\ in.section = None /\ in.opened = None
  BY <1>1 DEF make_intention
<1>3. Sections(in, Leaving)
  BY <1>2 DEF Sections, SectionInv, Single, Restoring
<1>4. SectionTurn
  BY <1>2 DEF SectionTurn
<1> QED BY <1>3, <1>4 DEF SInv

\* When no procedure waits below a maintained goal, splits in a section, or
\* opens one as the way to restore a condition, the critical section is at every
\* moment that of a live thread that can execute, below the thread whose
\* procedure has opened it: through splits and joins, failures, suspensions and
\* removals of all that was below, nobody holds the kernel who cannot give it back.
THEOREM SectionThreadCorrect ==
  ASSUME Risks = {}
  PROVE  Spec => []SectionThread
<1>1. "wait" \notin Risks /\ "split" \notin Risks /\ "restore" \notin Risks
  OBVIOUS
<1>2. IInv /\ [Next]_vars => IInv'
  BY <1>1, InvStep
<1>3. IInv /\ SInv /\ [Next]_vars => SInv'
  BY <1>1, SectionInvStep
<1>4. Init => IInv /\ SInv
  BY InvInit, SectionInvInit
<1>5. IInv /\ SInv => SectionThread
  BY DEF SInv, Sections, SectionInv, Chain, Executable, SectionThread
<1> QED BY <1>2, <1>3, <1>4, <1>5, PTL DEF Spec

=============================================================================
