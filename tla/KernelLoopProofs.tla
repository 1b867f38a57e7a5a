-------------------------- MODULE KernelLoopProofs --------------------------
(***************************************************************************)
(* Theorems about KernelLoop, for any senders, bounds and options: the     *)
(* types, what becomes of a soak that the meta level replaces, the wait in *)
(* a critical section, and that the queues implement EventService.         *)
(***************************************************************************)
EXTENDS KernelLoop, SequenceTheorems, FiniteSetTheorems, TLAPS

-----------------------------------------------------------------------------
(* The inductive invariant *)

IsMessage(e) == e.from \in Sender

IsMeta(e) == e.from = "meta"

\* What is counted is there to be counted.
CountInv ==
  /\ IsFiniteSet(soak) /\ IsFiniteSet(previous_soak)
  /\ section \in {"asleep", "awaits message"} => asleep > 0

\* Each queue holds events of its sources that have been accepted, and the
\* lists of a turn are empty once they have been gone through.
QueueInv ==
  /\ facts # <<>> => phase = "facts"
  /\ goals # <<>> => phase \in {"facts", "goals"}
  /\ \A e \in Elements(facts) \cup Elements(new_facts) : e.from # "goal"
  /\ \A e \in Elements(goals) \cup Elements(new_goals) : e.from = "goal"
  /\ \A e \in Elements(locked_messages) \cup held : IsMessage(e)
  /\ \A e \in Pending \cup held : e.n <= sent[e.from]

\* A message is in the way of a thread only where the section that thread is in
\* cannot begin: messages are read before a shift, and sections begin after it.
MessageInv ==
  /\ section # "none" \/ phase \notin {"stdin", "shift"} =>
       \A e \in Elements(new_facts) : ~IsMessage(e)
  /\ section # "none" => \A e \in Elements(facts) : ~IsMessage(e)

\* Messages are held back or not, and those that are come last in a turn.
LateInv ==
  /\ Elements(locked_messages) \subseteq held
  /\ Elements(new_facts) \cap held = {}

\* e was accepted before f if they are of the same source, and both in the set
\* h of the messages that were held back or both not.
Ordered(h, e, f) ==
  ~IsMeta(e) /\ e.from = f.from /\ (e \in h <=> f \in h) => e.n < f.n

Ascending(h, q) == \A j, k \in DOMAIN q : j < k => Ordered(h, q[j], q[k])

Precede(h, q, r) == \A e \in Elements(q), f \in Elements(r) : Ordered(h, e, f)

OrderInv ==
  /\ \A q \in {facts, new_facts, locked_messages, goals, new_goals} : Ascending(held, q)
  /\ Precede(held, facts, new_facts) /\ Precede(held, facts, locked_messages)
  /\ Precede(held, goals, new_goals)

\* The client loop with the meta level: once the queues of a turn have been
\* shifted only the meta level posts; what it soaks after a first soak is what it
\* posted, or what a section let go; when it decides nothing is left of a soak.
ForMeta(e) == IsMeta(e) \/ e \in held

MetaInv ==
  loop = "client" /\ meta_level =>
    /\ phase \in {"facts", "goals", "decide"} \/ (phase = "shift" /\ previous_soak # {}) =>
         /\ \A e \in Elements(new_facts) : IsMeta(e)
         /\ new_goals = <<>>
    /\ phase \in {"facts", "goals", "decide"} /\ previous_soak # {} =>
         /\ \A e \in Elements(facts) \cup soak : ForMeta(e)
         /\ goals = <<>>
    /\ phase \notin {"shift", "facts", "goals", "decide"} =>
         soak = {} /\ previous_soak = {}

IInv == TypeOK /\ CountInv /\ QueueInv /\ MessageInv /\ LateInv /\ OrderInv /\ MetaInv

-----------------------------------------------------------------------------
(* Queues and their elements *)

LEMMA ElementsAppend ==
  ASSUME NEW S, NEW q \in Seq(S), NEW e \in S
  PROVE  Elements(Append(q, e)) = Elements(q) \cup {e}
<1>1. /\ DOMAIN q = 1 .. Len(q) /\ Len(q) \in Nat
      /\ DOMAIN Append(q, e) = 1 .. Len(q) + 1
      /\ \A k \in 1 .. Len(q) + 1 : Append(q, e)[k] = IF k = Len(q) + 1 THEN e ELSE q[k]
  OBVIOUS
<1>2. ASSUME NEW f \in Elements(Append(q, e)) PROVE f \in Elements(q) \cup {e}
  BY <1>1 DEF Elements
<1>3. ASSUME NEW f \in Elements(q) \cup {e} PROVE f \in Elements(Append(q, e))
  <2>1. CASE f = e
    <3>1. Len(q) + 1 \in DOMAIN Append(q, e) /\ Append(q, e)[Len(q) + 1] = e
      BY <1>1
    <3> QED BY <2>1, <3>1 DEF Elements
  <2>2. CASE f \in Elements(q)
    <3>1. PICK k \in DOMAIN q : f = q[k]
      BY <2>2 DEF Elements
    <3>2. k \in DOMAIN Append(q, e) /\ Append(q, e)[k] = f
      BY <1>1, <3>1
    <3> QED BY <3>2 DEF Elements
  <2> QED BY <2>1, <2>2
<1> QED BY <1>2, <1>3

LEMMA ElementsTail ==
  ASSUME NEW S, NEW q \in Seq(S), q # <<>>
  PROVE  /\ Elements(q) = {Head(q)} \cup Elements(Tail(q))
         /\ Head(q) \in S /\ Tail(q) \in Seq(S)
<1>1. /\ DOMAIN q = 1 .. Len(q) /\ Len(q) \in Nat \ {0} /\ Head(q) = q[1]
      /\ DOMAIN Tail(q) = 1 .. Len(q) - 1
      /\ \A k \in 1 .. Len(q) - 1 : Tail(q)[k] = q[k + 1]
  OBVIOUS
<1>2. ASSUME NEW f \in Elements(q) PROVE f \in {Head(q)} \cup Elements(Tail(q))
  <2>1. PICK k \in 1 .. Len(q) : f = q[k]
    BY <1>1 DEF Elements
  <2>2. k = 1 \/ (k - 1 \in DOMAIN Tail(q) /\ Tail(q)[k - 1] = q[k])
    BY <1>1
  <2> QED BY <1>1, <2>1, <2>2 DEF Elements
<1>3. ASSUME NEW f \in {Head(q)} \cup Elements(Tail(q)) PROVE f \in Elements(q)
  <2>1. CASE f = Head(q)
    BY <1>1, <2>1 DEF Elements
  <2>2. CASE f \in Elements(Tail(q))
    <3>1. PICK k \in 1 .. Len(q) - 1 : f = q[k + 1]
      BY <1>1, <2>2 DEF Elements
    <3> QED BY <1>1, <3>1 DEF Elements
  <2> QED BY <2>1, <2>2
<1>4. Head(q) \in S /\ Tail(q) \in Seq(S)
  BY <1>1
<1> QED BY <1>2, <1>3, <1>4

LEMMA ElementsConcat ==
  ASSUME NEW S, NEW q \in Seq(S), NEW r \in Seq(S)
  PROVE  Elements(q \o r) = Elements(q) \cup Elements(r)
<1>1. /\ DOMAIN q = 1 .. Len(q) /\ Len(q) \in Nat /\ DOMAIN r = 1 .. Len(r) /\ Len(r) \in Nat
      /\ DOMAIN (q \o r) = 1 .. Len(q) + Len(r)
      /\ \A k \in 1 .. Len(q) + Len(r) :
           (q \o r)[k] = IF k <= Len(q) THEN q[k] ELSE r[k - Len(q)]
  OBVIOUS
<1>2. ASSUME NEW f \in Elements(q \o r) PROVE f \in Elements(q) \cup Elements(r)
  <2>1. PICK k \in 1 .. Len(q) + Len(r) : f = (q \o r)[k]
    BY <1>1 DEF Elements
  <2>2. k \in 1 .. Len(q) \/ (k > Len(q) /\ k - Len(q) \in 1 .. Len(r))
    BY <1>1
  <2> QED BY <1>1, <2>1, <2>2 DEF Elements
<1>3. ASSUME NEW f \in Elements(q) PROVE f \in Elements(q \o r)
  <2>1. PICK k \in 1 .. Len(q) : f = q[k]
    BY <1>1, <1>3 DEF Elements
  <2>2. k \in DOMAIN (q \o r) /\ (q \o r)[k] = f
    BY <1>1, <2>1
  <2> QED BY <2>2 DEF Elements
<1>4. ASSUME NEW f \in Elements(r) PROVE f \in Elements(q \o r)
  <2>1. PICK k \in 1 .. Len(r) : f = r[k]
    BY <1>1, <1>4 DEF Elements
  <2>2. Len(q) + k \in DOMAIN (q \o r) /\ (q \o r)[Len(q) + k] = f
    BY <1>1, <2>1
  <2> QED BY <2>2 DEF Elements
<1> QED BY <1>2, <1>3, <1>4

LEMMA QueueTypes ==
  ASSUME NEW S, NEW q \in Seq(S), NEW r \in Seq(S)
  PROVE  /\ q \o r \in Seq(S) /\ <<>> \in Seq(S)
         /\ \A e \in S : Append(q, e) \in Seq(S)
OBVIOUS

LEMMA SentType ==
  ASSUME NEW f \in [Source -> Nat], NEW s \in Source
  PROVE  [f EXCEPT ![s] = f[s] + 1] \in [Source -> Nat]
OBVIOUS

LEMMA ElementsEmpty == Elements(<<>>) = {}
BY DEF Elements

LEMMA ElementsType ==
  ASSUME NEW S, NEW q \in Seq(S)
  PROVE  Elements(q) \subseteq S
BY DEF Elements

\* What comes after all the others is put at the end.
LEMMA AscendingAppend ==
  ASSUME NEW h, NEW S, NEW q \in Seq(S), NEW e \in S, Ascending(h, q),
         \A f \in Elements(q) : Ordered(h, f, e)
  PROVE  Ascending(h, Append(q, e))
<1>1. /\ DOMAIN q = 1 .. Len(q) /\ Len(q) \in Nat
      /\ DOMAIN Append(q, e) = 1 .. Len(q) + 1
      /\ \A k \in 1 .. Len(q) + 1 : Append(q, e)[k] = IF k = Len(q) + 1 THEN e ELSE q[k]
  OBVIOUS
<1>2. ASSUME NEW j \in 1 .. Len(q) + 1, NEW k \in 1 .. Len(q) + 1, j < k
      PROVE  Ordered(h, Append(q, e)[j], Append(q, e)[k])
  <2>1. j \in DOMAIN q /\ Append(q, e)[j] = q[j] /\ q[j] \in Elements(q)
    BY <1>1, <1>2 DEF Elements
  <2>2. CASE k = Len(q) + 1
    BY <1>1, <2>1, <2>2
  <2>3. CASE k # Len(q) + 1
    BY <1>1, <1>2, <2>1, <2>3 DEF Ascending
  <2> QED BY <2>2, <2>3
<1> QED BY <1>1, <1>2 DEF Ascending

LEMMA AscendingTail ==
  ASSUME NEW h, NEW S, NEW q \in Seq(S), q # <<>>, Ascending(h, q)
  PROVE  /\ Ascending(h, Tail(q))
         /\ \A f \in Elements(Tail(q)) : Ordered(h, Head(q), f)
<1>1. /\ DOMAIN q = 1 .. Len(q) /\ Len(q) \in Nat \ {0} /\ Head(q) = q[1]
      /\ DOMAIN Tail(q) = 1 .. Len(q) - 1
      /\ \A k \in 1 .. Len(q) - 1 : Tail(q)[k] = q[k + 1]
  OBVIOUS
<1>2. ASSUME NEW j \in 1 .. Len(q) - 1, NEW k \in 1 .. Len(q) - 1, j < k
      PROVE  Ordered(h, Tail(q)[j], Tail(q)[k])
  <2>1. j + 1 \in DOMAIN q /\ k + 1 \in DOMAIN q /\ j + 1 < k + 1
    BY <1>1, <1>2
  <2> QED BY <1>1, <2>1 DEF Ascending
<1>3. ASSUME NEW f \in Elements(Tail(q)) PROVE Ordered(h, Head(q), f)
  <2>1. PICK k \in 1 .. Len(q) - 1 : f = q[k + 1]
    BY <1>1 DEF Elements
  <2>2. 1 \in DOMAIN q /\ k + 1 \in DOMAIN q /\ 1 < k + 1
    BY <1>1
  <2> QED BY <1>1, <2>1, <2>2 DEF Ascending
<1> QED BY <1>1, <1>2, <1>3 DEF Ascending

LEMMA AscendingConcat ==
  ASSUME NEW h, NEW S, NEW q \in Seq(S), NEW r \in Seq(S),
         Ascending(h, q), Ascending(h, r), Precede(h, q, r)
  PROVE  Ascending(h, q \o r)
<1>1. /\ DOMAIN q = 1 .. Len(q) /\ Len(q) \in Nat /\ DOMAIN r = 1 .. Len(r) /\ Len(r) \in Nat
      /\ DOMAIN (q \o r) = 1 .. Len(q) + Len(r)
      /\ \A k \in 1 .. Len(q) + Len(r) :
           (q \o r)[k] = IF k <= Len(q) THEN q[k] ELSE r[k - Len(q)]
  OBVIOUS
<1>2. ASSUME NEW j \in 1 .. Len(q) + Len(r), NEW k \in 1 .. Len(q) + Len(r), j < k
      PROVE  Ordered(h, (q \o r)[j], (q \o r)[k])
  <2>1. CASE k <= Len(q)
    BY <1>1, <1>2, <2>1 DEF Ascending
  <2>2. CASE j > Len(q)
    <3>1. j - Len(q) \in DOMAIN r /\ k - Len(q) \in DOMAIN r /\ j - Len(q) < k - Len(q)
      BY <1>1, <1>2, <2>2
    <3> QED BY <1>1, <1>2, <2>2, <3>1 DEF Ascending
  <2>3. CASE j <= Len(q) /\ k > Len(q)
    <3>1. q[j] \in Elements(q) /\ r[k - Len(q)] \in Elements(r)
      BY <1>1, <1>2, <2>3 DEF Elements
    <3> QED BY <1>1, <2>3, <3>1 DEF Precede
  <2> QED BY <1>1, <2>1, <2>2, <2>3
<1> QED BY <1>1, <1>2 DEF Ascending

-----------------------------------------------------------------------------
(* Types, and what is counted *)

LEMMA InitInv == Init => IInv
<1> SUFFICES ASSUME Init PROVE IInv
  OBVIOUS
<1>1. TypeOK
  <2>1. /\ loop \in {"client", "graphical"} /\ meta_level \in BOOLEAN
        /\ sent \in [Source -> Nat]
    BY LoopAssumption DEF Init
  <2>2. /\ \A q \in {new_facts, facts, locked_messages, new_goals, goals} : q \in Seq(Event)
        /\ held \in SUBSET Event /\ soak \in SUBSET Event /\ previous_soak \in SUBSET Event
    BY DEF Init
  <2>3. posted_meta_fact \in BOOLEAN /\ depth \in Nat /\ active \in Nat /\ asleep \in Nat /\ todo \in Nat
    BY DEF Init
  <2>4. section \in Section /\ run_mode \in RunMode /\ phase \in Phase
    BY DEF Init, Section, RunMode, Phase
  <2> QED BY <2>1, <2>2, <2>3, <2>4 DEF TypeOK
<1>2. CountInv
  BY FS_EmptySet DEF Init, CountInv
<1>3. QueueInv /\ LateInv /\ OrderInv /\ MessageInv
  BY ElementsEmpty DEF Init, QueueInv, LateInv, OrderInv, MessageInv, Pending, Ascending, Precede
<1>4. MetaInv
  BY DEF Init, MetaInv
<1> QED BY <1>1, <1>2, <1>3, <1>4 DEF IInv

LEMMA EventTypes ==
  ASSUME TypeOK
  PROVE  /\ Meta \in Event
         /\ \A s \in Source : NextEvent(s) \in Event
BY DEF TypeOK, Meta, Event, NextEvent

LEMMA ChosenCount ==
  ASSUME CountInv
  PROVE  Cardinality(soak) \in Nat /\ Cardinality(previous_soak) \in Nat
BY FS_CardinalityType DEF CountInv

LEMMA TypeStep ==
  ASSUME TypeOK, CountInv, [Next]_vars
  PROVE  TypeOK'
<1> USE DEF TypeOK, modeVars, eventVars, factVars, goalVars, soakVars, execVars
<1>0. CASE UNCHANGED vars
  BY <1>0 DEF vars
<1>1. ASSUME NEW s \in Sender, ReadMessage(s)
      PROVE  TypeOK'
  <2>1. s \in Source /\ NextEvent(s) \in Event
    BY EventTypes DEF Source
  <2>2. sent' \in [Source -> Nat]
    <3>1. sent' = [sent EXCEPT ![s] = sent[s] + 1]
      BY <1>1, <2>1 DEF ReadMessage, get_message, Accepted
    <3> QED BY <2>1, <3>1, SentType
  <2>3. new_facts' \in Seq(Event) /\ locked_messages' \in Seq(Event) /\ held' \in SUBSET Event
    <3>1. /\ new_facts' \in {new_facts, Append(new_facts, NextEvent(s))}
          /\ locked_messages' \in {locked_messages, Append(locked_messages, NextEvent(s))}
          /\ held' \in {held, held \cup {NextEvent(s)}}
      BY <1>1 DEF ReadMessage, get_message
    <3>2. new_facts \in Seq(Event) /\ locked_messages \in Seq(Event) /\ held \in SUBSET Event
      OBVIOUS
    <3>3. /\ Append(new_facts, NextEvent(s)) \in Seq(Event)
          /\ Append(locked_messages, NextEvent(s)) \in Seq(Event)
      BY <2>1, <3>2, QueueTypes
    <3> HIDE DEF TypeOK
    <3> QED BY <2>1, <3>1, <3>2, <3>3
  <2>4. UNCHANGED <<modeVars, facts, goalVars, soakVars, execVars, run_mode, phase, todo>>
    BY <1>1 DEF ReadMessage, get_message
  <2> QED BY <2>2, <2>3, <2>4
<1>2. CASE ServerAdds
  <2>1. "server" \in Source /\ NextEvent("server") \in Event
    BY EventTypes DEF Source
  <2> QED BY <1>2, <2>1 DEF ServerAdds, add_fact, Accepted
<1>3. ASSUME NEW mode \in RunMode, set_oprs_run_mode(mode)
      PROVE  TypeOK'
  BY <1>3 DEF set_oprs_run_mode
<1>4. CASE reset_oprs_kernel
  <2>1. UNCHANGED <<modeVars, sent, held, soak, posted_meta_fact, depth, run_mode, phase, todo>>
    BY <1>4 DEF reset_oprs_kernel
  <2>2. facts' \in Seq(Event)
    BY <1>4 DEF reset_oprs_kernel
  <2>3. new_facts' \in Seq(Event)
    BY <1>4 DEF reset_oprs_kernel
  <2>4. goals' \in Seq(Event)
    BY <1>4 DEF reset_oprs_kernel
  <2>5. new_goals' \in Seq(Event)
    BY <1>4 DEF reset_oprs_kernel
  <2>6. locked_messages' \in Seq(Event)
    BY <1>4 DEF reset_oprs_kernel
  <2>7. active' \in Nat
    BY <1>4 DEF reset_oprs_kernel
  <2>8. asleep' \in Nat
    BY <1>4 DEF reset_oprs_kernel
  <2>9. section' \in Section
    BY <1>4 DEF reset_oprs_kernel, Section
  <2>10. previous_soak' \in SUBSET Event
    BY <1>4 DEF reset_oprs_kernel
  <2> QED BY <2>1, <2>2, <2>3, <2>4, <2>5, <2>6, <2>7, <2>8, <2>9, <2>10
<1>5. CASE StartTurn
  BY <1>5 DEF StartTurn, Phase
<1>6. CASE Shift
  <2>1. UNCHANGED <<modeVars, sent, held, previous_soak, depth, execVars, run_mode, todo>>
    BY <1>6 DEF Shift, shift_facts_goals
  <2>2. facts' \in Seq(Event)
    <3>1. facts' \in {new_facts, new_facts \o locked_messages}
      BY <1>6 DEF Shift, shift_facts_goals
    <3>2. new_facts \in Seq(Event) /\ new_facts \o locked_messages \in Seq(Event)
      BY QueueTypes
    <3> QED BY <3>1, <3>2
  <2>3. new_facts' \in Seq(Event)
    BY <1>6 DEF Shift, shift_facts_goals
  <2>4. locked_messages' \in Seq(Event)
    <3>1. locked_messages' \in {<<>>, locked_messages}
      BY <1>6 DEF Shift, shift_facts_goals
    <3>2. <<>> \in Seq(Event) /\ locked_messages \in Seq(Event)
      BY QueueTypes
    <3> QED BY <3>1, <3>2
  <2>5. goals' \in Seq(Event)
    BY <1>6 DEF Shift, shift_facts_goals
  <2>6. new_goals' \in Seq(Event)
    BY <1>6 DEF Shift, shift_facts_goals
  <2>7. soak' \in SUBSET Event
    BY <1>6 DEF Shift, shift_facts_goals
  <2>8. posted_meta_fact' \in BOOLEAN
    BY <1>6 DEF Shift, shift_facts_goals
  <2>9. phase' \in Phase
    BY <1>6 DEF Shift, shift_facts_goals, Phase
  <2> QED BY <2>1, <2>2, <2>3, <2>4, <2>5, <2>6, <2>7, <2>8, <2>9
<1>7. CASE find_soak_fact
  <2>1. UNCHANGED <<modeVars, sent, new_facts, locked_messages, held, goalVars, previous_soak, posted_meta_fact, depth, run_mode, phase, todo>>
    BY <1>7 DEF find_soak_fact
  <2>2. facts' \in Seq(Event)
    BY <1>7, ElementsTail DEF find_soak_fact
  <2>3. soak' \in SUBSET Event
    <3>1. soak' \in {soak, soak \cup {Head(facts)}} /\ Head(facts) \in Event
      BY <1>7, ElementsTail DEF find_soak_fact
    <3> QED BY <3>1
  <2>4. section' \in Section
    BY <1>7 DEF find_soak_fact, Section
  <2>5. active' \in Nat
    <3>1. active' \in {active, active + 1}
      BY <1>7 DEF find_soak_fact
    <3> QED BY <3>1
  <2>6. asleep' \in Nat
    <3>1. asleep' = asleep \/ (asleep' = asleep - 1 /\ asleep > 0)
      BY <1>7 DEF find_soak_fact, CountInv
    <3> QED BY <3>1
  <2> QED BY <2>1, <2>2, <2>3, <2>4, <2>5, <2>6
<1>8. CASE EndFacts
  BY <1>8, EventTypes DEF EndFacts, PostMetaFact, Phase
<1>9. CASE find_soak_goal
  BY <1>9, ElementsTail DEF find_soak_goal
<1>10. CASE EndGoals
  BY <1>10, EventTypes DEF EndGoals, PostMetaFact, Phase
<1>11. CASE WakeUp
  <2>1. UNCHANGED <<modeVars, eventVars, soakVars, run_mode, phase, todo>>
    BY <1>11 DEF WakeUp
  <2>2. active' \in Nat
    <3>1. active' = active + 1
      BY <1>11 DEF WakeUp
    <3> QED BY <3>1
  <2>3. asleep' \in Nat
    <3>1. asleep' = asleep - 1 /\ asleep > 0
      BY <1>11 DEF WakeUp
    <3> QED BY <3>1
  <2>4. section' \in Section
    BY <1>11 DEF WakeUp, Section
  <2> QED BY <2>1, <2>2, <2>3, <2>4
<1>12. CASE MaintainFails
  <2>1. UNCHANGED <<modeVars, eventVars, soakVars, run_mode, phase, todo>>
    BY <1>12 DEF MaintainFails
  <2>2. section' \in Section
    BY <1>12 DEF MaintainFails, Section
  <2>3. active' \in Nat
    BY <1>12 DEF MaintainFails
  <2>4. asleep' \in Nat
    <3>1. section \in {"active", "asleep", "awaits message"}
      BY <1>12 DEF MaintainFails, Section
    <3>2. asleep' = asleep \/ (asleep' = asleep - 1 /\ asleep > 0)
      BY <1>12, <3>1 DEF MaintainFails, CountInv
    <3> QED BY <3>2
  <2> QED BY <2>1, <2>2, <2>3, <2>4
<1>13. CASE MetaReact
  <2>1. UNCHANGED <<modeVars, sent, facts, locked_messages, held, goalVars, soak, execVars, run_mode, todo>>
    BY <1>13 DEF MetaReact
  <2>2. new_facts' \in Seq(Event)
    BY <1>13, EventTypes DEF MetaReact
  <2>3. posted_meta_fact' \in BOOLEAN
    BY <1>13 DEF MetaReact
  <2>4. previous_soak' \in SUBSET Event
    BY <1>13 DEF MetaReact
  <2>5. depth' \in Nat
    BY <1>13 DEF MetaReact, Deeper
  <2>6. phase' \in Phase
    BY <1>13 DEF MetaReact, Phase
  <2> QED BY <2>1, <2>2, <2>3, <2>4, <2>5, <2>6
<1>14. CASE Intend
  BY <1>14, ChosenCount DEF Intend, Phase
<1>15. CASE find_current_intentions
  BY <1>15 DEF find_current_intentions, Section, Phase
<1>16. CASE ExecuteAndPost
  <2>1. NextEvent("thread") \in Event /\ NextEvent("goal") \in Event
    BY EventTypes DEF Source
  <2>2. sent' \in [Source -> Nat]
    <3>1. sent' \in {sent, [sent EXCEPT !["thread"] = sent["thread"] + 1],
                          [sent EXCEPT !["goal"] = sent["goal"] + 1]}
      BY <1>16 DEF ExecuteAndPost, add_fact, add_goal, Accepted
    <3>2. "thread" \in Source /\ "goal" \in Source
      BY DEF Source
    <3> QED BY <3>1, <3>2, SentType
  <2>3. new_facts' \in Seq(Event) /\ new_goals' \in Seq(Event)
    <3>1. /\ new_facts' \in {new_facts, Append(new_facts, NextEvent("thread"))}
          /\ new_goals' \in {new_goals, Append(new_goals, NextEvent("goal"))}
      BY <1>16 DEF ExecuteAndPost, add_fact, add_goal
    <3> QED BY <2>1, <3>1, QueueTypes
  <2>4. UNCHANGED <<modeVars, facts, locked_messages, held, goals, soakVars, execVars, run_mode, phase>>
    BY <1>16 DEF ExecuteAndPost, add_fact, add_goal
  <2>5. todo' \in Nat
    <3>1. todo' \in {todo - 1, 0} /\ todo > 0
      BY <1>16 DEF ExecuteAndPost, StepDone, Executing
    <3> QED BY <3>1
  <2> QED BY <2>2, <2>3, <2>4, <2>5
<1>17. CASE ExecuteSection
  <2>1. UNCHANGED <<modeVars, eventVars, soakVars, active, asleep, run_mode, phase>>
    BY <1>17 DEF ExecuteSection
  <2>2. section' \in Section
    BY <1>17 DEF ExecuteSection, Section
  <2>3. todo' \in Nat
    <3>1. todo' \in {todo - 1, 0} /\ todo > 0
      BY <1>17 DEF ExecuteSection, StepDone, Executing
    <3> QED BY <3>1
  <2> QED BY <2>1, <2>2, <2>3
<1>18. CASE ExecuteWait
  <2>1. UNCHANGED <<modeVars, eventVars, soakVars, run_mode, phase>>
    BY <1>18 DEF ExecuteWait
  <2>2. active' \in Nat
    <3>1. active' = active - 1 /\ active > 0
      BY <1>18 DEF ExecuteWait, Executing
    <3> QED BY <3>1
  <2>3. asleep' \in Nat
    <3>1. asleep' = asleep + 1
      BY <1>18 DEF ExecuteWait
    <3> QED BY <3>1
  <2>4. section' \in Section
    BY <1>18 DEF ExecuteWait, Section
  <2>5. todo' \in Nat
    <3>1. todo' \in {todo - 1, 0} /\ todo > 0
      BY <1>18 DEF ExecuteWait, StepDone, Executing
    <3> QED BY <3>1
  <2> QED BY <2>1, <2>2, <2>3, <2>4, <2>5
<1>19. CASE ExecuteLast
  <2>1. UNCHANGED <<modeVars, eventVars, soakVars, asleep, run_mode, phase>>
    BY <1>19 DEF ExecuteLast
  <2>2. active' \in Nat
    <3>1. active' = active - 1 /\ active > 0
      BY <1>19 DEF ExecuteLast, Executing
    <3> QED BY <3>1
  <2>3. section' \in Section
    BY <1>19 DEF ExecuteLast, Section
  <2>4. todo' \in Nat
    <3>1. todo' \in {todo - 1, 0} /\ todo > 0
      BY <1>19 DEF ExecuteLast, StepDone, Executing
    <3> QED BY <3>1
  <2> QED BY <2>1, <2>2, <2>3, <2>4
<1>20. CASE ExecuteTraced
  BY <1>20 DEF ExecuteTraced, RunMode
<1>21. CASE EndActivate
  BY <1>21 DEF EndActivate, Phase
<1>22. CASE EndSelect
  BY <1>22 DEF EndSelect, Phase
<1>23. CASE EndTurn
  BY <1>23 DEF EndTurn, RunMode, Phase
<1> QED BY <1>0, <1>1, <1>2, <1>3, <1>4, <1>5, <1>6, <1>7, <1>8, <1>9, <1>10, <1>11, <1>12, <1>13,
           <1>14, <1>15, <1>16, <1>17, <1>18, <1>19, <1>20, <1>21, <1>22, <1>23
        DEF Next, Input, FindSoak, Execute

LEMMA CountStep ==
  ASSUME TypeOK, CountInv, [Next]_vars
  PROVE  CountInv'
<1> USE DEF modeVars, eventVars, factVars, goalVars, soakVars, execVars
<1> DEFINE Sleeping == section \in {"asleep", "awaits message"}
<1>1. /\ active \in Nat /\ asleep \in Nat
      /\ IsFiniteSet(soak) /\ IsFiniteSet(previous_soak) /\ (Sleeping => asleep > 0)
  BY DEF TypeOK, CountInv
<1>2. /\ \/ soak' = soak \/ soak' = {} \/ \E e : soak' = soak \cup {e}
      /\ \/ previous_soak' = previous_soak \/ previous_soak' = soak \/ previous_soak' = {}
  <2>1. CASE UNCHANGED vars
    BY <2>1 DEF vars
  <2>2. CASE Input
    BY <2>2 DEF Input, ReadMessage, ServerAdds, set_oprs_run_mode, reset_oprs_kernel
  <2>3. CASE FindSoak
    BY <2>3 DEF FindSoak, Shift, find_soak_fact, EndFacts, find_soak_goal, EndGoals
  <2>4. CASE StartTurn \/ WakeUp \/ MaintainFails \/ MetaReact \/ Intend \/ find_current_intentions
    BY <2>4 DEF StartTurn, WakeUp, MaintainFails, MetaReact, Intend, find_current_intentions
  <2>5. CASE Execute \/ ExecuteTraced \/ EndActivate \/ EndSelect \/ EndTurn
    BY <2>5 DEF Execute, ExecuteAndPost, ExecuteSection, ExecuteWait, ExecuteLast, ExecuteTraced,
                EndActivate, EndSelect, EndTurn
  <2> QED BY <2>1, <2>2, <2>3, <2>4, <2>5 DEF Next
<1>3. \/ ~Sleeping'
      \/ Sleeping /\ UNCHANGED asleep
      \/ asleep' = asleep + 1
      \/ asleep' = asleep - 1 /\ asleep > 1
  <2>1. CASE UNCHANGED vars
    BY <2>1 DEF vars
  <2>2. CASE Input
    BY <2>2 DEF Input, ReadMessage, ServerAdds, set_oprs_run_mode, reset_oprs_kernel
  <2>3. CASE FindSoak
    BY <2>3 DEF FindSoak, Shift, find_soak_fact, EndFacts, find_soak_goal, EndGoals
  <2>4. CASE WakeUp
    BY <2>4 DEF WakeUp
  <2>5. CASE StartTurn \/ MaintainFails \/ MetaReact \/ Intend \/ find_current_intentions
    BY <2>5 DEF StartTurn, MaintainFails, MetaReact, Intend, find_current_intentions
  <2>6. CASE Execute
    BY <2>6 DEF Execute, Executing, ExecuteAndPost, ExecuteSection, ExecuteWait, ExecuteLast
  <2>7. CASE ExecuteTraced \/ EndActivate \/ EndSelect \/ EndTurn
    BY <2>7 DEF ExecuteTraced, EndActivate, EndSelect, EndTurn
  <2> QED BY <2>1, <2>2, <2>3, <2>4, <2>5, <2>6, <2>7 DEF Next
<1>4. Sleeping' => asleep' > 0
  <2>1. CASE ~Sleeping'
    BY <2>1
  <2>2. CASE Sleeping /\ UNCHANGED asleep
    BY <1>1, <2>2
  <2>3. asleep \in Nat
    BY <1>1
  <2>4. ASSUME asleep' = asleep + 1 PROVE asleep' > 0
    BY <2>3, <2>4
  <2>5. ASSUME asleep' = asleep - 1, asleep > 1 PROVE asleep' > 0
    BY <2>3, <2>5
  <2> QED BY <1>3, <2>1, <2>2, <2>4, <2>5
<1>5. IsFiniteSet(soak') /\ IsFiniteSet(previous_soak')
  <2>1. \A e : IsFiniteSet(soak \cup {e})
    BY <1>1, FS_AddElement
  <2> QED BY <1>1, <1>2, <2>1, FS_EmptySet
<1> QED BY <1>4, <1>5 DEF CountInv

-----------------------------------------------------------------------------
(* What the steps do to the queues *)

\* The queues stay, and a list is left when it is empty.  Messages are read
\* before the shift, and a section begins after it.
QuietStep ==
  /\ UNCHANGED <<sent, facts, new_facts, locked_messages, held, goals, new_goals>>
  /\ facts # <<>> => phase' = "facts"
  /\ goals # <<>> => phase' \in {"facts", "goals"}
  /\ phase' \notin {"stdin", "shift"} => phase \notin {"stdin", "shift"}
  /\ section' # "none" => section # "none" \/ phase = "execute"

PostFactStep(s) ==
  /\ phase \in {"stdin", "execute"} /\ UNCHANGED <<phase, section>>
  /\ s \in Sender => section = "none" /\ phase = "stdin"
  /\ sent' = [sent EXCEPT ![s] = sent[s] + 1]
  /\ new_facts' = Append(new_facts, NextEvent(s))
  /\ UNCHANGED <<facts, locked_messages, held, goals, new_goals>>

HoldStep(s) ==
  /\ section # "none" /\ UNCHANGED <<phase, section>>
  /\ sent' = [sent EXCEPT ![s] = sent[s] + 1]
  /\ locked_messages' = Append(locked_messages, NextEvent(s))
  /\ held' = held \cup {NextEvent(s)}
  /\ UNCHANGED <<facts, new_facts, goals, new_goals>>

PostGoalStep ==
  /\ UNCHANGED <<phase, section>>
  /\ sent' = [sent EXCEPT !["goal"] = sent["goal"] + 1]
  /\ new_goals' = Append(new_goals, NextEvent("goal"))
  /\ UNCHANGED <<facts, new_facts, locked_messages, held, goals>>

PostMetaStep ==
  /\ phase \notin {"stdin", "shift"} /\ section = "none" /\ UNCHANGED section
  /\ facts = <<>> /\ (goals = <<>> \/ phase' = "goals")
  /\ new_facts' = Append(new_facts, Meta)
  /\ UNCHANGED <<sent, facts, locked_messages, held, goals, new_goals>>

\* Every step is one of these.
LEMMA EventSteps ==
  ASSUME TypeOK, QueueInv, [Next]_vars
  PROVE  \/ QuietStep
         \/ \E s \in Sender \cup {"server", "thread"} : PostFactStep(s)
         \/ \E s \in Sender : HoldStep(s)
         \/ PostGoalStep \/ PostMetaStep
         \/ reset_oprs_kernel \/ Shift \/ find_soak_fact \/ find_soak_goal
<1> USE DEF modeVars, eventVars, factVars, goalVars, soakVars, execVars
<1>0. CASE UNCHANGED vars
  BY <1>0 DEF vars, QuietStep, QueueInv
<1>1. ASSUME NEW s \in Sender, ReadMessage(s)
      PROVE  PostFactStep(s) \/ HoldStep(s)
  BY <1>1 DEF ReadMessage, get_message, Accepted, PostFactStep, HoldStep
<1>2. CASE ServerAdds
  <2>1. "server" \notin Sender
    BY SenderAssumption
  <2> QED BY <1>2, <2>1 DEF ServerAdds, add_fact, Accepted, PostFactStep
<1>3. ASSUME NEW mode \in RunMode, set_oprs_run_mode(mode)
      PROVE  QuietStep
  BY <1>3 DEF set_oprs_run_mode, QuietStep, QueueInv
<1>4. CASE StartTurn
  BY <1>4 DEF StartTurn, QuietStep, QueueInv
<1>5. CASE EndFacts \/ EndGoals
  BY <1>5 DEF EndFacts, EndGoals, PostMetaFact, QuietStep, PostMetaStep, QueueInv
<1>6. CASE WakeUp
  BY <1>6 DEF WakeUp, QuietStep, QueueInv
<1>7. CASE MaintainFails
  BY <1>7 DEF MaintainFails, QuietStep, QueueInv
<1>8. CASE MetaReact
  BY <1>8 DEF MetaReact, QuietStep, PostMetaStep, QueueInv
<1>9. CASE Intend
  BY <1>9 DEF Intend, QuietStep, QueueInv
<1>10. CASE find_current_intentions
  BY <1>10 DEF find_current_intentions, QuietStep, QueueInv
<1>11. CASE ExecuteAndPost
  <2>1. "thread" \notin Sender
    BY SenderAssumption
  <2> QED BY <1>11, <2>1 DEF ExecuteAndPost, Executing, add_fact, add_goal, Accepted,
                             QuietStep, PostFactStep, PostGoalStep, QueueInv
<1>12. CASE ExecuteSection
  BY <1>12 DEF ExecuteSection, Executing, QuietStep, QueueInv
<1>13. CASE ExecuteWait
  BY <1>13 DEF ExecuteWait, Executing, QuietStep, QueueInv
<1>14. CASE ExecuteLast
  BY <1>14 DEF ExecuteLast, Executing, QuietStep, QueueInv
<1>15. CASE ExecuteTraced \/ EndActivate \/ EndSelect \/ EndTurn
  BY <1>15 DEF ExecuteTraced, EndActivate, EndSelect, EndTurn, QuietStep, QueueInv
<1> QED BY <1>0, <1>1, <1>2, <1>3, <1>4, <1>5, <1>6, <1>7, <1>8, <1>9, <1>10, <1>11, <1>12, <1>13,
           <1>14, <1>15
        DEF Next, Input, FindSoak, Execute

\* An event that is accepted is the youngest of its source.
LEMMA Newest ==
  ASSUME TypeOK, QueueInv, NEW s \in Source
  PROVE  /\ NextEvent(s) \in Event /\ NextEvent(s).from = s /\ s # "meta"
         /\ NextEvent(s) \notin Pending \cup held
         /\ \A h : \A e \in Pending : Ordered(h, e, NextEvent(s))
<1>1. NextEvent(s) \in Event /\ NextEvent(s).from = s /\ s # "meta"
  BY EventTypes, SenderAssumption DEF NextEvent, Source
<1>2. ASSUME NEW e \in Pending \cup held, e.from = s
      PROVE  e.n < NextEvent(s).n /\ e # NextEvent(s)
  <2>1. e.n <= sent[s]
    BY <1>2 DEF QueueInv
  <2>2. sent[s] \in Nat /\ NextEvent(s).n = sent[s] + 1
    BY DEF TypeOK, NextEvent
  <2>3. e \in Event
    BY ElementsType DEF Pending, TypeOK
  <2>4. e.n \in Nat
    BY <2>3 DEF Event
  <2> QED BY <2>1, <2>2, <2>4
<1>3. NextEvent(s) \notin Pending \cup held
  BY <1>1, <1>2
<1>4. ASSUME NEW h, NEW e \in Pending PROVE Ordered(h, e, NextEvent(s))
  BY <1>1, <1>2 DEF Ordered
<1> QED BY <1>1, <1>3, <1>4

LEMMA QueuedPending ==
  ASSUME NEW q \in {facts, new_facts, locked_messages, goals, new_goals}, NEW e \in Elements(q)
  PROVE  IsMeta(e) \/ e \in Pending
BY DEF Pending, IsMeta

\* What a section frees comes back as it was put in: a reset spares it.
LEMMA ResetQueues ==
  ASSUME reset_oprs_kernel
  PROVE  /\ facts' = <<>> /\ new_facts' = <<>> /\ goals' = <<>> /\ new_goals' = <<>>
         /\ locked_messages' = IF section = "none" THEN <<>> ELSE locked_messages
         /\ section = "none" => section' = "none"
         /\ phase' = phase /\ phase = "stdin" /\ sent' = sent /\ held' = held
BY DEF reset_oprs_kernel

LEMMA ShiftQueues ==
  ASSUME Shift
  PROVE  /\ phase = "shift" /\ phase' = "facts"
         /\ \/ /\ section = "none"
               /\ facts' = new_facts \o locked_messages /\ locked_messages' = <<>>
            \/ /\ section # "none"
               /\ facts' = new_facts /\ locked_messages' = locked_messages
         /\ new_facts' = <<>> /\ goals' = new_goals /\ new_goals' = <<>>
         /\ sent' = sent /\ held' = held /\ section' = section
BY DEF Shift, shift_facts_goals, execVars

LEMMA FactQueues ==
  ASSUME find_soak_fact
  PROVE  /\ phase = "facts" /\ phase' = "facts" /\ facts # <<>> /\ facts' = Tail(facts)
         /\ UNCHANGED <<sent, new_facts, locked_messages, held, goals, new_goals>>
         /\ (section' = "none") = (section = "none")
BY DEF find_soak_fact, goalVars

LEMMA GoalQueues ==
  ASSUME find_soak_goal
  PROVE  /\ phase = "goals" /\ phase' = "goals" /\ goals # <<>> /\ goals' = Tail(goals)
         /\ UNCHANGED <<sent, facts, new_facts, locked_messages, held, new_goals, section>>
BY DEF find_soak_goal, factVars, execVars

\* The events of each queue after a step.
LEMMA ElementsStep ==
  ASSUME TypeOK, QueueInv
  PROVE  /\ \A s \in Sender \cup {"server", "thread"} : PostFactStep(s) =>
              Elements(new_facts') = Elements(new_facts) \cup {NextEvent(s)}
         /\ \A s \in Sender : HoldStep(s) =>
              Elements(locked_messages') = Elements(locked_messages) \cup {NextEvent(s)}
         /\ PostGoalStep => Elements(new_goals') = Elements(new_goals) \cup {NextEvent("goal")}
         /\ PostMetaStep => Elements(new_facts') = Elements(new_facts) \cup {Meta}
         /\ Shift => /\ Elements(facts') = Elements(new_facts) \cup
                          (IF section = "none" THEN Elements(locked_messages) ELSE {})
                     /\ Elements(locked_messages') =
                          (IF section = "none" THEN {} ELSE Elements(locked_messages))
         /\ find_soak_fact => Elements(facts) = {Head(facts)} \cup Elements(facts')
         /\ find_soak_goal => Elements(goals) = {Head(goals)} \cup Elements(goals')
<1>1. /\ facts \in Seq(Event) /\ new_facts \in Seq(Event) /\ locked_messages \in Seq(Event)
      /\ goals \in Seq(Event) /\ new_goals \in Seq(Event)
  BY DEF TypeOK
<1>2. \A s \in Sender \cup {"server", "thread", "goal"} : NextEvent(s) \in Event
  BY EventTypes DEF Source
<1>3. ASSUME NEW s \in Sender \cup {"server", "thread"}, PostFactStep(s)
      PROVE  Elements(new_facts') = Elements(new_facts) \cup {NextEvent(s)}
  BY <1>1, <1>2, <1>3, ElementsAppend DEF PostFactStep
<1>4. ASSUME NEW s \in Sender, HoldStep(s)
      PROVE  Elements(locked_messages') = Elements(locked_messages) \cup {NextEvent(s)}
  BY <1>1, <1>2, <1>4, ElementsAppend DEF HoldStep
<1>5. ASSUME PostGoalStep
      PROVE  Elements(new_goals') = Elements(new_goals) \cup {NextEvent("goal")}
  BY <1>1, <1>2, <1>5, ElementsAppend DEF PostGoalStep
<1>6. ASSUME PostMetaStep
      PROVE  Elements(new_facts') = Elements(new_facts) \cup {Meta}
  BY <1>1, <1>6, EventTypes, ElementsAppend DEF PostMetaStep
<1>7. ASSUME Shift
      PROVE  /\ Elements(facts') = Elements(new_facts) \cup
                   (IF section = "none" THEN Elements(locked_messages) ELSE {})
             /\ Elements(locked_messages') =
                   (IF section = "none" THEN {} ELSE Elements(locked_messages))
  <2>1. CASE section = "none"
    <3>1. facts' = new_facts \o locked_messages /\ locked_messages' = <<>>
      BY <1>7, <2>1, ShiftQueues
    <3>2. Elements(new_facts \o locked_messages) = Elements(new_facts) \cup Elements(locked_messages)
      BY <1>1, ElementsConcat
    <3> QED BY <2>1, <3>1, <3>2, ElementsEmpty
  <2>2. CASE section # "none"
    <3>1. facts' = new_facts /\ locked_messages' = locked_messages
      BY <1>7, <2>2, ShiftQueues
    <3> QED BY <2>2, <3>1
  <2> QED BY <2>1, <2>2
<1>8. ASSUME find_soak_fact PROVE Elements(facts) = {Head(facts)} \cup Elements(facts')
  BY <1>1, <1>8, FactQueues, ElementsTail
<1>9. ASSUME find_soak_goal PROVE Elements(goals) = {Head(goals)} \cup Elements(goals')
  BY <1>1, <1>9, GoalQueues, ElementsTail
<1> QED BY <1>3, <1>4, <1>5, <1>6, <1>7, <1>8, <1>9

-----------------------------------------------------------------------------
(* The queues *)

\* The ranks of the events that are there are ranks that were given.
RankInv == \A e \in Pending \cup held : e.n <= sent[e.from]

LEMMA QueueStep ==
  ASSUME TypeOK, QueueInv, [Next]_vars
  PROVE  QueueInv'
<1> DEFINE Facts == Elements(facts) \cup Elements(new_facts)
           Goals == Elements(goals) \cup Elements(new_goals)
           Messages == Elements(locked_messages) \cup held
<1>1. ASSUME facts' # <<>> => phase' = "facts", goals' # <<>> => phase' \in {"facts", "goals"},
             \A e \in Facts' : e.from # "goal", \A e \in Goals' : e.from = "goal",
             \A e \in Messages' : IsMessage(e), RankInv'
      PROVE  QueueInv'
  BY <1>1 DEF QueueInv, RankInv
<1>2. /\ facts # <<>> => phase = "facts"
      /\ goals # <<>> => phase \in {"facts", "goals"}
      /\ \A e \in Facts : e.from # "goal"
      /\ \A e \in Goals : e.from = "goal"
      /\ \A e \in Messages : IsMessage(e)
      /\ RankInv
  BY DEF QueueInv, RankInv
\* Ranks go up, for the source of the event that is added.
<1>3. ASSUME NEW s \in Source, sent' = [sent EXCEPT ![s] = sent[s] + 1],
             \A e \in Pending' \cup held' : e \in Pending \cup held \cup {NextEvent(s)}
      PROVE  RankInv'
  <2>1. \A e \in Pending \cup held : e \in Event /\ e.from # "meta"
    BY <1>2, ElementsType, SenderAssumption DEF Pending, TypeOK, IsMessage
  <2>2. sent \in [Source -> Nat]
    BY DEF TypeOK
  <2>3. ASSUME NEW e \in Pending \cup held PROVE e.n <= sent'[e.from]
    <3>1. e.from \in Source /\ e.n \in Nat /\ e.n <= sent[e.from]
      BY <1>2, <2>1, <2>3 DEF Event, RankInv
    <3>2. sent[e.from] \in Nat /\ sent'[e.from] = IF e.from = s THEN sent[e.from] + 1 ELSE sent[e.from]
      BY <1>3, <2>2, <3>1
    <3> QED BY <3>1, <3>2
  <2>4. NextEvent(s).from = s /\ NextEvent(s).n = sent[s] + 1 /\ sent'[s] = sent[s] + 1 /\ sent[s] \in Nat
    BY <1>3, <2>2 DEF NextEvent
  <2>5. NextEvent(s).n <= sent'[NextEvent(s).from]
    BY <2>4
  <2> QED BY <1>3, <2>3, <2>5 DEF RankInv
<1>4. ASSUME sent' = sent, Pending' \cup held' \subseteq Pending \cup held
      PROVE  RankInv'
  BY <1>2, <1>4 DEF RankInv
<1>5. CASE QuietStep
  <2>1. UNCHANGED <<sent, Facts, Goals, Messages, Pending, held, facts, goals>>
    BY <1>5 DEF QuietStep, Pending
  <2>2. RankInv'
    BY <1>4, <2>1
  <2> QED BY <1>1, <1>2, <1>5, <2>1, <2>2 DEF QuietStep
<1>6. ASSUME NEW s \in Sender \cup {"server", "thread"}, PostFactStep(s)
      PROVE  QueueInv'
  <2>1. s \in Source /\ s # "goal"
    BY SenderAssumption DEF Source
  <2>2. /\ Facts' = Facts \cup {NextEvent(s)} /\ UNCHANGED <<Goals, Messages, held>>
        /\ Pending' \subseteq Pending \cup {NextEvent(s)}
    <3>1. Elements(new_facts') = Elements(new_facts) \cup {NextEvent(s)}
      BY <1>6, ElementsStep
    <3>2. UNCHANGED <<facts, locked_messages, held, goals, new_goals>>
      BY <1>6 DEF PostFactStep
    <3> QED BY <3>1, <3>2 DEF Pending
  <2>3. RankInv'
    BY <1>3, <1>6, <2>1, <2>2 DEF PostFactStep
  <2>4. NextEvent(s).from # "goal"
    BY <2>1 DEF NextEvent
  <2> QED BY <1>1, <1>2, <1>6, <2>2, <2>3, <2>4 DEF PostFactStep
<1>7. ASSUME NEW s \in Sender, HoldStep(s)
      PROVE  QueueInv'
  <2>1. s \in Source
    BY DEF Source
  <2>2. /\ Messages' = Messages \cup {NextEvent(s)} /\ UNCHANGED <<Facts, Goals>>
        /\ Pending' \cup held' \subseteq Pending \cup held \cup {NextEvent(s)}
    <3>1. /\ Elements(locked_messages') = Elements(locked_messages) \cup {NextEvent(s)}
          /\ held' = held \cup {NextEvent(s)}
      BY <1>7, ElementsStep DEF HoldStep
    <3>2. UNCHANGED <<facts, new_facts, goals, new_goals>>
      BY <1>7 DEF HoldStep
    <3> QED BY <3>1, <3>2 DEF Pending
  <2>3. RankInv'
    BY <1>3, <1>7, <2>1, <2>2 DEF HoldStep
  <2>4. IsMessage(NextEvent(s))
    BY DEF NextEvent, IsMessage
  <2> QED BY <1>1, <1>2, <1>7, <2>2, <2>3, <2>4 DEF HoldStep
<1>8. CASE PostGoalStep
  <2>1. "goal" \in Source
    BY DEF Source
  <2>2. /\ Goals' = Goals \cup {NextEvent("goal")} /\ UNCHANGED <<Facts, Messages, held>>
        /\ Pending' \subseteq Pending \cup {NextEvent("goal")}
    BY <1>8, ElementsStep DEF PostGoalStep, Pending
  <2>3. RankInv'
    BY <1>3, <1>8, <2>1, <2>2 DEF PostGoalStep
  <2>4. NextEvent("goal").from = "goal"
    BY DEF NextEvent
  <2> QED BY <1>1, <1>2, <1>8, <2>2, <2>3, <2>4 DEF PostGoalStep
<1>9. CASE PostMetaStep
  <2>1. /\ Facts' = Facts \cup {Meta} /\ UNCHANGED <<Goals, Messages, held, sent>>
        /\ Pending' \subseteq Pending
    BY <1>9, ElementsStep DEF PostMetaStep, Pending, Meta
  <2>2. RankInv'
    BY <1>4, <2>1
  <2>3. Meta.from # "goal"
    BY DEF Meta
  <2> QED BY <1>1, <1>2, <1>9, <2>1, <2>2, <2>3 DEF PostMetaStep
<1>10. CASE reset_oprs_kernel
  <2>1. /\ Facts' = {} /\ Goals' = {} /\ Messages' \subseteq Messages
        /\ UNCHANGED <<held, sent>> /\ Pending' \subseteq Pending
    BY <1>10, ResetQueues, ElementsEmpty DEF Pending
  <2>2. RankInv'
    BY <1>4, <2>1
  <2> QED BY <1>1, <1>2, <1>10, <2>1, <2>2, ResetQueues
<1>11. CASE Shift
  <2>1. /\ Elements(facts') \subseteq Elements(new_facts) \cup Elements(locked_messages)
        /\ Elements(locked_messages') \subseteq Elements(locked_messages)
        /\ Elements(goals') = Elements(new_goals) /\ Elements(new_goals') = {}
        /\ Elements(new_facts') = {} /\ UNCHANGED <<held, sent>>
    BY <1>11, ShiftQueues, ElementsStep, ElementsEmpty
  <2>2. /\ Facts' \subseteq Facts \cup Messages /\ Goals' \subseteq Goals
        /\ Messages' \subseteq Messages /\ Pending' \subseteq Pending
    BY <2>1 DEF Pending
  <2>3. RankInv'
    BY <1>4, <2>1, <2>2
  <2>4. \A e \in Messages : e.from # "goal"
    BY <1>2, SenderAssumption DEF IsMessage
  <2> QED BY <1>1, <1>2, <1>11, <2>2, <2>3, <2>4, ShiftQueues
<1>12. CASE find_soak_fact
  <2>1. Elements(facts') \subseteq Elements(facts)
    BY <1>12, ElementsStep
  <2>2. /\ Facts' \subseteq Facts /\ UNCHANGED <<Goals, Messages, held, sent, goals>>
        /\ Pending' \subseteq Pending
    BY <1>12, <2>1, FactQueues DEF Pending
  <2>3. RankInv'
    BY <1>4, <2>2
  <2> QED BY <1>1, <1>2, <1>12, <2>2, <2>3, FactQueues
<1>13. CASE find_soak_goal
  <2>1. Elements(goals') \subseteq Elements(goals)
    BY <1>13, ElementsStep
  <2>2. /\ Goals' \subseteq Goals /\ UNCHANGED <<Facts, Messages, held, sent, facts>>
        /\ Pending' \subseteq Pending
    BY <1>13, <2>1, GoalQueues DEF Pending
  <2>3. RankInv'
    BY <1>4, <2>2
  <2> QED BY <1>1, <1>2, <1>13, <2>2, <2>3, GoalQueues
<1> QED BY <1>5, <1>6, <1>7, <1>8, <1>9, <1>10, <1>11, <1>12, <1>13, EventSteps

LEMMA MessageStep ==
  ASSUME TypeOK, QueueInv, MessageInv, [Next]_vars
  PROVE  MessageInv'
<1> DEFINE Free(q) == \A e \in Elements(q) : ~IsMessage(e)
<1>1. /\ section # "none" \/ phase \notin {"stdin", "shift"} => Free(new_facts)
      /\ section # "none" => Free(facts)
  BY DEF MessageInv
<1>2. ASSUME section' # "none" \/ phase' \notin {"stdin", "shift"} => Free(new_facts'),
             section' # "none" => Free(facts')
      PROVE  MessageInv'
  BY <1>2 DEF MessageInv
<1>3. \A q : q = <<>> => Free(q)
  BY ElementsEmpty
<1>4. CASE QuietStep
  <2>1. UNCHANGED <<facts, new_facts>>
    BY <1>4 DEF QuietStep
  <2>2. phase = "execute" => Free(facts)
    BY <1>3 DEF QueueInv
  <2> QED BY <1>1, <1>2, <1>4, <2>1, <2>2 DEF QuietStep
<1>5. ASSUME NEW s \in Sender \cup {"server", "thread"}, PostFactStep(s)
      PROVE  MessageInv'
  <2>1. Elements(new_facts') = Elements(new_facts) \cup {NextEvent(s)} /\ UNCHANGED <<facts, section, phase>>
    BY <1>5, ElementsStep DEF PostFactStep
  <2>2. s \in Sender => section = "none" /\ phase = "stdin"
    BY <1>5 DEF PostFactStep
  <2>3. s \notin Sender => ~IsMessage(NextEvent(s))
    BY DEF NextEvent, IsMessage
  <2> QED BY <1>1, <1>2, <2>1, <2>2, <2>3
<1>6. ASSUME NEW s \in Sender, HoldStep(s)
      PROVE  MessageInv'
  <2>1. UNCHANGED <<facts, new_facts, section, phase>>
    BY <1>6 DEF HoldStep
  <2> QED BY <1>1, <1>2, <2>1
<1>7. CASE PostGoalStep
  <2>1. UNCHANGED <<facts, new_facts, section, phase>>
    BY <1>7 DEF PostGoalStep
  <2> QED BY <1>1, <1>2, <2>1
<1>8. CASE PostMetaStep
  <2>1. Elements(new_facts') = Elements(new_facts) \cup {Meta} /\ UNCHANGED <<facts, section>>
    BY <1>8, ElementsStep DEF PostMetaStep
  <2>2. ~IsMessage(Meta)
    BY SenderAssumption DEF IsMessage, Meta
  <2>3. section = "none" /\ phase \notin {"stdin", "shift"}
    BY <1>8 DEF PostMetaStep
  <2> QED BY <1>1, <1>2, <2>1, <2>2, <2>3
<1>9. CASE reset_oprs_kernel
  BY <1>2, <1>3, <1>9, ResetQueues
<1>10. CASE Shift
  <2>1. new_facts' = <<>> /\ section' = section
    BY <1>10, ShiftQueues
  <2>2. section # "none" => facts' = new_facts
    BY <1>10, ShiftQueues
  <2> QED BY <1>1, <1>2, <1>3, <2>1, <2>2
<1>11. CASE find_soak_fact
  <2>1. Elements(facts') \subseteq Elements(facts)
    BY <1>11, ElementsStep
  <2>2. new_facts' = new_facts /\ phase \notin {"stdin", "shift"} /\ (section' # "none" => section # "none")
    BY <1>11, FactQueues
  <2> QED BY <1>1, <1>2, <2>1, <2>2
<1>12. CASE find_soak_goal
  BY <1>1, <1>2, <1>12, GoalQueues
<1> QED BY <1>4, <1>5, <1>6, <1>7, <1>8, <1>9, <1>10, <1>11, <1>12, EventSteps

LEMMA LateStep ==
  ASSUME TypeOK, QueueInv, LateInv, [Next]_vars
  PROVE  LateInv'
<1>1. Elements(locked_messages) \subseteq held /\ Elements(new_facts) \cap held = {}
  BY DEF LateInv
<1>2. ASSUME Elements(locked_messages') \subseteq held', Elements(new_facts') \cap held' = {}
      PROVE  LateInv'
  BY <1>2 DEF LateInv
<1>3. CASE QuietStep
  BY <1>1, <1>2, <1>3 DEF QuietStep
<1>4. ASSUME NEW s \in Sender \cup {"server", "thread"}, PostFactStep(s)
      PROVE  LateInv'
  <2>1. Elements(new_facts') = Elements(new_facts) \cup {NextEvent(s)} /\ UNCHANGED <<locked_messages, held>>
    BY <1>4, ElementsStep DEF PostFactStep
  <2>2. NextEvent(s) \notin held
    BY Newest DEF Source
  <2> QED BY <1>1, <1>2, <2>1, <2>2
<1>5. ASSUME NEW s \in Sender, HoldStep(s)
      PROVE  LateInv'
  <2>1. /\ Elements(locked_messages') = Elements(locked_messages) \cup {NextEvent(s)}
        /\ held' = held \cup {NextEvent(s)} /\ new_facts' = new_facts
    BY <1>5, ElementsStep DEF HoldStep
  <2>2. NextEvent(s) \notin Elements(new_facts)
    <3>1. NextEvent(s) \notin Pending /\ ~IsMeta(NextEvent(s))
      BY Newest DEF Source, IsMeta
    <3> QED BY <3>1, QueuedPending
  <2> QED BY <1>1, <1>2, <2>1, <2>2
<1>6. CASE PostGoalStep
  BY <1>1, <1>2, <1>6 DEF PostGoalStep
<1>7. CASE PostMetaStep
  <2>1. Elements(new_facts') = Elements(new_facts) \cup {Meta} /\ UNCHANGED <<locked_messages, held>>
    BY <1>7, ElementsStep DEF PostMetaStep
  <2>2. Meta \notin held
    BY SenderAssumption DEF QueueInv, IsMessage, Meta
  <2> QED BY <1>1, <1>2, <2>1, <2>2
<1>8. CASE reset_oprs_kernel
  <2>1. Elements(new_facts') = {} /\ Elements(locked_messages') \subseteq Elements(locked_messages)
    BY <1>8, ResetQueues, ElementsEmpty
  <2> QED BY <1>1, <1>2, <1>8, <2>1, ResetQueues
<1>9. CASE Shift
  <2>1. Elements(new_facts') = {} /\ Elements(locked_messages') \subseteq Elements(locked_messages)
    BY <1>9, ShiftQueues, ElementsEmpty
  <2> QED BY <1>1, <1>2, <1>9, <2>1, ShiftQueues
<1>10. CASE find_soak_fact
  BY <1>1, <1>2, <1>10, FactQueues
<1>11. CASE find_soak_goal
  BY <1>1, <1>2, <1>11, GoalQueues
<1> QED BY <1>3, <1>4, <1>5, <1>6, <1>7, <1>8, <1>9, <1>10, <1>11, EventSteps

\* What is not in the queues may be held without a change in their order.
LEMMA OrderHeld ==
  ASSUME NEW h, NEW e, NEW q, NEW r, e \notin Elements(q), e \notin Elements(r)
  PROVE  /\ Ascending(h, q) => Ascending(h \cup {e}, q)
         /\ Precede(h, q, r) => Precede(h \cup {e}, q, r)
<1>1. \A k \in DOMAIN q : q[k] # e
  BY DEF Elements
<1> QED BY <1>1 DEF Ascending, Precede, Ordered

LEMMA OrderEmpty ==
  /\ \A h : Ascending(h, <<>>)
  /\ \A h, q : Precede(h, <<>>, q) /\ Precede(h, q, <<>>)
BY ElementsEmpty DEF Ascending, Precede

LEMMA OrderStep ==
  ASSUME TypeOK, QueueInv, LateInv, OrderInv, [Next]_vars
  PROVE  OrderInv'
<1>1. /\ facts \in Seq(Event) /\ new_facts \in Seq(Event) /\ locked_messages \in Seq(Event)
      /\ goals \in Seq(Event) /\ new_goals \in Seq(Event)
  BY DEF TypeOK
<1>2. /\ Ascending(held, facts) /\ Ascending(held, new_facts) /\ Ascending(held, locked_messages)
      /\ Ascending(held, goals) /\ Ascending(held, new_goals)
      /\ Precede(held, facts, new_facts) /\ Precede(held, facts, locked_messages)
      /\ Precede(held, goals, new_goals)
  BY DEF OrderInv
<1>3. ASSUME Ascending(held', facts'), Ascending(held', new_facts'), Ascending(held', locked_messages'),
             Ascending(held', goals'), Ascending(held', new_goals'),
             Precede(held', facts', new_facts'), Precede(held', facts', locked_messages'),
             Precede(held', goals', new_goals')
      PROVE  OrderInv'
  BY <1>3 DEF OrderInv
\* What is added to a queue comes after all that is there.
<1>4. ASSUME NEW q \in {facts, new_facts, locked_messages, goals, new_goals},
             NEW e \in {Meta} \cup {NextEvent(s) : s \in Source}, NEW f \in Elements(q), NEW h
      PROVE  Ordered(h, f, e)
  <2>1. CASE IsMeta(f)
    BY <2>1 DEF Ordered
  <2>2. CASE ~IsMeta(f) /\ e = Meta
    BY <2>2 DEF Ordered, IsMeta, Meta
  <2>3. CASE ~IsMeta(f) /\ e # Meta
    <3>1. f \in Pending
      BY <2>3, QueuedPending
    <3> QED BY <2>3, <3>1, Newest
  <2> QED BY <2>1, <2>2, <2>3
<1>5. ASSUME NEW e \in {Meta} \cup {NextEvent(s) : s \in Source}
      PROVE  /\ e \in Event
             /\ Ascending(held, Append(new_facts, e)) /\ Ascending(held, Append(new_goals, e))
             /\ \A h : Ascending(h, locked_messages) => Ascending(h, Append(locked_messages, e))
             /\ \A h : Precede(h, facts, new_facts) => Precede(h, facts, Append(new_facts, e))
             /\ \A h : Precede(h, facts, locked_messages) => Precede(h, facts, Append(locked_messages, e))
             /\ \A h : Precede(h, goals, new_goals) => Precede(h, goals, Append(new_goals, e))
  <2>1. e \in Event
    BY EventTypes
  <2>2. /\ Elements(Append(new_facts, e)) = Elements(new_facts) \cup {e}
        /\ Elements(Append(new_goals, e)) = Elements(new_goals) \cup {e}
        /\ Elements(Append(locked_messages, e)) = Elements(locked_messages) \cup {e}
    BY <1>1, <2>1, ElementsAppend
  <2>3. Ascending(held, Append(new_facts, e))
    BY <1>1, <1>2, <1>4, <2>1, AscendingAppend
  <2>4. Ascending(held, Append(new_goals, e))
    BY <1>1, <1>2, <1>4, <2>1, AscendingAppend
  <2>5. ASSUME NEW h, Ascending(h, locked_messages) PROVE Ascending(h, Append(locked_messages, e))
    BY <1>1, <1>4, <2>1, <2>5, AscendingAppend
  <2>6. \A h : Precede(h, facts, new_facts) => Precede(h, facts, Append(new_facts, e))
    BY <1>4, <2>2 DEF Precede
  <2>7. \A h : Precede(h, facts, locked_messages) => Precede(h, facts, Append(locked_messages, e))
    BY <1>4, <2>2 DEF Precede
  <2>8. \A h : Precede(h, goals, new_goals) => Precede(h, goals, Append(new_goals, e))
    BY <1>4, <2>2 DEF Precede
  <2> QED BY <2>1, <2>3, <2>4, <2>5, <2>6, <2>7, <2>8
<1>6. CASE QuietStep
  BY <1>2, <1>3, <1>6 DEF QuietStep
<1>7. ASSUME NEW s \in Sender \cup {"server", "thread"}, PostFactStep(s)
      PROVE  OrderInv'
  <2>1. s \in Source
    BY DEF Source
  <2>2. /\ new_facts' = Append(new_facts, NextEvent(s))
        /\ UNCHANGED <<facts, locked_messages, held, goals, new_goals>>
    BY <1>7 DEF PostFactStep
  <2>3. Ascending(held, new_facts') /\ Precede(held, facts, new_facts')
    BY <1>2, <1>5, <2>1, <2>2
  <2> QED BY <1>2, <1>3, <2>2, <2>3
<1>8. CASE PostMetaStep
  <2>1. new_facts' = Append(new_facts, Meta) /\ UNCHANGED <<facts, locked_messages, held, goals, new_goals>>
    BY <1>8 DEF PostMetaStep
  <2>2. Ascending(held, new_facts') /\ Precede(held, facts, new_facts')
    BY <1>2, <1>5, <2>1
  <2> QED BY <1>2, <1>3, <2>1, <2>2
<1>9. ASSUME NEW s \in Sender, HoldStep(s)
      PROVE  OrderInv'
  <2>1. s \in Source
    BY DEF Source
  <2>2. /\ locked_messages' = Append(locked_messages, NextEvent(s))
        /\ held' = held \cup {NextEvent(s)}
        /\ UNCHANGED <<facts, new_facts, goals, new_goals>>
    BY <1>9 DEF HoldStep
  <2>3. \A q \in {facts, new_facts, locked_messages, goals, new_goals} : NextEvent(s) \notin Elements(q)
    BY <2>1, Newest, QueuedPending DEF IsMeta
  <2>4. /\ \A q \in {facts, new_facts, locked_messages, goals, new_goals} : Ascending(held', q)
        /\ Precede(held', facts, new_facts) /\ Precede(held', facts, locked_messages)
        /\ Precede(held', goals, new_goals)
    BY <1>2, <2>2, <2>3, OrderHeld
  <2>5. Ascending(held', locked_messages') /\ Precede(held', facts, locked_messages')
    BY <1>5, <2>1, <2>2, <2>4
  <2> QED BY <1>3, <2>2, <2>4, <2>5
<1>10. CASE PostGoalStep
  <2>1. "goal" \in Source
    BY DEF Source
  <2>2. /\ new_goals' = Append(new_goals, NextEvent("goal"))
        /\ UNCHANGED <<facts, new_facts, locked_messages, held, goals>>
    BY <1>10 DEF PostGoalStep
  <2>3. Ascending(held, new_goals') /\ Precede(held, goals, new_goals')
    BY <1>2, <1>5, <2>1, <2>2
  <2> QED BY <1>2, <1>3, <2>2, <2>3
<1>11. CASE reset_oprs_kernel
  <2>1. Ascending(held, locked_messages')
    BY <1>2, <1>11, ResetQueues, OrderEmpty
  <2> QED BY <1>3, <1>11, <2>1, ResetQueues, OrderEmpty
<1>12. CASE Shift
  <2>1. Precede(held, new_facts, locked_messages)
    BY DEF LateInv, Precede, Ordered
  <2>2. Ascending(held, new_facts \o locked_messages)
    BY <1>1, <1>2, <2>1, AscendingConcat
  <2>3. Ascending(held, facts') /\ Ascending(held, locked_messages') /\ Precede(held, facts', locked_messages')
    <3>1. CASE section = "none"
      BY <1>12, <2>2, <3>1, ShiftQueues, OrderEmpty
    <3>2. CASE section # "none"
      BY <1>2, <1>12, <2>1, <3>2, ShiftQueues
    <3> QED BY <3>1, <3>2
  <2>4. goals' = new_goals /\ new_facts' = <<>> /\ new_goals' = <<>> /\ held' = held
    BY <1>12, ShiftQueues
  <2> QED BY <1>2, <1>3, <2>3, <2>4, OrderEmpty
<1>13. CASE find_soak_fact
  <2>1. /\ facts # <<>> /\ facts' = Tail(facts)
        /\ UNCHANGED <<new_facts, locked_messages, held, goals, new_goals>>
    BY <1>13, FactQueues
  <2>2. Ascending(held, facts')
    BY <1>1, <1>2, <2>1, AscendingTail
  <2>3. Elements(facts') \subseteq Elements(facts)
    BY <1>13, ElementsStep
  <2>4. Precede(held, facts', new_facts) /\ Precede(held, facts', locked_messages)
    BY <1>2, <2>3 DEF Precede
  <2> QED BY <1>2, <1>3, <2>1, <2>2, <2>4
<1>14. CASE find_soak_goal
  <2>1. /\ goals # <<>> /\ goals' = Tail(goals)
        /\ UNCHANGED <<facts, new_facts, locked_messages, held, new_goals>>
    BY <1>14, GoalQueues
  <2>2. Ascending(held, goals')
    BY <1>1, <1>2, <2>1, AscendingTail
  <2>3. Elements(goals') \subseteq Elements(goals)
    BY <1>14, ElementsStep
  <2>4. Precede(held, goals', new_goals)
    BY <1>2, <2>3 DEF Precede
  <2> QED BY <1>2, <1>3, <2>1, <2>2, <2>4
<1> QED BY <1>6, <1>7, <1>8, <1>9, <1>10, <1>11, <1>12, <1>13, <1>14, EventSteps

-----------------------------------------------------------------------------
(* The soak and the meta level *)

LEMMA MetaStep ==
  ASSUME TypeOK, QueueInv, LateInv, MetaInv, [Next]_vars
  PROVE  MetaInv'
<1> USE DEF modeVars, eventVars, factVars, goalVars, soakVars, execVars
<1> DEFINE Posted == (\A e \in Elements(new_facts) : IsMeta(e)) /\ new_goals = <<>>
           Found == (\A e \in Elements(facts) \cup soak : ForMeta(e)) /\ goals = <<>>
           Soaking == phase \in {"facts", "goals", "decide"}
<1>1. CASE ~(loop = "client" /\ meta_level)
  <2>1. UNCHANGED <<loop, meta_level>>
    <3>1. CASE UNCHANGED vars
      BY <3>1 DEF vars
    <3>2. CASE Input \/ StartTurn \/ FindSoak
      BY <3>2 DEF Input, ReadMessage, ServerAdds, set_oprs_run_mode, reset_oprs_kernel, StartTurn,
                  FindSoak, Shift, find_soak_fact, EndFacts, find_soak_goal, EndGoals
    <3>3. CASE WakeUp \/ MaintainFails \/ MetaReact \/ Intend \/ find_current_intentions
      BY <3>3 DEF WakeUp, MaintainFails, MetaReact, Intend, find_current_intentions
    <3>4. CASE Execute \/ ExecuteTraced \/ EndActivate \/ EndSelect \/ EndTurn
      BY <3>4 DEF Execute, ExecuteAndPost, ExecuteSection, ExecuteWait, ExecuteLast, ExecuteTraced,
                  EndActivate, EndSelect, EndTurn
    <3> QED BY <3>1, <3>2, <3>3, <3>4 DEF Next
  <2> QED BY <1>1, <2>1 DEF MetaInv
<1>2. CASE loop = "client" /\ meta_level
  <2>1. /\ Soaking \/ (phase = "shift" /\ previous_soak # {}) => Posted
        /\ Soaking /\ previous_soak # {} => Found
        /\ phase \notin {"shift", "facts", "goals", "decide"} => soak = {} /\ previous_soak = {}
    BY <1>2 DEF MetaInv
  <2>2. ASSUME Soaking' \/ (phase' = "shift" /\ previous_soak' # {}) => Posted',
               Soaking' /\ previous_soak' # {} => Found',
               phase' \notin {"shift", "facts", "goals", "decide"} => soak' = {} /\ previous_soak' = {}
        PROVE  MetaInv'
    BY <2>2 DEF MetaInv
  \* Before the shift and after the decision there is no soak.
  <2>3. ASSUME phase \notin {"shift", "facts", "goals", "decide"},
               ~Soaking', soak' = soak, previous_soak' \in {previous_soak, soak, {}}
        PROVE  MetaInv'
    BY <2>1, <2>2, <2>3
  \* The meta level posts its own facts, and a condition changes no queue.
  <2>4. ASSUME Soaking, UNCHANGED <<facts, held, goals, new_goals, soak>>,
               new_facts' \in {new_facts, Append(new_facts, Meta)}
        PROVE  /\ Posted'
               /\ previous_soak # {} => Found'
    <3>1. Elements(Append(new_facts, Meta)) = Elements(new_facts) \cup {Meta}
      BY EventTypes, ElementsAppend DEF TypeOK
    <3>2. IsMeta(Meta)
      BY DEF IsMeta, Meta
    <3>3. Posted'
      BY <2>1, <2>4, <3>1, <3>2
    <3>4. previous_soak # {} => Found'
      BY <2>1, <2>4 DEF ForMeta
    <3> QED BY <3>3, <3>4
  <2>5. CASE UNCHANGED vars
    <3>1. UNCHANGED <<phase, facts, held, goals, new_facts, new_goals, soak, previous_soak>>
      BY <2>5 DEF vars
    <3> QED BY <2>1, <2>2, <3>1 DEF ForMeta
  <2>6. CASE Input
    BY <2>3, <2>6 DEF Input, ReadMessage, ServerAdds, set_oprs_run_mode, reset_oprs_kernel
  <2>7. CASE StartTurn
    BY <2>3, <2>7 DEF StartTurn
  <2>8. CASE Shift
    <3>1. phase = "shift" /\ phase' = "facts" /\ soak' = {} /\ previous_soak' = previous_soak
      BY <2>8 DEF Shift
    <3>2. Elements(new_facts') = {} /\ new_goals' = <<>> /\ goals' = new_goals /\ held' = held
      BY <2>8, ShiftQueues, ElementsEmpty
    <3>3. Elements(facts') \subseteq Elements(new_facts) \cup held
      BY <2>8, ElementsStep DEF LateInv
    <3>4. previous_soak # {} => Found'
      BY <2>1, <3>1, <3>2, <3>3 DEF ForMeta
    <3> QED BY <2>2, <3>1, <3>2, <3>4
  <2>9. CASE find_soak_fact
    <3>1. /\ phase = "facts" /\ phase' = phase /\ previous_soak' = previous_soak
          /\ UNCHANGED <<new_facts, new_goals, goals, held>>
          /\ soak' \in {soak, soak \cup {Head(facts)}}
      BY <2>9 DEF find_soak_fact
    <3>2. Elements(facts) = {Head(facts)} \cup Elements(facts')
      BY <2>9, ElementsStep
    <3>3. Elements(facts') \cup soak' \subseteq Elements(facts) \cup soak
      BY <3>1, <3>2
    <3>4. previous_soak # {} => Found'
      BY <2>1, <3>1, <3>3 DEF ForMeta
    <3> QED BY <2>1, <2>2, <3>1, <3>4
  <2>10. CASE find_soak_goal
    <3>1. /\ phase = "goals" /\ phase' = phase /\ previous_soak' = previous_soak
          /\ UNCHANGED <<new_facts, new_goals>> /\ goals # <<>>
      BY <2>10 DEF find_soak_goal
    <3> QED BY <2>1, <2>2, <3>1
  <2>11. CASE EndFacts \/ EndGoals
    <3>1. /\ Soaking /\ Soaking' /\ previous_soak' = previous_soak
          /\ UNCHANGED <<facts, held, goals, new_goals, soak>>
          /\ new_facts' \in {new_facts, Append(new_facts, Meta)}
      BY <2>11 DEF EndFacts, EndGoals, PostMetaFact
    <3> QED BY <2>2, <2>4, <3>1
  <2>12. CASE WakeUp \/ MaintainFails
    <3>1. /\ phase = "facts" /\ phase' = "facts" /\ previous_soak' = previous_soak
          /\ UNCHANGED <<facts, held, goals, new_goals, soak, new_facts>>
      BY <2>12 DEF WakeUp, MaintainFails
    <3> QED BY <2>2, <2>4, <3>1
  <2>13. CASE MetaReact
    <3>1. /\ phase = "decide" /\ phase' = "shift"
          /\ UNCHANGED <<facts, held, goals, new_goals, soak>>
          /\ new_facts' \in {new_facts, Append(new_facts, Meta)}
      BY <1>2, <2>13 DEF MetaReact
    <3> QED BY <2>2, <2>4, <3>1
  <2>14. CASE Intend
    <3>1. phase' = "activate" /\ soak' = {} /\ previous_soak' = {}
      BY <1>2, <2>14 DEF Intend
    <3> QED BY <2>2, <3>1
  <2>15. CASE find_current_intentions
    BY <2>3, <2>15 DEF find_current_intentions
  <2>16. CASE Execute
    BY <2>3, <2>16 DEF Execute, Executing, ExecuteAndPost, ExecuteSection, ExecuteWait, ExecuteLast
  <2>17. CASE ExecuteTraced \/ EndActivate \/ EndSelect \/ EndTurn
    BY <2>3, <2>17 DEF ExecuteTraced, Executing, EndActivate, EndSelect, EndTurn
  <2> QED BY <2>5, <2>6, <2>7, <2>8, <2>9, <2>10, <2>11, <2>12, <2>13, <2>14, <2>15, <2>16, <2>17
          DEF Next, FindSoak
<1> QED BY <1>1, <1>2

-----------------------------------------------------------------------------
(* The theorems *)

LEMMA InvCorrect == Spec => []IInv
<1>1. Init => IInv
  BY InitInv
<1>2. IInv /\ [Next]_vars => IInv'
  BY TypeStep, CountStep, QueueStep, MessageStep, LateStep, OrderStep, MetaStep DEF IInv
<1> QED BY <1>1, <1>2, PTL DEF Spec

\* The queues hold events, and no count of intentions or of what is left to do
\* goes below zero: shift, wake up, activate and reset agree on who is counted.
THEOREM TypeCorrect == Spec => []TypeOK
<1>1. IInv => TypeOK
  BY DEF IInv
<1> QED BY <1>1, InvCorrect, PTL

\* The client's loop lets go of a soak before anybody intended it only for the
\* meta level's own facts and for messages that a critical section held back.
THEOREM SoakReplacedForMetaCorrect == Spec => []SoakReplacedForMeta
<1>1. IInv => SoakReplacedForMeta
  BY DEF IInv, MetaInv, SoakReplacedForMeta, ForMeta, IsMeta
<1> QED BY <1>1, InvCorrect, PTL

\* Where a soak may be left undecided: not while intentions execute, and where the
\* input comes next only under a meta fact or in a critical section.
Undecided ==
  loop = "graphical" /\ meta_level =>
    /\ phase \in {"activate", "execute", "select"} => soak = {}
    /\ phase = "end" => soak = {} \/ posted_meta_fact \/ section # "none"
    /\ phase = "stdin" => previous_soak = {} \/ posted_meta_fact \/ section # "none"

LEMMA UndecidedStep == Undecided /\ [Next]_vars => Undecided'
<1> SUFFICES ASSUME Undecided, [Next]_vars PROVE Undecided'
  OBVIOUS
<1> USE DEF Undecided, modeVars, eventVars, factVars, goalVars, soakVars, execVars
<1>1. CASE UNCHANGED vars
  BY <1>1 DEF vars
<1>2. CASE Input \/ StartTurn
  BY <1>2 DEF Input, ReadMessage, ServerAdds, set_oprs_run_mode, reset_oprs_kernel, StartTurn
<1>3. CASE FindSoak \/ WakeUp \/ MaintainFails
  BY <1>3 DEF FindSoak, Shift, find_soak_fact, EndFacts, find_soak_goal, EndGoals, WakeUp,
              MaintainFails
<1>4. CASE MetaReact \/ Intend
  BY <1>4 DEF MetaReact, Intend
<1>5. CASE find_current_intentions
  BY <1>5 DEF find_current_intentions
<1>6. CASE Execute \/ ExecuteTraced
  BY <1>6 DEF Execute, ExecuteAndPost, ExecuteSection, ExecuteWait, ExecuteLast, ExecuteTraced,
              Executing
<1>7. CASE EndActivate \/ EndSelect \/ EndTurn
  BY <1>7 DEF EndActivate, EndSelect, EndTurn
<1> QED BY <1>1, <1>2, <1>3, <1>4, <1>5, <1>6, <1>7 DEF Next

\* Between a soak and the decision on it no loop of the meta level reads its input,
\* but for the graphical one in a critical section, for any number of events,
\* resets and rounds of meta procedures.
THEOREM StdinAfterDecisionCorrect == Spec => []StdinAfterDecision
<1>1. Init => Undecided
  BY DEF Init, Undecided
<1>2. IInv /\ Undecided => StdinAfterDecision
  BY DEF IInv, TypeOK, MetaInv, Undecided, StdinAfterDecision, ChecksStdin
<1> QED BY <1>1, <1>2, UndecidedStep, InvCorrect, PTL DEF Spec

\* A thread that waits for a message in its own critical section leaves that wait
\* only with the section: get_message keeps what it waits for out of the facts.
THEOREM SectionWaitsForEverCorrect == Spec => SectionWaitsForEver
<1>1. ASSUME IInv, [Next]_vars, section = "awaits message", section' # section
      PROVE  section' = "none"
  <2> USE DEF modeVars, eventVars, factVars, goalVars, soakVars, execVars
  <2>1. CASE UNCHANGED vars
    BY <1>1, <2>1 DEF vars
  <2>2. CASE Input \/ StartTurn
    BY <1>1, <2>2 DEF Input, ReadMessage, ServerAdds, set_oprs_run_mode, reset_oprs_kernel, StartTurn
  <2>3. CASE find_soak_fact
    <3>1. Head(facts) \in Elements(facts)
      BY <1>1, <2>3, ElementsStep DEF IInv
    <3>2. Head(facts).from \notin Sender
      BY <1>1, <3>1 DEF IInv, MessageInv, IsMessage
    <3> QED BY <1>1, <2>3, <3>2 DEF find_soak_fact
  <2>4. CASE Shift \/ EndFacts \/ find_soak_goal \/ EndGoals
    BY <1>1, <2>4 DEF Shift, EndFacts, find_soak_goal, EndGoals
  <2>5. CASE WakeUp \/ MaintainFails
    BY <1>1, <2>5 DEF WakeUp, MaintainFails
  <2>6. CASE MetaReact \/ Intend \/ find_current_intentions
    BY <1>1, <2>6 DEF MetaReact, Intend, find_current_intentions
  <2>7. CASE Execute
    BY <1>1, <2>7 DEF Execute, Executing, ExecuteAndPost, ExecuteSection, ExecuteWait, ExecuteLast
  <2>8. CASE ExecuteTraced \/ EndActivate \/ EndSelect \/ EndTurn
    BY <1>1, <2>8 DEF ExecuteTraced, EndActivate, EndSelect, EndTurn
  <2> QED BY <1>1, <2>1, <2>2, <2>3, <2>4, <2>5, <2>6, <2>7, <2>8 DEF Next, FindSoak
<1>2. IInv /\ [Next]_vars =>
        [section = "awaits message" /\ section' # section => section' = "none"]_vars
  BY <1>1
<1> QED BY <1>2, InvCorrect, PTL DEF Spec, SectionWaitsForEver

-----------------------------------------------------------------------------
(* The queues implement EventService *)

LEMMA AcceptStep ==
  ASSUME NEW s \in Source, sent' = [sent EXCEPT ![s] = sent[s] + 1],
         (section' # "none") = (section # "none"),
         Pending' = Pending \cup {NextEvent(s)},
         held' \cap Pending' = IF section # "none" /\ s \in Sender
                               THEN (held \cap Pending) \cup {NextEvent(s)} ELSE held \cap Pending
  PROVE  Events!Next
<1>1. Events!Accept(s)
  BY DEF Events!Accept, NextEvent
<1> QED BY <1>1 DEF Events!Next

\* The head of a queue that is considered is the oldest of its source, and it is
\* in no other place.
LEMMA ConsiderStep ==
  ASSUME NEW e \in Pending, NEW rest, Pending = rest \cup {e}, Pending' = rest,
         \A f \in rest : Ordered(held, e, f),
         section # "none" => ~IsMessage(e),
         UNCHANGED <<held, sent>>, (section' # "none") = (section # "none"), TypeOK
  PROVE  Events!Next
<1>1. e \in Event /\ e.from # "meta"
  BY ElementsType DEF Pending, TypeOK
<1>2. e.n \in Nat
  BY <1>1 DEF Event
<1>3. e \notin rest
  BY <1>1, <1>2 DEF Ordered, IsMeta
<1>4. Pending' = Pending \ {e} /\ held' \cap Pending' = (held \cap Pending) \ {e}
  BY <1>3
<1>5. Events!Oldest(e)
  <2>1. ASSUME NEW f \in Pending, f.from = e.from,
               f \in held \cap Pending <=> e \in held \cap Pending
        PROVE  e.n <= f.n
    <3>1. CASE f = e
      BY <1>2, <3>1
    <3>2. CASE f # e
      <4>1. f \in rest /\ (e \in held <=> f \in held) /\ f \in Event
        BY <2>1, <3>2, ElementsType DEF Pending, TypeOK
      <4>2. e.n < f.n /\ f.n \in Nat
        BY <1>1, <2>1, <4>1 DEF Ordered, IsMeta, Event
      <4> QED BY <1>2, <4>2
    <3> QED BY <3>1, <3>2
  <2> QED BY <2>1 DEF Events!Oldest
<1>6. Events!Consider(e)
  BY <1>4, <1>5 DEF Events!Consider, IsMessage
<1> QED BY <1>6 DEF Events!Next

\* The steps of the kernel are steps of the service or change nothing it sees.
LEMMA EventServiceStep ==
  ASSUME IInv, [Next]_vars
  PROVE  [Events!Next]_(Events!vars)
<1> DEFINE Late == held \cap Pending
           On == section # "none"
<1>1. TypeOK /\ QueueInv /\ MessageInv /\ LateInv /\ OrderInv
  BY DEF IInv
<1>2. ASSUME UNCHANGED <<Pending, held, sent>>, (section' # "none") = (section # "none")
      PROVE  UNCHANGED Events!vars
  BY <1>2 DEF Events!vars
<1>3. CASE QuietStep
  <2>1. UNCHANGED <<Pending, held, sent>>
    BY <1>3 DEF QuietStep, Pending
  <2>2. CASE section = "none" /\ section' # "none"
    BY <2>1, <2>2 DEF Events!Next, Events!Enter
  <2>3. CASE section # "none" /\ section' = "none"
    BY <2>1, <2>3 DEF Events!Next, Events!Leave
  <2>4. CASE (section' # "none") = (section # "none")
    BY <1>2, <2>1, <2>4
  <2> QED BY <2>2, <2>3, <2>4
<1>4. ASSUME NEW s \in Sender \cup {"server", "thread"}, PostFactStep(s)
      PROVE  Events!Next
  <2>1. s \in Source /\ NextEvent(s).from # "meta" /\ NextEvent(s) \notin held
    BY <1>1, Newest DEF Source
  <2>2. Elements(new_facts') = Elements(new_facts) \cup {NextEvent(s)}
    BY <1>1, <1>4, ElementsStep
  <2>3. /\ UNCHANGED <<facts, locked_messages, held, goals, new_goals, section>>
        /\ sent' = [sent EXCEPT ![s] = sent[s] + 1]
        /\ s \in Sender => section = "none"
    BY <1>4 DEF PostFactStep
  <2>4. Pending' = Pending \cup {NextEvent(s)}
    BY <2>1, <2>2, <2>3 DEF Pending
  <2>5. held' \cap Pending' = held \cap Pending
    BY <2>1, <2>3, <2>4
  <2> QED BY <2>1, <2>3, <2>4, <2>5, AcceptStep
<1>5. ASSUME NEW s \in Sender, HoldStep(s)
      PROVE  Events!Next
  <2>1. s \in Source /\ NextEvent(s).from # "meta"
    BY <1>1, Newest DEF Source
  <2>2. Elements(locked_messages') = Elements(locked_messages) \cup {NextEvent(s)}
    BY <1>1, <1>5, ElementsStep
  <2>3. /\ UNCHANGED <<facts, new_facts, goals, new_goals, section>>
        /\ sent' = [sent EXCEPT ![s] = sent[s] + 1]
        /\ section # "none" /\ held' = held \cup {NextEvent(s)}
    BY <1>5 DEF HoldStep
  <2>4. Pending' = Pending \cup {NextEvent(s)}
    BY <2>1, <2>2, <2>3 DEF Pending
  <2>5. held' \cap Pending' = (held \cap Pending) \cup {NextEvent(s)}
    BY <2>3, <2>4
  <2> QED BY <2>1, <2>3, <2>4, <2>5, AcceptStep
<1>6. CASE PostGoalStep
  <2>1. "goal" \in Source /\ NextEvent("goal").from # "meta" /\ NextEvent("goal") \notin held
    BY <1>1, Newest DEF Source
  <2>2. Elements(new_goals') = Elements(new_goals) \cup {NextEvent("goal")}
    BY <1>1, <1>6, ElementsStep
  <2>3. /\ UNCHANGED <<facts, new_facts, locked_messages, held, goals, section>>
        /\ sent' = [sent EXCEPT !["goal"] = sent["goal"] + 1]
        /\ "goal" \notin Sender
    BY <1>6, SenderAssumption DEF PostGoalStep
  <2>4. Pending' = Pending \cup {NextEvent("goal")}
    BY <2>1, <2>2, <2>3 DEF Pending
  <2>5. held' \cap Pending' = held \cap Pending
    BY <2>1, <2>3, <2>4
  <2> QED BY <2>1, <2>3, <2>4, <2>5, AcceptStep
<1>7. CASE PostMetaStep
  <2>1. Elements(new_facts') = Elements(new_facts) \cup {Meta} /\ Meta.from = "meta"
    BY <1>1, <1>7, ElementsStep DEF Meta
  <2>2. UNCHANGED <<facts, locked_messages, held, goals, new_goals, section, sent>>
    BY <1>7 DEF PostMetaStep
  <2>3. Pending' = Pending
    BY <2>1, <2>2 DEF Pending
  <2> QED BY <1>2, <2>2, <2>3
<1>8. CASE reset_oprs_kernel
  <2>1. Pending' = {e \in Elements(locked_messages') : e.from # "meta"}
    BY <1>8, ResetQueues, ElementsEmpty DEF Pending
  <2>2. \A e \in Elements(locked_messages) : e \in held /\ IsMessage(e) /\ e.from # "meta"
    BY <1>1, SenderAssumption DEF LateInv, QueueInv, IsMessage
  <2>3. CASE section = "none"
    <3>1. Pending' = {} /\ section' = "none" /\ sent' = sent
      BY <1>8, <2>1, <2>3, ResetQueues, ElementsEmpty
    <3>2. Events!Flush
      BY <2>3, <3>1 DEF Events!Flush
    <3> QED BY <3>2 DEF Events!Next
  <2>4. CASE section # "none"
    <3>1. Pending' = Elements(locked_messages) /\ held' = held /\ sent' = sent
      BY <1>8, <2>1, <2>2, <2>4, ResetQueues
    <3>2. Pending \cap held \subseteq Elements(locked_messages)
      <4>1. ASSUME NEW e \in Pending \cap held PROVE e \in Elements(locked_messages)
        <5>1. IsMessage(e)
          BY <1>1 DEF QueueInv
        <5>2. e.from # "goal" /\ e \notin Elements(new_facts) /\ e \notin Elements(facts)
          BY <1>1, <2>4, <5>1, SenderAssumption DEF MessageInv, IsMessage
        <5>3. e \notin Elements(goals) /\ e \notin Elements(new_goals)
          BY <1>1, <5>2 DEF QueueInv
        <5> QED BY <5>2, <5>3 DEF Pending
      <4> QED BY <4>1
    <3>3. Elements(locked_messages) \subseteq Pending \cap held
      BY <2>2 DEF Pending
    <3>4. held' \cap Pending' = held \cap Pending /\ Pending' = held \cap Pending
      BY <2>2, <3>1, <3>2, <3>3
    <3>5. (section' # "none") \in {FALSE, section # "none"}
      BY <2>4
    <3>6. Events!Flush
      BY <2>4, <3>1, <3>4, <3>5 DEF Events!Flush
    <3> QED BY <3>6 DEF Events!Next
  <2> QED BY <2>3, <2>4
<1>9. CASE Shift
  <2>1. /\ facts = <<>> /\ goals = <<>> /\ new_facts' = <<>> /\ goals' = new_goals /\ new_goals' = <<>>
        /\ sent' = sent /\ held' = held /\ section' = section
    BY <1>1, <1>9, ShiftQueues DEF QueueInv
  <2>2. /\ Elements(facts') \cup Elements(locked_messages')
             = Elements(new_facts) \cup Elements(locked_messages)
    BY <1>1, <1>9, ElementsStep
  <2>3. Pending' = Pending
    BY <2>1, <2>2, ElementsEmpty DEF Pending
  <2> QED BY <1>2, <2>1, <2>3
<1>10. CASE find_soak_fact
  <2> DEFINE e == Head(facts)
             rest == {f \in Elements(new_facts) \cup Elements(facts') \cup Elements(locked_messages)
                              \cup Elements(new_goals) \cup Elements(goals) : f.from # "meta"}
  <2>1. /\ facts # <<>> /\ facts' = Tail(facts)
        /\ UNCHANGED <<sent, new_facts, locked_messages, held, goals, new_goals>>
        /\ (section' # "none") = (section # "none")
    BY <1>10, FactQueues
  <2>2. Elements(facts) = {e} \cup Elements(facts')
    BY <1>1, <1>10, ElementsStep
  <2>3. Pending' = rest
    BY <2>1 DEF Pending
  <2>4. CASE e.from = "meta"
    <3>1. Pending' = Pending
      BY <2>2, <2>3, <2>4 DEF Pending
    <3> QED BY <1>2, <2>1, <3>1
  <2>5. CASE e.from # "meta"
    <3>1. e \in Pending /\ Pending = rest \cup {e}
      BY <2>2, <2>5 DEF Pending
    <3>2. \A f \in Elements(facts') : Ordered(held, e, f)
      BY <1>1, <2>1, AscendingTail DEF OrderInv, TypeOK
    <3>3. \A f \in Elements(new_facts) \cup Elements(locked_messages) : Ordered(held, e, f)
      BY <1>1, <2>2 DEF OrderInv, Precede
    <3>4. \A f \in Elements(new_goals) \cup Elements(goals) : Ordered(held, e, f)
      BY <1>1, <2>2 DEF QueueInv, Ordered
    <3>5. \A f \in rest : Ordered(held, e, f)
      BY <3>2, <3>3, <3>4
    <3>6. section # "none" => ~IsMessage(e)
      BY <1>1, <2>2 DEF MessageInv
    <3> HIDE DEF e, rest
    <3> QED BY <1>1, <2>1, <2>3, <3>1, <3>5, <3>6, ConsiderStep
  <2> QED BY <2>4, <2>5
<1>11. CASE find_soak_goal
  <2> DEFINE e == Head(goals)
             rest == {f \in Elements(new_facts) \cup Elements(facts) \cup Elements(locked_messages)
                              \cup Elements(new_goals) \cup Elements(goals') : f.from # "meta"}
  <2>1. /\ goals # <<>> /\ goals' = Tail(goals)
        /\ UNCHANGED <<sent, facts, new_facts, locked_messages, held, new_goals, section>>
    BY <1>11, GoalQueues
  <2>2. Elements(goals) = {e} \cup Elements(goals')
    BY <1>1, <1>11, ElementsStep
  <2>3. Pending' = rest
    BY <2>1 DEF Pending
  <2>4. e.from = "goal"
    BY <1>1, <2>2 DEF QueueInv
  <2>5. e \in Pending /\ Pending = rest \cup {e}
    BY <2>2, <2>4 DEF Pending
  <2>6. \A f \in Elements(goals') : Ordered(held, e, f)
    BY <1>1, <2>1, AscendingTail DEF OrderInv, TypeOK
  <2>7. \A f \in Elements(new_goals) : Ordered(held, e, f)
    BY <1>1, <2>2 DEF OrderInv, Precede
  <2>8. \A f \in Elements(new_facts) \cup Elements(facts) \cup Elements(locked_messages) :
           Ordered(held, e, f)
    BY <1>1, <2>4, SenderAssumption DEF QueueInv, Ordered, IsMessage
  <2>9. \A f \in rest : Ordered(held, e, f)
    BY <2>6, <2>7, <2>8
  <2>10. ~IsMessage(e)
    BY <2>4, SenderAssumption DEF IsMessage
  <2> HIDE DEF e, rest
  <2> QED BY <1>1, <2>1, <2>3, <2>5, <2>9, <2>10, ConsiderStep
<1> QED BY <1>1, <1>3, <1>4, <1>5, <1>6, <1>7, <1>8, <1>9, <1>10, <1>11, EventSteps

\* Whatever the meta level, the sections and the resets do, each event is
\* considered once and in the order of its source, or flushed; messages are not
\* considered in a section, and the ones that it held back are not overtaken by
\* each other.
THEOREM EventServiceCorrect == Spec => ImplementsEventService
<1>1. Init => Events!Init
  BY ElementsEmpty DEF Init, Events!Init, Pending
<1>2. IInv /\ [Next]_vars => [Events!Next]_(Events!vars)
  BY EventServiceStep
<1> QED BY <1>1, <1>2, InvCorrect, PTL DEF Spec, ImplementsEventService, Events!Spec

=============================================================================
