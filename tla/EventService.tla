---------------------------- MODULE EventService ----------------------------
(***************************************************************************)
(* What an OPRS kernel promises about the events (facts, messages, goals)  *)
(* it accepts, whatever its queues, its meta level and its scheduling do:  *)
(* each one is considered once, in the order of its source, or flushed by  *)
(* a reset.  The exception is the messages accepted during a critical      *)
(* section: they are not considered while it lasts, then come late (later  *)
(* messages of the same sender may overtake them, but not each other), and *)
(* a reset during the section spares them.                                 *)
(***************************************************************************)
EXTENDS Naturals

CONSTANTS
  Source,     \* where events come from
  Message     \* the sources whose events a critical section holds back

VARIABLES
  pending,    \* events accepted and not yet considered
  late,       \* those of them accepted during a critical section
  section,    \* a critical section is on
  sent        \* number of events each source has had accepted

vars == <<pending, late, section, sent>>

Event == [from : Source, n : Nat]

Init == pending = {} /\ late = {} /\ section = FALSE /\ sent = [s \in Source |-> 0]

\* The next event of s is accepted.
Accept(s) ==
  LET e == [from |-> s, n |-> sent[s] + 1]
  IN  /\ sent' = [sent EXCEPT ![s] = e.n]
      /\ pending' = pending \cup {e}
      /\ late' = IF section /\ s \in Message THEN late \cup {e} ELSE late
      /\ UNCHANGED section

\* e is the oldest of its source among those that are late, or are not.
Oldest(e) ==
  \A f \in pending : f.from = e.from /\ (f \in late <=> e \in late) => e.n <= f.n

Consider(e) ==
  /\ e \in pending /\ Oldest(e)
  /\ section => e.from \notin Message
  /\ pending' = pending \ {e}
  /\ late' = late \ {e}
  /\ UNCHANGED <<section, sent>>

Enter == ~section /\ section' = TRUE /\ UNCHANGED <<pending, late, sent>>

Leave == section /\ section' = FALSE /\ UNCHANGED <<pending, late, sent>>

\* A reset, which also ends the section unless its thread is already lost.
Flush ==
  /\ late' = IF section THEN late ELSE {}
  /\ pending' = late'
  /\ section' \in {FALSE, section}
  /\ UNCHANGED sent

Next ==
  \/ \E s \in Source : Accept(s)
  \/ \E e \in pending : Consider(e)
  \/ Enter \/ Leave \/ Flush

Spec == Init /\ [][Next]_vars

=============================================================================
