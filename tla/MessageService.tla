--------------------------- MODULE MessageService ---------------------------
(***************************************************************************)
(* What the message passer promises to its clients: a client that joins    *)
(* under a free name gets its own mailbox, whose first message is the      *)
(* registration answer.  Requests are taken one at a time, in the order    *)
(* each client made them, so that the messages of one client arrive        *)
(* complete, once and in order, and two recipients of two broadcasts get   *)
(* them in the same order.  A name that nobody has is reported to the      *)
(* sender.  Nothing survives the departure of its recipient.               *)
(***************************************************************************)
EXTENDS Naturals, Sequences

CONSTANTS
  Client, Name, None,
  ServerName,       \* names that only send
  Welcome,          \* the registration answer
  Sent(_, _),       \* the message a recipient gets, of a name and a body
  Unknown(_)        \* what a sender gets for a name that nobody has

VARIABLES
  member,   \* the name each client is registered under, or None
  gone,     \* members that have left without telling
  outbox,   \* requests made and not routed yet
  inbox,    \* messages routed and not received yet
  routing   \* the client whose list of recipients is being gone through

vars == <<member, gone, outbox, inbox, routing>>

Init ==
  /\ member = [c \in Client |-> None] /\ gone = {}
  /\ outbox = [c \in Client |-> <<>>] /\ inbox = [c \in Client |-> <<>>]
  /\ routing = None

Members == {c \in Client : member[c] # None}
Recipients == {c \in Members : member[c] \notin ServerName}

\* m is put in the mailboxes of S.
Post(S, m) ==
  inbox' = [c \in Client |-> IF c \in S \ gone THEN Append(inbox[c], m) ELSE inbox[c]]

Join(c, n) ==
  /\ member[c] = None /\ \A d \in Client : member[d] # n
  /\ member' = [member EXCEPT ![c] = n]
  /\ inbox' = [inbox EXCEPT ![c] = <<Welcome>>]
  /\ UNCHANGED <<gone, outbox, routing>>

\* A client may die between its registration and the answer.
JoinAndDie(c, n) ==
  /\ member[c] = None /\ \A d \in Client : member[d] # n
  /\ member' = [member EXCEPT ![c] = n]
  /\ gone' = gone \cup {c}
  /\ UNCHANGED <<outbox, inbox, routing>>

Submit(c) ==
  /\ member[c] # None /\ c \notin gone
  /\ outbox' = [outbox EXCEPT ![c] = outbox'[c]]
  /\ Len(outbox'[c]) = Len(outbox[c]) + 1
  /\ SubSeq(outbox'[c], 1, Len(outbox[c])) = outbox[c]
  /\ UNCHANGED <<member, gone, inbox, routing>>

\* The request that is routed: the head of the outbox of c.
Turn(c) == member[c] # None /\ outbox[c] # <<>> /\ routing \in {None, c}

RouteToAll(c) ==
  /\ Turn(c) /\ Head(outbox[c]).type = "BROADCAST_MT"
  /\ Post(Recipients \ {c}, Sent(member[c], Head(outbox[c]).body))
  /\ outbox' = [outbox EXCEPT ![c] = Tail(@)]
  /\ UNCHANGED <<member, gone, routing>>

\* The next of the recipients gets the message, or the sender the report that
\* there is no such recipient.
RouteToNext(c) ==
  LET r == Head(outbox[c])
      n == Head(r.to)
      named == {d \in Recipients : member[d] = n}
      rest == [r EXCEPT !.to = Tail(@)]
      done == rest.to = <<>> /\ r.type # "cut"
  IN  /\ Turn(c) /\ r.type # "BROADCAST_MT" /\ r.to # <<>>
      /\ IF named = {} THEN Post({c}, Unknown(n))
                       ELSE Post(named, Sent(member[c], r.body))
      /\ outbox' = [outbox EXCEPT ![c] = IF done THEN Tail(@) ELSE <<rest>> \o Tail(@)]
      /\ routing' = IF done THEN None ELSE c
      /\ UNCHANGED <<member, gone>>

Receive(c) ==
  /\ inbox[c] # <<>>
  /\ inbox' = [inbox EXCEPT ![c] = Tail(@)]
  /\ UNCHANGED <<member, gone, outbox, routing>>

\* A member dies; its last requests may be lost or cut short.
Die(c) ==
  /\ member[c] # None /\ c \notin gone
  /\ gone' = gone \cup {c}
  /\ inbox' = [inbox EXCEPT ![c] = <<>>]
  /\ outbox' = [outbox EXCEPT ![c] = outbox'[c]]
  /\ \E k \in 0 .. Len(outbox[c]) :
       /\ Len(outbox'[c]) \in {k, k + 1}
       /\ SubSeq(outbox'[c], 1, k) = SubSeq(outbox[c], 1, k)
  /\ UNCHANGED <<member, routing>>

\* A member is removed, and another may take its place and its name at once.
Without(S) ==
  /\ member' = [c \in Client |-> IF c \in S THEN None ELSE member[c]]
  /\ gone' = gone \ S
  /\ outbox' = [c \in Client |-> IF c \in S THEN <<>> ELSE outbox[c]]
  /\ inbox' = [c \in Client |-> IF c \in S THEN <<>> ELSE inbox[c]]
  /\ routing' = IF routing \in S THEN None ELSE routing

Leave(c) == member[c] # None /\ Without({c})

Replace(c, d) ==
  /\ member[c] # None /\ member[d] = None
  /\ member' = [member EXCEPT ![c] = None, ![d] = member[c]]
  /\ outbox' = [outbox EXCEPT ![c] = <<>>]
  /\ \/ gone' = gone \ {c} /\ inbox' = [inbox EXCEPT ![c] = <<>>, ![d] = <<Welcome>>]
     \/ gone' = (gone \ {c}) \cup {d} /\ inbox' = [inbox EXCEPT ![c] = <<>>]
  /\ routing' = IF routing = c THEN None ELSE routing

\* The service ends, and everything it held with it.
Stop == Without(Client)

Next ==
  \/ Stop
  \/ \E c \in Client :
       \/ Submit(c) \/ RouteToAll(c) \/ RouteToNext(c) \/ Receive(c)
       \/ Die(c) \/ Leave(c)
       \/ \E n \in Name : Join(c, n) \/ JoinAndDie(c, n)
       \/ \E d \in Client : Replace(c, d)

Spec == Init /\ [][Next]_vars

=============================================================================
