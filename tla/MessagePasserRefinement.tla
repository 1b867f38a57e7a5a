------------------------ MODULE MessagePasserRefinement ------------------------
(***************************************************************************)
(* MessagePasser implements MessageService: every step of mp and of its    *)
(* clients is a step of the service, or one that the service does not see. *)
(***************************************************************************)
EXTENDS MessagePasserProofs

-----------------------------------------------------------------------------
(* What the requests of a client are, and mailboxes in two parts *)

\* Only a broadcast names no recipients.
ProperRequest == {r \in Request : r.type = "BROADCAST_MT" => r.to = <<>>}

\* What IInv lacks: every request can be routed, and a client that enters the
\* service brings none along.
RequestInv ==
  /\ \A c \in Client : sock_in[c] \in Seq(ProperRequest)
  /\ \A c \in Client \ mp_sender_list : sock_in[c] = <<>>

LEMMA AppendPrefix ==
  ASSUME NEW S, NEW s \in Seq(S), NEW e \in S
  PROVE  Len(Append(s, e)) = Len(s) + 1 /\ SubSeq(Append(s, e), 1, Len(s)) = s
<1>1. /\ Len(Append(s, e)) = Len(s) + 1 /\ Len(s) \in Nat
      /\ \A i \in 1 .. Len(s) : Append(s, e)[i] = s[i] /\ s[i] \in S
  BY AppendProperties, LenProperties, ElementOfSeq
<1> DEFINE p == SubSeq(Append(s, e), 1, Len(s))
<1>2. /\ p \in Seq(S) /\ Len(p) = IF 1 <= Len(s) THEN Len(s) - 1 + 1 ELSE 0
      /\ \A i \in 1 .. Len(s) - 1 + 1 : p[i] = Append(s, e)[1 + i - 1]
  BY <1>1, SubSeqProperties
<1>3. Len(p) = Len(s) /\ \A i \in 1 .. Len(s) : p[i] = s[i]
  BY <1>1, <1>2
<1> HIDE DEF p
<1>4. p = s
  BY <1>2, <1>3, SeqEqual
<1> QED BY <1>1, <1>4 DEF p

LEMMA Prefix ==
  ASSUME NEW S, NEW s \in Seq(S), NEW k \in 0 .. Len(s)
  PROVE  /\ SubSeq(s, 1, k) \in Seq(S) /\ Len(SubSeq(s, 1, k)) = k
         /\ SubSeq(SubSeq(s, 1, k), 1, k) = SubSeq(s, 1, k)
<1>1. k \in Nat /\ \A i \in 1 .. k : s[i] \in S
  BY LenProperties, ElementOfSeq
<1> DEFINE p == SubSeq(s, 1, k)
<1>2. p \in Seq(S) /\ Len(p) = IF 1 <= k THEN k - 1 + 1 ELSE 0
  BY <1>1, SubSeqProperties
<1>3. Len(p) = k
  BY <1>1, <1>2
<1> HIDE DEF p
<1>4. SubSeq(p, 1, k) = p
  BY <1>2, <1>3, SubSeqFull
<1> QED BY <1>2, <1>3, <1>4 DEF p

\* A mailbox is a socket and a queue: the message that goes from one to the other
\* keeps its place, a new one goes to the end, and the client takes the first one.
LEMMA Mailbox ==
  ASSUME NEW s \in Seq(Message), NEW q \in Seq(Message)
  PROVE  /\ s \o q \in Seq(Message)
         /\ q # <<>> => Append(s, Head(q)) \o Tail(q) = s \o q
         /\ \A m \in Message : s \o Append(q, m) = Append(s \o q, m)
         /\ s # <<>> => s \o q # <<>> /\ Tail(s \o q) = Tail(s) \o q
<1>1. s \o q \in Seq(Message)
  BY ConcatProperties
<1>2. ASSUME q # <<>>
      PROVE  Append(s, Head(q)) \o Tail(q) = s \o q
  <2>1. Head(q) \in Message /\ Tail(q) \in Seq(Message)
    BY <1>2, HeadTailProperties
  <2>2. Append(s, Head(q)) = s \o <<Head(q)>> /\ <<Head(q)>> \in Seq(Message)
    BY <2>1, AppendIsConcat
  <2>3. <<Head(q)>> \o Tail(q) = q
    BY <1>2, <2>1
  <2> QED BY <2>1, <2>2, <2>3, ConcatAssociative
<1>3. ASSUME NEW m \in Message
      PROVE  s \o Append(q, m) = Append(s \o q, m)
  <2>1. Append(q, m) = q \o <<m>> /\ Append(s \o q, m) = (s \o q) \o <<m>>
    BY <1>1, AppendIsConcat
  <2>2. <<m>> \in Seq(Message)
    OBVIOUS
  <2> QED BY <2>1, <2>2, ConcatAssociative
<1>4. ASSUME s # <<>>
      PROVE  s \o q # <<>> /\ Tail(s \o q) = Tail(s) \o q
  <2>1. s \o q # <<>>
    BY <1>4, ConcatEqualIffEmpty
  <2>2. Head(s) \in Message /\ Tail(s) \in Seq(Message) /\ <<Head(s)>> \in Seq(Message)
    BY <1>4, HeadTailProperties
  <2>3. s = <<Head(s)>> \o Tail(s)
    BY <1>4
  <2>4. s \o q = <<Head(s)>> \o (Tail(s) \o q)
    BY <2>2, <2>3, ConcatAssociative
  <2>5. Tail(s) \o q \in Seq(Message)
    BY <2>2, ConcatProperties
  <2>6. ASSUME NEW t \in Seq(Message), NEW m \in Message
        PROVE  Tail(<<m>> \o t) = t
    OBVIOUS
  <2> QED BY <2>1, <2>2, <2>4, <2>5, <2>6
<1> QED BY <1>1, <1>2, <1>3, <1>4

-----------------------------------------------------------------------------
(* What the service sees of the message passer *)

Member == [c \in Client |-> IF c \in mp_sender_list THEN name[c] ELSE None]
Gone == {c \in mp_sender_list : client[c] = "closed"}
Outbox == [c \in Client |-> IF c \in mp_sender_list THEN sock_in[c] ELSE <<>>]
Inbox ==
  [c \in Client |->
     IF c \in mp_sender_list /\ client[c] # "closed" THEN sock_out[c] \o mess_list[c] ELSE <<>>]
Routing == IF pc = "multicast" THEN cur ELSE None
Welcome == [from |-> MP, text |-> <<"REGISTER_OK">>]

\* The steps of the service, in these terms.
LEMMA ServiceUnseen ==
  ASSUME UNCHANGED <<Member, Gone, Outbox, Inbox, Routing>>
  PROVE  UNCHANGED Service!vars
BY DEF Service!vars, Member, Gone, Outbox, Inbox, Routing

LEMMA ServiceJoin ==
  ASSUME NEW c \in Client, NEW n \in Name,
         Member[c] = None, \A d \in Client : Member[d] # n,
         Member' = [Member EXCEPT ![c] = n], UNCHANGED <<Outbox, Routing>>,
         \/ UNCHANGED Gone /\ Inbox' = [Inbox EXCEPT ![c] = <<Welcome>>]
         \/ Gone' = Gone \cup {c} /\ UNCHANGED Inbox
  PROVE  Service!Join(c, n) \/ Service!JoinAndDie(c, n)
BY DEF Service!Join, Service!JoinAndDie, Member, Gone, Outbox, Inbox, Routing, Welcome

LEMMA ServiceSubmit ==
  ASSUME NEW c \in Client, Member[c] # None, c \notin Gone,
         Outbox' = [Outbox EXCEPT ![c] = Outbox'[c]],
         Len(Outbox'[c]) = Len(Outbox[c]) + 1,
         SubSeq(Outbox'[c], 1, Len(Outbox[c])) = Outbox[c],
         UNCHANGED <<Member, Gone, Inbox, Routing>>
  PROVE  Service!Submit(c)
BY DEF Service!Submit, Member, Gone, Outbox, Inbox, Routing

LEMMA ServiceReceive ==
  ASSUME NEW c \in Client, Inbox[c] # <<>>, Inbox' = [Inbox EXCEPT ![c] = Tail(Inbox[c])],
         UNCHANGED <<Member, Gone, Outbox, Routing>>
  PROVE  Service!Receive(c)
BY DEF Service!Receive, Member, Gone, Outbox, Inbox, Routing

LEMMA ServiceDie ==
  ASSUME NEW c \in Client, Member[c] # None, c \notin Gone, Gone' = Gone \cup {c},
         Inbox' = [Inbox EXCEPT ![c] = <<>>], Outbox' = [Outbox EXCEPT ![c] = Outbox'[c]],
         NEW k \in 0 .. Len(Outbox[c]), Len(Outbox'[c]) \in {k, k + 1},
         SubSeq(Outbox'[c], 1, k) = SubSeq(Outbox[c], 1, k),
         UNCHANGED <<Member, Routing>>
  PROVE  Service!Die(c)
BY DEF Service!Die, Member, Gone, Outbox, Inbox, Routing

\* Who gets a message that is posted to S.
Posted(S, m) ==
  Inbox' = [c \in Client |-> IF c \in S \ Gone THEN Append(Inbox[c], m) ELSE Inbox[c]]

LEMMA ServiceRecipients ==
  ASSUME ListsAgree, TypeOK, ConnectionInv
  PROVE  /\ Service!Recipients = mp_recipient_list
         /\ \A d \in mp_recipient_list : Member[d] = name[d]
<1>1. Service!Members = mp_sender_list /\ \A d \in mp_sender_list : d \in Client
        /\ Member[d] = name[d]
  BY DEF Service!Members, TypeOK, ConnectionInv, Member
<1>2. Service!Recipients = {d \in Service!Members : Member[d] \notin ServerName}
  BY DEF Service!Recipients, Member
<1> QED BY <1>1, <1>2 DEF ListsAgree

LEMMA ServiceRouteToAll ==
  ASSUME NEW c \in Client, Member[c] # None, Outbox[c] # <<>>, Routing \in {None, c},
         Head(Outbox[c]).type = "BROADCAST_MT",
         Service!Recipients = mp_recipient_list,
         Posted(mp_recipient_list \ {c}, Sent(Member[c], Head(Outbox[c]).body)),
         Outbox' = [Outbox EXCEPT ![c] = Tail(Outbox[c])],
         UNCHANGED <<Member, Gone, Routing>>
  PROVE  Service!RouteToAll(c)
BY DEF Service!RouteToAll, Service!Turn, Service!Post, Posted, Member, Gone, Outbox, Inbox, Routing

Rest(r) == [r EXCEPT !.to = Tail(@)]
LastOf(r) == Rest(r).to = <<>> /\ r.type # "cut"
Named(n) == {d \in mp_recipient_list : Member[d] = n}

LEMMA ServiceRouteToNext ==
  ASSUME NEW c \in Client, Member[c] # None, Outbox[c] # <<>>, Routing \in {None, c},
         Head(Outbox[c]).type # "BROADCAST_MT", Head(Outbox[c]).to # <<>>,
         Service!Recipients = mp_recipient_list,
         IF Named(Head(Head(Outbox[c]).to)) = {}
           THEN Posted({c}, Unknown(Head(Head(Outbox[c]).to)))
           ELSE Posted(Named(Head(Head(Outbox[c]).to)), Sent(Member[c], Head(Outbox[c]).body)),
         Outbox' = [Outbox EXCEPT
                      ![c] = IF LastOf(Head(Outbox[c])) THEN Tail(Outbox[c])
                             ELSE <<Rest(Head(Outbox[c]))>> \o Tail(Outbox[c])],
         Routing' = IF LastOf(Head(Outbox[c])) THEN None ELSE c,
         UNCHANGED <<Member, Gone>>
  PROVE  Service!RouteToNext(c)
<1> DEFINE r == Head(Outbox[c])
<1>1. Service!Turn(c) /\ r.type # "BROADCAST_MT" /\ r.to # <<>>
  BY DEF Service!Turn, Member, Outbox, Routing
<1>2. Named(Head(r.to)) = {d \in Service!Recipients : Member[d] = Head(r.to)}
  BY DEF Named
<1>3. IF Named(Head(r.to)) = {} THEN Service!Post({c}, Unknown(Head(r.to)))
                   ELSE Service!Post(Named(Head(r.to)), Sent(Member[c], r.body))
  BY DEF Service!Post, Posted, Gone, Inbox
<1>4. /\ Outbox' = [Outbox EXCEPT ![c] = IF LastOf(r) THEN Tail(@) ELSE <<Rest(r)>> \o Tail(@)]
      /\ Routing' = IF LastOf(r) THEN None ELSE c
  OBVIOUS
<1>5. ASSUME NEW named, named = {d \in Service!Recipients : Member[d] = Head(r.to)},
           IF named = {} THEN Service!Post({c}, Unknown(Head(r.to)))
                         ELSE Service!Post(named, Sent(Member[c], r.body))
      PROVE  Service!RouteToNext(c)
  BY <1>1, <1>4, <1>5 DEF Service!RouteToNext, Member, Gone, Outbox, Routing, Rest, LastOf
<1> QED BY <1>2, <1>3, <1>5

LEMMA ServiceLeave ==
  ASSUME NEW c \in Client, Member[c] # None,
         Member' = [Member EXCEPT ![c] = None], Gone' = Gone \ {c},
         Outbox' = [Outbox EXCEPT ![c] = <<>>], Inbox' = [Inbox EXCEPT ![c] = <<>>],
         Routing \in {None, c}, Routing' = None
  PROVE  Service!Leave(c)
<1>1. /\ Member' = [d \in Client |-> IF d \in {c} THEN None ELSE Member[d]]
      /\ Outbox' = [d \in Client |-> IF d \in {c} THEN <<>> ELSE Outbox[d]]
      /\ Inbox' = [d \in Client |-> IF d \in {c} THEN <<>> ELSE Inbox[d]]
      /\ Routing' = IF Routing \in {c} THEN None ELSE Routing
  BY DEF Member, Outbox, Inbox
<1> QED BY <1>1 DEF Service!Leave, Service!Without, Member, Gone, Outbox, Inbox, Routing

LEMMA ServiceReplace ==
  ASSUME NEW c \in Client, NEW d \in Client, Member[c] # None, Member[d] = None,
         Member' = [Member EXCEPT ![c] = None, ![d] = Member[c]],
         Outbox' = [Outbox EXCEPT ![c] = <<>>],
         \/ Gone' = Gone \ {c} /\ Inbox' = [Inbox EXCEPT ![c] = <<>>, ![d] = <<Welcome>>]
         \/ Gone' = (Gone \ {c}) \cup {d} /\ Inbox' = [Inbox EXCEPT ![c] = <<>>],
         Routing = None, Routing' = None
  PROVE  Service!Replace(c, d)
<1>1. Routing' = IF Routing = c THEN None ELSE Routing
  OBVIOUS
<1> QED BY <1>1 DEF Service!Replace, Member, Gone, Outbox, Inbox, Routing, Welcome

LEMMA ServiceStop ==
  ASSUME Member' = [c \in Client |-> None], Gone' = {}, Outbox' = [c \in Client |-> <<>>],
         Inbox' = [c \in Client |-> <<>>], Routing' = None, Routing \in Client \cup {None},
         Gone \subseteq Client
  PROVE  Service!Stop
<1>1. /\ Member' = [d \in Client |-> IF d \in Client THEN None ELSE Member[d]]
      /\ Outbox' = [d \in Client |-> IF d \in Client THEN <<>> ELSE Outbox[d]]
      /\ Inbox' = [d \in Client |-> IF d \in Client THEN <<>> ELSE Inbox[d]]
      /\ Gone' = Gone \ Client
      /\ Routing' = IF Routing \in Client THEN None ELSE Routing
  OBVIOUS
<1> QED BY <1>1 DEF Service!Stop, Service!Without, Member, Gone, Outbox, Inbox, Routing

-----------------------------------------------------------------------------
(* Steps that the service does not see *)

LEMMA RequestFrame ==
  ASSUME RequestInv,
         \A c \in Client :
           \/ sock_in'[c] = <<>>
           \/ sock_in'[c] = sock_in[c] /\ (c \in mp_sender_list => c \in mp_sender_list')
           \/ sock_in'[c] \in Seq(ProperRequest) /\ c \in mp_sender_list'
  PROVE  RequestInv'
<1>1. <<>> \in Seq(ProperRequest)
  BY EmptySeq
<1>2. ProperRequest' = ProperRequest
  BY DEF ProperRequest, Request
<1>3. \A c \in Client : sock_in'[c] \in Seq(ProperRequest)
  BY <1>1 DEF RequestInv
<1>4. \A c \in Client \ mp_sender_list' : sock_in'[c] = <<>>
  BY DEF RequestInv
<1> QED BY <1>2, <1>3, <1>4 DEF RequestInv

\* The members keep all that the service knows of them.
LEMMA Unseen ==
  ASSUME IInv, RequestInv, mp_sender_list' = mp_sender_list, Routing' = Routing,
         \A c \in mp_sender_list :
           /\ name'[c] = name[c] /\ sock_in'[c] = sock_in[c]
           /\ client'[c] = "closed" <=> client[c] = "closed"
           /\ client[c] = "closed" \/ sock_out'[c] \o mess_list'[c] = sock_out[c] \o mess_list[c],
         \A c \in Client \ mp_sender_list : sock_in'[c] \in {<<>>, sock_in[c]}
  PROVE  RequestInv' /\ [Service!Next]_Service!vars
<1>1. mp_sender_list \subseteq Client
  BY DEF IInv, TypeOK
<1>2. RequestInv'
  BY <1>1, RequestFrame
<1>3. UNCHANGED <<Member, Gone, Outbox, Inbox>>
  BY DEF Member, Gone, Outbox, Inbox
<1> QED BY <1>2, <1>3, ServiceUnseen

\* A client that is not registered is on its own.
LEMMA ClientUnseen ==
  ASSUME IInv, RequestInv, NEW c \in Client, c \notin mp_sender_list,
         UNCHANGED <<backlog, turnVars, mpVars>>, sock_in'[c] \in {<<>>, sock_in[c]},
         \A d \in Client \ {c} :
           /\ client'[d] = client[d] /\ name'[d] = name[d]
           /\ sock_in'[d] = sock_in[d] /\ sock_out'[d] = sock_out[d]
  PROVE  RequestInv' /\ [Service!Next]_Service!vars
<1>1. UNCHANGED <<pc, cur, mp_sender_list, mess_list>> /\ Routing' = Routing
  BY DEF turnVars, mpVars, Routing
<1>2. \A d \in mp_sender_list : d \in Client /\ d # c
  BY DEF IInv, TypeOK
<1> QED BY <1>1, <1>2, Unseen

LEMMA OverStep ==
  ASSUME IInv, RequestInv, NEW c \in Client, ~Held(c), Over({c}),
         UNCHANGED <<backlog, turnVars, mpVars>>
  PROVE  RequestInv' /\ [Service!Next]_Service!vars
<1>1. c \notin mp_sender_list
  BY DEF Held
<1>2. /\ sock_in'[c] = <<>>
      /\ \A d \in Client \ {c} :
           /\ client'[d] = client[d] /\ name'[d] = name[d]
           /\ sock_in'[d] = sock_in[d] /\ sock_out'[d] = sock_out[d]
  BY DEF Over
<1> QED BY <1>1, <1>2, ClientUnseen

LEMMA ConnectStep ==
  ASSUME IInv, RequestInv, NEW c \in Client, Connect(c)
  PROVE  RequestInv' /\ [Service!Next]_Service!vars
<1>1. /\ client[c] = "out" /\ client' = [client EXCEPT ![c] = "connecting"]
      /\ UNCHANGED <<name, sock_in, sock_out>> /\ UNCHANGED turnVars /\ UNCHANGED mpVars
  BY DEF Connect
<1>2. c \notin mp_sender_list
  BY <1>1 DEF IInv, ConnectionInv
<1>3. mp_sender_list' = mp_sender_list /\ mess_list' = mess_list /\ Routing' = Routing
  BY <1>1 DEF turnVars, mpVars, Routing
<1>4. \A d \in mp_sender_list : d \in Client /\ client'[d] = client[d]
  BY <1>1, <1>2 DEF IInv, TypeOK
<1> QED BY <1>1, <1>3, <1>4, Unseen

LEMMA WriteNameStep ==
  ASSUME IInv, RequestInv, NEW c \in Client, NEW n \in Uses[c], WriteName(c, n)
  PROVE  RequestInv' /\ [Service!Next]_Service!vars
<1>1. /\ client[c] = "connecting" /\ client' = [client EXCEPT ![c] = "asking"]
      /\ name' = [name EXCEPT ![c] = n]
      /\ UNCHANGED <<sock_in, sock_out>> /\ UNCHANGED <<backlog, turnVars, mpVars>>
  BY DEF WriteName
<1>2. c \notin mp_sender_list
  BY <1>1 DEF IInv, ConnectionInv
<1>3. \A d \in Client \ {c} : client'[d] = client[d] /\ name'[d] = name[d]
  BY <1>1 DEF IInv, TypeOK
<1> QED BY <1>1, <1>2, <1>3, ClientUnseen

LEMMA StartMpStep ==
  ASSUME IInv, RequestInv, StartMp
  PROVE  RequestInv' /\ [Service!Next]_Service!vars
<1>1. /\ UNCHANGED <<client, name, sock_in, sock_out, mp_sender_list, mess_list>>
      /\ pc # "multicast" /\ pc' # "multicast"
  BY DEF StartMp, clientVars, mpVars
<1> QED BY <1>1, Unseen DEF Routing

LEMMA SelectStep ==
  ASSUME IInv, RequestInv, Select
  PROVE  RequestInv' /\ [Service!Next]_Service!vars
<1>1. /\ UNCHANGED <<client, name, sock_in, sock_out, mp_sender_list, mess_list>>
      /\ pc # "multicast" /\ pc' # "multicast"
  BY DEF Select, clientVars, mpVars
<1> QED BY <1>1, Unseen DEF Routing

LEMMA ServeStep ==
  ASSUME IInv, RequestInv, NEW c \in Client, Serve(c)
  PROVE  RequestInv' /\ [Service!Next]_Service!vars
<1>1. /\ UNCHANGED <<client, name, sock_in, sock_out, mp_sender_list, mess_list>>
      /\ pc # "multicast" /\ pc' # "multicast"
  BY DEF Serve, clientVars, mpVars
<1> QED BY <1>1, Unseen DEF Routing

LEMMA EndTurnStep ==
  ASSUME IInv, RequestInv, EndTurn
  PROVE  RequestInv' /\ [Service!Next]_Service!vars
<1>1. /\ UNCHANGED <<client, name, sock_in, sock_out, mp_sender_list, mess_list>>
      /\ pc # "multicast" /\ pc' # "multicast"
  BY DEF EndTurn, clientVars, mpVars
<1> QED BY <1>1, Unseen DEF Routing

\* mp closes a connection that it has accepted and not registered.
LEMMA RefusedStep ==
  ASSUME IInv, RequestInv, pc = "accept", MpCloses({cur}), ToServe(mp_sender_list),
         UNCHANGED mpVars, \A d \in Client \ {cur} : sock_out'[d] = sock_out[d]
  PROVE  RequestInv' /\ [Service!Next]_Service!vars
<1>1. cur \notin mp_sender_list
  BY Accepting
<1>2. mp_sender_list' = mp_sender_list /\ mess_list' = mess_list /\ Routing' = Routing
  BY DEF mpVars, ToServe, Routing
<1>3. \A c \in mp_sender_list :
        /\ c \in Client /\ client'[c] = client[c] /\ name'[c] = name[c]
        /\ sock_in'[c] = sock_in[c] /\ sock_out'[c] = sock_out[c]
  BY <1>1 DEF MpCloses, IInv, TypeOK
<1>4. \A c \in Client : sock_in'[c] \in {<<>>, sock_in[c]}
  BY DEF MpCloses
<1> QED BY <1>2, <1>3, <1>4, Unseen

LEMMA NoNameStep ==
  ASSUME IInv, RequestInv, NoName
  PROVE  RequestInv' /\ [Service!Next]_Service!vars
BY RefusedStep DEF NoName

LEMMA RefuseStep ==
  ASSUME IInv, RequestInv, pc = "accept", Refuse
  PROVE  RequestInv' /\ [Service!Next]_Service!vars
<1>1. \A d \in Client \ {cur} : sock_out'[d] = sock_out[d]
  BY Accepting, AnswerTypes DEF Refuse, IInv
<1> QED BY <1>1, RefusedStep DEF Refuse

\* The message goes from the queue to the socket, or the queue of a client that
\* has closed gets shorter: the mailbox is the same.
LEMMA SendingStep ==
  ASSUME IInv, RequestInv, pc \in {"send", "blocked"}, pc' # "multicast",
         UNCHANGED <<client, name, sock_in, mp_sender_list>>,
         \A c \in mp_sender_list :
           client[c] = "closed" \/ sock_out'[c] \o mess_list'[c] = sock_out[c] \o mess_list[c]
  PROVE  RequestInv' /\ [Service!Next]_Service!vars
BY Unseen DEF Routing

LEMMA WriteStep ==
  ASSUME IInv, RequestInv, write_what_you_can
  PROVE  RequestInv' /\ [Service!Next]_Service!vars
<1>1. /\ pc \in {"send", "blocked"} /\ mess_list[cur] # <<>> /\ pc' = "send"
      /\ sock_out' = [sock_out EXCEPT ![cur] = Append(@, Head(mess_list[cur]))]
      /\ mess_list' = [mess_list EXCEPT ![cur] = Tail(@)]
      /\ UNCHANGED <<client, name, sock_in, mp_sender_list>>
  BY DEF write_what_you_can, Pop, Goto
<1>2. cur \in Client
  BY <1>1, Serving
<1>3. sock_out[cur] \in Seq(Message) /\ mess_list[cur] \in Seq(Message)
  BY <1>2 DEF IInv, TypeOK
<1>4. sock_out'[cur] \o mess_list'[cur] = sock_out[cur] \o mess_list[cur]
  BY <1>1, <1>2, <1>3, Mailbox DEF IInv, TypeOK
<1>5. \A c \in Client \ {cur} : sock_out'[c] = sock_out[c] /\ mess_list'[c] = mess_list[c]
  BY <1>1 DEF IInv, TypeOK
<1>6. mp_sender_list \subseteq Client
  BY DEF IInv, TypeOK
<1> QED BY <1>1, <1>4, <1>5, <1>6, SendingStep

LEMMA WriteBlocksStep ==
  ASSUME IInv, RequestInv, WriteBlocks \/ EndSend
  PROVE  RequestInv' /\ [Service!Next]_Service!vars
<1>1. /\ pc = "send" /\ pc' # "multicast"
      /\ UNCHANGED <<client, name, sock_in, sock_out, mp_sender_list, mess_list>>
  BY DEF WriteBlocks, EndSend, LeaveSend, Goto, Done, clientVars, mpVars
<1> QED BY <1>1, SendingStep

LEMMA WriteToClosedStep ==
  ASSUME IInv, RequestInv, pc \in {"send", "blocked"}, client[cur] = "closed",
         Pop \/ LeaveSend, UNCHANGED <<client, name, sock_in, sock_out>>
  PROVE  RequestInv' /\ [Service!Next]_Service!vars
<1>1. /\ pc' # "multicast" /\ mp_sender_list' = mp_sender_list
      /\ \A c \in Client \ {cur} : mess_list'[c] = mess_list[c]
  BY DEF Pop, LeaveSend, Goto, Done, IInv, TypeOK
<1>2. mp_sender_list \subseteq Client
  BY DEF IInv, TypeOK
<1> QED BY <1>1, <1>2, SendingStep

-----------------------------------------------------------------------------
(* Steps of a member *)

\* What the service holds of a member.
LEMMA MemberFacts ==
  ASSUME IInv, NEW c \in mp_sender_list
  PROVE  /\ c \in Client /\ Member[c] = name[c] /\ Member[c] # None /\ name[c] \in Name
         /\ Outbox[c] = sock_in[c]
         /\ Inbox[c] = IF client[c] = "closed" THEN <<>> ELSE sock_out[c] \o mess_list[c]
         /\ c \in Gone <=> client[c] = "closed"
         /\ sock_out[c] \in Seq(Message) /\ mess_list[c] \in Seq(Message)
BY DEF IInv, TypeOK, ConnectionInv, Member, Outbox, Inbox, Gone

LEMMA ServiceStep ==
  ASSUME NEW c \in Client,
         \/ Service!Submit(c) \/ Service!RouteToAll(c) \/ Service!RouteToNext(c)
         \/ Service!Receive(c) \/ Service!Die(c) \/ Service!Leave(c)
         \/ \E n \in Name : Service!Join(c, n) \/ Service!JoinAndDie(c, n)
         \/ \E d \in Client : Service!Replace(c, d)
  PROVE  [Service!Next]_Service!vars
BY DEF Service!Next

LEMMA ReadsStep ==
  ASSUME IInv, RequestInv, NEW c \in Client, client[c] \in {"asking", "in"}, Reads(c, "in"),
         UNCHANGED <<backlog, turnVars, mpVars>>
  PROVE  RequestInv' /\ [Service!Next]_Service!vars
<1>1. /\ sock_out' = [sock_out EXCEPT ![c] = Tail(@)] /\ sock_out[c] # <<>>
      /\ client' = [client EXCEPT ![c] = "in"] /\ UNCHANGED <<name, sock_in>>
  BY DEF Reads
<1>2. /\ UNCHANGED <<pc, cur, mp_sender_list, mess_list>> /\ Routing' = Routing
      /\ mp_sender_list \subseteq Client
  BY DEF turnVars, mpVars, Routing, IInv, TypeOK
<1>3. /\ \A d \in Client \ {c} : client'[d] = client[d] /\ sock_out'[d] = sock_out[d]
      /\ client'[c] = "in" /\ sock_out'[c] = Tail(sock_out[c])
  BY <1>1 DEF IInv, TypeOK
<1>4. CASE c \notin mp_sender_list
  BY <1>1, <1>3, <1>4, ClientUnseen
<1>5. CASE c \in mp_sender_list
  <2>1. RequestInv'
    BY <1>1, <1>2, RequestFrame
  <2>2. UNCHANGED <<Member, Gone, Outbox>>
    <3>1. \A d \in mp_sender_list : client'[d] = "closed" <=> client[d] = "closed"
      BY <1>2, <1>3
    <3> QED BY <1>1, <1>2, <3>1 DEF Member, Gone, Outbox
  <2>3. Inbox[c] # <<>> /\ Tail(Inbox[c]) = Tail(sock_out[c]) \o mess_list[c]
    BY <1>1, <1>5, MemberFacts, Mailbox
  <2>4. Inbox' = [Inbox EXCEPT ![c] = Tail(Inbox[c])]
    <3>1. \A d \in Client : Inbox'[d] = IF d = c THEN Tail(Inbox[c]) ELSE Inbox[d]
      BY <1>2, <1>3, <1>5, <2>3 DEF Inbox
    <3> QED BY <3>1 DEF Inbox
  <2>5. Service!Receive(c)
    BY <1>2, <2>2, <2>3, <2>4, ServiceReceive
  <2> QED BY <2>1, <2>5, ServiceStep
<1> QED BY <1>4, <1>5

LEMMA ReadAnswerStep ==
  ASSUME IInv, RequestInv, NEW c \in Client, ReadAnswer(c)
  PROVE  RequestInv' /\ [Service!Next]_Service!vars
<1>1. client[c] = "asking" /\ UNCHANGED <<backlog, turnVars, mpVars>>
  BY DEF ReadAnswer
<1>2. CASE Reads(c, "in")
  BY <1>1, <1>2, ReadsStep
<1>3. CASE sock_out[c] # <<>> /\ Head(sock_out[c]).text # <<"REGISTER_OK">> /\ Over({c})
  <2>1. ~Held(c)
    BY <1>1, <1>3, HeldConnections DEF IInv, AnswerInv
  <2> QED BY <1>1, <1>3, <2>1, OverStep
<1>4. CASE /\ ~Held(c) /\ client' = [client EXCEPT ![c] = "in"]
           /\ UNCHANGED <<name, sock_in, sock_out>>
  <2>1. c \notin mp_sender_list
    BY <1>4 DEF Held
  <2> QED BY <1>1, <1>4, <2>1, ClientUnseen DEF IInv, TypeOK
<1> QED BY <1>2, <1>3, <1>4 DEF ReadAnswer

LEMMA ReceiveStep ==
  ASSUME IInv, RequestInv, NEW c \in Client, Receive(c)
  PROVE  RequestInv' /\ [Service!Next]_Service!vars
<1>1. client[c] = "in" /\ UNCHANGED <<backlog, turnVars, mpVars>>
  BY DEF Receive
<1>2. CASE Reads(c, "in")
  BY <1>1, <1>2, ReadsStep
<1>3. CASE ~Held(c) /\ Over({c})
  BY <1>1, <1>3, OverStep
<1> QED BY <1>2, <1>3 DEF Receive

LEMMA SendStep ==
  ASSUME IInv, RequestInv, NEW c \in Client, NEW type \in {"MULTICAST_MT", "BROADCAST_MT"},
         NEW to \in Seq(Name), NEW body \in Payload, Send(c, type, to, body)
  PROVE  RequestInv' /\ [Service!Next]_Service!vars
<1> DEFINE r == [type |-> type, to |-> to, body |-> body]
<1>1. /\ client[c] = "in" /\ Held(c) /\ (type = "BROADCAST_MT" <=> to = <<>>)
      /\ sock_in' = [sock_in EXCEPT ![c] = Append(@, r)]
      /\ UNCHANGED <<client, name, sock_out>> /\ UNCHANGED turnVars /\ UNCHANGED mpVars
  BY DEF Send, Written
<1>2. c \in mp_sender_list
  BY <1>1, HeldConnections DEF IInv, ConnectionInv
<1>3. r \in ProperRequest /\ sock_in[c] \in Seq(ProperRequest)
  BY <1>1 DEF ProperRequest, Request, RequestInv
<1> HIDE DEF r
<1>4. /\ sock_in'[c] = Append(sock_in[c], r)
      /\ \A d \in Client \ {c} : sock_in'[d] = sock_in[d]
  BY <1>1 DEF IInv, TypeOK
<1>5. /\ sock_in'[c] \in Seq(ProperRequest)
      /\ Len(sock_in'[c]) = Len(sock_in[c]) + 1
      /\ SubSeq(sock_in'[c], 1, Len(sock_in[c])) = sock_in[c]
  BY <1>3, <1>4, AppendProperties, AppendPrefix
<1>6. UNCHANGED <<mp_sender_list, mess_list>> /\ Routing' = Routing
  BY <1>1 DEF turnVars, mpVars, Routing
<1>7. RequestInv'
  BY <1>2, <1>4, <1>5, <1>6, RequestFrame
<1>8. UNCHANGED <<Member, Gone, Inbox>>
  BY <1>1, <1>6 DEF Member, Gone, Inbox
<1>9. Outbox[c] = sock_in[c] /\ Outbox'[c] = sock_in'[c]
  BY <1>2, <1>6 DEF Outbox
<1>10. Outbox' = [Outbox EXCEPT ![c] = Outbox'[c]]
  <2>1. \A d \in Client \ {c} : Outbox'[d] = Outbox[d]
    BY <1>4, <1>6 DEF Outbox
  <2> QED BY <2>1 DEF Outbox
<1>11. Member[c] # None /\ c \notin Gone
  BY <1>1, <1>2, MemberFacts
<1>12. Service!Submit(c)
  BY <1>5, <1>6, <1>8, <1>9, <1>10, <1>11, ServiceSubmit
<1> QED BY <1>7, <1>12, ServiceStep

\* A member dies; the first k of its requests reach mp, and maybe a part of one more.
LEMMA CloseSocketStep ==
  ASSUME IInv, RequestInv, NEW c \in Client, client[c] \in {"connecting", "asking", "in"},
         NEW k \in 0 .. Len(sock_in[c]), NEW requests,
         \/ requests = SubSeq(sock_in[c], 1, k)
         \/ /\ client[c] = "in"
            /\ \E r \in ProperRequest : requests = Append(SubSeq(sock_in[c], 1, k), r),
         CloseSocket(c, requests)
  PROVE  RequestInv' /\ [Service!Next]_Service!vars
<1>1. UNCHANGED <<backlog, turnVars, mpVars>>
  BY DEF CloseSocket
<1>2. CASE ~Held(c) /\ Over({c})
  BY <1>1, <1>2, OverStep
<1>3. CASE /\ Held(c)
           /\ client' = [client EXCEPT ![c] = "closed"]
           /\ sock_in' = [sock_in EXCEPT ![c] = requests]
           /\ sock_out' = [sock_out EXCEPT ![c] = <<>>]
           /\ UNCHANGED name
  <2>1. /\ client'[c] = "closed" /\ sock_in'[c] = requests
        /\ \A d \in Client \ {c} :
             client'[d] = client[d] /\ sock_in'[d] = sock_in[d] /\ sock_out'[d] = sock_out[d]
    BY <1>3 DEF IInv, TypeOK
  <2>2. UNCHANGED <<mp_sender_list, mess_list>> /\ Routing' = Routing
    BY <1>1 DEF turnVars, mpVars, Routing
  <2>3. sock_in[c] \in Seq(ProperRequest)
    BY DEF RequestInv
  <2>4. CASE c \notin mp_sender_list
    <3>1. c \in Waiting /\ client[c] # "in"
      BY <1>3, <2>4, HeldConnections DEF IInv, ConnectionInv
    <3>2. sock_in[c] = <<>> /\ requests = SubSeq(sock_in[c], 1, k)
      BY <2>4, <3>1 DEF RequestInv
    <3>3. k = 0 /\ Len(requests) = 0 /\ requests \in Seq(ProperRequest)
      BY <2>3, <3>2, EmptySeq, Prefix
    <3>4. requests = <<>>
      BY <3>3, EmptySeq
    <3> QED BY <1>1, <1>3, <2>1, <2>4, <3>4, ClientUnseen
  <2>5. CASE c \in mp_sender_list
    <3> DEFINE p == SubSeq(sock_in[c], 1, k)
    <3>1. p \in Seq(ProperRequest) /\ Len(p) = k /\ SubSeq(p, 1, k) = p
      BY <2>3, Prefix
    <3>2. /\ requests \in Seq(ProperRequest) /\ Len(requests) \in {k, k + 1}
          /\ SubSeq(requests, 1, k) = p
      <4>1. CASE requests = p
        BY <3>1, <4>1
      <4>2. ASSUME NEW r \in ProperRequest, requests = Append(p, r)
            PROVE  /\ requests \in Seq(ProperRequest) /\ Len(requests) = k + 1
                   /\ SubSeq(requests, 1, k) = p
        <5> HIDE DEF p
        <5> QED BY <3>1, <4>2, AppendPrefix, AppendProperties
      <4> QED BY <4>1, <4>2
    <3>3. RequestInv'
      BY <2>1, <2>2, <2>5, <3>2, RequestFrame
    <3>4. Member' = Member
      BY <1>3, <2>2 DEF Member
    <3>5. Gone' = Gone \cup {c}
      <4>1. mp_sender_list \subseteq Client
        BY DEF IInv, TypeOK
      <4> QED BY <2>1, <2>2, <2>5, <4>1 DEF Gone
    <3>6. Outbox[c] = sock_in[c] /\ Outbox'[c] = requests
      BY <2>1, <2>2, <2>5 DEF Outbox
    <3>7. Outbox' = [Outbox EXCEPT ![c] = Outbox'[c]]
      <4>1. \A d \in Client \ {c} : Outbox'[d] = Outbox[d]
        BY <2>1, <2>2 DEF Outbox
      <4> QED BY <4>1 DEF Outbox
    <3>8. Inbox' = [Inbox EXCEPT ![c] = <<>>]
      <4>1. \A d \in Client : Inbox'[d] = IF d = c THEN <<>> ELSE Inbox[d]
        BY <2>1, <2>2 DEF Inbox
      <4> QED BY <4>1 DEF Inbox
    <3>9. Member[c] # None /\ c \notin Gone
      BY <2>5, MemberFacts
    <3>10. Service!Die(c)
      BY <2>2, <3>2, <3>4, <3>5, <3>6, <3>7, <3>8, <3>9, ServiceDie
    <3> QED BY <3>3, <3>10, ServiceStep
  <2> QED BY <2>4, <2>5
<1> QED BY <1>2, <1>3 DEF CloseSocket

LEMMA ReachingPrefix ==
  ASSUME RequestInv, NEW c \in Client, NEW requests \in Reaching(c)
  PROVE  \E k \in 0 .. Len(sock_in[c]) : requests = SubSeq(sock_in[c], 1, k)
<1>1. Len(sock_in[c]) \in Nat
  BY LenProperties DEF RequestInv
<1> QED BY <1>1 DEF Reaching

LEMMA DisconnectStep ==
  ASSUME IInv, RequestInv, NEW c \in Client, disconnect_from_the_mp(c)
  PROVE  RequestInv' /\ [Service!Next]_Service!vars
<1> DEFINE r == [type |-> "DISCONNECT_MT", to |-> <<>>, body |-> Empty]
<1>1. PICK requests \in Reaching(c) : CloseSocket(c, Append(requests, r))
  BY DEF disconnect_from_the_mp, Written
<1>2. PICK k \in 0 .. Len(sock_in[c]) : requests = SubSeq(sock_in[c], 1, k)
  BY ReachingPrefix
<1>3. r \in ProperRequest
  BY EmptySeq DEF ProperRequest, Request
<1>4. client[c] = "in"
  BY DEF disconnect_from_the_mp
<1> HIDE DEF r
<1> QED BY <1>1, <1>2, <1>3, <1>4, CloseSocketStep

LEMMA DieStep ==
  ASSUME IInv, RequestInv, NEW c \in Client, NEW to \in Seq(Name), NEW body \in Payload,
         Die(c, to, body)
  PROVE  RequestInv' /\ [Service!Next]_Service!vars
<1> DEFINE r == [type |-> "cut", to |-> to, body |-> body]
<1>1. PICK requests \in Reaching(c) :
        \/ CloseSocket(c, requests)
        \/ client[c] = "in" /\ CloseSocket(c, Append(requests, r))
  BY DEF Die, Written
<1>2. PICK k \in 0 .. Len(sock_in[c]) : requests = SubSeq(sock_in[c], 1, k)
  BY ReachingPrefix
<1>3. r \in ProperRequest
  BY DEF ProperRequest, Request
<1>4. client[c] \in {"connecting", "asking", "in"}
  BY DEF Die
<1> HIDE DEF r
<1> QED BY <1>1, <1>2, <1>3, <1>4, CloseSocketStep

-----------------------------------------------------------------------------
(* The end of mp or of a member *)

LEMMA RoutingTypes ==
  ASSUME IInv
  PROVE  Routing \in {None, cur} /\ Routing \in Client \cup {None}
BY DEF Routing, IInv, TypeOK

LEMMA GoDownStep ==
  ASSUME IInv, RequestInv, GoDown
  PROVE  RequestInv' /\ [Service!Next]_Service!vars
<1>1. /\ pc' = "down" /\ mp_sender_list' = {} /\ \A c \in Client : sock_in'[c] = <<>>
  BY DEF GoDown, MpCloses
<1>2. RequestInv'
  BY <1>1, RequestFrame
<1>3. /\ Member' = [c \in Client |-> None] /\ Gone' = {} /\ Outbox' = [c \in Client |-> <<>>]
      /\ Inbox' = [c \in Client |-> <<>>] /\ Routing' = None
  BY <1>1 DEF Member, Gone, Outbox, Inbox, Routing
<1>4. Gone \subseteq Client
  BY DEF Gone, IInv, TypeOK
<1>5. Service!Stop
  BY <1>3, <1>4, RoutingTypes, ServiceStop
<1> QED BY <1>2, <1>5 DEF Service!Next

LEMMA HangupStep ==
  ASSUME IInv, RequestInv, Hangup
  PROVE  RequestInv' /\ [Service!Next]_Service!vars
<1>1. pc \in {"read", "multicast"} /\ UNCHANGED sock_out
  BY DEF Hangup
<1>2. CASE GoDown
  BY <1>2, GoDownStep
<1>3. CASE unregister_oprs(cur) /\ MpCloses({cur}) /\ Done(cur)
  <2>1. /\ mp_sender_list' = mp_sender_list \ {cur} /\ pc' = "serve"
        /\ mess_list' = [mess_list EXCEPT ![cur] = <<>>]
    BY <1>3 DEF unregister_oprs, Done
  <2>2. cur \in mp_sender_list /\ cur \in Client
    BY <1>1, Serving
  <2>3. /\ sock_in'[cur] = <<>>
        /\ \A c \in Client \ {cur} :
             /\ client'[c] = client[c] /\ name'[c] = name[c]
             /\ sock_in'[c] = sock_in[c] /\ mess_list'[c] = mess_list[c]
    BY <1>3, <2>1, <2>2 DEF MpCloses, IInv, TypeOK
  <2>4. RequestInv'
    BY <2>1, <2>3, RequestFrame
  <2>5. Member' = [Member EXCEPT ![cur] = None]
    <3>1. \A c \in Client : Member'[c] = IF c = cur THEN None ELSE Member[c]
      BY <2>1, <2>3 DEF Member
    <3> QED BY <3>1 DEF Member
  <2>6. Gone' = Gone \ {cur}
    <3>1. mp_sender_list \subseteq Client
      BY DEF IInv, TypeOK
    <3> QED BY <2>1, <2>3, <3>1 DEF Gone
  <2>7. Outbox' = [Outbox EXCEPT ![cur] = <<>>]
    <3>1. \A c \in Client : Outbox'[c] = IF c = cur THEN <<>> ELSE Outbox[c]
      BY <2>1, <2>3 DEF Outbox
    <3> QED BY <3>1 DEF Outbox
  <2>8. Inbox' = [Inbox EXCEPT ![cur] = <<>>]
    <3>1. \A c \in Client : Inbox'[c] = IF c = cur THEN <<>> ELSE Inbox[c]
      BY <1>1, <2>1, <2>3 DEF Inbox
    <3> QED BY <3>1 DEF Inbox
  <2>9. Routing' = None
    BY <2>1 DEF Routing
  <2>10. PICK c \in mp_sender_list : c = cur
    BY <2>2
  <2>11. c \in Client /\ Member[c] # None /\ Routing \in {None, c}
    BY <2>10, MemberFacts, RoutingTypes
  <2>12. Service!Leave(c)
    BY <2>5, <2>6, <2>7, <2>8, <2>9, <2>10, <2>11, ServiceLeave
  <2> QED BY <2>4, <2>11, <2>12, ServiceStep
<1> QED BY <1>2, <1>3 DEF Hangup

-----------------------------------------------------------------------------
(* The requests *)

\* Adding a message to the queues of S adds it to their mailboxes.
LEMMA BufferedPosts ==
  ASSUME IInv, pc \in {"read", "multicast"}, NEW S \in SUBSET mp_sender_list, NEW m \in Message,
         add_buffered_message(S, m), UNCHANGED <<client, sock_out>>
  PROVE  Posted(S, m)
<1>1. /\ mess_list' = [c \in Client |-> IF c \in S THEN Append(mess_list[c], m) ELSE mess_list[c]]
      /\ mp_sender_list' = mp_sender_list
  BY DEF add_buffered_message
<1>2. ASSUME NEW c \in Client
      PROVE  Inbox'[c] = IF c \in S \ Gone THEN Append(Inbox[c], m) ELSE Inbox[c]
  <2>1. CASE c \in S \ Gone
    <3>1. c \in mp_sender_list /\ client[c] # "closed"
      BY <2>1 DEF Gone
    <3>2. Inbox[c] = sock_out[c] \o mess_list[c]
            /\ Inbox'[c] = sock_out[c] \o Append(mess_list[c], m)
      BY <1>1, <2>1, <3>1 DEF Inbox
    <3>3. sock_out[c] \in Seq(Message) /\ mess_list[c] \in Seq(Message)
      BY <3>1, MemberFacts
    <3>4. sock_out[c] \o Append(mess_list[c], m) = Append(sock_out[c] \o mess_list[c], m)
      BY <3>3, Mailbox
    <3> QED BY <2>1, <3>2, <3>4
  <2>2. CASE c \notin S
    BY <1>1, <2>2 DEF Inbox
  <2>3. CASE c \in Gone
    BY <1>1, <2>3 DEF Inbox, Gone
  <2> QED BY <2>1, <2>2, <2>3
<1> QED BY <1>2 DEF Posted, Inbox

\* The rest of a step that routes: one more message in some mailboxes, and one
\* request of cur less or shorter.
LEMMA RoutingFrame ==
  ASSUME IInv, RequestInv, pc \in {"read", "multicast"},
         NEW requests \in Seq(ProperRequest), sock_in' = [sock_in EXCEPT ![cur] = requests],
         UNCHANGED <<client, name, mp_sender_list>>
  PROVE  /\ RequestInv' /\ UNCHANGED <<Member, Gone>>
         /\ Outbox' = [Outbox EXCEPT ![cur] = requests]
<1>1. cur \in Client /\ cur \in mp_sender_list
  BY Serving
<1>2. sock_in'[cur] = requests /\ \A c \in Client \ {cur} : sock_in'[c] = sock_in[c]
  BY <1>1 DEF IInv, TypeOK
<1>3. RequestInv'
  BY <1>1, <1>2, RequestFrame
<1>4. UNCHANGED <<Member, Gone>>
  BY DEF Member, Gone
<1>5. \A c \in Client : Outbox'[c] = IF c = cur THEN requests ELSE Outbox[c]
  BY <1>1, <1>2 DEF Outbox
<1>6. Outbox' = [Outbox EXCEPT ![cur] = requests]
  BY <1>5 DEF Outbox
<1> QED BY <1>3, <1>4, <1>6

LEMMA BufferBroadcastStep ==
  ASSUME IInv, RequestInv, BufferBroadcast
  PROVE  RequestInv' /\ [Service!Next]_Service!vars
<1>1. /\ pc = "read" /\ sock_in[cur] # <<>> /\ Request1.type = "BROADCAST_MT"
      /\ add_buffered_message(mp_recipient_list \ {cur}, Sent(name[cur], Request1.body))
      /\ sock_in' = [sock_in EXCEPT ![cur] = Tail(@)] /\ NextOfTurn
      /\ UNCHANGED <<client, name, sock_out, backlog>>
  BY DEF BufferBroadcast
<1>2. cur \in Client /\ cur \in mp_sender_list
        /\ mp_recipient_list \ {cur} \in SUBSET mp_sender_list
  BY <1>1, Serving
<1>3. Request1 \in Request /\ Tail(sock_in[cur]) \in Seq(ProperRequest)
  BY <1>1, <1>2, Serving, SeqFacts DEF Request1, RequestInv
<1>4. Sent(name[cur], Request1.body) \in Message
  BY <1>1, <1>3, Serving, RequestTypes, MessageTypes
<1>5. Posted(mp_recipient_list \ {cur}, Sent(name[cur], Request1.body))
  BY <1>1, <1>2, <1>4, BufferedPosts
<1>6. mp_sender_list' = mp_sender_list
  BY <1>1 DEF add_buffered_message
<1>7. /\ RequestInv' /\ UNCHANGED <<Member, Gone>>
      /\ Outbox' = [Outbox EXCEPT ![cur] = Tail(sock_in[cur])]
  BY <1>1, <1>3, <1>6, RoutingFrame
<1>8. Routing = None /\ Routing' = None
  BY <1>1 DEF Routing, NextOfTurn, Goto, Done
<1>9. Outbox[cur] = sock_in[cur] /\ Member[cur] = name[cur] /\ Member[cur] # None
  BY <1>2, MemberFacts
<1>10. Service!Recipients = mp_recipient_list
  BY ServiceRecipients DEF IInv
<1>11. PICK c \in Client : c = cur
  BY <1>2
<1>12. /\ Outbox[c] # <<>> /\ Head(Outbox[c]) = Request1
       /\ Outbox' = [Outbox EXCEPT ![c] = Tail(Outbox[c])]
       /\ Posted(mp_recipient_list \ {c}, Sent(Member[c], Head(Outbox[c]).body))
  BY <1>1, <1>5, <1>7, <1>9, <1>11 DEF Request1
<1>13. Service!RouteToAll(c)
  BY <1>1, <1>7, <1>8, <1>9, <1>10, <1>11, <1>12, ServiceRouteToAll
<1> QED BY <1>7, <1>13, ServiceStep

LEMMA BufferNextStep ==
  ASSUME IInv, RequestInv, BufferNext
  PROVE  RequestInv' /\ [Service!Next]_Service!vars
<1> DEFINE r == Request1
           n == Head(r.to)
           requests == IF LastOf(r) THEN Tail(sock_in[cur]) ELSE <<Rest(r)>> \o Tail(sock_in[cur])
<1>1. pc \in {"read", "multicast"} /\ sock_in[cur] # <<>> /\ r.to # <<>>
  BY DEF BufferNext
<1>2. /\ cur \in Client /\ cur \in mp_sender_list /\ name[cur] \in Name
      /\ mp_recipient_list \subseteq mp_sender_list
  BY <1>1, Serving
<1>3. r \in ProperRequest /\ Tail(sock_in[cur]) \in Seq(ProperRequest)
  BY <1>1, <1>2, SeqFacts DEF Request1, RequestInv
<1>4. r \in Request /\ r.type # "BROADCAST_MT"
  BY <1>1, <1>3 DEF ProperRequest
<1>5. n \in Name /\ Rest(r) \in Request /\ Rest(r).type = r.type /\ r.body \in Body
  BY <1>1, <1>4, RequestTypes DEF Rest, Request
<1>6. Named(n) = {c \in mp_recipient_list : name[c] = n}
  BY ServiceRecipients DEF Named, IInv
<1>7. /\ IF Named(n) = {} THEN add_buffered_message({cur}, Unknown(n))
                          ELSE add_buffered_message(Named(n), Sent(name[cur], r.body))
      /\ sock_in' = [sock_in EXCEPT ![cur] = requests]
      /\ IF LastOf(r) THEN NextOfTurn ELSE Goto("multicast")
      /\ UNCHANGED <<client, name, sock_out, backlog>>
  BY <1>5, <1>6 DEF BufferNext, LastOf, Rest
<1>8. requests \in Seq(ProperRequest)
  <2>1. Rest(r) \in ProperRequest
    BY <1>4, <1>5 DEF ProperRequest
  <2>2. <<Rest(r)>> \in Seq(ProperRequest)
    BY <2>1
  <2> QED BY <1>3, <2>2, ConcatProperties
<1>9. Unknown(n) \in Message /\ Sent(name[cur], r.body) \in Message
  BY <1>2, <1>5, MessageTypes
<1>10. {cur} \in SUBSET mp_sender_list /\ Named(n) \in SUBSET mp_sender_list
  BY <1>2, <1>6
<1>11. Outbox[cur] = sock_in[cur] /\ Member[cur] = name[cur] /\ Member[cur] # None
  BY <1>2, MemberFacts
<1>12. Service!Recipients = mp_recipient_list
  BY ServiceRecipients DEF IInv
<1>13. Routing \in {None, cur} /\ Routing' = IF LastOf(r) THEN None ELSE cur
  BY <1>1, <1>7, RoutingTypes DEF Routing, NextOfTurn, Goto, Done
<1>14. r = Head(Outbox[cur]) /\ Outbox[cur] # <<>>
  BY <1>1, <1>11 DEF Request1
<1>15. requests = IF LastOf(r) THEN Tail(Outbox[cur]) ELSE <<Rest(r)>> \o Tail(Outbox[cur])
  BY <1>11
<1>16. mp_sender_list' = mp_sender_list
  BY <1>7 DEF add_buffered_message
<1> HIDE DEF r, n, requests
<1>17. IF Named(n) = {} THEN Posted({cur}, Unknown(n))
                         ELSE Posted(Named(n), Sent(Member[cur], r.body))
  BY <1>1, <1>7, <1>9, <1>10, <1>11, BufferedPosts
<1>18. /\ RequestInv' /\ UNCHANGED <<Member, Gone>>
       /\ Outbox' = [Outbox EXCEPT ![cur] = requests]
  BY <1>1, <1>7, <1>8, <1>16, RoutingFrame
<1>19. n = Head(Head(Outbox[cur]).to)
  BY <1>14 DEF n
<1>20. PICK c \in Client : c = cur
  BY <1>2
<1>21. r = Head(Outbox[c]) /\ n = Head(Head(Outbox[c]).to)
  BY <1>14, <1>19, <1>20
<1>22. /\ Member[c] # None /\ Outbox[c] # <<>>
       /\ Head(Outbox[c]).type # "BROADCAST_MT" /\ Head(Outbox[c]).to # <<>>
       /\ Routing \in {None, c} /\ Routing' = IF LastOf(Head(Outbox[c])) THEN None ELSE c
  BY <1>1, <1>4, <1>11, <1>13, <1>14, <1>20, <1>21
<1>23. IF Named(Head(Head(Outbox[c]).to)) = {}
         THEN Posted({c}, Unknown(Head(Head(Outbox[c]).to)))
         ELSE Posted(Named(Head(Head(Outbox[c]).to)), Sent(Member[c], Head(Outbox[c]).body))
  BY <1>17, <1>20, <1>21
<1>24. Outbox' = [Outbox EXCEPT ![c] = IF LastOf(Head(Outbox[c])) THEN Tail(Outbox[c])
                                       ELSE <<Rest(Head(Outbox[c]))>> \o Tail(Outbox[c])]
  BY <1>15, <1>18, <1>20, <1>21
<1>25. Service!RouteToNext(c)
  BY <1>12, <1>18, <1>22, <1>23, <1>24, ServiceRouteToNext
<1> QED BY <1>18, <1>25, ServiceStep

-----------------------------------------------------------------------------
(* The registration *)

LEMMA KillMpStep ==
  ASSUME IInv, RequestInv, KillMp
  PROVE  RequestInv' /\ [Service!Next]_Service!vars
<1>1. pc = "accept" /\ (GoDown \/ Refuse)
  BY DEF KillMp
<1> QED BY <1>1, GoDownStep, RefuseStep

\* What a registration does to the mailboxes, whatever it replaces.
LEMMA Entered ==
  ASSUME IInv, RequestInv, Register, NEW c \in Client, c = cur
  PROVE  /\ RequestInv' /\ Routing = None /\ Routing' = None
         /\ name[c] \in Name /\ Member[c] = None /\ Older \subseteq Client \ {c}
         /\ \A d \in Client :
              /\ Member'[d] = IF d = c THEN name[c] ELSE IF d \in Older THEN None ELSE Member[d]
              /\ Outbox'[d] = IF d \in Older THEN <<>> ELSE Outbox[d]
              /\ Inbox'[d] = IF d = c /\ client[c] # "closed" THEN <<Welcome>>
                             ELSE IF d \in Older THEN <<>> ELSE Inbox[d]
         /\ Gone' = (Gone \ Older) \cup (IF client[c] = "closed" THEN {c} ELSE {})
<1>1. /\ pc = "accept" /\ name[c] \notin {None, KillName}
      /\ Enter(Older) /\ Answer("REGISTER_OK") /\ MpCloses(Older)
  BY DEF Register, Accepted
<1>2. c \in Waiting /\ c \notin mp_sender_list /\ client[c] \in {"asking", "closed"}
  BY <1>1, Accepting DEF IInv, AnswerInv
<1>3. /\ mp_sender_list' = (mp_sender_list \ Older) \cup {c}
      /\ mess_list' = [d \in Client |-> IF d \in Older \cup {c} THEN <<>> ELSE mess_list[d]]
      /\ pc' = "serve"
  BY <1>1 DEF Enter, ToServe
<1>4. Older \subseteq mp_sender_list /\ c \notin Older /\ mp_sender_list \subseteq Client
  BY <1>2 DEF Older, IInv, TypeOK
<1>5. /\ \A d \in Older : sock_in'[d] = <<>>
      /\ \A d \in Client \ Older :
           client'[d] = client[d] /\ name'[d] = name[d] /\ sock_in'[d] = sock_in[d]
  BY <1>1, <1>4 DEF MpCloses
<1>6. /\ \A d \in Client \ {c} : sock_out'[d] = sock_out[d]
      /\ client[c] # "closed" => sock_out'[c] = Append(sock_out[c], Welcome)
  BY <1>1, AnswerTypes DEF IInv, Welcome
<1>7. sock_in[c] = <<>> /\ (client[c] # "closed" => sock_out[c] = <<>>)
  BY <1>2 DEF RequestInv, IInv, AnswerInv
<1>8. client[c] # "closed" => sock_out'[c] \o mess_list'[c] = <<Welcome>>
  <2>1. Welcome \in Message /\ <<>> \in Seq(Message)
    BY EmptySeq DEF Welcome, Message, Text, MP
  <2>2. Append(<<>>, Welcome) = <<Welcome>> /\ <<Welcome>> \o <<>> = <<Welcome>>
    BY <2>1
  <2>3. mess_list'[c] = <<>>
    BY <1>3
  <2> QED BY <1>6, <1>7, <2>2, <2>3
<1>9. RequestInv'
  BY <1>3, <1>5, RequestFrame
<1>10. Routing = None /\ Routing' = None
  BY <1>1, <1>3 DEF Routing
<1>11. name[c] \in Name /\ Member[c] = None
  BY <1>1, <1>2 DEF IInv, TypeOK, Member
<1>12. ASSUME NEW d \in Client
       PROVE  /\ Member'[d] = IF d = c THEN name[c] ELSE IF d \in Older THEN None ELSE Member[d]
              /\ Outbox'[d] = IF d \in Older THEN <<>> ELSE Outbox[d]
              /\ Inbox'[d] = IF d = c /\ client[c] # "closed" THEN <<Welcome>>
                             ELSE IF d \in Older THEN <<>> ELSE Inbox[d]
  <2>1. CASE d = c
    BY <1>2, <1>3, <1>4, <1>5, <1>7, <1>8, <2>1 DEF Member, Outbox, Inbox
  <2>2. CASE d \in Older
    BY <1>3, <1>4, <2>2 DEF Member, Outbox, Inbox
  <2>3. CASE d # c /\ d \notin Older
    BY <1>3, <1>5, <1>6, <2>3 DEF Member, Outbox, Inbox
  <2> QED BY <2>1, <2>2, <2>3
<1>13. Gone' = (Gone \ Older) \cup (IF client[c] = "closed" THEN {c} ELSE {})
  BY <1>3, <1>4, <1>5 DEF Gone
<1> QED BY <1>4, <1>9, <1>10, <1>11, <1>12, <1>13

\* A client joins, or takes the place of the only older client of its name.
LEMMA RegisterStep ==
  ASSUME IInv, RequestInv, Register
  PROVE  RequestInv' /\ [Service!Next]_Service!vars
<1>1. PICK c \in Client : c = cur
  BY Accepting DEF Register, Accepted
<1>2. PICK n \in Name : n = name[c]
  BY <1>1, Entered
<1>3. RequestInv' /\ Routing = None /\ Routing' = None /\ Member[c] = None
  BY <1>1, Entered
<1>4. Gone' = (Gone \ Older) \cup (IF client[c] = "closed" THEN {c} ELSE {})
  BY <1>1, Entered
<1>5. \A d \in Client :
        /\ Member'[d] = IF d = c THEN n ELSE IF d \in Older THEN None ELSE Member[d]
        /\ Outbox'[d] = IF d \in Older THEN <<>> ELSE Outbox[d]
        /\ Inbox'[d] = IF d = c /\ client[c] # "closed" THEN <<Welcome>>
                       ELSE IF d \in Older THEN <<>> ELSE Inbox[d]
  BY <1>1, <1>2, Entered
<1>6. /\ Member' = [d \in Client |-> Member'[d]] /\ Outbox' = [d \in Client |-> Outbox'[d]]
      /\ Inbox' = [d \in Client |-> Inbox'[d]]
      /\ Member = [d \in Client |-> Member[d]] /\ Outbox = [d \in Client |-> Outbox[d]]
      /\ Inbox = [d \in Client |-> Inbox[d]]
  BY DEF Member, Outbox, Inbox
<1>7. \A d \in mp_sender_list : d \in Older <=> name[d] = n
  BY <1>1, <1>2 DEF Older
<1>8. CASE Older = {}
  <2>1. \A d \in Client : Member[d] # n
    BY <1>7, <1>8, NameAssumption DEF Member
  <2>2. Member' = [Member EXCEPT ![c] = n] /\ Outbox' = Outbox
    BY <1>5, <1>6, <1>8
  <2>3. \/ UNCHANGED Gone /\ Inbox' = [Inbox EXCEPT ![c] = <<Welcome>>]
        \/ Gone' = Gone \cup {c} /\ UNCHANGED Inbox
    BY <1>4, <1>5, <1>6, <1>8
  <2>4. Service!Join(c, n) \/ Service!JoinAndDie(c, n)
    BY <1>3, <2>1, <2>2, <2>3, ServiceJoin
  <2> QED BY <1>3, <2>4, ServiceStep
<1>9. CASE Older # {}
  <2>1. PICK d \in mp_sender_list : Older = {d}
    BY <1>9 DEF Older, IInv, UniqueNames
  <2>2. d \in Client /\ d # c /\ Member[d] = n /\ Member[d] # None
    <3>1. d \in Client /\ Member[d] = name[d] /\ Member[d] # None
      BY MemberFacts
    <3> QED BY <1>3, <1>7, <2>1, <3>1
  <2>3. Member' = [Member EXCEPT ![d] = None, ![c] = Member[d]]
          /\ Outbox' = [Outbox EXCEPT ![d] = <<>>]
    BY <1>5, <1>6, <2>1, <2>2
  <2>4. \/ Gone' = Gone \ {d} /\ Inbox' = [Inbox EXCEPT ![d] = <<>>, ![c] = <<Welcome>>]
        \/ Gone' = (Gone \ {d}) \cup {c} /\ Inbox' = [Inbox EXCEPT ![d] = <<>>]
    BY <1>4, <1>5, <1>6, <2>1, <2>2
  <2>5. Service!Replace(d, c)
    BY <1>3, <2>2, <2>3, <2>4, ServiceReplace
  <2> QED BY <1>3, <2>2, <2>5, ServiceStep
<1> QED BY <1>8, <1>9

-----------------------------------------------------------------------------
(* The refinement *)

LEMMA InitService == Init => RequestInv /\ Service!Init
<1> SUFFICES ASSUME Init PROVE RequestInv /\ Service!Init
  OBVIOUS
<1>1. <<>> \in Seq(ProperRequest)
  BY EmptySeq
<1>2. RequestInv
  BY <1>1 DEF Init, NoMessage, RequestInv
<1>3. mp_sender_list = {} /\ pc = "select"
  BY DEF Init
<1> QED BY <1>2, <1>3 DEF Service!Init

LEMMA ClientStepService ==
  ASSUME IInv, RequestInv, ClientStep
  PROVE  RequestInv' /\ [Service!Next]_Service!vars
BY RecipientTypes, ConnectStep, ReadAnswerStep, ReceiveStep, DisconnectStep, WriteNameStep,
   DieStep, SendStep DEF ClientStep

LEMMA MpStepService ==
  ASSUME IInv, RequestInv, MpStep
  PROVE  RequestInv' /\ [Service!Next]_Service!vars
<1>1. CASE Deny
  BY <1>1, RefuseStep DEF Deny
<1>2. CASE WriteToClosed
  <2>1. /\ pc \in {"send", "blocked"} /\ client[cur] = "closed"
        /\ \/ GoDown
           \/ (Pop \/ LeaveSend) /\ UNCHANGED <<client, name, sock_in, sock_out>>
    BY <1>2 DEF WriteToClosed
  <2> QED BY <2>1, GoDownStep, WriteToClosedStep
<1> QED BY <1>1, <1>2, SelectStep, NoNameStep, RegisterStep, KillMpStep, ServeStep, EndTurnStep,
        BufferBroadcastStep, BufferNextStep, HangupStep, WriteStep, WriteBlocksStep DEF MpStep

LEMMA NextService ==
  ASSUME IInv, RequestInv, [Next]_vars
  PROVE  RequestInv' /\ [Service!Next]_Service!vars
<1>1. CASE ClientStep
  BY <1>1, ClientStepService
<1>2. CASE MpStep
  BY <1>2, MpStepService
<1>3. CASE StartMp \/ ExitIdle
  BY <1>3, StartMpStep, GoDownStep DEF ExitIdle
<1>4. CASE UNCHANGED vars
  <2>1. /\ UNCHANGED <<client, name, sock_in, sock_out, mp_sender_list, mess_list>>
        /\ UNCHANGED <<pc, cur>>
    BY <1>4 DEF vars, clientVars, turnVars, mpVars
  <2> QED BY <2>1, Unseen DEF Routing
<1> QED BY <1>1, <1>2, <1>3, <1>4 DEF Next

\* Every request can be routed, and a client enters the service with none.
THEOREM RequestsCorrect == Spec => []RequestInv
<1>1. Init => RequestInv
  BY InitService
<1>2. IInv /\ RequestInv /\ [Next]_vars => RequestInv'
  BY NextService
<1> QED BY <1>1, <1>2, InvCorrect, PTL DEF Spec

\* Through its buffers, sockets and turns, and whoever connects, registers, is
\* excluded, closes or dies between them, mp.c delivers what MessageService
\* promises: per sender and recipient no message is lost, duplicated or
\* reordered while both stay, and the registration answer comes first.
THEOREM ServiceCorrect == Spec => ImplementsMessageService
<1>1. Init => Service!Init
  BY InitService
<1>2. IInv /\ RequestInv /\ [Next]_vars => [Service!Next]_Service!vars
  BY NextService
<1> QED BY <1>1, <1>2, InvCorrect, RequestsCorrect, PTL
        DEF Spec, ImplementsMessageService, Service!Spec

=============================================================================
