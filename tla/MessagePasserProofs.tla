------------------------- MODULE MessagePasserProofs -------------------------
(* Theorems about MessagePasser, for any number of clients and names. *)
EXTENDS MessagePasser, SequenceTheorems, TLAPS

-----------------------------------------------------------------------------
(* Messages and queues *)

\* What the sequences of the model become when an element is added or taken.
LEMMA SeqFacts ==
  ASSUME NEW S, NEW s \in Seq(S)
  PROVE  /\ \A e \in S : Append(s, e) \in Seq(S) /\ Append(s, e) # <<>>
         /\ s # <<>> => Tail(s) \in Seq(S) /\ Head(s) \in S
         /\ \A e \in S : s = <<>> => Head(Append(s, e)) = e
         /\ \A k \in 0 .. Len(s) : SubSeq(s, 1, k) \in Seq(S)
<1>1. \A e \in S : Append(s, e) \in Seq(S) /\ Append(s, e) # <<>>
  BY AppendProperties
<1>2. s # <<>> => Tail(s) \in Seq(S) /\ Head(s) \in S
  BY HeadTailProperties
<1>3. \A e \in S : s = <<>> => Head(Append(s, e)) = e
  BY HeadTailAppend
<1>4. ASSUME NEW k \in 0 .. Len(s)
      PROVE  SubSeq(s, 1, k) \in Seq(S)
  <2>1. k \in Int /\ \A j \in 1 .. k : s[j] \in S
    BY LenProperties
  <2> QED BY <2>1, SubSeqProperties
<1> QED BY <1>1, <1>2, <1>3, <1>4

Body == Payload \cup {Empty}

LEMMA MessageTypes ==
  ASSUME NEW n \in Name
  PROVE  /\ \A body \in Body : Sent(n, body) \in Message
         /\ Unknown(n) \in Message
         /\ [from |-> MP, text |-> <<"REGISTER_OK">>] \in Message
         /\ [from |-> MP, text |-> <<"REGISTER_NAME_CONFLICT">>] \in Message
BY DEF Body, Sent, Unknown, Message, Text, MP

LEMMA RequestTypes ==
  ASSUME NEW r \in Request
  PROVE  /\ r.body \in Body /\ r.to \in Seq(Name)
         /\ r.to # <<>> => Head(r.to) \in Name /\ [r EXCEPT !.to = Tail(@)] \in Request
<1>1. r.body \in Body /\ r.to \in Seq(Name)
  BY DEF Request, Body
<1>2. r.to # <<>> => Head(r.to) \in Name /\ Tail(r.to) \in Seq(Name)
  BY <1>1, HeadTailProperties
<1> QED BY <1>1, <1>2 DEF Request

Queues == [Client -> Seq(Message)]

\* Adding a message to some queues.
LEMMA AppendToQueues ==
  ASSUME NEW q \in Queues, NEW m \in Message, NEW S
  PROVE  LET q2 == [c \in Client |-> IF c \in S THEN Append(q[c], m) ELSE q[c]]
         IN  /\ q2 \in Queues
             /\ \A c \in Client : q2[c] # <<>> <=> c \in S \/ q[c] # <<>>
<1> DEFINE q2 == [c \in Client |-> IF c \in S THEN Append(q[c], m) ELSE q[c]]
<1>1. \A c \in Client : q[c] \in Seq(Message)
  BY DEF Queues
<1>2. \A c \in Client : Append(q[c], m) \in Seq(Message) /\ Append(q[c], m) # <<>>
  BY <1>1, SeqFacts
<1>3. q2 \in [Client -> Seq(Message)]
  BY <1>1, <1>2
<1>4. \A c \in Client : q2[c] # <<>> <=> c \in S \/ q[c] # <<>>
  BY <1>2
<1> QED BY <1>3, <1>4 DEF Queues

-----------------------------------------------------------------------------
(* The initial states *)

LEMMA InitInv == Init => IInv
<1> SUFFICES ASSUME Init PROVE IInv
  OBVIOUS
<1>1. \A S : <<>> \in Seq(S)
  BY EmptySeq
<1>2. TypeOK
  BY <1>1 DEF Init, TypeOK, ClientState, Pc, NoMessage
<1>3. Waiting = {}
  BY DEF Init, Waiting
<1>4. ConnectionInv
  BY <1>3 DEF Init, ConnectionInv
<1>5. UniqueNames /\ ListsAgree /\ ServesRegistered /\ AnswerInv /\ LoopInv /\ QueueInv
  BY <1>3 DEF Init, UniqueNames, ListsAgree, ServesRegistered, AnswerInv, LoopInv, QueueInv, NoMessage
<1> QED BY <1>2, <1>4, <1>5 DEF IInv

-----------------------------------------------------------------------------
(* The clients *)

LEMMA WaitingClients ==
  ASSUME TypeOK, ConnectionInv
  PROVE  Waiting \subseteq Client
<1>1. \A k \in 1 .. Len(backlog) : backlog[k] \in Client
  BY ElementOfSeq DEF TypeOK
<1> QED BY <1>1 DEF Waiting, ConnectionInv

\* A step of a client: what mp holds does not change.
LEMMA ClientFrame ==
  ASSUME IInv, TypeOK', UNCHANGED <<backlog, turnVars, mpVars>>,
         NEW c \in Client,
         \A d \in Client \ {c} :
           client'[d] = client[d] /\ name'[d] = name[d] /\ sock_out'[d] = sock_out[d],
         c \in mp_sender_list => name'[c] = name[c] /\ client'[c] \in {"asking", "in", "closed"},
         c \in Waiting => client'[c] \in {"connecting", "asking", "closed"},
         client'[c] \in {"out", "connecting"} => name'[c] = None,
         client'[c] \in {"asking", "in"} => name'[c] # None,
         client'[c] \in {"out", "connecting", "closed"} => sock_out'[c] = <<>>,
         client'[c] = "asking" /\ c \in Waiting => sock_out'[c] = <<>>,
         client'[c] = "asking" /\ c \in mp_sender_list =>
           sock_out'[c] # <<>> /\ Head(sock_out'[c]).text = <<"REGISTER_OK">>
  PROVE  IInv'
<1> USE DEF IInv
<1>1. UNCHANGED <<backlog, pc, cur, todo, readfds, writefds, mp_sender_list, mp_recipient_list,
                  mp_writefds_save, mess_list>>
  BY DEF turnVars, mpVars
<1>2. Waiting' = Waiting
  BY <1>1 DEF Waiting
<1>3. mp_sender_list \subseteq Client /\ \A d \in mp_sender_list : name'[d] = name[d]
  BY DEF TypeOK
<1>4. UniqueNames'
  BY <1>1, <1>3 DEF UniqueNames
<1>5. ListsAgree'
  BY <1>1, <1>3 DEF ListsAgree
<1>6. ServesRegistered' /\ LoopInv' /\ QueueInv'
  BY <1>1 DEF ServesRegistered, LoopInv, QueueInv
<1>7. ConnectionInv'
  <2>1. \A d \in Waiting : client'[d] \in {"connecting", "asking", "closed"} /\ d \notin mp_sender_list
    BY WaitingClients DEF ConnectionInv
  <2>2. \A d \in mp_sender_list : client'[d] \in {"asking", "in", "closed"} /\ name'[d] # None
    BY <1>3 DEF ConnectionInv
  <2> QED BY <1>1, <1>2, <2>1, <2>2 DEF ConnectionInv
<1>8. AnswerInv'
  BY <1>1, <1>2 DEF AnswerInv
<1> QED BY <1>4, <1>5, <1>6, <1>7, <1>8

LEMMA HeldConnections ==
  \A c \in Client : Held(c) <=> c \in mp_sender_list \cup Waiting
BY DEF Held, Waiting

\* Both ends of c are closed, by a client that mp does not hold.
LEMMA OverInv ==
  ASSUME IInv, NEW c \in Client, ~Held(c), Over({c}), UNCHANGED <<backlog, turnVars, mpVars>>
  PROVE  IInv'
<1>1. c \notin mp_sender_list /\ c \notin Waiting
  BY HeldConnections
<1>2. <<>> \in Seq(Request) /\ <<>> \in Seq(Message)
  BY EmptySeq
<1>3. TypeOK'
  BY <1>2 DEF IInv, TypeOK, Over, turnVars, mpVars, ClientState
<1>4. /\ client'[c] = "out" /\ name'[c] = None /\ sock_out'[c] = <<>>
      /\ \A d \in Client \ {c} :
           client'[d] = client[d] /\ name'[d] = name[d] /\ sock_out'[d] = sock_out[d]
  BY DEF Over
<1> QED BY <1>1, <1>3, <1>4, ClientFrame

LEMMA ConnectInv ==
  ASSUME IInv, NEW c \in Client, Connect(c)
  PROVE  IInv'
<1> USE DEF IInv
<1>1. /\ client[c] = "out" /\ client' = [client EXCEPT ![c] = "connecting"]
      /\ backlog' = Append(backlog, c)
      /\ UNCHANGED <<name, sock_in, sock_out>> /\ UNCHANGED turnVars /\ UNCHANGED mpVars
  BY DEF Connect
<1>2. /\ backlog \in Seq(Client) /\ backlog' \in Seq(Client)
      /\ Len(backlog') = Len(backlog) + 1 /\ backlog'[Len(backlog) + 1] = c
      /\ \A k \in 1 .. Len(backlog) : backlog'[k] = backlog[k]
      /\ Len(backlog) \in Nat
  BY <1>1, AppendProperties, LenProperties DEF TypeOK
<1>3. TypeOK'
  BY <1>1, <1>2 DEF TypeOK, turnVars, mpVars, ClientState
<1>4. c \notin mp_sender_list /\ c \notin Waiting
  BY <1>1 DEF ConnectionInv
<1>5. Waiting' = Waiting \cup {c}
  BY <1>1, <1>2 DEF Waiting, turnVars
<1>6. ConnectionInv'
  <2>1. Waiting \subseteq Client /\ mp_sender_list \subseteq Client
    BY WaitingClients DEF TypeOK
  <2>2. \A d \in Waiting' : client'[d] \in {"connecting", "asking", "closed"} /\ d \notin mp_sender_list'
    BY <1>1, <1>4, <1>5, <2>1 DEF ConnectionInv, TypeOK, mpVars
  <2>3. \A j, k \in 1 .. Len(backlog') : backlog'[j] = backlog'[k] => j = k
    <3>1. \A k \in 1 .. Len(backlog) : backlog[k] # c
      BY <1>4 DEF Waiting
    <3> QED BY <1>2, <3>1 DEF ConnectionInv
  <2>4. pc' = "accept" => cur' \in Client /\ \A k \in 1 .. Len(backlog') : backlog'[k] # cur'
    <3>1. pc = "accept" => cur # c
      BY <1>4 DEF Waiting
    <3> QED BY <1>1, <1>2, <3>1 DEF ConnectionInv, turnVars
  <2>5. \A d \in mp_sender_list' : client'[d] \in {"asking", "in", "closed"} /\ name'[d] # None
    BY <1>1, <1>4, <2>1 DEF ConnectionInv, TypeOK, mpVars
  <2> QED BY <2>2, <2>3, <2>4, <2>5 DEF ConnectionInv
<1>7. AnswerInv'
  <2>1. ASSUME NEW d \in Client
        PROVE  /\ client'[d] = IF d = c THEN "connecting" ELSE client[d]
               /\ d # c => (d \in Waiting' <=> d \in Waiting)
               /\ name'[d] = name[d] /\ sock_out'[d] = sock_out[d]
               /\ d \in mp_sender_list' <=> d \in mp_sender_list
    BY <1>1, <1>5 DEF TypeOK, mpVars
  <2> QED BY <2>1, <1>1 DEF AnswerInv
<1>8. UniqueNames' /\ ListsAgree' /\ ServesRegistered' /\ LoopInv' /\ QueueInv'
  BY <1>1 DEF UniqueNames, ListsAgree, ServesRegistered, LoopInv, QueueInv, turnVars, mpVars
<1> QED BY <1>3, <1>6, <1>7, <1>8

LEMMA WriteNameInv ==
  ASSUME IInv, NEW c \in Client, NEW n \in Uses[c], WriteName(c, n)
  PROVE  IInv'
<1>1. n \in Name /\ n # None
  BY NameAssumption
<1>2. /\ client[c] = "connecting"
      /\ client' = [client EXCEPT ![c] = "asking"] /\ name' = [name EXCEPT ![c] = n]
      /\ UNCHANGED <<sock_in, sock_out>> /\ UNCHANGED <<backlog, turnVars, mpVars>>
  BY DEF WriteName
<1>3. TypeOK'
  BY <1>1, <1>2 DEF IInv, TypeOK, ClientState, turnVars, mpVars
<1>4. c \notin mp_sender_list /\ sock_out[c] = <<>>
  BY <1>2 DEF IInv, ConnectionInv, AnswerInv
<1>5. /\ client'[c] = "asking" /\ name'[c] = n /\ sock_out'[c] = <<>>
      /\ \A d \in Client \ {c} :
           client'[d] = client[d] /\ name'[d] = name[d] /\ sock_out'[d] = sock_out[d]
  BY <1>2, <1>4 DEF IInv, TypeOK
<1> QED BY <1>1, <1>2, <1>3, <1>4, <1>5, ClientFrame

\* A registered client reads a message, or its answer.
LEMMA ReadsInv ==
  ASSUME IInv, NEW c \in Client, client[c] \in {"asking", "in"}, Reads(c, "in"),
         UNCHANGED <<backlog, turnVars, mpVars>>, client[c] = "asking" => c \notin Waiting
  PROVE  IInv'
<1>1. /\ sock_out' = [sock_out EXCEPT ![c] = Tail(@)] /\ sock_out[c] # <<>>
      /\ client' = [client EXCEPT ![c] = "in"] /\ UNCHANGED <<name, sock_in>>
  BY DEF Reads
<1>2. sock_out[c] \in Seq(Message) /\ Tail(sock_out[c]) \in Seq(Message)
  BY <1>1, SeqFacts DEF IInv, TypeOK
<1>3. TypeOK'
  BY <1>1, <1>2 DEF IInv, TypeOK, ClientState, turnVars, mpVars
<1>4. /\ client'[c] = "in" /\ name'[c] = name[c] /\ name[c] # None /\ c \notin Waiting
      /\ \A d \in Client \ {c} :
           client'[d] = client[d] /\ name'[d] = name[d] /\ sock_out'[d] = sock_out[d]
  BY <1>1 DEF IInv, TypeOK, AnswerInv, ConnectionInv
<1> QED BY <1>3, <1>4, ClientFrame

LEMMA ReadAnswerInv ==
  ASSUME IInv, NEW c \in Client, ReadAnswer(c)
  PROVE  IInv'
<1>1. client[c] = "asking" /\ UNCHANGED <<backlog, turnVars, mpVars>>
  BY DEF ReadAnswer
<1>2. sock_out[c] # <<>> => c \notin Waiting
  BY <1>1 DEF IInv, AnswerInv
<1>3. CASE sock_out[c] # <<>> /\ Reads(c, "in")
  BY <1>1, <1>2, <1>3, ReadsInv
<1>4. CASE sock_out[c] # <<>> /\ Head(sock_out[c]).text # <<"REGISTER_OK">> /\ Over({c})
  <2>1. c \notin mp_sender_list
    BY <1>1, <1>4 DEF IInv, AnswerInv
  <2> QED BY <1>1, <1>2, <1>4, <2>1, HeldConnections, OverInv
<1>5. CASE /\ sock_out[c] = <<>> /\ ~Held(c)
           /\ client' = [client EXCEPT ![c] = "in"]
           /\ UNCHANGED <<name, sock_in, sock_out>>
  <2>1. c \notin mp_sender_list /\ c \notin Waiting
    BY <1>5, HeldConnections
  <2>2. TypeOK'
    BY <1>1, <1>5 DEF IInv, TypeOK, ClientState, turnVars, mpVars
  <2>3. /\ client'[c] = "in" /\ name'[c] # None
        /\ \A d \in Client \ {c} :
             client'[d] = client[d] /\ name'[d] = name[d] /\ sock_out'[d] = sock_out[d]
    BY <1>1, <1>5 DEF IInv, TypeOK, AnswerInv
  <2> QED BY <1>1, <2>1, <2>2, <2>3, ClientFrame
<1> QED BY <1>3, <1>4, <1>5 DEF ReadAnswer

LEMMA ReceiveInv ==
  ASSUME IInv, NEW c \in Client, Receive(c)
  PROVE  IInv'
<1>1. client[c] = "in" /\ UNCHANGED <<backlog, turnVars, mpVars>>
  BY DEF Receive
<1>2. CASE Reads(c, "in")
  BY <1>1, <1>2, ReadsInv
<1>3. CASE ~Held(c) /\ Over({c})
  BY <1>1, <1>3, OverInv
<1> QED BY <1>2, <1>3 DEF Receive

LEMMA SendInv ==
  ASSUME IInv, NEW c \in Client, NEW type \in {"MULTICAST_MT", "BROADCAST_MT"},
         NEW to \in Seq(Name), NEW body \in Payload, Send(c, type, to, body)
  PROVE  IInv'
<1>1. /\ client[c] = "in" /\ sock_in' = [sock_in EXCEPT ![c] = Written(@, type, to, body)]
      /\ UNCHANGED <<client, name, sock_out>> /\ UNCHANGED <<backlog, turnVars, mpVars>>
  BY DEF Send
<1>2. sock_in[c] \in Seq(Request) /\ [type |-> type, to |-> to, body |-> body] \in Request
  BY DEF IInv, TypeOK, Request
<1>3. Written(sock_in[c], type, to, body) \in Seq(Request)
  BY <1>2, SeqFacts DEF Written
<1>4. TypeOK'
  BY <1>1, <1>3 DEF IInv, TypeOK, turnVars, mpVars
<1>5. /\ c \in mp_sender_list => client[c] \in {"asking", "in", "closed"}
      /\ c \notin Waiting /\ name[c] # None
  BY <1>1 DEF IInv, ConnectionInv, AnswerInv
<1> QED BY <1>1, <1>4, <1>5, ClientFrame

LEMMA CloseSocketInv ==
  ASSUME IInv, NEW c \in Client, client[c] \in {"connecting", "asking", "in"},
         NEW requests \in Seq(Request), CloseSocket(c, requests)
  PROVE  IInv'
<1>1. UNCHANGED <<backlog, turnVars, mpVars>>
  BY DEF CloseSocket
<1>2. CASE ~Held(c) /\ Over({c})
  BY <1>1, <1>2, OverInv
<1>3. CASE /\ client' = [client EXCEPT ![c] = "closed"]
           /\ sock_in' = [sock_in EXCEPT ![c] = requests]
           /\ sock_out' = [sock_out EXCEPT ![c] = <<>>]
           /\ UNCHANGED name
  <2>1. <<>> \in Seq(Message)
    BY EmptySeq
  <2>2. TypeOK'
    BY <1>1, <1>3, <2>1 DEF IInv, TypeOK, ClientState, turnVars, mpVars
  <2>3. /\ client'[c] = "closed" /\ name'[c] = name[c] /\ sock_out'[c] = <<>>
        /\ \A d \in Client \ {c} :
             client'[d] = client[d] /\ name'[d] = name[d] /\ sock_out'[d] = sock_out[d]
    BY <1>3 DEF IInv, TypeOK
  <2> QED BY <1>1, <2>2, <2>3, ClientFrame
<1> QED BY <1>2, <1>3 DEF CloseSocket

LEMMA ReachingTypes ==
  ASSUME TypeOK, NEW c \in Client, NEW requests \in Reaching(c),
         NEW type \in {"DISCONNECT_MT", "cut"}, NEW to \in Seq(Name), NEW body \in Body
  PROVE  requests \in Seq(Request) /\ Written(requests, type, to, body) \in Seq(Request)
<1>1. sock_in[c] \in Seq(Request)
  BY DEF TypeOK
<1>2. PICK k \in 0 .. Len(sock_in[c]) : requests = SubSeq(sock_in[c], 1, k)
  BY <1>1, LenProperties DEF Reaching
<1>3. requests \in Seq(Request)
  BY <1>1, <1>2, SeqFacts
<1>4. [type |-> type, to |-> to, body |-> body] \in Request
  BY DEF Request, Body
<1> QED BY <1>3, <1>4, SeqFacts DEF Written

LEMMA DisconnectInv ==
  ASSUME IInv, NEW c \in Client, disconnect_from_the_mp(c)
  PROVE  IInv'
<1>1. PICK requests \in Reaching(c) : CloseSocket(c, Written(requests, "DISCONNECT_MT", <<>>, Empty))
  BY DEF disconnect_from_the_mp
<1>2. <<>> \in Seq(Name) /\ Empty \in Body /\ TypeOK
  BY EmptySeq DEF IInv, Body
<1>3. Written(requests, "DISCONNECT_MT", <<>>, Empty) \in Seq(Request)
  BY <1>2, ReachingTypes
<1> QED BY <1>1, <1>3, CloseSocketInv DEF disconnect_from_the_mp

LEMMA DieInv ==
  ASSUME IInv, NEW c \in Client, NEW to \in Seq(Name), NEW body \in Payload, Die(c, to, body)
  PROVE  IInv'
<1>1. PICK requests \in Reaching(c) :
        CloseSocket(c, requests) \/ CloseSocket(c, Written(requests, "cut", to, body))
  BY DEF Die
<1>2. body \in Body /\ TypeOK
  BY DEF IInv, Body
<1>3. requests \in Seq(Request) /\ Written(requests, "cut", to, body) \in Seq(Request)
  BY <1>2, ReachingTypes
<1> QED BY <1>1, <1>3, CloseSocketInv DEF Die

-----------------------------------------------------------------------------
(* The end of mp, and its refusals *)

\* The connection mp accepts is held by nobody else.
LEMMA Accepting ==
  ASSUME IInv, pc = "accept"
  PROVE  /\ cur \in Client /\ cur \in Waiting /\ cur \notin mp_sender_list
         /\ cur \notin {backlog[k] : k \in 1 .. Len(backlog)}
         /\ todo = {} /\ mess_list[cur] = <<>> /\ cur \notin mp_writefds_save
         /\ client[cur] \in {"connecting", "asking", "closed"}
<1>1. cur \in Client /\ cur \in Waiting /\ cur \notin {backlog[k] : k \in 1 .. Len(backlog)}
  BY DEF IInv, ConnectionInv, Waiting
<1>2. cur \notin mp_sender_list /\ client[cur] \in {"connecting", "asking", "closed"}
  BY <1>1 DEF IInv, ConnectionInv
<1>3. mess_list[cur] = <<>>
  BY <1>1, <1>2 DEF IInv, ListsAgree
<1> QED BY <1>1, <1>2, <1>3 DEF IInv, QueueInv, LoopInv

LEMMA MpClosesTypes ==
  ASSUME TypeOK, NEW S, MpCloses(S)
  PROVE  /\ client' \in [Client -> ClientState] /\ name' \in [Client -> Name \cup {None}]
         /\ sock_in' \in [Client -> Seq(Request)]
         /\ \A c \in Client :
              \/ c \in S /\ client[c] = "closed" /\ client'[c] = "out" /\ name'[c] = None
              \/ ~(c \in S /\ client[c] = "closed") /\ client'[c] = client[c] /\ name'[c] = name[c]
<1>1. <<>> \in Seq(Request)
  BY EmptySeq
<1> QED BY <1>1 DEF TypeOK, MpCloses, ClientState

LEMMA GoDownInv ==
  ASSUME IInv, GoDown, sock_out' \in Queues,
         \A c \in Client : client[c] \in {"out", "connecting", "closed"} => sock_out'[c] = <<>>
  PROVE  IInv'
<1> USE DEF IInv
<1>1. /\ pc' = "down" /\ cur' = None /\ todo' = {} /\ readfds' = {} /\ writefds' = {}
      /\ mp_sender_list' = {} /\ mp_recipient_list' = {} /\ mp_writefds_save' = {}
      /\ mess_list' = NoMessage /\ backlog' = <<>> /\ MpCloses(Client)
  BY DEF GoDown
<1>2. <<>> \in Seq(Client) /\ <<>> \in Seq(Message)
  BY EmptySeq
<1>3. /\ client' \in [Client -> ClientState] /\ name' \in [Client -> Name \cup {None}]
      /\ sock_in' \in [Client -> Seq(Request)]
      /\ \A c \in Client :
           \/ client[c] = "closed" /\ client'[c] = "out" /\ name'[c] = None
           \/ client[c] # "closed" /\ client'[c] = client[c] /\ name'[c] = name[c]
  BY <1>1, MpClosesTypes
<1>4. TypeOK'
  BY <1>1, <1>2, <1>3 DEF TypeOK, Pc, NoMessage, Queues
<1>5. Waiting' = {}
  BY <1>1 DEF Waiting
<1>6. ConnectionInv'
  BY <1>1, <1>5 DEF ConnectionInv
<1>7. AnswerInv'
  BY <1>1, <1>3, <1>5 DEF AnswerInv
<1>8. UniqueNames' /\ ListsAgree' /\ ServesRegistered' /\ LoopInv' /\ QueueInv'
  BY <1>1 DEF UniqueNames, ListsAgree, ServesRegistered, LoopInv, QueueInv, NoMessage
<1> QED BY <1>4, <1>6, <1>7, <1>8

LEMMA ExitIdleInv ==
  ASSUME IInv, ExitIdle
  PROVE  IInv'
BY GoDownInv DEF ExitIdle, IInv, TypeOK, AnswerInv, Queues

\* mp closes the connection it has accepted, after an answer or without one.
LEMMA RefusedInv ==
  ASSUME IInv, pc = "accept", MpCloses({cur}), ToServe(mp_sender_list), UNCHANGED mpVars,
         sock_out' \in Queues, \A d \in Client \ {cur} : sock_out'[d] = sock_out[d],
         client[cur] # "connecting", client[cur] = "closed" => sock_out'[cur] = sock_out[cur]
  PROVE  IInv'
<1> USE DEF IInv
<1>1. /\ cur \in Client /\ cur \notin mp_sender_list /\ client[cur] \in {"asking", "closed"}
      /\ cur \notin {backlog[k] : k \in 1 .. Len(backlog)}
  BY Accepting
<1>2. /\ pc' = "serve" /\ cur' = None /\ todo' = mp_sender_list \cap (readfds \cup writefds)
      /\ UNCHANGED <<readfds, writefds, backlog>>
      /\ UNCHANGED <<mp_sender_list, mp_recipient_list, mp_writefds_save, mess_list>>
  BY DEF ToServe, mpVars
<1>3. /\ client' \in [Client -> ClientState] /\ name' \in [Client -> Name \cup {None}]
      /\ sock_in' \in [Client -> Seq(Request)]
      /\ \A c \in Client :
           \/ c = cur /\ client[c] = "closed" /\ client'[c] = "out" /\ name'[c] = None
           \/ ~(c = cur /\ client[c] = "closed") /\ client'[c] = client[c] /\ name'[c] = name[c]
  BY MpClosesTypes
<1>4. TypeOK'
  BY <1>2, <1>3 DEF TypeOK, Pc, Queues
<1>5. Waiting' = {backlog[k] : k \in 1 .. Len(backlog)} /\ Waiting' \subseteq Waiting \ {cur}
  BY <1>1, <1>2 DEF Waiting
<1>6. \A d \in mp_sender_list : d \in Client /\ client'[d] = client[d] /\ name'[d] = name[d]
  BY <1>1, <1>3 DEF TypeOK
<1>7. ConnectionInv'
  <2>1. \A d \in Waiting' : client'[d] \in {"connecting", "asking", "closed"} /\ d \notin mp_sender_list
    BY <1>3, <1>5, WaitingClients DEF ConnectionInv
  <2> QED BY <1>2, <1>6, <2>1 DEF ConnectionInv
<1>8. AnswerInv'
  BY <1>1, <1>2, <1>3, <1>5 DEF AnswerInv
<1>9. UniqueNames' /\ ListsAgree'
  BY <1>2, <1>6 DEF UniqueNames, ListsAgree
<1>10. ServesRegistered' /\ LoopInv' /\ QueueInv'
  BY <1>2 DEF ServesRegistered, LoopInv, QueueInv
<1> QED BY <1>4, <1>7, <1>8, <1>9, <1>10

\* The answer to the client mp has accepted.
LEMMA AnswerTypes ==
  ASSUME TypeOK, cur \in Client, NEW text \in {"REGISTER_OK", "REGISTER_NAME_CONFLICT"}, Answer(text)
  PROVE  /\ sock_out' \in Queues
         /\ \A d \in Client \ {cur} : sock_out'[d] = sock_out[d]
         /\ client[cur] = "closed" => sock_out'[cur] = sock_out[cur]
         /\ client[cur] # "closed" =>
              sock_out'[cur] = Append(sock_out[cur], [from |-> MP, text |-> <<text>>])
<1>1. [from |-> MP, text |-> <<text>>] \in Message
  BY DEF Message, Text, MP
<1>2. Append(sock_out[cur], [from |-> MP, text |-> <<text>>]) \in Seq(Message)
  BY <1>1, SeqFacts DEF TypeOK
<1> QED BY <1>2 DEF Answer, TypeOK, Queues

LEMMA NoNameInv ==
  ASSUME IInv, NoName
  PROVE  IInv'
BY RefusedInv DEF NoName, IInv, TypeOK, Queues

LEMMA RefuseInv ==
  ASSUME IInv, pc = "accept", name[cur] # None, Refuse
  PROVE  IInv'
<1>1. cur \in Client /\ client[cur] # "connecting"
  BY Accepting DEF IInv, AnswerInv
<1>2. Answer("REGISTER_NAME_CONFLICT") /\ MpCloses({cur}) /\ ToServe(mp_sender_list) /\ UNCHANGED mpVars
  BY DEF Refuse
<1> QED BY <1>1, <1>2, AnswerTypes, RefusedInv DEF IInv

LEMMA DenyInv ==
  ASSUME IInv, Deny
  PROVE  IInv'
BY RefuseInv DEF Deny

LEMMA KillMpInv ==
  ASSUME IInv, KillMp
  PROVE  IInv'
<1>1. pc = "accept" /\ name[cur] # None
  BY NameAssumption DEF KillMp
<1>2. cur \in Client /\ client[cur] \in {"asking", "closed"}
  BY <1>1, Accepting DEF IInv, AnswerInv
<1>3. CASE GoDown /\ Answer("REGISTER_OK")
  BY <1>2, <1>3, AnswerTypes, GoDownInv DEF IInv, AnswerInv
<1>4. CASE Refuse
  BY <1>1, <1>4, RefuseInv
<1> QED BY <1>3, <1>4 DEF KillMp

-----------------------------------------------------------------------------
(* The turn of mp *)

\* A step of mp that registers and forgets nobody, and may write to clients.
LEMMA TurnFrame ==
  ASSUME IInv, TypeOK', pc # "accept", pc' # "accept",
         UNCHANGED <<client, name, backlog, mp_sender_list, mp_recipient_list>>,
         \A c \in Client :
           \/ sock_out'[c] = sock_out[c]
           \/ /\ c \in mp_sender_list /\ client[c] # "closed"
              /\ \E m \in Message : sock_out'[c] = Append(sock_out[c], m),
         \A c \in Client : mess_list'[c] # <<>> => c \in mp_sender_list,
         ServesRegistered', LoopInv', QueueInv'
  PROVE  IInv'
<1> USE DEF IInv
<1>1. Waiting' = Waiting
  BY DEF Waiting
<1>2. ConnectionInv' /\ UniqueNames' /\ ListsAgree'
  BY <1>1 DEF ConnectionInv, UniqueNames, ListsAgree
<1>3. AnswerInv'
  <2>1. ASSUME NEW c \in Client, sock_out'[c] # sock_out[c]
        PROVE  /\ client[c] \in {"asking", "in"} /\ c \notin Waiting
               /\ client[c] = "asking" =>
                    sock_out'[c] # <<>> /\ Head(sock_out'[c]).text = <<"REGISTER_OK">>
    <3>1. PICK m \in Message : sock_out'[c] = Append(sock_out[c], m)
      BY <2>1
    <3>2. c \in mp_sender_list /\ client[c] \in {"asking", "in"} /\ c \notin Waiting
      BY <2>1 DEF ConnectionInv
    <3>3. sock_out[c] \in Seq(Message)
      BY DEF TypeOK
    <3>4. sock_out[c] # <<>> =>
            sock_out'[c] # <<>> /\ Head(sock_out'[c]) = Head(sock_out[c])
      BY <3>1, <3>3, AppendProperties, HeadTailAppend
    <3> QED BY <3>2, <3>4 DEF AnswerInv
  <2>2. \A c \in Client : sock_out'[c] = sock_out[c] \/ sock_out'[c] # sock_out[c]
    OBVIOUS
  <2> QED BY <1>1, <2>1, <2>2 DEF AnswerInv
<1> QED BY <1>2, <1>3

LEMMA StartMpInv ==
  ASSUME IInv, StartMp
  PROVE  IInv'
<1>1. /\ pc = "down" /\ pc' = "select"
      /\ UNCHANGED <<client, name, sock_in, sock_out, backlog, cur, todo, readfds, writefds>>
      /\ UNCHANGED <<mp_sender_list, mp_recipient_list, mp_writefds_save, mess_list>>
  BY DEF StartMp, clientVars, mpVars
<1>2. TypeOK'
  BY <1>1 DEF IInv, TypeOK, Pc
<1>3. \A c \in Client : mess_list[c] # <<>> => c \in mp_sender_list
  BY DEF IInv, ListsAgree
<1>4. ServesRegistered' /\ LoopInv' /\ QueueInv'
  BY <1>1 DEF IInv, ServesRegistered, LoopInv, QueueInv
<1> QED BY <1>1, <1>2, <1>3, <1>4, TurnFrame

LEMMA SelectInv ==
  ASSUME IInv, Select
  PROVE  IInv'
<1> USE DEF IInv
<1>1. /\ pc = "select" /\ todo = {}
      /\ readfds' \subseteq mp_sender_list /\ writefds' \subseteq mp_writefds_save
      /\ UNCHANGED <<client, name, sock_in, sock_out>>
      /\ UNCHANGED <<mp_sender_list, mp_recipient_list, mp_writefds_save, mess_list>>
  BY DEF Select, clientVars, mpVars, LoopInv
<1>2. \A c \in Client : mess_list[c] # <<>> => c \in mp_sender_list
  BY DEF ListsAgree
<1>3. mp_writefds_save \subseteq mp_sender_list /\ mp_sender_list \subseteq Client
  BY <1>1, <1>2 DEF QueueInv, TypeOK
<1>4. CASE pc' = "serve" /\ todo' = readfds' \cup writefds' /\ UNCHANGED <<cur, backlog>>
  <2>1. TypeOK'
    BY <1>1, <1>3, <1>4 DEF TypeOK, Pc
  <2>2. ServesRegistered' /\ LoopInv' /\ QueueInv'
    BY <1>1, <1>3, <1>4 DEF ServesRegistered, LoopInv, QueueInv
  <2> QED BY <1>1, <1>2, <1>4, <2>1, <2>2, TurnFrame
<1>5. CASE /\ backlog # <<>> /\ pc' = "accept"
           /\ cur' = Head(backlog) /\ backlog' = Tail(backlog) /\ UNCHANGED todo
  <2>1. /\ backlog \in Seq(Client) /\ backlog' \in Seq(Client) /\ cur' \in Client
        /\ cur' = backlog[1] /\ Len(backlog') = Len(backlog) - 1
        /\ \A k \in 1 .. Len(backlog') : backlog'[k] = backlog[k + 1]
        /\ Len(backlog) \in Nat \ {0}
    BY <1>5, HeadTailProperties, EmptySeq, LenProperties DEF TypeOK
  <2>2. TypeOK'
    BY <1>1, <1>3, <1>5, <2>1 DEF TypeOK, Pc
  <2>3. Waiting' = Waiting
    <3>1. {backlog[k] : k \in 1 .. Len(backlog)}
            = {backlog[k + 1] : k \in 1 .. Len(backlog) - 1} \cup {backlog[1]}
      <4>1. \A k \in 1 .. Len(backlog) : k = 1 \/ (k - 1 \in 1 .. Len(backlog) - 1 /\ k = (k - 1) + 1)
        BY <2>1
      <4>2. \A k \in 1 .. Len(backlog) - 1 : k + 1 \in 1 .. Len(backlog)
        BY <2>1
      <4>3. 1 \in 1 .. Len(backlog)
        BY <2>1
      <4> QED BY <4>1, <4>2, <4>3
    <3> QED BY <1>1, <1>5, <2>1, <3>1 DEF Waiting
  <2>4. \A j, k \in 1 .. Len(backlog') : backlog'[j] = backlog'[k] => j = k
    <3> SUFFICES ASSUME NEW j \in 1 .. Len(backlog'), NEW k \in 1 .. Len(backlog'),
                        backlog'[j] = backlog'[k]
                 PROVE  j = k
      OBVIOUS
    <3>1. j + 1 \in 1 .. Len(backlog) /\ k + 1 \in 1 .. Len(backlog)
      BY <2>1
    <3>2. backlog[j + 1] = backlog[k + 1]
      BY <2>1
    <3>3. j + 1 = k + 1
      BY <3>1, <3>2 DEF ConnectionInv
    <3> QED BY <3>3
  <2>5. \A k \in 1 .. Len(backlog') : backlog'[k] # cur'
    <3>1. \A j \in 1 .. Len(backlog') : j + 1 \in 1 .. Len(backlog) /\ j + 1 # 1
      BY <2>1
    <3>2. 1 \in 1 .. Len(backlog)
      BY <2>1
    <3> QED BY <2>1, <3>1, <3>2 DEF ConnectionInv
  <2>6. ConnectionInv'
    BY <1>1, <2>1, <2>3, <2>4, <2>5 DEF ConnectionInv
  <2>7. AnswerInv' /\ UniqueNames' /\ ListsAgree'
    BY <1>1, <2>3 DEF AnswerInv, UniqueNames, ListsAgree
  <2>8. ServesRegistered' /\ LoopInv' /\ QueueInv'
    BY <1>1, <1>5 DEF ServesRegistered, LoopInv, QueueInv
  <2> QED BY <2>2, <2>6, <2>7, <2>8
<1> QED BY <1>4, <1>5 DEF Select

LEMMA ServeInv ==
  ASSUME IInv, NEW c \in Client, Serve(c)
  PROVE  IInv'
<1>1. /\ pc = "serve" /\ c \in todo /\ cur' = c /\ todo' = todo \ {c}
      /\ readfds' = readfds \ {c} /\ pc' \in {"read", "send"}
      /\ UNCHANGED <<client, name, sock_in, sock_out, backlog, writefds>>
      /\ UNCHANGED <<mp_sender_list, mp_recipient_list, mp_writefds_save, mess_list>>
  BY DEF Serve, clientVars, mpVars
<1>2. TypeOK'
  BY <1>1 DEF IInv, TypeOK, Pc
<1>3. \A d \in Client : mess_list[d] # <<>> => d \in mp_sender_list
  BY DEF IInv, ListsAgree
<1>4. ServesRegistered' /\ LoopInv' /\ QueueInv'
  BY <1>1 DEF IInv, ServesRegistered, LoopInv, QueueInv
<1> QED BY <1>1, <1>2, <1>3, <1>4, TurnFrame

LEMMA EndTurnInv ==
  ASSUME IInv, EndTurn
  PROVE  IInv'
<1>1. /\ pc = "serve" /\ todo = {} /\ pc' = "select" /\ cur' = None
      /\ readfds' = {} /\ writefds' = {}
      /\ UNCHANGED <<client, name, sock_in, sock_out, backlog, todo>>
      /\ UNCHANGED <<mp_sender_list, mp_recipient_list, mp_writefds_save, mess_list>>
  BY DEF EndTurn, clientVars, mpVars
<1>2. TypeOK'
  BY <1>1 DEF IInv, TypeOK, Pc
<1>3. \A d \in Client : mess_list[d] # <<>> => d \in mp_sender_list
  BY DEF IInv, ListsAgree
<1>4. ServesRegistered' /\ LoopInv' /\ QueueInv'
  BY <1>1 DEF IInv, ServesRegistered, LoopInv, QueueInv
<1> QED BY <1>1, <1>2, <1>3, <1>4, TurnFrame

-----------------------------------------------------------------------------
(* One request *)

\* The client whose turn it is: registered, with a name, and no longer to do.
LEMMA Serving ==
  ASSUME IInv, pc \in {"read", "multicast", "send", "blocked"}
  PROVE  /\ cur \in Client /\ cur \in mp_sender_list /\ cur \notin todo /\ cur \notin Waiting
         /\ name[cur] \in Name /\ mp_sender_list \subseteq Client
         /\ mp_recipient_list \subseteq mp_sender_list
         /\ todo \subseteq mp_sender_list /\ readfds \subseteq Client /\ writefds \subseteq Client
         /\ mess_list \in Queues /\ \A c \in Client : mess_list[c] # <<>> => c \in mp_sender_list
         /\ sock_in[cur] \in Seq(Request)
<1>1. cur \in mp_sender_list /\ cur \notin todo /\ mp_sender_list \subseteq Client
  BY DEF IInv, ServesRegistered, TypeOK
<1>2. name[cur] \in Name
  BY <1>1 DEF IInv, TypeOK, ConnectionInv
<1>3. cur \notin Waiting
  BY <1>1 DEF IInv, ConnectionInv
<1> QED BY <1>1, <1>2, <1>3 DEF IInv, TypeOK, ServesRegistered, ListsAgree, Queues

\* The queues and the clients selected for writing stay in step.
LEMMA Buffered ==
  ASSUME IInv, pc \in {"read", "multicast"}, NEW S \in SUBSET mp_sender_list, NEW m \in Message,
         add_buffered_message(S, m)
  PROVE  /\ mess_list' \in Queues /\ mp_writefds_save' \subseteq Client
         /\ \A c \in Client : mess_list'[c] # <<>> => c \in mp_sender_list
         /\ mp_writefds_save' = {c \in Client : mess_list'[c] # <<>>}
         /\ UNCHANGED <<mp_sender_list, mp_recipient_list>>
<1>1. /\ mess_list' = [c \in Client |-> IF c \in S THEN Append(mess_list[c], m) ELSE mess_list[c]]
      /\ mp_writefds_save' = mp_writefds_save \cup S
      /\ UNCHANGED <<mp_sender_list, mp_recipient_list>>
  BY DEF add_buffered_message
<1>2. /\ mess_list' \in Queues
      /\ \A c \in Client : mess_list'[c] # <<>> <=> c \in S \/ mess_list[c] # <<>>
  <2>1. mess_list \in Queues
    BY Serving
  <2> QED BY <1>1, <2>1, AppendToQueues, Zenon
<1>3. \A c \in Client : c \in mp_writefds_save <=> mess_list[c] # <<>>
  BY DEF IInv, QueueInv
<1>4. mp_writefds_save \subseteq Client /\ S \subseteq Client
  BY Serving DEF IInv, TypeOK
<1> QED BY <1>1, <1>2, <1>3, <1>4, Serving

\* Where mp goes on after a request or one recipient of it.
LEMMA Onwards ==
  ASSUME IInv, pc \in {"read", "multicast"}, NextOfTurn \/ Goto("multicast")
  PROVE  /\ pc' \in {"serve", "send", "multicast"} /\ cur' \in {cur, None}
         /\ pc' # "serve" => cur' = cur
         /\ UNCHANGED <<todo, readfds>> /\ writefds' \in SUBSET Client
BY Serving DEF NextOfTurn, Goto, Done

LEMMA BufferingInv ==
  ASSUME IInv, pc \in {"read", "multicast"}, NEW S \in SUBSET mp_sender_list, NEW m \in Message,
         add_buffered_message(S, m), NextOfTurn \/ Goto("multicast"),
         NEW requests \in Seq(Request), sock_in' = [sock_in EXCEPT ![cur] = requests],
         UNCHANGED <<client, name, sock_out, backlog>>
  PROVE  IInv'
<1>1. /\ mess_list' \in Queues /\ mp_writefds_save' \subseteq Client
      /\ \A c \in Client : mess_list'[c] # <<>> => c \in mp_sender_list
      /\ mp_writefds_save' = {c \in Client : mess_list'[c] # <<>>}
      /\ UNCHANGED <<mp_sender_list, mp_recipient_list>>
  BY Buffered
<1>2. /\ pc' \in {"serve", "send", "multicast"} /\ cur' \in {cur, None}
      /\ pc' # "serve" => cur' = cur
      /\ UNCHANGED <<todo, readfds>> /\ writefds' \in SUBSET Client
  BY Onwards
<1>3. TypeOK'
  BY <1>1, <1>2 DEF IInv, TypeOK, Pc, Queues
<1>4. ServesRegistered' /\ LoopInv' /\ QueueInv'
  BY <1>1, <1>2, Serving DEF ServesRegistered, LoopInv, QueueInv
<1> QED BY <1>1, <1>2, <1>3, <1>4, TurnFrame

LEMMA BufferBroadcastInv ==
  ASSUME IInv, BufferBroadcast
  PROVE  IInv'
<1>1. /\ pc = "read" /\ sock_in[cur] # <<>>
      /\ add_buffered_message(mp_recipient_list \ {cur}, Sent(name[cur], Request1.body))
      /\ sock_in' = [sock_in EXCEPT ![cur] = Tail(@)] /\ NextOfTurn
      /\ UNCHANGED <<client, name, sock_out, backlog>>
  BY DEF BufferBroadcast
<1>2. Request1 \in Request /\ Tail(sock_in[cur]) \in Seq(Request)
  BY <1>1, Serving, SeqFacts DEF Request1
<1>3. Sent(name[cur], Request1.body) \in Message
  BY <1>1, <1>2, Serving, RequestTypes, MessageTypes
<1>4. sock_in' = [sock_in EXCEPT ![cur] = Tail(sock_in[cur])]
  BY <1>1
<1>5. (mp_recipient_list \ {cur}) \in SUBSET mp_sender_list
  BY <1>1, Serving
<1> QED BY <1>1, <1>2, <1>3, <1>4, <1>5, BufferingInv

LEMMA BufferNextInv ==
  ASSUME IInv, BufferNext
  PROVE  IInv'
<1> DEFINE n == Head(Request1.to)
           named == {c \in mp_recipient_list : name[c] = n}
           rest == [Request1 EXCEPT !.to = Tail(@)]
           done == rest.to = <<>> /\ rest.type # "cut"
           requests == IF done THEN Tail(sock_in[cur]) ELSE <<rest>> \o Tail(sock_in[cur])
<1>1. /\ pc \in {"read", "multicast"} /\ sock_in[cur] # <<>> /\ Request1.to # <<>>
      /\ sock_in' = [sock_in EXCEPT ![cur] = requests]
      /\ NextOfTurn \/ Goto("multicast")
      /\ UNCHANGED <<client, name, sock_out, backlog>>
      /\ \/ add_buffered_message({cur}, Unknown(n))
         \/ add_buffered_message(named, Sent(name[cur], Request1.body))
  BY DEF BufferNext
<1>2. Request1 \in Request /\ Tail(sock_in[cur]) \in Seq(Request)
  BY <1>1, Serving, SeqFacts DEF Request1
<1>3. n \in Name /\ rest \in Request /\ Request1.body \in Body
  BY <1>1, <1>2, RequestTypes
<1>4. requests \in Seq(Request)
  BY <1>2, <1>3, ConcatProperties
<1>5. Unknown(n) \in Message /\ Sent(name[cur], Request1.body) \in Message
  BY <1>1, <1>3, Serving, MessageTypes
<1>6. {cur} \in SUBSET mp_sender_list /\ named \in SUBSET mp_sender_list
  BY <1>1, Serving
<1> HIDE DEF n, named, rest, done, requests
<1> QED BY <1>1, <1>4, <1>5, <1>6, BufferingInv

\* The client is forgotten, and its name with it if it had closed.
LEMMA HangupInv ==
  ASSUME IInv, Hangup
  PROVE  IInv'
<1> USE DEF IInv
<1>1. pc \in {"read", "multicast"} /\ UNCHANGED sock_out
  BY DEF Hangup
<1>2. CASE GoDown
  BY <1>1, <1>2, GoDownInv DEF TypeOK, Queues, AnswerInv
<1>3. CASE unregister_oprs(cur) /\ MpCloses({cur}) /\ Done(cur) /\ UNCHANGED backlog
  <2>1. /\ mp_sender_list' = mp_sender_list \ {cur}
        /\ mp_recipient_list' = mp_recipient_list \ {cur}
        /\ mp_writefds_save' = mp_writefds_save \ {cur}
        /\ mess_list' = [mess_list EXCEPT ![cur] = <<>>]
        /\ pc' = "serve" /\ cur' = None /\ writefds' = writefds \ {cur}
        /\ UNCHANGED <<todo, readfds, backlog>>
    BY <1>3 DEF unregister_oprs, Done
  <2>2. /\ client' \in [Client -> ClientState] /\ name' \in [Client -> Name \cup {None}]
        /\ sock_in' \in [Client -> Seq(Request)]
        /\ \A c \in Client :
             \/ c = cur /\ client[c] = "closed" /\ client'[c] = "out" /\ name'[c] = None
             \/ ~(c = cur /\ client[c] = "closed") /\ client'[c] = client[c] /\ name'[c] = name[c]
    BY <1>3, MpClosesTypes
  <2>3. <<>> \in Seq(Message)
    BY EmptySeq
  <2>4. TypeOK'
    BY <1>1, <2>1, <2>2, <2>3, Serving DEF TypeOK, Pc
  <2>5. Waiting' = Waiting /\ cur \notin Waiting /\ Waiting \subseteq Client
    BY <1>1, <2>1, Serving, WaitingClients DEF Waiting
  <2>6. \A c \in mp_sender_list' : c \in Client /\ client'[c] = client[c] /\ name'[c] = name[c]
    BY <1>1, <2>1, <2>2, Serving
  <2>7. ConnectionInv'
    BY <2>1, <2>2, <2>5, <2>6 DEF ConnectionInv
  <2>8. AnswerInv'
    BY <1>1, <2>1, <2>2, <2>5 DEF AnswerInv
  <2>9. UniqueNames' /\ ListsAgree'
    <3>1. UniqueNames'
      BY <2>1, <2>6 DEF UniqueNames
    <3>2. mp_recipient_list' = {c \in mp_sender_list' : name'[c] \notin ServerName}
      BY <2>1, <2>6 DEF ListsAgree
    <3>3. \A c \in Client : mess_list'[c] # <<>> => c \in mp_sender_list'
      BY <1>1, <2>1, Serving DEF TypeOK
    <3> QED BY <3>1, <3>2, <3>3 DEF ListsAgree
  <2>10. ServesRegistered' /\ LoopInv' /\ QueueInv'
    BY <1>1, <2>1, Serving DEF ServesRegistered, LoopInv, QueueInv, TypeOK
  <2> QED BY <2>4, <2>7, <2>8, <2>9, <2>10
<1> QED BY <1>2, <1>3 DEF Hangup

-----------------------------------------------------------------------------
(* The writes *)

\* A step of mp in the queue of cur: the head leaves it, or nothing does.
LEMMA SendingInv ==
  ASSUME IInv, pc \in {"send", "blocked"},
         UNCHANGED <<client, name, sock_in, backlog, mp_sender_list, mp_recipient_list>>,
         \/ mess_list[cur] # <<>> /\ mess_list' = [mess_list EXCEPT ![cur] = Tail(@)]
         \/ UNCHANGED mess_list,
         \/ pc' \in {"send", "blocked"} /\ UNCHANGED <<cur, todo, readfds, writefds, mp_writefds_save>>
         \/ LeaveSend,
         sock_out' \in Queues,
         \A c \in Client :
           \/ sock_out'[c] = sock_out[c]
           \/ /\ c \in mp_sender_list /\ client[c] # "closed"
              /\ \E m \in Message : sock_out'[c] = Append(sock_out[c], m)
  PROVE  IInv'
<1>1. /\ mess_list' \in Queues
      /\ \A c \in Client : mess_list'[c] # <<>> => mess_list[c] # <<>>
      /\ \A c \in Client \ {cur} : mess_list'[c] = mess_list[c]
  <2>1. mess_list \in Queues /\ cur \in Client
    BY Serving
  <2>2. mess_list[cur] # <<>> => Tail(mess_list[cur]) \in Seq(Message)
    BY <2>1, SeqFacts DEF Queues
  <2> QED BY <2>1, <2>2 DEF Queues
<1>2. \A c \in Client : mess_list'[c] # <<>> => c \in mp_sender_list
  BY <1>1, Serving
<1>3. CASE pc' \in {"send", "blocked"} /\ UNCHANGED <<cur, todo, readfds, writefds, mp_writefds_save>>
  <2>1. TypeOK'
    BY <1>1, <1>3 DEF IInv, TypeOK, Pc, Queues
  <2>2. QueueInv'
    <3>1. mp_writefds_save \subseteq Client
      BY DEF IInv, TypeOK
    <3> QED BY <1>1, <1>3, <3>1 DEF IInv, QueueInv
  <2>3. ServesRegistered' /\ LoopInv'
    BY <1>3, Serving DEF ServesRegistered, LoopInv
  <2> QED BY <1>2, <1>3, <2>1, <2>2, <2>3, TurnFrame
<1>4. CASE LeaveSend
  <2>1. /\ pc' = "serve" /\ cur' = None /\ writefds' = writefds \ {cur}
        /\ UNCHANGED <<todo, readfds, mess_list>>
        /\ mp_writefds_save' =
             IF mess_list[cur] = <<>> THEN mp_writefds_save \ {cur} ELSE mp_writefds_save
    BY <1>4 DEF LeaveSend, Done
  <2>2. TypeOK'
    BY <2>1 DEF IInv, TypeOK, Pc, Queues
  <2>3. QueueInv'
    BY <2>1 DEF IInv, QueueInv
  <2>4. ServesRegistered' /\ LoopInv'
    BY <2>1, Serving DEF ServesRegistered, LoopInv
  <2> QED BY <1>2, <2>1, <2>2, <2>3, <2>4, TurnFrame
<1> QED BY <1>3, <1>4

LEMMA WriteInv ==
  ASSUME IInv, write_what_you_can
  PROVE  IInv'
<1>1. /\ pc \in {"send", "blocked"} /\ mess_list[cur] # <<>> /\ client[cur] # "closed"
      /\ sock_out' = [sock_out EXCEPT ![cur] = Append(@, Head(mess_list[cur]))]
      /\ mess_list' = [mess_list EXCEPT ![cur] = Tail(@)]
      /\ pc' = "send" /\ UNCHANGED <<cur, todo, readfds, writefds>>
      /\ UNCHANGED <<client, name, sock_in, backlog>>
      /\ UNCHANGED <<mp_sender_list, mp_recipient_list, mp_writefds_save>>
  BY DEF write_what_you_can, Takes, Pop, Goto
<1>2. cur \in Client /\ cur \in mp_sender_list /\ mess_list \in Queues
  BY <1>1, Serving
<1>3. Head(mess_list[cur]) \in Message
  BY <1>1, <1>2, SeqFacts DEF Queues
<1>4. sock_out \in Queues /\ Append(sock_out[cur], Head(mess_list[cur])) \in Seq(Message)
  BY <1>2, <1>3, SeqFacts DEF IInv, TypeOK, Queues
<1>5. /\ sock_out' \in Queues
      /\ sock_out'[cur] = Append(sock_out[cur], Head(mess_list[cur]))
      /\ \A c \in Client \ {cur} : sock_out'[c] = sock_out[c]
  BY <1>1, <1>2, <1>4 DEF Queues
<1> QED BY <1>1, <1>2, <1>3, <1>5, SendingInv

LEMMA WriteBlocksInv ==
  ASSUME IInv, WriteBlocks
  PROVE  IInv'
<1>1. /\ pc = "send" /\ pc' = "blocked" /\ UNCHANGED <<cur, todo, readfds, writefds>>
      /\ UNCHANGED <<client, name, sock_in, sock_out, backlog>>
      /\ UNCHANGED <<mp_sender_list, mp_recipient_list, mp_writefds_save, mess_list>>
  BY DEF WriteBlocks, Goto, clientVars, mpVars
<1> QED BY <1>1, SendingInv DEF IInv, TypeOK, Queues

LEMMA EndSendInv ==
  ASSUME IInv, EndSend
  PROVE  IInv'
<1>1. /\ pc = "send" /\ LeaveSend /\ UNCHANGED <<client, name, sock_in, sock_out>>
      /\ UNCHANGED <<backlog, mp_sender_list, mp_recipient_list, mess_list>>
  BY DEF EndSend, LeaveSend, clientVars
<1> QED BY <1>1, SendingInv DEF IInv, TypeOK, Queues

LEMMA WriteToClosedInv ==
  ASSUME IInv, WriteToClosed
  PROVE  IInv'
<1>1. pc \in {"send", "blocked"} /\ mess_list[cur] # <<>> /\ UNCHANGED sock_out
  BY DEF WriteToClosed
<1>2. sock_out' \in Queues
  BY <1>1 DEF IInv, TypeOK, Queues
<1>3. CASE GoDown
  BY <1>1, <1>2, <1>3, GoDownInv DEF IInv, AnswerInv
<1>4. CASE Pop /\ UNCHANGED <<client, name, sock_in>>
  BY <1>1, <1>2, <1>4, SendingInv DEF Pop, Goto
<1>5. CASE LeaveSend /\ UNCHANGED <<client, name, sock_in>>
  BY <1>1, <1>2, <1>5, SendingInv DEF LeaveSend
<1> QED BY <1>3, <1>4, <1>5 DEF WriteToClosed

-----------------------------------------------------------------------------
(* The registration *)

\* The older clients of the name leave all that mp holds, and the new one enters it.
LEMMA RegisterInv ==
  ASSUME IInv, Register
  PROVE  IInv'
<1> USE DEF IInv
<1>1. /\ pc = "accept" /\ name[cur] \notin {None, KillName}
      /\ Enter(Older) /\ Answer("REGISTER_OK") /\ MpCloses(Older)
  BY DEF Register, Accepted
<1>2. /\ cur \in Client /\ cur \notin mp_sender_list /\ client[cur] \in {"asking", "closed"}
      /\ cur \in Waiting /\ cur \notin {backlog[k] : k \in 1 .. Len(backlog)}
      /\ mess_list[cur] = <<>> /\ cur \notin mp_writefds_save
  BY <1>1, Accepting DEF AnswerInv
<1>3. /\ mp_sender_list' = (mp_sender_list \ Older) \cup {cur}
      /\ mp_recipient_list' =
           (mp_recipient_list \ Older) \cup (IF name[cur] \in ServerName THEN {} ELSE {cur})
      /\ mp_writefds_save' = mp_writefds_save \ Older
      /\ mess_list' = [c \in Client |-> IF c \in Older \cup {cur} THEN <<>> ELSE mess_list[c]]
      /\ pc' = "serve" /\ cur' = None
      /\ todo' = (mp_sender_list \ Older) \cap (readfds \cup writefds)
      /\ UNCHANGED <<readfds, writefds, backlog>>
  BY <1>1 DEF Enter, ToServe
<1>4. Older \subseteq mp_sender_list /\ cur \notin Older
      /\ \A c \in mp_sender_list : c \in Older <=> name[c] = name[cur]
  BY <1>2 DEF Older
<1>5. /\ client' \in [Client -> ClientState] /\ name' \in [Client -> Name \cup {None}]
      /\ sock_in' \in [Client -> Seq(Request)]
      /\ \A c \in Client :
           \/ c \in Older /\ client[c] = "closed" /\ client'[c] = "out" /\ name'[c] = None
           \/ ~(c \in Older /\ client[c] = "closed") /\ client'[c] = client[c] /\ name'[c] = name[c]
  BY <1>1, MpClosesTypes
<1>6. /\ sock_out' \in Queues
      /\ \A d \in Client \ {cur} : sock_out'[d] = sock_out[d]
      /\ client[cur] = "closed" => sock_out'[cur] = sock_out[cur]
      /\ client[cur] # "closed" =>
           sock_out'[cur] = Append(sock_out[cur], [from |-> MP, text |-> <<"REGISTER_OK">>])
  BY <1>1, <1>2, AnswerTypes
<1>7. mp_sender_list' \subseteq Client /\ mp_recipient_list' \subseteq Client
  BY <1>2, <1>3 DEF TypeOK
<1>8. TypeOK'
  <2>1. <<>> \in Seq(Message)
    BY EmptySeq
  <2> QED BY <1>3, <1>5, <1>6, <1>7, <2>1 DEF TypeOK, Pc, Queues
<1>9. \A c \in mp_sender_list' : c \in Client /\ client'[c] = client[c] /\ name'[c] = name[c]
  BY <1>3, <1>4, <1>5, <1>7
<1>10. Waiting' = {backlog[k] : k \in 1 .. Len(backlog)} /\ Waiting' \subseteq Waiting \ {cur}
  BY <1>2, <1>3 DEF Waiting
<1>11. UniqueNames'
  BY <1>3, <1>4, <1>9 DEF UniqueNames
<1>12. ListsAgree'
  <2>1. mp_recipient_list' = {c \in mp_sender_list' : name'[c] \notin ServerName}
    <3>1. mp_recipient_list' = {c \in mp_sender_list' : name[c] \notin ServerName}
      BY <1>2, <1>3, <1>4 DEF ListsAgree
    <3> QED BY <1>9, <3>1
  <2>2. \A c \in Client : mess_list'[c] # <<>> => c \in mp_sender_list'
    BY <1>3 DEF ListsAgree
  <2> QED BY <2>1, <2>2 DEF ListsAgree
<1>13. ConnectionInv'
  <2>1. \A d \in Waiting' : client'[d] \in {"connecting", "asking", "closed"} /\ d \notin mp_sender_list'
    <3>1. \A d \in Waiting' : d \in Client /\ d # cur /\ d \notin mp_sender_list
                              /\ client[d] \in {"connecting", "asking", "closed"}
      BY <1>10, WaitingClients DEF ConnectionInv
    <3> QED BY <1>3, <1>4, <1>5, <3>1
  <2>2. \A c \in mp_sender_list' : client'[c] \in {"asking", "in", "closed"} /\ name'[c] # None
    BY <1>1, <1>2, <1>3, <1>9 DEF ConnectionInv
  <2> QED BY <1>3, <2>1, <2>2 DEF ConnectionInv
<1>14. AnswerInv'
  <2>1. /\ client[cur] = "asking" =>
             sock_out'[cur] # <<>> /\ Head(sock_out'[cur]).text = <<"REGISTER_OK">>
        /\ client[cur] = "closed" => sock_out'[cur] = <<>>
    <3>1. client[cur] = "asking" => sock_out[cur] = <<>>
      BY <1>2 DEF AnswerInv
    <3>2. [from |-> MP, text |-> <<"REGISTER_OK">>] \in Message
      BY DEF Message, Text, MP
    <3>3. sock_out[cur] \in Seq(Message)
      BY <1>2 DEF TypeOK
    <3>4. client[cur] = "asking" =>
            /\ sock_out'[cur] # <<>>
            /\ Head(sock_out'[cur]) = [from |-> MP, text |-> <<"REGISTER_OK">>]
      BY <1>6, <3>1, <3>2, <3>3, SeqFacts
    <3> QED BY <1>2, <1>6, <3>4 DEF AnswerInv
  <2>2. ASSUME NEW c \in Client, c # cur
        PROVE  /\ client'[c] \in {"out", "connecting"} => name'[c] = None
               /\ client'[c] \in {"asking", "in"} => name'[c] # None
               /\ client'[c] \in {"out", "connecting", "closed"} => sock_out'[c] = <<>>
               /\ client'[c] = "asking" /\ c \in Waiting' => sock_out'[c] = <<>>
               /\ client'[c] = "asking" /\ c \in mp_sender_list' =>
                    sock_out'[c] # <<>> /\ Head(sock_out'[c]).text = <<"REGISTER_OK">>
    BY <1>3, <1>5, <1>6, <1>10, <2>2 DEF AnswerInv
  <2>3. client'[cur] = client[cur] /\ name'[cur] = name[cur] /\ cur \notin Waiting'
    BY <1>2, <1>4, <1>5, <1>10
  <2> QED BY <1>1, <1>2, <2>1, <2>2, <2>3 DEF AnswerInv
<1>15. QueueInv'
  <2>1. \A c \in Client : mess_list'[c] # <<>> => c \in mp_writefds_save'
    BY <1>3 DEF QueueInv
  <2>2. \A c \in mp_writefds_save' :
          c \in Client /\ c # cur /\ c \notin Older /\ mess_list[c] # <<>>
    BY <1>1, <1>2, <1>3 DEF QueueInv, TypeOK
  <2>3. \A c \in mp_writefds_save' : mess_list'[c] # <<>>
    BY <1>3, <2>2
  <2> QED BY <2>1, <2>3 DEF QueueInv
<1>16. ServesRegistered' /\ LoopInv'
  BY <1>3 DEF ServesRegistered, LoopInv
<1> QED BY <1>8, <1>11, <1>12, <1>13, <1>14, <1>15, <1>16

-----------------------------------------------------------------------------
(* The invariant *)

LEMMA RecipientTypes ==
  ASSUME NEW to \in Recipients
  PROVE  to \in Seq(Name)
<1>1. PICK k \in 0 .. MaxRecipients : to \in [1 .. k -> Name]
  BY DEF Recipients
<1> QED BY <1>1, SizeAssumption, SeqDef

LEMMA ClientStepInv ==
  ASSUME IInv, ClientStep
  PROVE  IInv'
BY RecipientTypes, ConnectInv, ReadAnswerInv, ReceiveInv, DisconnectInv, WriteNameInv, DieInv, SendInv
   DEF ClientStep

LEMMA NextInv ==
  ASSUME IInv, [Next]_vars
  PROVE  IInv'
<1>1. CASE ClientStep
  BY <1>1, ClientStepInv
<1>2. CASE MpStep
  BY <1>2, SelectInv, NoNameInv, DenyInv, RegisterInv, KillMpInv, ServeInv, EndTurnInv,
     BufferBroadcastInv, BufferNextInv, HangupInv, WriteInv, WriteBlocksInv, EndSendInv,
     WriteToClosedInv DEF MpStep
<1>3. CASE StartMp \/ ExitIdle
  BY <1>3, StartMpInv, ExitIdleInv
<1>4. CASE UNCHANGED vars
  <2>1. UNCHANGED <<client, name, sock_in, sock_out, backlog, pc, cur, todo, readfds, writefds,
                    mp_sender_list, mp_recipient_list, mp_writefds_save, mess_list>>
    BY <1>4 DEF vars, clientVars, turnVars, mpVars
  <2>2. Waiting' = Waiting
    BY <2>1 DEF Waiting
  <2>3. TypeOK' /\ UniqueNames' /\ ListsAgree' /\ ServesRegistered'
    BY <2>1 DEF IInv, TypeOK, UniqueNames, ListsAgree, ServesRegistered
  <2>4. ConnectionInv' /\ AnswerInv' /\ LoopInv' /\ QueueInv'
    BY <2>1, <2>2 DEF IInv, ConnectionInv, AnswerInv, LoopInv, QueueInv
  <2> QED BY <2>3, <2>4 DEF IInv
<1> QED BY <1>1, <1>2, <1>3, <1>4 DEF Next

\* The invariant holds of mp and any number of clients, whatever they do and in
\* whatever order mp serves them.
THEOREM InvCorrect == Spec => []IInv
BY InitInv, NextInv, PTL DEF Spec

\* Every variable keeps its type.
THEOREM TypeCorrect == Spec => []TypeOK
<1>1. IInv => TypeOK
  BY DEF IInv
<1> QED BY <1>1, InvCorrect, PTL

\* However registrations race with disconnections and with exclusions, no two
\* registered clients have the same name (register_client).
THEOREM UniqueNamesCorrect == Spec => []UniqueNames
<1>1. IInv => UniqueNames
  BY DEF IInv
<1> QED BY <1>1, InvCorrect, PTL

\* The two lists agree, and no message is buffered for a client that mp has freed
\* (unregister_oprs, register_client).
THEOREM ListsCorrect == Spec => []ListsAgree
<1>1. IInv => ListsAgree
  BY DEF IInv
<1> QED BY <1>1, InvCorrect, PTL

\* A turn never comes to a client that an earlier step of it has freed.
THEOREM ServesCorrect == Spec => []ServesRegistered
<1>1. IInv => ServesRegistered
  BY DEF IInv
<1> QED BY <1>1, InvCorrect, PTL

\* Between two writes, select waits for exactly the sockets that have messages
\* buffered (add_buffered_message, send_buffered_message).
THEOREM WriteInterestCorrect == Spec => []WriteInterest
<1>1. IInv => WriteInterest
  <2> SUFFICES ASSUME IInv, pc \in {"select", "accept", "serve", "read", "multicast"}
               PROVE  mp_writefds_save = {c \in Client : mess_list[c] # <<>>}
    BY DEF WriteInterest
  <2>1. mp_writefds_save \subseteq Client
    BY DEF IInv, TypeOK
  <2> QED BY <2>1 DEF IInv, QueueInv
<1> QED BY <1>1, InvCorrect, PTL

=============================================================================
