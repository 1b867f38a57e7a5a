---------------------------- MODULE MessagePasser ----------------------------
(***************************************************************************)
(* The message passer (mp.c) and its clients (mp-register.c,               *)
(* send-message.c; a kernel reads its socket in check_stdin, top-lev.c).   *)
(*                                                                         *)
(* One thread serves all the clients.  It selects the sockets that can be  *)
(* read or written, registers at most one new client, then goes through    *)
(* its clients: it reads one request of each readable one, which fills the *)
(* queues of its recipients, then writes what it can of the queue of each  *)
(* writable one.  Its own reads and writes block; the clients go on by     *)
(* themselves, and may close their socket between any two of its steps.    *)
(*                                                                         *)
(* A Client is a connection.  sock_in and sock_out are what the kernel of  *)
(* the machine holds of it, in units of one request or one message.        *)
(***************************************************************************)
EXTENDS Naturals, Sequences, FiniteSetsExt

CONSTANTS
  Client,         \* connections; one that both ends have closed is reused
  Name,           \* names the clients register under
  ServerName,     \* OPRS_SERVER_MP_NAME, OP_EDITOR_MP_NAME
  KillName,       \* KILL_MP_NAME
  Uses,           \* the names each client may register under
  Payload,        \* texts of the messages
  Empty,          \* the empty text
  None,
  Exclude,        \* option -x: a new client excludes the older one of its name
  SocketSize,     \* messages that a socket holds
  MaxBacklog,     \* connections that wait to be accepted (listen)
  MaxInTransit,   \* bound: requests and messages a client may find under way
  MaxRecipients,  \* bound: recipients of a multicast
  MaxClosed,      \* bound: clients that have closed and that mp has still to notice
  Restarts        \* bound: whether clients start a new message passer

ASSUME NameAssumption ==
  /\ ServerName \subseteq Name /\ KillName \notin ServerName \cup {None}
  /\ None \notin Client \cup Name
  /\ Uses \in [Client -> SUBSET Name]
ASSUME SizeAssumption ==
  /\ SocketSize \in Nat \ {0} /\ MaxBacklog \in Nat \ {0}
  /\ MaxInTransit \in Nat /\ MaxRecipients \in Nat /\ MaxClosed \in Nat
  /\ Exclude \in BOOLEAN /\ Restarts \in BOOLEAN

VARIABLES
  client,             \* each client's own state
  name,               \* the name it has sent
  sock_in,            \* requests written by the client, not read by mp
  sock_out,           \* messages written by mp, not read by the client
  backlog,            \* connections not yet accepted
  pc,                 \* where mp is
  cur,                \* the client it serves
  todo,               \* clients of this turn that it has still to look at
  readfds, writefds,  \* what select returned for this turn
  mp_sender_list,     \* the registered clients
  mp_recipient_list,  \* those of them that may receive
  mp_writefds_save,   \* the clients to be selected for writing
  mess_list           \* messages buffered for each client

clientVars == <<client, name, sock_in, sock_out>>
turnVars   == <<pc, cur, todo, readfds, writefds>>
mpVars     == <<mp_sender_list, mp_recipient_list, mp_writefds_save, mess_list>>
vars == <<clientVars, backlog, turnVars, mpVars>>

\* "connecting": has not written its name; "asking": waits for the answer;
\* "closed": mp has still to notice.
ClientState == {"out", "connecting", "asking", "in", "closed"}
Pc == {"down", "select", "accept", "serve", "read", "multicast", "send", "blocked"}
MP == "mp-oprs"

\* A request, its recipients still to be read.  A MESSAGE_MT is a MULTICAST_MT to
\* one.  "cut": the client closed in the middle of it, or its type is unknown.
Request ==
  [type : {"MULTICAST_MT", "BROADCAST_MT", "DISCONNECT_MT", "cut"},
   to : Seq(Name), body : Payload \cup {Empty}]
Text ==
  Payload \cup {<<"REGISTER_OK">>, <<"REGISTER_NAME_CONFLICT">>}
    \cup ({"unknown", "disconnected"} \X Name)
Message == [from : Name \cup {MP}, text : Text]

TypeOK ==
  /\ client \in [Client -> ClientState]
  /\ name \in [Client -> Name \cup {None}]
  /\ sock_in \in [Client -> Seq(Request)]
  /\ sock_out \in [Client -> Seq(Message)]
  /\ backlog \in Seq(Client)
  /\ pc \in Pc /\ cur \in Client \cup {None}
  /\ todo \in SUBSET Client
  /\ readfds \in SUBSET Client /\ writefds \in SUBSET Client
  /\ mp_sender_list \in SUBSET Client
  /\ mp_recipient_list \in SUBSET Client
  /\ mp_writefds_save \in SUBSET Client
  /\ mess_list \in [Client -> Seq(Message)]

NoMessage == [c \in Client |-> <<>>]

Init ==
  /\ client = [c \in Client |-> "out"] /\ name = [c \in Client |-> None]
  /\ sock_in = NoMessage /\ sock_out = NoMessage /\ backlog = <<>>
  /\ pc = "select" /\ cur = None /\ todo = {} /\ readfds = {} /\ writefds = {}
  /\ mp_sender_list = {} /\ mp_recipient_list = {}
  /\ mp_writefds_save = {} /\ mess_list = NoMessage

-----------------------------------------------------------------------------
(* The clients *)

\* mp has not closed its end.
Held(c) ==
  \/ c \in mp_sender_list \/ (pc = "accept" /\ cur = c)
  \/ \E k \in 1 .. Len(backlog) : backlog[k] = c

\* mp has closed its end of these connections: their requests are lost, and if
\* the client has closed the other end they are over.
MpCloses(S) ==
  /\ client' = [c \in Client |-> IF c \in S /\ client[c] = "closed" THEN "out" ELSE client[c]]
  /\ name' = [c \in Client |-> IF c \in S /\ client[c] = "closed" THEN None ELSE name[c]]
  /\ sock_in' = [c \in Client |-> IF c \in S THEN <<>> ELSE sock_in[c]]

\* Both ends of these connections are closed.
Over(S) ==
  /\ client' = [c \in Client |-> IF c \in S THEN "out" ELSE client[c]]
  /\ name' = [c \in Client |-> IF c \in S THEN None ELSE name[c]]
  /\ sock_in' = [c \in Client |-> IF c \in S THEN <<>> ELSE sock_in[c]]
  /\ sock_out' = [c \in Client |-> IF c \in S THEN <<>> ELSE sock_out[c]]

Connect(c) ==
  /\ client[c] = "out" /\ pc # "down" /\ Len(backlog) < MaxBacklog
  /\ client' = [client EXCEPT ![c] = "connecting"]
  /\ backlog' = Append(backlog, c)
  /\ UNCHANGED <<name, sock_in, sock_out, turnVars, mpVars>>

\* A client that cannot connect starts a message passer.
StartMp ==
  /\ Restarts /\ pc = "down" /\ \E c \in Client : client[c] = "out"
  /\ pc' = "select"
  /\ UNCHANGED <<clientVars, backlog, cur, todo, readfds, writefds, mpVars>>

WriteName(c, n) ==
  /\ client[c] = "connecting"
  /\ client' = [client EXCEPT ![c] = "asking"]
  /\ name' = [name EXCEPT ![c] = n]
  /\ UNCHANGED <<sock_in, sock_out, backlog, turnVars, mpVars>>

Reads(c, state) ==
  /\ sock_out[c] # <<>>
  /\ sock_out' = [sock_out EXCEPT ![c] = Tail(@)]
  /\ client' = [client EXCEPT ![c] = state]
  /\ UNCHANGED <<name, sock_in>>

\* The answer.  read_int_from_socket returns 0 on an end of file, and REGISTER_OK
\* is 0: a client that finds mp gone takes it for the answer.
ReadAnswer(c) ==
  /\ client[c] = "asking"
  /\ \/ sock_out[c] # <<>> /\ Head(sock_out[c]).text = <<"REGISTER_OK">> /\ Reads(c, "in")
     \/ sock_out[c] # <<>> /\ Head(sock_out[c]).text # <<"REGISTER_OK">> /\ Over({c})
     \/ /\ sock_out[c] = <<>> /\ ~Held(c)
        /\ client' = [client EXCEPT ![c] = "in"]
        /\ UNCHANGED <<name, sock_in, sock_out>>
  /\ UNCHANGED <<backlog, turnVars, mpVars>>

\* Everything between the clients.
InTransit ==
  MapThenSumSet(LAMBDA c : Len(sock_in[c]) + Len(sock_out[c]) + Len(mess_list[c]), Client)

Written(requests, type, to, body) ==
  Append(requests, [type |-> type, to |-> to, body |-> body])

\* What a client writes when mp has closed its end is lost at once.
\* send_message_string, multicast_message_string (not to nobody) and
\* broadcast_message_string.
Send(c, type, to, body) ==
  /\ client[c] = "in" /\ Held(c) /\ InTransit < MaxInTransit
  /\ type = "BROADCAST_MT" <=> to = <<>>
  /\ sock_in' = [sock_in EXCEPT ![c] = Written(@, type, to, body)]
  /\ UNCHANGED <<client, name, sock_out, backlog, turnVars, mpVars>>

\* What reaches mp of the requests of a client that closes: TCP throws away the
\* last ones if the client closes before it has read everything.
Reaching(c) ==
  {SubSeq(sock_in[c], 1, k) :
     k \in IF sock_out[c] = <<>> THEN {Len(sock_in[c])} ELSE 0 .. Len(sock_in[c])}

\* The client closes its end, its requests being what reaches mp.
CloseSocket(c, requests) ==
  /\ \/ ~Held(c) /\ Over({c})
     \/ /\ Held(c) /\ Cardinality({d \in Client : client[d] = "closed"}) < MaxClosed
        /\ client' = [client EXCEPT ![c] = "closed"]
        /\ sock_in' = [sock_in EXCEPT ![c] = requests]
        /\ sock_out' = [sock_out EXCEPT ![c] = <<>>]
        /\ UNCHANGED name
  /\ UNCHANGED <<backlog, turnVars, mpVars>>

disconnect_from_the_mp(c) ==
  /\ client[c] = "in"
  /\ \E requests \in Reaching(c) :
       CloseSocket(c, Written(requests, "DISCONNECT_MT", <<>>, Empty))

\* A client dies, maybe in the middle of a request: of a multicast it may have
\* written the recipients `to'.
Die(c, to, body) ==
  /\ client[c] \in {"connecting", "asking", "in"}
  /\ \E requests \in Reaching(c) :
       \/ CloseSocket(c, requests)
       \/ /\ client[c] = "in" /\ InTransit < MaxInTransit
          /\ CloseSocket(c, Written(requests, "cut", to, body))

\* A client reads a message, or the end of file and exits.  The OPRS server and
\* the OPE never read.
Receive(c) ==
  /\ client[c] = "in" /\ name[c] \notin ServerName
  /\ \/ Reads(c, "in")
     \/ sock_out[c] = <<>> /\ ~Held(c) /\ Over({c})
  /\ UNCHANGED <<backlog, turnVars, mpVars>>

-----------------------------------------------------------------------------
(* mp: the end of a client, and of mp itself *)

\* Mutant: only senders are forgotten.
UnregisterSender(c) ==
  /\ mp_sender_list' = mp_sender_list \ {c}
  /\ UNCHANGED mp_recipient_list
  /\ mp_writefds_save' = mp_writefds_save \ {c}
  /\ mess_list' = [mess_list EXCEPT ![c] = <<>>]

\* What is buffered for the client is lost; its own messages stay.
unregister_oprs(c) ==
  /\ mp_sender_list' = mp_sender_list \ {c}
  /\ mp_recipient_list' = mp_recipient_list \ {c}
  /\ mp_writefds_save' = mp_writefds_save \ {c}
  /\ mess_list' = [mess_list EXCEPT ![c] = <<>>]

\* The process ends, killed, idle or on a signal; its sockets are closed.
GoDown ==
  /\ pc' = "down" /\ cur' = None /\ todo' = {} /\ readfds' = {} /\ writefds' = {}
  /\ mp_sender_list' = {} /\ mp_recipient_list' = {} /\ mp_writefds_save' = {}
  /\ mess_list' = NoMessage /\ backlog' = <<>>
  /\ MpCloses(Client)

-----------------------------------------------------------------------------
(* mp: select, accept and register *)

Writable(c) == client[c] = "closed" \/ Len(sock_out[c]) < SocketSize

Select ==
  /\ pc = "select"
  /\ readfds' = {c \in mp_sender_list : sock_in[c] # <<>> \/ client[c] = "closed"}
  /\ writefds' = {c \in mp_writefds_save : Writable(c)}
  /\ \/ /\ backlog = <<>> /\ readfds' \cup writefds' # {}
        /\ pc' = "serve" /\ todo' = readfds' \cup writefds'
        /\ UNCHANGED <<cur, backlog>>
     \/ /\ backlog # <<>>
        /\ pc' = "accept" /\ cur' = Head(backlog) /\ backlog' = Tail(backlog)
        /\ UNCHANGED todo
  /\ UNCHANGED <<clientVars, mpVars>>

\* Nobody is registered and nothing happens for MP_EXIT_TIME_OUT seconds.
ExitIdle ==
  /\ pc = "select" /\ mp_sender_list = {} /\ backlog = <<>>
  /\ GoDown /\ UNCHANGED sock_out

\* Mutant: an excluded client is still served.
ToServeExcluded(clients) ==
  /\ pc' = "serve" /\ cur' = None
  /\ todo' = readfds \cup writefds
  /\ UNCHANGED <<readfds, writefds, backlog>>

\* mp goes through a copy of its clients; only the ready ones matter.
ToServe(clients) ==
  /\ pc' = "serve" /\ cur' = None
  /\ todo' = clients \cap (readfds \cup writefds)
  /\ UNCHANGED <<readfds, writefds, backlog>>

\* The client closed before it had written a name.
NoName ==
  /\ pc = "accept" /\ client[cur] = "closed" /\ name[cur] = None
  /\ MpCloses({cur})
  /\ ToServe(mp_sender_list)
  /\ UNCHANGED <<sock_out, mpVars>>

\* A client that has closed does not get the answer.
Answer(text) ==
  sock_out' = IF client[cur] = "closed" THEN sock_out
              ELSE [sock_out EXCEPT ![cur] = Append(@, [from |-> MP, text |-> <<text>>])]

\* Mutant: the name is looked for among those that receive.
OlderRecipient == {c \in mp_recipient_list : name[c] = name[cur]}

Older == {c \in mp_sender_list : name[c] = name[cur]}

Refuse ==
  /\ Answer("REGISTER_NAME_CONFLICT") /\ MpCloses({cur})
  /\ ToServe(mp_sender_list)
  /\ UNCHANGED mpVars

\* mp_client_dead selects for writing: an open socket is never dead.
Deny ==
  /\ pc = "accept" /\ name[cur] # None
  /\ Older # {} /\ ~Exclude
  /\ Refuse

\* Mutant: the queue of the older client is kept for the one that takes its name.
EnterWithQueue(older) ==
  /\ mp_sender_list' = (mp_sender_list \ older) \cup {cur}
  /\ mp_recipient_list' =
       (mp_recipient_list \ older) \cup (IF name[cur] \in ServerName THEN {} ELSE {cur})
  /\ mp_writefds_save' = IF older = {} THEN mp_writefds_save
                        ELSE (mp_writefds_save \ older) \cup {cur}
  /\ mess_list' = [c \in Client |->
       IF c = cur /\ older # {} THEN mess_list[CHOOSE o \in older : TRUE]
       ELSE IF c \in older \cup {cur} THEN <<>> ELSE mess_list[c]]
  /\ ToServe(mp_sender_list \ older)

Enter(older) ==
  /\ mp_sender_list' = (mp_sender_list \ older) \cup {cur}
  /\ mp_recipient_list' =
       (mp_recipient_list \ older) \cup (IF name[cur] \in ServerName THEN {} ELSE {cur})
  /\ mp_writefds_save' = mp_writefds_save \ older
  /\ mess_list' = [c \in Client |-> IF c \in older \cup {cur} THEN <<>> ELSE mess_list[c]]
  /\ ToServe(mp_sender_list \ older)

\* The client has written a name that may be registered.
Accepted ==
  /\ pc = "accept" /\ name[cur] \notin {None, KillName}
  /\ Older = {} \/ Exclude

\* Mutants: the older client of the name is not unregistered; no answer.
RegisterBeside == Accepted /\ Enter({}) /\ Answer("REGISTER_OK") /\ MpCloses({})
RegisterUnanswered == Accepted /\ Enter(Older) /\ MpCloses(Older) /\ UNCHANGED sock_out

Register ==
  Accepted /\ Enter(Older) /\ Answer("REGISTER_OK") /\ MpCloses(Older)

\* kill-mp, by the user who started mp (or root) or by another.
KillMp ==
  /\ pc = "accept" /\ name[cur] = KillName
  /\ (GoDown /\ Answer("REGISTER_OK")) \/ Refuse

-----------------------------------------------------------------------------
(* mp: the clients of this turn *)

Serve(c) ==
  /\ pc = "serve" /\ c \in todo
  /\ cur' = c /\ todo' = todo \ {c}
  /\ readfds' = readfds \ {c}
  /\ pc' = IF c \in readfds THEN "read" ELSE "send"
  /\ UNCHANGED <<clientVars, backlog, writefds, mpVars>>

EndTurn ==
  /\ pc = "serve" /\ todo = {}
  /\ pc' = "select" /\ cur' = None /\ readfds' = {} /\ writefds' = {}
  /\ UNCHANGED <<clientVars, backlog, todo, mpVars>>

\* The body as it is sent on; an empty one is taken for a report.
Sent(n, body) ==
  IF body = Empty THEN [from |-> MP, text |-> <<"disconnected", n>>]
                  ELSE [from |-> n, text |-> body]

\* Mutant: the report keeps the null sender.
UnknownFromNobody(n) == [from |-> None, text |-> <<"unknown", n>>]

Unknown(n) == [from |-> MP, text |-> <<"unknown", n>>]

\* Mutant: select is not told.
BufferSilently(S, m) ==
  /\ mess_list' = [c \in Client |-> IF c \in S THEN Append(mess_list[c], m) ELSE mess_list[c]]
  /\ UNCHANGED <<mp_writefds_save, mp_sender_list, mp_recipient_list>>

add_buffered_message(S, m) ==
  /\ mess_list' = [c \in Client |-> IF c \in S THEN Append(mess_list[c], m) ELSE mess_list[c]]
  /\ mp_writefds_save' = mp_writefds_save \cup S
  /\ UNCHANGED <<mp_sender_list, mp_recipient_list>>

Request1 == Head(sock_in[cur])

\* The loop goes on with cur if it is writable, or with the next client.
Done(c) == pc' = "serve" /\ cur' = None /\ writefds' = writefds \ {c} /\ UNCHANGED <<todo, readfds>>
Goto(label) == pc' = label /\ UNCHANGED <<cur, todo, readfds, writefds>>
NextOfTurn ==
  \/ cur \in writefds /\ Goto("send")
  \/ cur \notin writefds /\ Done(cur)

BufferBroadcast ==
  /\ pc = "read" /\ sock_in[cur] # <<>> /\ Request1.type = "BROADCAST_MT"
  /\ add_buffered_message(mp_recipient_list \ {cur}, Sent(name[cur], Request1.body))
  /\ sock_in' = [sock_in EXCEPT ![cur] = Tail(@)]
  /\ NextOfTurn
  /\ UNCHANGED <<client, name, sock_out, backlog>>

\* Mutant: the request ends at the first unknown recipient.
BufferNextOrGiveUp ==
  LET n == Head(Request1.to)
      named == {c \in mp_recipient_list : name[c] = n}
      rest == [Request1 EXCEPT !.to = Tail(@)]
      done == rest.to = <<>> \/ named = {}
  IN  /\ pc \in {"read", "multicast"} /\ sock_in[cur] # <<>> /\ Request1.to # <<>>
      /\ IF named = {} THEN add_buffered_message({cur}, Unknown(n))
                       ELSE add_buffered_message(named, Sent(name[cur], Request1.body))
      /\ sock_in' = [sock_in EXCEPT ![cur] = IF done THEN Tail(@) ELSE <<rest>> \o Tail(@)]
      /\ IF done THEN NextOfTurn ELSE Goto("multicast")
      /\ UNCHANGED <<client, name, sock_out, backlog>>

\* One recipient of a message or of a multicast.
BufferNext ==
  LET n == Head(Request1.to)
      named == {c \in mp_recipient_list : name[c] = n}
      rest == [Request1 EXCEPT !.to = Tail(@)]
      done == rest.to = <<>> /\ rest.type # "cut"
  IN  /\ pc \in {"read", "multicast"} /\ sock_in[cur] # <<>> /\ Request1.to # <<>>
      /\ IF named = {} THEN add_buffered_message({cur}, Unknown(n))
                       ELSE add_buffered_message(named, Sent(name[cur], Request1.body))
      /\ sock_in' = [sock_in EXCEPT ![cur] = IF done THEN Tail(@) ELSE <<rest>> \o Tail(@)]
      /\ IF done THEN NextOfTurn ELSE Goto("multicast")
      /\ UNCHANGED <<client, name, sock_out, backlog>>

\* End of file, a disconnection, a request cut short.  The loop then looks at
\* the socket of the freed client: if it was writable, mp may as well crash.
Hangup ==
  /\ pc \in {"read", "multicast"}
  /\ sock_in[cur] # <<>> =>
       Request1.to = <<>> /\ Request1.type \in {"DISCONNECT_MT", "cut"}
  /\ \/ /\ unregister_oprs(cur) /\ MpCloses({cur})
        /\ Done(cur)
        /\ UNCHANGED backlog
     \/ cur \in writefds /\ GoDown
  /\ UNCHANGED sock_out

\* The head of the queue is written.
Pop ==
  /\ mess_list' = [mess_list EXCEPT ![cur] = Tail(@)]
  /\ Goto("send")
  /\ UNCHANGED <<backlog, mp_sender_list, mp_recipient_list, mp_writefds_save>>

\* The socket of cur takes the next message.
Takes == client[cur] # "closed" /\ Len(sock_out[cur]) < SocketSize
Full == client[cur] # "closed" /\ Len(sock_out[cur]) = SocketSize

\* Mutant: the message is not removed.
WriteTwice ==
  /\ pc \in {"send", "blocked"} /\ mess_list[cur] # <<>> /\ Takes
  /\ sock_out' = [sock_out EXCEPT ![cur] = Append(@, Head(mess_list[cur]))]
  /\ Goto("send")
  /\ UNCHANGED <<client, name, sock_in, backlog, mpVars>>

write_what_you_can ==
  /\ pc \in {"send", "blocked"} /\ mess_list[cur] # <<>> /\ Takes
  /\ sock_out' = [sock_out EXCEPT ![cur] = Append(@, Head(mess_list[cur]))]
  /\ Pop
  /\ UNCHANGED <<client, name, sock_in>>

\* select finds some room, but not for the whole message: the write waits.
WriteBlocks ==
  /\ pc = "send" /\ mess_list[cur] # <<>> /\ Full
  /\ Goto("blocked")
  /\ UNCHANGED <<clientVars, backlog, mpVars>>

\* mp leaves send_buffered_message; an empty queue is selected no more.
LeaveSend ==
  /\ Done(cur)
  /\ mp_writefds_save' =
       IF mess_list[cur] = <<>> THEN mp_writefds_save \ {cur} ELSE mp_writefds_save
  /\ UNCHANGED <<backlog, mp_sender_list, mp_recipient_list, mess_list>>

\* Mutant: the queue is selected although it is empty.
EndSendSelected ==
  /\ pc = "send" /\ (mess_list[cur] = <<>> \/ Full)
  /\ Done(cur)
  /\ UNCHANGED <<clientVars, backlog, mpVars>>

EndSend ==
  /\ pc = "send" /\ (mess_list[cur] = <<>> \/ Full)
  /\ LeaveSend
  /\ UNCHANGED clientVars

\* The recipient has closed: the bytes go nowhere, or the write fails and the
\* loop stops, or SIGPIPE ends the process.
WriteToClosed ==
  /\ pc \in {"send", "blocked"} /\ mess_list[cur] # <<>> /\ client[cur] = "closed"
  /\ \/ (Pop \/ LeaveSend) /\ UNCHANGED <<client, name, sock_in>>
     \/ GoDown
  /\ UNCHANGED sock_out

-----------------------------------------------------------------------------

\* What a multicast may be for, in whole or in part.
Recipients == UNION {[1 .. k -> Name] : k \in 0 .. MaxRecipients}

ClientStep ==
  \E c \in Client :
    \/ Connect(c) \/ ReadAnswer(c) \/ Receive(c) \/ disconnect_from_the_mp(c)
    \/ \E n \in Uses[c] : WriteName(c, n)
    \/ \E to \in Recipients, body \in Payload :
         \/ Die(c, to, body)
         \/ \E type \in {"MULTICAST_MT", "BROADCAST_MT"} : Send(c, type, to, body)

MpStep ==
  \/ Select \/ NoName \/ Deny \/ Register \/ KillMp
  \/ (\E c \in Client : Serve(c)) \/ EndTurn
  \/ BufferBroadcast \/ BufferNext \/ Hangup
  \/ write_what_you_can \/ WriteBlocks \/ EndSend \/ WriteToClosed

Next == ClientStep \/ MpStep \/ StartMp \/ ExitIdle

Spec == Init /\ [][Next]_vars

\* mp is a loop that only waits in select and in its blocking calls; a client
\* that has connected writes its name, waits for the answer and then reads what
\* it is sent ("should be read promptly", doc/mp.tex).
Fairness ==
  /\ WF_vars(MpStep)
  /\ \A c \in Client :
       WF_vars(Receive(c)) /\ WF_vars(ReadAnswer(c)) /\ WF_vars(\E n \in Uses[c] : WriteName(c, n))

FairSpec == Spec /\ Fairness

-----------------------------------------------------------------------------
(* Properties *)

\* Two registered clients never have the same name, whatever registrations race
\* with disconnections: messages are addressed by name.
UniqueNames ==
  \A c, d \in mp_sender_list : name[c] = name[d] => c = d

\* A client is in both lists or in none, but for the names that only send, and
\* nothing is buffered for a client that has gone: unregister_oprs and Register
\* edit the lists and the queues in step.
ListsAgree ==
  /\ mp_recipient_list = {c \in mp_sender_list : name[c] \notin ServerName}
  /\ \A c \in Client : mess_list[c] # <<>> => c \in mp_sender_list

\* select waits for a socket to be writable exactly when messages are buffered
\* for it: no message waits for ever and mp does not spin.
WriteInterest ==
  pc \in {"select", "accept", "serve", "read", "multicast"} =>
    mp_writefds_save = {c \in Client : mess_list[c] # <<>>}

\* Whoever mp serves has not been freed by an earlier step of the turn, nor is
\* still in the list it goes through.
ServesRegistered ==
  /\ todo \subseteq mp_sender_list
  /\ pc \in {"read", "multicast", "send", "blocked"} => cur \in mp_sender_list \ todo

\* The inductive invariant.  A connection is accepted once; who is registered has a
\* name, and the answer is the first message it finds.
Waiting ==
  {backlog[k] : k \in 1 .. Len(backlog)} \cup (IF pc = "accept" THEN {cur} ELSE {})

ConnectionInv ==
  /\ \A c \in Waiting : client[c] \in {"connecting", "asking", "closed"} /\ c \notin mp_sender_list
  /\ \A j, k \in 1 .. Len(backlog) : backlog[j] = backlog[k] => j = k
  /\ pc = "accept" => cur \in Client /\ \A k \in 1 .. Len(backlog) : backlog[k] # cur
  /\ \A c \in mp_sender_list : client[c] \in {"asking", "in", "closed"} /\ name[c] # None

AnswerInv ==
  \A c \in Client :
    /\ client[c] \in {"out", "connecting"} => name[c] = None
    /\ client[c] \in {"asking", "in"} => name[c] # None
    /\ client[c] \in {"out", "connecting", "closed"} => sock_out[c] = <<>>
    /\ client[c] = "asking" /\ c \in Waiting => sock_out[c] = <<>>
    /\ client[c] = "asking" /\ c \in mp_sender_list =>
         sock_out[c] # <<>> /\ Head(sock_out[c]).text = <<"REGISTER_OK">>

LoopInv == pc \in {"select", "accept", "down"} => todo = {}

\* WriteInterest, and what is left of it while the queue of cur is written.
QueueInv ==
  /\ \A c \in Client : mess_list[c] # <<>> => c \in mp_writefds_save
  /\ \A c \in mp_writefds_save :
       mess_list[c] # <<>> \/ (c = cur /\ pc \in {"send", "blocked"})

IInv ==
  /\ TypeOK /\ UniqueNames /\ ListsAgree /\ ServesRegistered
  /\ ConnectionInv /\ AnswerInv /\ LoopInv /\ QueueInv

\* The mailboxes of the registered clients, and one request routed at a time.
Service ==
  INSTANCE MessageService WITH
    member  <- [c \in Client |-> IF c \in mp_sender_list THEN name[c] ELSE None],
    gone    <- {c \in mp_sender_list : client[c] = "closed"},
    outbox  <- [c \in Client |-> IF c \in mp_sender_list THEN sock_in[c] ELSE <<>>],
    inbox   <- [c \in Client |->
                  IF c \in mp_sender_list /\ client[c] # "closed"
                  THEN sock_out[c] \o mess_list[c] ELSE <<>>],
    routing <- IF pc = "multicast" THEN cur ELSE None,
    Welcome <- [from |-> MP, text |-> <<"REGISTER_OK">>]

\* Per sender and recipient no message is lost, duplicated or reordered while
\* both stay, all recipients get broadcasts in one order, and the answer to the
\* registration comes before any message, through buffers, sockets and turns.
ImplementsMessageService == Service!Spec

\* While a client has messages waiting it is sent some, and while it has
\* requests waiting they are read: no other client starves it, as long as all
\* read what they are sent.
Pending(c) == c \in mp_sender_list /\ client[c] = "in" /\ mess_list[c] # <<>>
Delivered ==
  \A c \in Client :
    <>[]Pending(c) => []<><<write_what_you_can /\ cur = c>>_vars
RequestsAreRead ==
  \A c \in Client :
    <>[](c \in mp_sender_list /\ sock_in[c] # <<>>) => []<><<sock_in'[c] # sock_in[c]>>_vars

\* A client that asks to register does not wait for ever: mp answers it, or is gone.
Answered == \A c \in Client : client[c] = "asking" ~> client[c] # "asking"

\* Every request ends: that of a registered client is read, whoever else is
\* busy, and a registration is answered or the connection lost.
RequestsEnd == RequestsAreRead /\ Answered

\* mp ends only when kill-mp asks or nobody is registered: a client that dies is
\* disconnected and the others go on.
Survives ==
  [][pc # "down" /\ pc' = "down" =>
       mp_sender_list = {} \/ (pc = "accept" /\ name[cur] = KillName)]_vars

=============================================================================
