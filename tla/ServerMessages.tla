--------------------------- MODULE ServerMessages ---------------------------
(***************************************************************************)
(* What clients are told, and in which order: handle_packet, the broadcast *)
(* and list functions of src/src/server.cpp, with m_clients_mutex explicit *)
(* and one step per packet written, since a handler may be overtaken       *)
(* anywhere outside the mutex.                                             *)
(*                                                                         *)
(* A handler turns a packet into a short program of sections.  A section   *)
(* is a stretch of code under the mutex that writes one message to some    *)
(* clients, in the order of the map, or the erase of remove_client; or,    *)
(* without the mutex, the assignment of a nickname or a reply.             *)
(***************************************************************************)
EXTENDS Naturals, FiniteSets, Sequences, FiniteSetsExt

CONSTANTS
    NumClients,         \* sessions that may register, ids 1 .. NumClients
    MaxPackets,         \* packets a client sends after its MSG_CONNECT
    Kind,               \* the kinds among them
    MaxOperator,        \* commands the operator types
    RequireKey,         \* g_config.require_key
    Free                \* the mutex is not held

ASSUME MessagesAssumption ==
    /\ NumClients \in Nat /\ MaxPackets \in Nat /\ MaxOperator \in Nat
    /\ Kind \subseteq {"TEXT", "PRIVATE", "CLIENT_LIST", "NICK_SET", "PING"}
    /\ RequireKey \in BOOLEAN
    /\ Free \notin 0..NumClients

Client == 1..NumClients
Operator == 0                       \* SERVER_ID: the operator's thread
Thread == Client \cup {Operator}

VARIABLES
    m_clients,          \* ids in the map
    session,            \* "new", "registered", "connected", "refused" or "left"
    sent,               \* packets each thread has started to handle
    todo,               \* sections each thread still has to execute
    mutex,              \* holder of m_clients_mutex
    pending,            \* recipients the thread's current section still owes
    current,            \* ... and the message it writes to them
    stream              \* messages written to each client's socket, in order

vars == <<m_clients, session, sent, todo, mutex, pending, current, stream>>

(* A message: from whom, the number of the packet that caused it, and for  *)
(* a client list the ids in it.                                            *)
Message == [type: {"JOINED", "LEFT", "RENAMED", "TEXT", "PRIVATE", "ERROR",
                   "LIST", "PONG"},
            from: Thread, n: Nat, ids: SUBSET Client]

Msg(type, t) == [type |-> type, from |-> t, n |-> sent[t], ids |-> {}]

(* Sections. *)
Tell(to, msg) == [op |-> "tell", to |-> to, msg |-> msg]
List(to, t)   == [op |-> "list", to |-> to, msg |-> Msg("LIST", t)]
Private(j, t) == [op |-> "private", to |-> {j}, msg |-> Msg("PRIVATE", t)]
Erase(t)      == [op |-> "erase", to |-> {t}, msg |-> Msg("LEFT", t)]
Rename(t)     == [op |-> "rename", to |-> {}, msg |-> Msg("RENAMED", t)]
Reply(msg, t) == [op |-> "reply", to |-> {t}, msg |-> msg]

TypeOK ==
    /\ m_clients \subseteq Client
    /\ session \in [Client -> {"new", "registered", "connected", "refused", "left"}]
    /\ sent \in [Thread -> Nat]
    /\ \A t \in Thread : \A i \in 1..Len(todo[t]) :
          /\ todo[t][i].op \in {"tell", "list", "private", "erase",
                                "rename", "reply"}
          /\ todo[t][i].to \subseteq Client
          /\ todo[t][i].msg \in Message
    /\ mutex \in Thread \cup {Free}
    /\ pending \in [Thread -> SUBSET Client]
    /\ \A t \in Thread : pending[t] # {} => current[t] \in Message
    /\ \A i \in Client : \A k \in 1..Len(stream[i]) : stream[i][k] \in Message

Init ==
    /\ m_clients = {}
    /\ session = [i \in Client |-> "new"]
    /\ sent = [t \in Thread |-> 0]
    /\ todo = [t \in Thread |-> <<>>]
    /\ mutex = Free
    /\ pending = [t \in Thread |-> {}]
    /\ current = [t \in Thread |-> Msg("LIST", t)]
    /\ stream = [i \in Client |-> <<>>]

-----------------------------------------------------------------------------
(* Where programs come from. *)

(* accept_loop puts the next id in the map, under the mutex.               *)
AcceptRegister(i) ==
    /\ session[i] = "new" /\ mutex = Free
    /\ \A j \in Client : j < i => session[j] # "new"
    /\ session' = [session EXCEPT ![i] = "registered"]
    /\ m_clients' = m_clients \cup {i}
    /\ UNCHANGED <<sent, todo, mutex, pending, current, stream>>

(* A handler is between two packets. *)
Idle(t) == todo[t] = <<>>

Run(t, program) ==
    /\ todo' = [todo EXCEPT ![t] = program]
    /\ sent' = [sent EXCEPT ![t] = @ + 1]
    /\ UNCHANGED <<m_clients, mutex, pending, current, stream>>

(* MSG_CONNECT, the first packet a client sends: its name, the list to     *)
(* itself, and "joined the server!" to everyone.                           *)
ConnectProgram_NoJoin(i) == <<Rename(i), List({i}, i)>>

ConnectProgram(i) ==
    <<Rename(i), List({i}, i), Tell(Client, Msg("JOINED", i))>>

HandleConnect(i) ==
    /\ session[i] = "registered" /\ Idle(i)
    /\ session' = [session EXCEPT ![i] = "connected"]
    /\ Run(i, ConnectProgram(i))

(* Its access key is wrong: an error, and alive = false.                   *)
RefuseConnect(i) ==
    /\ RequireKey
    /\ session[i] = "registered" /\ Idle(i)
    /\ session' = [session EXCEPT ![i] = "refused"]
    /\ Run(i, <<Rename(i), Reply(Msg("ERROR", i), i)>>)

PacketProgram(i, kind, target) ==
    CASE kind = "TEXT"        -> <<Tell(Client \ {i}, Msg("TEXT", i))>>
      [] kind = "PRIVATE"     -> <<Private(target, i)>>
      [] kind = "CLIENT_LIST" -> <<List({i}, i)>>
      [] kind = "NICK_SET"    -> <<Rename(i), Tell(Client, Msg("RENAMED", i)),
                                   List(Client, i)>>
      [] kind = "PING"        -> <<Reply(Msg("PONG", i), i)>>

HandlePacket(i, kind, target) ==
    /\ session[i] = "connected" /\ Idle(i)
    /\ sent[i] <= MaxPackets
    /\ Run(i, PacketProgram(i, kind, target))
    /\ UNCHANGED session

(* MSG_DISCONNECT or a failed recv(): out of the loop, "left the server."  *)
(* to everyone, and remove_client, in a section of its own.                *)
ClientLeave(i) ==
    /\ session[i] \in {"registered", "connected", "refused"} /\ Idle(i)
    /\ session' = [session EXCEPT ![i] = "left"]
    /\ Run(i, <<Tell(Client, Msg("LEFT", i)), Erase(i)>>)

(* /broadcast, /msg and /list at the operator's prompt.                    *)
OperatorCommand ==
    /\ Idle(Operator) /\ sent[Operator] < MaxOperator
    /\ \/ Run(Operator, <<Tell(Client, Msg("TEXT", Operator))>>)
       \/ \E j \in Client : Run(Operator, <<Private(j, Operator)>>)
       \/ Run(Operator, <<List({}, Operator)>>)
    /\ UNCHANGED session

-----------------------------------------------------------------------------
(* Execution of a section. *)

Recipients_AnswersServer(t, s) ==
    IF s.op = "private" /\ s.to \cap m_clients = {} THEN {t}
    ELSE s.to \cap m_clients

(* Whom the section writes to.  A private message to an absent client is   *)
(* answered with an error to its sender, or at the operator's prompt.      *)
Recipients(t, s) ==
    IF s.op = "private" /\ s.to \cap m_clients = {}
    THEN {t} \cap Client
    ELSE s.to \cap m_clients

Content(t, s) ==
    CASE s.op = "list" -> [s.msg EXCEPT !.ids = m_clients]
      [] s.op = "private" /\ s.to \cap m_clients = {} -> [s.msg EXCEPT !.type = "ERROR"]
      [] OTHER -> s.msg

MutexFree_Unchecked == TRUE

MutexFree == mutex = Free

(* The guard goes out of scope after the last packet.                      *)
Release(t, owed) ==
    /\ pending' = [pending EXCEPT ![t] = owed]
    /\ mutex' = IF owed = {} THEN Free ELSE t
    /\ todo' = IF owed = {} THEN [todo EXCEPT ![t] = Tail(@)] ELSE todo

SectionBegin_NoReleaseWhenEmpty(t) ==
    /\ todo[t] # <<>> /\ pending[t] = {}
    /\ Head(todo[t]).op \in {"tell", "list", "private"}
    /\ MutexFree
    /\ current' = [current EXCEPT ![t] = Content(t, Head(todo[t]))]
    /\ pending' = [pending EXCEPT ![t] = Recipients(t, Head(todo[t]))]
    /\ mutex' = t
    /\ UNCHANGED <<m_clients, session, sent, todo, stream>>

SectionBegin(t) ==
    /\ todo[t] # <<>> /\ pending[t] = {}
    /\ Head(todo[t]).op \in {"tell", "list", "private"}
    /\ MutexFree
    /\ current' = [current EXCEPT ![t] = Content(t, Head(todo[t]))]
    /\ Release(t, Recipients(t, Head(todo[t])))
    /\ UNCHANGED <<m_clients, session, sent, stream>>

(* net_send_packet to the next client of the map.                          *)
SectionSend(t) ==
    /\ pending[t] # {}
    /\ LET i == Min(pending[t]) IN
          /\ stream' = [stream EXCEPT ![i] = Append(@, current[t])]
          /\ Release(t, pending[t] \ {i})
    /\ UNCHANGED <<m_clients, session, sent, current>>

(* remove_client. *)
RemoveClient(t) ==
    /\ todo[t] # <<>> /\ Head(todo[t]).op = "erase" /\ MutexFree
    /\ m_clients' = m_clients \ {t}
    /\ todo' = [todo EXCEPT ![t] = Tail(@)]
    /\ UNCHANGED <<session, sent, mutex, pending, current, stream>>

(* ci->nickname = ... and the replies to the sender alone: no mutex.       *)
Unlocked(t) ==
    /\ todo[t] # <<>> /\ Head(todo[t]).op \in {"rename", "reply"}
    /\ stream' = [i \in Client |-> IF i \in Head(todo[t]).to
                                   THEN Append(stream[i], Head(todo[t]).msg)
                                   ELSE stream[i]]
    /\ todo' = [todo EXCEPT ![t] = Tail(@)]
    /\ UNCHANGED <<m_clients, session, sent, mutex, pending, current>>

Work(t) ==
    \/ SectionBegin(t) \/ SectionSend(t)
    \/ RemoveClient(t) \/ Unlocked(t)

Packet(i) ==
    \/ HandleConnect(i) \/ RefuseConnect(i)
    \/ \E kind \in Kind, target \in Client : HandlePacket(i, kind, target)
    \/ ClientLeave(i)

Next ==
    \/ \E i \in Client : AcceptRegister(i) \/ Packet(i)
    \/ OperatorCommand
    \/ \E t \in Thread : Work(t)

(* Threads are scheduled, sends do not block for ever (the peers read),    *)
(* and a thread that keeps asking for the mutex gets it.                   *)
Fairness == \A t \in Thread : SF_vars(Work(t))

Spec == Init /\ [][Next]_vars

FairSpec == Spec /\ Fairness

-----------------------------------------------------------------------------
(* Properties. *)

Quiet == \A t \in Thread : Idle(t)

(* Any two clients see the messages they both receive in the same order,   *)
(* because a section holds the mutex from its first recipient to its last. *)
SameOrder ==
    \A i, j \in Client : i < j =>
        \A l \in 1..Len(stream[i]), q \in 1..Len(stream[j]) :
            stream[i][l] = stream[j][q] =>
                \A k \in 1..(l - 1), r \in (q + 1)..Len(stream[j]) :
                    stream[i][k] # stream[j][r]

(* What a packet tells its reader about who is there: the list in it names *)
(* j or leaves j out, or j "joined the server!" or "left the server.".     *)
Says(m, j) ==
    \/ m.type = "LIST" /\ j \in m.ids
    \/ m.type = "JOINED" /\ m.from = j

Denies(m, j) ==
    \/ m.type = "LIST" /\ j \notin m.ids
    \/ m.type = "LEFT" /\ m.from = j

(* Whom the packets written to i have told it of, and not denied since.    *)
KnownTo(i) ==
    {j \in Client : \E k \in 1..Len(stream[i]) :
        /\ Says(stream[i][k], j)
        /\ \A r \in (k + 1)..Len(stream[i]) : ~ Denies(stream[i][r], j)}

(* When no handler is at work, every connected client has been told of     *)
(* every other connected client, whoever registered first and however the  *)
(* lists and the join messages crossed.                                    *)
NoUnknownPeer ==
    Quiet => \A i, j \in Client :
        session[i] = "connected" /\ session[j] = "connected" => j \in KnownTo(i)

(* Every packet is handled to its end: no section leaves the mutex locked, *)
(* not even one that finds its target gone.                                *)
EveryPacketHandled == \A t \in Thread : todo[t] # <<>> ~> Idle(t)

-----------------------------------------------------------------------------
(* What the comments say and the code does not do. *)

(* "Notify remaining clients that this peer has left" (client_loop): when  *)
(* no handler is at work, nobody believes in a client that is gone.        *)
NoGhostPeer ==
    Quiet => \A i, j \in Client :
        session[i] = "connected" /\ j \in KnownTo(i) => session[j] # "left"

(* "the sender sees their own message reflected back as a server           *)
(* broadcast" (handle_packet, MSG_TEXT).                                   *)
SenderSeesOwnText ==
    Quiet => \A i \in Client, j \in Client : \A k \in 1..Len(stream[j]) :
        stream[j][k].type = "TEXT" /\ stream[j][k].from = i
            => \E l \in 1..Len(stream[i]) : stream[i][l] = stream[j][k]

(* "All access to the client map is protected by" the mutex (server.hpp):  *)
(* no thread is about to assign the nickname of a client in the map while  *)
(* another one holds the mutex to read the nicknames of the map.           *)
NicknamesReadAlone ==
    \A t, i \in Thread :
        /\ mutex = t /\ Head(todo[t]).op = "list"
        /\ i \in m_clients \ {t}
        => todo[i] = <<>> \/ Head(todo[i]).op # "rename"
=============================================================================
