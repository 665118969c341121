--------------------------- MODULE ServerSessions ---------------------------
(***************************************************************************)
(* The life of client sessions in src/src/server.cpp: the accept thread,   *)
(* one detached handler thread per client, the keepalive thread, and the   *)
(* operator's thread (run_cli, kick_client, stop).                         *)
(*                                                                         *)
(* Two operating-system facts matter and are part of the model.  A socket  *)
(* is named by a descriptor number, and closing it frees the number for    *)
(* the next accept().  A thread already blocked on a socket holds it: a    *)
(* close by another thread wakes it with closesocket() (Windows) and does  *)
(* not with close() (Linux); CloseWakes says which build is modelled.      *)
(*                                                                         *)
(* A section of code under m_clients_mutex is one step: m_clients, and the *)
(* descriptors in it, are only touched under that mutex, and nothing here  *)
(* waits while holding it.  What the code does outside the mutex (test     *)
(* alive, enter recv(), return from accept(), join) is a step of its own.  *)
(***************************************************************************)
EXTENDS Naturals, FiniteSets

CONSTANTS
    Conn,               \* the connections that peers may open, one each
    Fd,                 \* the descriptor numbers of the server process
    MaxClients,         \* g_config.max_clients
    MaxId,              \* bound on the ids handed out
    Keepalive,          \* g_config.keepalive
    CloseWakes,         \* does closing a socket wake a thread blocked on it?
    Packet,             \* what the packets of peers do to their session
    None                \* no connection, no descriptor, no packet

ASSUME ServerAssumption ==
    /\ MaxClients \in Nat /\ MaxId \in Nat
    /\ Keepalive \in BOOLEAN /\ CloseWakes \in BOOLEAN
    /\ Packet \subseteq {"DISCONNECT", "MESSAGE"}
    /\ None \notin Conn /\ None \notin Fd /\ None \notin Packet

(* "DISCONNECT" stands for MSG_DISCONNECT and for a MSG_CONNECT whose      *)
(* access key is refused, which clear alive; "MESSAGE" for every other     *)
(* packet, which only makes the server send.                               *)

Id == 1..MaxId

VARIABLES
    (* The peers and the network. *)
    conn,               \* state of each connection, at the peer's end
    backlog,            \* connections that completed and await accept()
    inbox,              \* the unread packet of each connection
    (* The descriptor table of the server process. *)
    fdTable,
    (* Fields of Server. *)
    m_running,
    m_listen_sock,      \* "open" or "closed"
    m_next_id,
    m_clients,          \* the ids in the map
    (* Fields of each ClientInfo, and whether it was deleted. *)
    sock, ip, alive, freed,
    (* Threads. *)
    acceptPc,           \* accept_loop
    cs, peer_ip,        \* ... its locals: the accepted descriptor and peer
    handlerPc,          \* client_loop, per id
    rx,                 \* ... the connection its recv() is blocked on
    keepalivePc,        \* keepalive_loop
    operatorPc,         \* run_cli and stop
    (* History: what was done to or for a session. *)
    kicked,             \* ids kick_client found
    announced           \* ids whose departure was broadcast

network   == <<conn, backlog, inbox>>
client    == <<sock, ip, alive, freed>>
acceptor  == <<acceptPc, cs, peer_ip>>
handler   == <<handlerPc, rx>>
history   == <<kicked, announced>>

vars == <<network, fdTable, m_running, m_listen_sock, m_next_id, m_clients,
          client, acceptor, handler, keepalivePc, operatorPc, history>>

TypeOK ==
    /\ conn \in [Conn -> {"idle", "open", "vanished", "expiring", "closed"}]
    /\ backlog \subseteq Conn
    /\ inbox \in [Conn -> Packet \cup {None}]
    /\ fdTable \in [Fd -> Conn \cup {None}]
    /\ m_running \in BOOLEAN
    /\ m_listen_sock \in {"open", "closed"}
    /\ m_next_id \in 1..(MaxId + 1)
    /\ m_clients \subseteq Id
    /\ sock \in [Id -> Fd \cup {None}]
    /\ ip \in [Id -> Conn \cup {None}]
    /\ alive \in [Id -> BOOLEAN]
    /\ freed \subseteq Id
    /\ acceptPc \in {"test", "call", "accept", "register", "done"}
    /\ cs \in Fd \cup {None}
    /\ peer_ip \in Conn \cup {None}
    /\ handlerPc \in [Id -> {"none", "greet", "test", "enter", "recv", "bye",
                             "remove", "done"}]
    /\ rx \in [Id -> Conn \cup {None}]
    /\ keepalivePc \in {"off", "sleep", "ping", "done"}
    /\ operatorPc \in {"idle", "close_listen", "close_clients", "join_accept",
                       "join_keepalive", "free", "stopped"}
    /\ kicked \subseteq Id
    /\ announced \subseteq Id

(* The state start() leaves. *)
Init ==
    /\ conn = [p \in Conn |-> "idle"]
    /\ backlog = {}
    /\ inbox = [p \in Conn |-> None]
    /\ fdTable = [f \in Fd |-> None]
    /\ m_running = TRUE
    /\ m_listen_sock = "open"
    /\ m_next_id = 1
    /\ m_clients = {}
    /\ sock = [id \in Id |-> None]
    /\ ip = [id \in Id |-> None]
    /\ alive = [id \in Id |-> FALSE]
    /\ freed = {}
    /\ acceptPc = "test"
    /\ cs = None
    /\ peer_ip = None
    /\ handlerPc = [id \in Id |-> "none"]
    /\ rx = [id \in Id |-> None]
    /\ keepalivePc = IF Keepalive THEN "sleep" ELSE "off"
    /\ operatorPc = "idle"
    /\ kicked = {}
    /\ announced = {}

-----------------------------------------------------------------------------
(* Sockets. *)

(* The connection that session id's descriptor denotes now. *)
Denotes(id) == IF sock[id] \in Fd THEN fdTable[sock[id]] ELSE None

(* sock_close(): frees the number, whatever it denotes.  A second close of *)
(* a free number fails with EBADF and changes nothing.                     *)
Close(fds) == fdTable' = [f \in Fd |-> IF f \in fds THEN None ELSE fdTable[f]]

(* net_send_packet() to each session of ids.  A vanished peer acknowledges *)
(* nothing, so a send starts the retransmissions that end its connection.  *)
Send(ids) ==
    conn' = [p \in Conn |->
                IF conn[p] = "vanished" /\ \E id \in ids : Denotes(id) = p
                THEN "expiring" ELSE conn[p]]

-----------------------------------------------------------------------------
(* Peers and network. *)

(* The kernel listens as long as some thread holds the listening socket.   *)
Listening ==
    \/ m_listen_sock = "open"
    \/ ~CloseWakes /\ acceptPc = "accept"

PeerConnect(p) ==
    /\ conn[p] = "idle" /\ Listening
    /\ conn' = [conn EXCEPT ![p] = "open"]
    /\ backlog' = backlog \cup {p}
    /\ UNCHANGED <<inbox, fdTable, m_running, m_listen_sock, m_next_id,
                   m_clients, client, acceptor, handler, keepalivePc,
                   operatorPc, history>>

PeerSend(p, packet) ==
    /\ conn[p] = "open" /\ inbox[p] = None
    /\ inbox' = [inbox EXCEPT ![p] = packet]
    /\ UNCHANGED <<conn, backlog, fdTable, m_running, m_listen_sock, m_next_id,
                   m_clients, client, acceptor, handler, keepalivePc,
                   operatorPc, history>>

(* The peer closes or resets, or its host dies without a word, or the      *)
(* server's TCP gives up on retransmitting to it.                          *)
PeerGone(p, from, to) ==
    /\ conn[p] = from
    /\ conn' = [conn EXCEPT ![p] = to]
    /\ UNCHANGED <<backlog, inbox, fdTable, m_running, m_listen_sock,
                   m_next_id, m_clients, client, acceptor, handler,
                   keepalivePc, operatorPc, history>>

PeerClose(p)  == PeerGone(p, "open", "closed")
PeerVanish(p) == PeerGone(p, "open", "vanished")
TcpGiveUp(p)  == PeerGone(p, "expiring", "closed")

-----------------------------------------------------------------------------
(* accept_loop. *)

AcceptGoto(pc) ==
    /\ acceptPc' = pc
    /\ UNCHANGED <<inbox, m_running, m_listen_sock, kicked, announced,
                   keepalivePc, operatorPc, rx, freed>>

(* while (m_running) *)
AcceptTest ==
    /\ acceptPc = "test"
    /\ AcceptGoto(IF m_running THEN "call" ELSE "done")
    /\ UNCHANGED <<conn, backlog, fdTable, m_next_id, m_clients, sock, ip,
                   alive, cs, peer_ip, handlerPc>>

(* net_accept() is called while the socket is open, and blocks.            *)
AcceptCall ==
    /\ acceptPc = "call" /\ m_listen_sock = "open"
    /\ AcceptGoto("accept")
    /\ UNCHANGED <<conn, backlog, fdTable, m_next_id, m_clients, sock, ip,
                   alive, cs, peer_ip, handlerPc>>

(* It returns a connection under a number that is free.                    *)
AcceptReturn(p, f) ==
    /\ acceptPc = "accept" /\ Listening
    /\ p \in backlog /\ fdTable[f] = None
    /\ backlog' = backlog \ {p}
    /\ fdTable' = [fdTable EXCEPT ![f] = p]
    /\ cs' = f
    /\ peer_ip' = p
    /\ AcceptGoto("register")
    /\ UNCHANGED <<conn, m_next_id, m_clients, sock, ip, alive, handlerPc>>

(* It fails: the socket was closed before the call, or during it in a      *)
(* build whose close wakes the thread, or no number is free.  break if     *)
(* !m_running, else continue.                                              *)
AcceptFail ==
    /\ \/ acceptPc = "call" /\ m_listen_sock = "closed"
       \/ acceptPc = "accept" /\ m_listen_sock = "closed" /\ CloseWakes
       \/ acceptPc = "accept" /\ backlog # {} /\ \A f \in Fd : fdTable[f] # None
    /\ AcceptGoto(IF m_running THEN "test" ELSE "done")
    /\ UNCHANGED <<conn, backlog, fdTable, m_next_id, m_clients, sock, ip,
                   alive, cs, peer_ip, handlerPc>>

Full_OffByOne == Cardinality(m_clients) > MaxClients

Full == Cardinality(m_clients) >= MaxClients

(* Under the mutex, at capacity: "Server full" and close.                  *)
AcceptReject ==
    /\ acceptPc = "register"
    /\ Full
    /\ Close({cs})
    /\ cs' = None
    /\ peer_ip' = None
    /\ AcceptGoto("test")
    /\ UNCHANGED <<conn, backlog, m_next_id, m_clients, sock, ip, alive,
                   handlerPc>>

NewClient_KeyOffByOne(id) ==
    /\ sock' = [sock EXCEPT ![id] = cs]
    /\ ip' = [ip EXCEPT ![id] = peer_ip]
    /\ alive' = [alive EXCEPT ![id] = TRUE]
    /\ m_clients' = m_clients \cup {id - 1}
    /\ handlerPc' = [handlerPc EXCEPT ![id] = "greet"]

NewClient(id) ==
    /\ sock' = [sock EXCEPT ![id] = cs]
    /\ ip' = [ip EXCEPT ![id] = peer_ip]
    /\ alive' = [alive EXCEPT ![id] = TRUE]
    /\ m_clients' = m_clients \cup {id}
    /\ handlerPc' = [handlerPc EXCEPT ![id] = "greet"]

(* Under the mutex, with room: a new ClientInfo and a detached handler.    *)
AcceptRegister ==
    /\ acceptPc = "register"
    /\ ~Full
    /\ m_next_id <= MaxId
    /\ m_next_id' = m_next_id + 1
    /\ NewClient(m_next_id)
    /\ cs' = None
    /\ peer_ip' = None
    /\ AcceptGoto("test")
    /\ UNCHANGED <<conn, backlog, fdTable>>

-----------------------------------------------------------------------------
(* client_loop. *)

HandlerGoto(id, from, to) ==
    /\ handlerPc[id] = from
    /\ handlerPc' = [handlerPc EXCEPT ![id] = to]
    /\ UNCHANGED <<backlog, m_running, m_listen_sock, m_next_id, sock, ip,
                   freed, acceptor, keepalivePc, operatorPc, kicked>>

(* MSG_SERVER_INFO: the message of the day and YOUR_ID, without the mutex. *)
HandlerGreet(id) ==
    /\ HandlerGoto(id, "greet", "test")
    /\ Send({id})
    /\ UNCHANGED <<inbox, fdTable, m_clients, alive, rx, announced>>

HandlerTest_SkipsBye(id) ==
    /\ HandlerGoto(id, "test",
                   IF alive[id] /\ m_running THEN "enter" ELSE "remove")
    /\ UNCHANGED <<conn, inbox, fdTable, m_clients, alive, rx, announced>>

(* while (ci->alive && m_running) *)
HandlerTest(id) ==
    /\ HandlerGoto(id, "test", IF alive[id] /\ m_running THEN "enter" ELSE "bye")
    /\ UNCHANGED <<conn, inbox, fdTable, m_clients, alive, rx, announced>>

(* net_recv_packet(ci->sock) looks the descriptor up when it is called...  *)
HandlerEnterRecv(id) ==
    /\ HandlerGoto(id, "enter", "recv")
    /\ rx' = [rx EXCEPT ![id] = Denotes(id)]
    /\ UNCHANGED <<conn, inbox, fdTable, m_clients, alive, announced>>

(* ... returns a packet, which handle_packet() dispatches: it may answer   *)
(* the sender, another client, the others or all of them ...               *)
HandlerPacket(id, recipients) ==
    /\ HandlerGoto(id, "recv", "test")
    /\ rx[id] # None /\ inbox[rx[id]] # None
    /\ alive' = [alive EXCEPT ![id] = @ /\ inbox[rx[id]] # "DISCONNECT"]
    /\ inbox' = [inbox EXCEPT ![rx[id]] = None]
    /\ rx' = [rx EXCEPT ![id] = None]
    /\ Send(recipients)
    /\ UNCHANGED <<fdTable, m_clients, announced>>

HandlerRecvFail_Continues(id) ==
    /\ HandlerGoto(id, "recv", "test")
    /\ rx[id] # None =>
          \/ conn[rx[id]] = "closed" /\ inbox[rx[id]] = None
          \/ CloseWakes /\ \A f \in Fd : fdTable[f] # rx[id]
    /\ rx' = [rx EXCEPT ![id] = None]
    /\ UNCHANGED <<conn, inbox, fdTable, m_clients, alive, announced>>

(* ... or fails: a bad descriptor, the peer gone, or the socket closed     *)
(* under a build whose close wakes the reader.                             *)
HandlerRecvFail(id) ==
    /\ HandlerGoto(id, "recv", "bye")
    /\ rx[id] # None =>
          \/ conn[rx[id]] = "closed" /\ inbox[rx[id]] = None
          \/ CloseWakes /\ \A f \in Fd : fdTable[f] # rx[id]
    /\ rx' = [rx EXCEPT ![id] = None]
    /\ UNCHANGED <<conn, inbox, fdTable, m_clients, alive, announced>>

HandlerBye_ClosesSocket(id) ==
    /\ HandlerGoto(id, "bye", "remove")
    /\ Send(m_clients)
    /\ Close({sock[id]})
    /\ announced' = announced \cup {id}
    /\ UNCHANGED <<inbox, m_clients, alive, rx>>

(* broadcast_text("... left the server."), under the mutex, to everyone.   *)
HandlerBye(id) ==
    /\ HandlerGoto(id, "bye", "remove")
    /\ Send(m_clients)
    /\ announced' = announced \cup {id}
    /\ UNCHANGED <<inbox, fdTable, m_clients, alive, rx>>

RemoveClient_SkipsDead(id) ==
    IF id \in m_clients /\ alive[id]
    THEN Close({sock[id]}) /\ m_clients' = m_clients \ {id}
    ELSE UNCHANGED <<fdTable, m_clients>>

RemoveClient_LeaksSocket(id) ==
    m_clients' = m_clients \ {id} /\ UNCHANGED fdTable

(* remove_client(ci->id), under the mutex: close and erase if still there. *)
RemoveClient(id) ==
    /\ IF id \in m_clients THEN Close({sock[id]}) ELSE UNCHANGED fdTable
    /\ m_clients' = m_clients \ {id}

HandlerRemove(id) ==
    /\ HandlerGoto(id, "remove", "done")
    /\ RemoveClient(id)
    /\ UNCHANGED <<conn, inbox, alive, rx, announced>>

-----------------------------------------------------------------------------
(* keepalive_loop. *)

(* The sleep ends, by its interval or because m_running fell.              *)
KeepaliveWake ==
    /\ keepalivePc = "sleep"
    /\ keepalivePc' = IF m_running THEN "ping" ELSE "done"
    /\ UNCHANGED <<network, fdTable, m_running, m_listen_sock, m_next_id,
                   m_clients, client, acceptor, handler, operatorPc, history>>

KeepalivePing_SendsNothing ==
    /\ keepalivePc = "ping"
    /\ keepalivePc' = "sleep"
    /\ UNCHANGED <<network, fdTable, m_running, m_listen_sock, m_next_id,
                   m_clients, client, acceptor, handler, operatorPc, history>>

(* MSG_PING to every client, under the mutex.                              *)
KeepalivePing ==
    /\ keepalivePc = "ping"
    /\ keepalivePc' = "sleep"
    /\ Send(m_clients)
    /\ UNCHANGED <<backlog, inbox, fdTable, m_running, m_listen_sock,
                   m_next_id, m_clients, client, acceptor, handler,
                   operatorPc, history>>

-----------------------------------------------------------------------------
(* The operator's thread. *)

(* kick_client(id), under the mutex: MSG_KICK, alive = false, close.  The  *)
(* entry stays until its handler removes it, and may be kicked again.      *)
KickClient(id) ==
    /\ operatorPc = "idle"
    /\ id \in m_clients
    /\ Send({id})
    /\ alive' = [alive EXCEPT ![id] = FALSE]
    /\ Close({sock[id]})
    /\ kicked' = kicked \cup {id}
    /\ UNCHANGED <<backlog, inbox, m_running, m_listen_sock, m_next_id,
                   m_clients, sock, ip, freed, acceptor, handler, keepalivePc,
                   operatorPc, announced>>

StopGoto(from, to) ==
    /\ operatorPc = from
    /\ operatorPc' = to
    /\ UNCHANGED <<network, m_next_id, sock, ip, acceptor, handler,
                   keepalivePc, history>>

(* stop(): m_running = false ... *)
StopBegin ==
    /\ StopGoto("idle", "close_listen")
    /\ m_running' = FALSE
    /\ UNCHANGED <<fdTable, m_listen_sock, m_clients, alive, freed>>

StopCloseListen_LeavesOpen ==
    /\ StopGoto("close_listen", "close_clients")
    /\ UNCHANGED <<m_listen_sock, fdTable, m_running, m_clients, alive, freed>>

(* ... the listening socket ... *)
StopCloseListen ==
    /\ StopGoto("close_listen", "close_clients")
    /\ m_listen_sock' = "closed"
    /\ UNCHANGED <<fdTable, m_running, m_clients, alive, freed>>

StopCloseClients_OnlyFlags ==
    /\ StopGoto("close_clients", "join_accept")
    /\ alive' = [id \in Id |-> alive[id] /\ id \notin m_clients]
    /\ UNCHANGED <<fdTable, m_running, m_listen_sock, m_clients, freed>>

(* ... under the mutex, every client flagged and closed ... *)
StopCloseClients ==
    /\ StopGoto("close_clients", "join_accept")
    /\ alive' = [id \in Id |-> alive[id] /\ id \notin m_clients]
    /\ Close({sock[id] : id \in m_clients})
    /\ UNCHANGED <<m_running, m_listen_sock, m_clients, freed>>

StopJoinAccept_DoesNotWait ==
    /\ StopGoto("join_accept", "join_keepalive")
    /\ UNCHANGED <<fdTable, m_running, m_listen_sock, m_clients, alive, freed>>

(* ... the two joins ... *)
StopJoinAccept ==
    /\ acceptPc = "done"
    /\ StopGoto("join_accept", "join_keepalive")
    /\ UNCHANGED <<fdTable, m_running, m_listen_sock, m_clients, alive, freed>>

StopJoinKeepalive ==
    /\ keepalivePc \in {"off", "done"}
    /\ StopGoto("join_keepalive", "free")
    /\ UNCHANGED <<fdTable, m_running, m_listen_sock, m_clients, alive, freed>>

(* ... and under the mutex, every ClientInfo deleted and the map cleared.  *)
(* The handlers are detached, so thread.joinable() is false and none of    *)
(* them is waited for.                                                     *)
StopFree ==
    /\ StopGoto("free", "stopped")
    /\ freed' = freed \cup m_clients
    /\ m_clients' = {}
    /\ UNCHANGED <<fdTable, m_running, m_listen_sock, alive>>

-----------------------------------------------------------------------------
Accept ==
    \/ AcceptTest \/ AcceptCall \/ AcceptFail \/ AcceptReject \/ AcceptRegister
    \/ \E p \in Conn, f \in Fd : AcceptReturn(p, f)

(* Whom one packet can make the server write to.                           *)
Recipients(id) ==
    {{}, m_clients, m_clients \ {id}} \cup {{other} : other \in m_clients \cup {id}}

Handler(id) ==
    \/ HandlerGreet(id) \/ HandlerTest(id) \/ HandlerEnterRecv(id)
    \/ \E recipients \in Recipients(id) : HandlerPacket(id, recipients)
    \/ HandlerRecvFail(id) \/ HandlerBye(id) \/ HandlerRemove(id)

KeepaliveLoop == KeepaliveWake \/ KeepalivePing

Stop ==
    \/ StopCloseListen \/ StopCloseClients \/ StopJoinAccept
    \/ StopJoinKeepalive \/ StopFree

Peer(p) ==
    \/ PeerConnect(p) \/ \E packet \in Packet : PeerSend(p, packet)
    \/ PeerClose(p) \/ PeerVanish(p) \/ TcpGiveUp(p)

Next ==
    \/ \E p \in Conn : Peer(p)
    \/ Accept
    \/ \E id \in Id : Handler(id)
    \/ KeepaliveLoop
    \/ \E id \in Id : KickClient(id)
    \/ StopBegin \/ Stop

(* Threads run: each takes its next step when it can, and a thread that    *)
(* keeps asking for the mutex gets it.  Peers, the operator's kicks and    *)
(* the start of stop() are free to happen or not; TCP gives up at last.    *)
Fairness ==
    /\ WF_vars(Accept) /\ WF_vars(KeepaliveWake) /\ WF_vars(KeepalivePing)
    /\ WF_vars(Stop)
    /\ \A id \in Id : WF_vars(Handler(id))
    /\ \A p \in Conn : WF_vars(TcpGiveUp(p))

Spec == Init /\ [][Next]_vars

FairSpec == Spec /\ Fairness

-----------------------------------------------------------------------------
(* Safety. *)

(* The map never outgrows max_clients, whatever accept() and the handlers  *)
(* interleave: the test and the insertion in accept_loop are one section.  *)
Capacity == Cardinality(m_clients) <= MaxClients

(* Until stop() clears the map, an id is in it exactly as long as its      *)
(* handler thread serves it: no listed client without a thread, no thread  *)
(* whose client the server no longer knows, on any exit of client_loop.    *)
RegisteredWhileServed ==
    IF operatorPc = "stopped" THEN m_clients = {}
    ELSE \A id \in Id :
            id \in m_clients <=> handlerPc[id] \notin {"none", "done"}

(* Until stop() clears the map, every open descriptor is reachable: it is  *)
(* the one accept_loop is registering, or that of a client in the map.     *)
DescriptorsReachable ==
    operatorPc # "stopped" =>
        \A f \in Fd : fdTable[f] # None =>
            f = cs \/ \E id \in m_clients : sock[id] = f

(* As long as nobody was kicked and stop() has not closed the clients, the *)
(* descriptor of every client in the map denotes the connection it was     *)
(* accepted on: reuse of numbers by accept() never crosses two clients.    *)
SocketsOwnUntilKick ==
    kicked = {} /\ operatorPc \in {"idle", "close_listen", "close_clients"} =>
        \A id \in m_clients : Denotes(id) = ip[id]

(* A client leaves the map only after its departure was broadcast, except  *)
(* by stop(); and the broadcast finds the client still in the map, so that *)
(* nobody is told of a departure whose id is already unknown.              *)
DeparturesAnnounced ==
    [][\A id \in Id :
          /\ id \in m_clients \ m_clients' => id \in announced \/ operatorPc = "free"
          /\ id \in announced' \ announced => id \in m_clients \/ operatorPc = "stopped"
      ]_vars

(* The sessions implement the abstract registry: admission below capacity  *)
(* under fresh ids, departures one by one, and nothing after a shutdown,   *)
(* not even a connection that accept() returned while stop() was running.  *)
R == INSTANCE Registry WITH registered <- m_clients, nextId <- m_next_id,
                            open <- operatorPc # "stopped"

ImplementsRegistry == R!Spec

-----------------------------------------------------------------------------
(* Liveness. *)

(* A client whose peer closed is removed, unless someone was kicked (its   *)
(* handler may then be reading another client's descriptor).               *)
ClosedPeerRemoved ==
    \A id \in Id :
        (id \in m_clients /\ conn[ip[id]] = "closed")
            ~> (id \notin m_clients \/ kicked # {})

(* A client whose host died silently is removed too: the keepalive ping    *)
(* makes the connection fail even when no one says anything.               *)
VanishedPeerRemoved ==
    \A id \in Id :
        (id \in m_clients /\ conn[ip[id]] = "vanished")
            ~> (id \notin m_clients \/ kicked # {} \/ ~m_running)

(* stop() returns. *)
StopTerminates == operatorPc = "close_listen" ~> operatorPc = "stopped"

(* ... and, if nobody was kicked, every handler thread ends as well.       *)
HandlersEndAfterStop ==
    operatorPc = "close_listen" ~>
        (kicked # {} \/ \A id \in Id : handlerPc[id] \in {"none", "done"})

-----------------------------------------------------------------------------
(* What the comments say and the code does not do. *)

(* "Each instance owns the client's socket ... for its lifetime"           *)
(* (server.hpp): the socket of a client in the map that nobody kicked is   *)
(* not closed under it while the server runs.                              *)
OwnsSocketForLifetime ==
    operatorPc = "idle" =>
        \A id \in m_clients \ kicked : Denotes(id) = ip[id]

(* "The client's receive thread will subsequently detect the closed socket *)
(* and exit" (kick_client).                                                *)
KickedHandlerExits ==
    \A id \in Id : id \in kicked ~> handlerPc[id] = "done"

(* "Finally iterates over all client entries to join their threads and     *)
(* free heap memory" (stop): no ClientInfo is freed under a running thread.*)
FreedAfterHandler == \A id \in freed : handlerPc[id] = "done"

(* stop() "release[s] all resources": once it and the handlers have ended, *)
(* no client socket is left open.                                          *)
StopReleasesSockets ==
    operatorPc = "stopped" /\ (\A id \in Id : handlerPc[id] \in {"none", "done"})
        => \A f \in Fd : fdTable[f] = None
=============================================================================
