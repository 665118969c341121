------------------------------ MODULE PeerNames ------------------------------
(***************************************************************************)
(* Nicknames: ci->nickname on the server, m_nickname and the peer cache of *)
(* each client, and the commands that name somebody, /nick and /msgn of    *)
(* the client, /msgn and /kickn of the operator.                           *)
(*                                                                         *)
(* A nickname is looked up in one place and acted on, by id, in another:   *)
(* the client's cache is as old as the last list it has read, and the      *)
(* operator's thread releases m_clients_mutex between find_client_by_nick  *)
(* and what it does with the result.  Nicknames are assigned without the   *)
(* mutex, so whoever scans the map reads them one at a time.               *)
(*                                                                         *)
(* What the server writes to an entry of the map goes to the descriptor    *)
(* number in it.  kick_client closes that number and leaves it in the      *)
(* entry until the handler removes it, so accept() may give the number to  *)
(* a newcomer in between: what is sent to the kicked client, its           *)
(* handler's recv() and its second close then meet the newcomer's socket.  *)
(***************************************************************************)
EXTENDS Naturals, Sequences, FiniteSetsExt

CONSTANTS
    Client,             \* client programs; each connects once
    Nick,               \* nicknames somebody chooses
    Configured,         \* the nickname in each program's configuration
    Default,            \* "client_" and the id, which nobody asks for
    MaxCommands,        \* bound on the commands typed, clients' and operator's
    Fd,                 \* the descriptor numbers of the server process
    Operator,           \* holds the mutex, beside the clients' handlers
    Free                \* nobody: no holder, no connection, no number

ASSUME NamesAssumption ==
    /\ MaxCommands \in Nat
    /\ Configured \in [Client -> Nick] /\ Default \notin Nick
    /\ Operator \notin Client /\ Free \notin Client \cup {Operator} \cup Fd

VARIABLES
    (* The server. *)
    m_next_id, m_clients,
    id, nickname,       \* ci->id (0 before accept) and ci->nickname
    sock,               \* ... and ci->sock, the number accept() returned
    fdTable,            \* the connection under each number
    accepted,           \* the connection accept_loop is about to register
    handlerPc, got,     \* client_loop, and the packet it has received
    rx,                 \* ... the connection its recv() reads
    mutex,              \* holder of m_clients_mutex
    scan,               \* the holder's walk through the map
    order,              \* the operator's command and the id it found
    kicked,             \* clients kicked: alive = false, socket closed
    (* The clients. *)
    status,             \* "off", "up" or "gone"
    m_nickname, peers,
    up, down,           \* unread packets of each stream
    typed, ordered,     \* commands so far, of the clients and the operator
    (* What happened. *)
    bore,               \* nicknames each session has had
    renamed,            \* clients that changed theirs
    crossed,            \* clients accepted under a kicked entry's number
    reached             \* what was meant for a nickname, and whom it reached

server   == <<m_next_id, m_clients, id, nickname>>
sockets  == <<sock, fdTable, accepted>>
handlers == <<handlerPc, got, rx>>
locks    == <<mutex, scan>>
clients  == <<status, m_nickname, peers>>
history  == <<bore, renamed, crossed, reached>>

vars == <<server, sockets, handlers, locks, order, kicked, clients, up, down, typed,
          ordered, history>>

Packet(type, nick, to) == [type |-> type, nick |-> nick, to |-> to]
Info(type, list) == [type |-> type, list |-> list]

NoPacket == Packet("NONE", Default, 0)
NoOrder  == [op |-> "none", nick |-> Default, id |-> 0]
NoScan   == [unread |-> {}, read |-> {}]

Entry == (Nat \ {0}) \X (Nick \cup {Default})

TypeOK ==
    /\ m_next_id \in Nat \ {0} /\ m_clients \subseteq Client
    /\ id \in [Client -> Nat] /\ nickname \in [Client -> Nick \cup {Default}]
    /\ sock \in [Client -> Fd \cup {Free}] /\ fdTable \in [Fd -> Client \cup {Free}]
    /\ accepted \in Client \cup {Free} /\ rx \in [Client -> Client \cup {Free}]
    /\ handlerPc \in [Client -> {"none", "loop", "enter", "recv", "dispatch", "list",
                                 "listing", "remove", "done"}]
    /\ mutex \in Client \cup {Operator, Free}
    /\ scan.unread \subseteq m_clients /\ scan.read \subseteq Entry
    /\ order.op \in {"none", "scan", "msgn", "kickn"} /\ order.id \in Nat
    /\ kicked \subseteq Client /\ crossed \subseteq Client
    /\ status \in [Client -> {"off", "up", "gone"}]
    /\ \A c \in Client : peers[c] \subseteq Entry
    /\ typed \in 0..MaxCommands /\ ordered \in 0..MaxCommands

Init ==
    /\ m_next_id = 1 /\ m_clients = {}
    /\ id = [c \in Client |-> 0]
    /\ nickname = [c \in Client |-> Default]
    /\ sock = [c \in Client |-> Free] /\ fdTable = [f \in Fd |-> Free]
    /\ accepted = Free /\ rx = [c \in Client |-> Free]
    /\ handlerPc = [c \in Client |-> "none"]
    /\ got = [c \in Client |-> NoPacket]
    /\ mutex = Free /\ scan = NoScan /\ order = NoOrder /\ kicked = {}
    /\ status = [c \in Client |-> "off"]
    /\ m_nickname = [c \in Client |-> Default]
    /\ peers = [c \in Client |-> {}]
    /\ up = [c \in Client |-> <<>>] /\ down = [c \in Client |-> <<>>]
    /\ typed = 0 /\ ordered = 0
    /\ bore = [c \in Client |-> {}]
    /\ renamed = {} /\ crossed = {} /\ reached = {}

-----------------------------------------------------------------------------
(* The map, the mutex, the descriptors and the streams. *)

MutexFree == mutex = Free

(* The connection under the number in the entry of c, if there is one.     *)
Denotes(c) == IF sock[c] \in Fd THEN fdTable[sock[c]] ELSE Free

(* sock_close: frees the numbers in these entries, whatever they denote.   *)
Close(entries) ==
    fdTable' = [f \in Fd |-> IF \E c \in entries : sock[c] = f THEN Free ELSE fdTable[f]]

(* net_send_packet to the numbers in these entries; what is sent to a      *)
(* closed number, or to a peer that is gone, is lost.  A newcomer whose    *)
(* number is in two entries gets the packet twice; twice the same list, or *)
(* the same message, at once tells it what one does.                       *)
Deliver(entries, packet) ==
    down' = [c \in Client |->
                IF status[c] = "up" /\ \E e \in entries : Denotes(e) = c
                THEN Append(down[c], packet) ELSE down[c]]

WithId(n) == {c \in m_clients : id[c] = n}

(* What was meant for nick was sent to these entries.                      *)
Reaches(nick, entries) ==
    reached' = reached \cup {[nick |-> nick, entry |-> e, conn |-> Denotes(e)] :
                                e \in {e \in entries : Denotes(e) # Free}}

(* The first in the order of ids with that nickname: find_peer_by_nick and *)
(* find_client_by_nick.                                                    *)
Found(list, nick) == {e[1] : e \in {e \in list : e[2] = nick}}

ScanBegin(t) ==
    /\ MutexFree
    /\ mutex' = t
    /\ scan' = [unread |-> m_clients, read |-> {}]

(* One entry of the map, while its handler may be assigning the nickname.  *)
ScanRead(t) ==
    /\ mutex = t /\ scan.unread # {}
    /\ LET c == CHOOSE c \in scan.unread : \A d \in scan.unread : id[c] <= id[d]
       IN scan' = [unread |-> scan.unread \ {c},
                   read |-> scan.read \cup {<<id[c], nickname[c]>>}]
    /\ UNCHANGED <<server, sockets, handlers, mutex, order, kicked, clients, up,
                   down, typed, ordered, history>>

ScanEnd(t) ==
    /\ mutex = t /\ scan.unread = {}
    /\ mutex' = Free /\ scan' = NoScan

-----------------------------------------------------------------------------
(* The server's threads. *)

NextId_Reused == Min(1..m_next_id \ {id[c] : c \in m_clients})

NextId == m_next_id

(* accept() returns a connection under a number that is free: maybe the    *)
(* one that the entry of a kicked client still has.                        *)
AcceptReturn(c, f) ==
    /\ status[c] # "off" /\ sock[c] = Free
    /\ accepted = Free /\ fdTable[f] = Free
    /\ accepted' = c
    /\ sock' = [sock EXCEPT ![c] = f]
    /\ fdTable' = [fdTable EXCEPT ![f] = c]
    /\ crossed' = IF \E e \in m_clients : sock[e] = f THEN crossed \cup {c} ELSE crossed
    /\ UNCHANGED <<server, handlers, locks, order, kicked, clients, up, down,
                   typed, ordered, bore, renamed, reached>>

(* Then accept_loop registers it under the mutex; there is room.           *)
AcceptRegister(c) ==
    /\ accepted = c
    /\ MutexFree
    /\ accepted' = Free
    /\ id' = [id EXCEPT ![c] = NextId]
    /\ m_next_id' = m_next_id + 1
    /\ m_clients' = m_clients \cup {c}
    /\ handlerPc' = [handlerPc EXCEPT ![c] = "loop"]
    /\ UNCHANGED <<nickname, sock, fdTable, got, rx, locks, order, kicked, clients,
                   up, down, typed, ordered, history>>

HandlerGoto(c, from, to) ==
    /\ handlerPc[c] = from
    /\ handlerPc' = [handlerPc EXCEPT ![c] = to]
    /\ UNCHANGED <<m_next_id, id, sock, accepted, order, kicked, clients, typed,
                   ordered, renamed, crossed>>

(* while (ci->alive)                                                       *)
HandlerTest(c) ==
    /\ HandlerGoto(c, "loop", IF c \in kicked THEN "remove" ELSE "enter")
    /\ UNCHANGED <<m_clients, nickname, fdTable, got, rx, locks, up, down, bore,
                   reached>>

(* net_recv_packet looks the number up and waits on the socket it finds;   *)
(* a packet is read as a whole.                                            *)
HandlerEnter(c) ==
    /\ HandlerGoto(c, "enter", "recv")
    /\ rx' = [rx EXCEPT ![c] = Denotes(c)]
    /\ UNCHANGED <<m_clients, nickname, fdTable, got, locks, up, down, bore, reached>>

HandlerRecv(c) ==
    /\ rx[c] # Free /\ up[rx[c]] # <<>>
    /\ HandlerGoto(c, "recv", "dispatch")
    /\ got' = [got EXCEPT ![c] = Head(up[rx[c]])]
    /\ up' = [up EXCEPT ![rx[c]] = Tail(@)]
    /\ rx' = [rx EXCEPT ![c] = Free]
    /\ UNCHANGED <<m_clients, nickname, fdTable, locks, down, bore, reached>>

(* A bad number, the peer gone (MSG_DISCONNECT is the end of the stream    *)
(* here), or the socket closed meanwhile, which wakes the reader on some   *)
(* systems.                                                                *)
HandlerRecvFail(c) ==
    /\ rx[c] # Free =>
          \/ status[rx[c]] = "gone" /\ up[rx[c]] = <<>>
          \/ \A f \in Fd : fdTable[f] # rx[c]
    /\ HandlerGoto(c, "recv", "remove")
    /\ rx' = [rx EXCEPT ![c] = Free]
    /\ UNCHANGED <<m_clients, nickname, fdTable, got, locks, up, down, bore, reached>>

Handled(c) == got' = [got EXCEPT ![c] = NoPacket]

ListRecipients_OnlySelf(c) == {c}

(* Who gets the list after MSG_CONNECT, MSG_CLIENT_LIST and MSG_NICK_SET.  *)
ListRecipients(c) == IF got[c].type = "NICK_SET" THEN Client ELSE {c}

(* MSG_CONNECT and MSG_NICK_SET assign the nickname, without the mutex;    *)
(* all three send a list.                                                  *)
HandleName(c) ==
    /\ got[c].type \in {"CONNECT", "NICK_SET", "CLIENT_LIST"}
    /\ HandlerGoto(c, "dispatch", "list")
    /\ IF got[c].type = "CLIENT_LIST" THEN UNCHANGED <<nickname, bore>>
       ELSE /\ nickname' = [nickname EXCEPT ![c] = got[c].nick]
            /\ bore' = [bore EXCEPT ![c] = @ \cup {got[c].nick}]
    /\ UNCHANGED <<m_clients, fdTable, got, rx, locks, up, down, reached>>

(* MSG_PRIVATE: to the number in the entry with that id, if there is one.  *)
HandlePrivate(c) ==
    /\ got[c].type = "PRIVATE"
    /\ MutexFree
    /\ HandlerGoto(c, "dispatch", "loop")
    /\ Deliver(WithId(got[c].to), Info("PRIVATE", {}))
    /\ Reaches(got[c].nick, WithId(got[c].to))
    /\ Handled(c)
    /\ UNCHANGED <<m_clients, nickname, fdTable, rx, locks, up, bore>>

(* send_client_list. *)
ListBegin(c) ==
    /\ HandlerGoto(c, "list", "listing")
    /\ ScanBegin(c)
    /\ UNCHANGED <<m_clients, nickname, fdTable, got, rx, up, down, bore, reached>>

ListSend(c) ==
    /\ HandlerGoto(c, "listing", "loop")
    /\ ScanEnd(c)
    /\ Deliver(ListRecipients(c) \cap m_clients, Info("LIST", scan.read))
    /\ Handled(c)
    /\ UNCHANGED <<m_clients, nickname, fdTable, rx, up, bore, reached>>

(* remove_client, which closes the number, again if the client was kicked. *)
HandlerRemove(c) ==
    /\ MutexFree
    /\ HandlerGoto(c, "remove", "done")
    /\ m_clients' = m_clients \ {c}
    /\ Close({c})
    /\ UNCHANGED <<nickname, got, rx, locks, up, down, bore, reached>>

Handler(c) ==
    \/ HandlerTest(c) \/ HandlerEnter(c) \/ HandlerRecv(c) \/ HandlerRecvFail(c)
    \/ HandleName(c) \/ HandlePrivate(c)
    \/ ListBegin(c) \/ ScanRead(c) \/ ListSend(c)
    \/ HandlerRemove(c)

OperatorUnchanged ==
    UNCHANGED <<server, sock, accepted, handlers, clients, up, typed, bore, renamed,
                crossed>>

(* /msgn and /kickn: find_client_by_nick ... *)
OperatorFind(nick) ==
    /\ order.op = "none" /\ typed + ordered < MaxCommands
    /\ ScanBegin(Operator)
    /\ order' = [op |-> "scan", nick |-> nick, id |-> 0]
    /\ ordered' = ordered + 1
    /\ OperatorUnchanged /\ UNCHANGED <<fdTable, kicked, down, reached>>

OperatorFound(op) ==
    /\ order.op = "scan"
    /\ ScanEnd(Operator)
    /\ LET found == Found(scan.read, order.nick) IN
       order' = IF found = {} THEN NoOrder
                ELSE [order EXCEPT !.op = op, !.id = Min(found)]
    /\ OperatorUnchanged /\ UNCHANGED <<fdTable, kicked, down, ordered, reached>>

(* ... and then, under the mutex again, send_text or kick_client, which    *)
(* writes to the number in the entry and closes it, again if it was kicked.*)
OperatorAct ==
    /\ order.op \in {"msgn", "kickn"}
    /\ MutexFree
    /\ order' = NoOrder
    /\ Reaches(order.nick, WithId(order.id))
    /\ IF order.op = "msgn"
       THEN Deliver(WithId(order.id), Info("PRIVATE", {})) /\ UNCHANGED <<kicked, fdTable>>
       ELSE /\ Deliver(WithId(order.id), Info("KICK", {}))
            /\ kicked' = kicked \cup WithId(order.id)
            /\ Close(WithId(order.id))
    /\ OperatorUnchanged /\ UNCHANGED <<locks, ordered>>

Console ==
    \/ \E nick \in Nick : OperatorFind(nick)
    \/ ScanRead(Operator)
    \/ OperatorFound("msgn") \/ OperatorFound("kickn")
    \/ OperatorAct

-----------------------------------------------------------------------------
(* The clients. *)

ClientUnchanged ==
    UNCHANGED <<server, sockets, handlers, locks, order, ordered, kicked, bore,
                crossed, reached>>

Send(c, packet) == up' = [up EXCEPT ![c] = Append(@, packet)]

(* Client::connect: the handshake is on its way before accept_loop runs.   *)
Connect(c) ==
    /\ status[c] = "off"
    /\ status' = [status EXCEPT ![c] = "up"]
    /\ m_nickname' = [m_nickname EXCEPT ![c] = Configured[c]]
    /\ Send(c, Packet("CONNECT", Configured[c], 0))
    /\ ClientUnchanged /\ UNCHANGED <<peers, down, typed, renamed>>

Type(c) ==
    /\ status[c] = "up" /\ typed + ordered < MaxCommands
    /\ typed' = typed + 1
    /\ ClientUnchanged /\ UNCHANGED <<status, peers, down>>

TypeNick(c, nick) ==
    /\ Type(c)
    /\ m_nickname' = [m_nickname EXCEPT ![c] = nick]
    /\ renamed' = renamed \cup {c}
    /\ Send(c, Packet("NICK_SET", nick, 0))

TypeMsgn(c, nick) ==
    /\ Found(peers[c], nick) # {}
    /\ Type(c)
    /\ Send(c, Packet("PRIVATE", nick, Min(Found(peers[c], nick))))
    /\ UNCHANGED <<m_nickname, renamed>>

TypeList(c) ==
    /\ Type(c)
    /\ Send(c, Packet("CLIENT_LIST", Default, 0))
    /\ UNCHANGED <<m_nickname, renamed>>

(* The end of the program: disconnect(), or MSG_KICK and then disconnect().*)
Ends(c) ==
    /\ status' = [status EXCEPT ![c] = "gone"]
    /\ down' = [down EXCEPT ![c] = <<>>]
    /\ peers' = [peers EXCEPT ![c] = {}]
    /\ ClientUnchanged /\ UNCHANGED <<m_nickname, up, typed, renamed>>

Quit(c) == status[c] = "up" /\ Ends(c)

(* The server has closed the socket, which the client notices sooner or    *)
(* later, with or without having read what was sent before.                *)
Dropped(c) == status[c] = "up" /\ sock[c] # Free /\ Denotes(c) # c /\ Ends(c)

ReceiveKick(c) ==
    /\ status[c] = "up" /\ down[c] # <<>> /\ Head(down[c]).type = "KICK"
    /\ Ends(c)

(* handle_packet and parse_client_list; messages are printed.              *)
ReceiveOther(c) ==
    /\ status[c] = "up" /\ down[c] # <<>> /\ Head(down[c]).type # "KICK"
    /\ peers' = IF Head(down[c]).type = "LIST"
                THEN [peers EXCEPT ![c] = Head(down[c]).list] ELSE peers
    /\ down' = [down EXCEPT ![c] = Tail(@)]
    /\ ClientUnchanged /\ UNCHANGED <<status, m_nickname, up, typed, renamed>>

Receive(c) == ReceiveKick(c) \/ ReceiveOther(c) \/ Dropped(c)

User(c) ==
    \/ Connect(c) \/ TypeList(c) \/ Quit(c)
    \/ \E nick \in Nick : TypeNick(c, nick) \/ TypeMsgn(c, nick)

Next ==
    \/ \E c \in Client, f \in Fd : AcceptReturn(c, f)
    \/ \E c \in Client : AcceptRegister(c) \/ Handler(c) \/ User(c) \/ Receive(c)
    \/ Console

Spec == Init /\ [][Next]_vars

-----------------------------------------------------------------------------
(* Properties. *)

(* A client whose descriptor number nobody else's entry has ever had while *)
(* it was connected: it was not kicked, nor accepted under the number that *)
(* a kicked client's entry still had.                                      *)
Clean(c) == c \notin kicked \cup crossed

(* Everything a client sent is handled and everything sent to it is read.  *)
Settled(c) ==
    /\ status[c] = "up" /\ Clean(c)
    /\ handlerPc[c] = "recv" /\ up[c] = <<>> /\ down[c] = <<>>

(* The name a client gave itself with /nick is the one, and the only one,  *)
(* that the cache of every settled client has for it, in whatever order    *)
(* nicknames were assigned, lists serialised and clients registered, and   *)
(* whatever the operator's kicks did to the sockets of others.             *)
PeersKnowRename ==
    \A i, j \in Client :
        Settled(i) /\ Settled(j) /\ i \in renamed
            => {e \in peers[j] : e[1] = id[i]} = {<<id[i], m_nickname[i]>>}

(* What was meant for a nickname, by a client whose cache is stale or an   *)
(* operator who released the mutex, is sent to the entry of a client that  *)
(* has or had that nickname, never of one that came later; and it arrives  *)
(* there, unless the entry's number is a kicked client's, by its own kick  *)
(* or by acceptance, and somebody accepted under such a number has it.     *)
ReachesBearer ==
    \A r \in reached :
        /\ r.nick \in bore[r.entry]
        /\ r.conn = r.entry \/ (r.conn \in crossed /\ ~ Clean(r.entry))

-----------------------------------------------------------------------------
(* What the help says and the code does not do. *)

(* "/kickn <nick> - Kick a client by nickname" (server.cpp:1111): who is   *)
(* kicked has that nickname.                                               *)
KicksBearer ==
    [][\A c \in kicked' \ kicked : nickname[c] = order.nick]_vars
=============================================================================
