------------------------ MODULE ServerSessionsProofs ------------------------
(***************************************************************************)
(* Theorems about ServerSessions, for every set of connections and of      *)
(* descriptors, every capacity and both kinds of build.                    *)
(***************************************************************************)
EXTENDS ServerSessions, TLAPS, FiniteSetTheorems

-----------------------------------------------------------------------------
(* Type correctness. *)

LEMMA InitType == Init => TypeOK
BY ServerAssumption DEF Init, TypeOK, Id

(* What the helpers of the socket section preserve. *)
LEMMA SendType ==
    ASSUME TypeOK, NEW ids, Send(ids)
    PROVE  conn' \in [Conn -> {"idle", "open", "vanished", "expiring", "closed"}]
BY DEF TypeOK, Send

LEMMA CloseType ==
    ASSUME TypeOK, NEW fds, Close(fds)
    PROVE  fdTable' \in [Fd -> Conn \cup {None}]
BY DEF TypeOK, Close

LEMMA DenotesType ==
    ASSUME TypeOK, NEW id \in Id
    PROVE  Denotes(id) \in Conn \cup {None}
BY DEF TypeOK, Denotes

LEMMA PeerType == ASSUME TypeOK, NEW p \in Conn, Peer(p) PROVE TypeOK'
<1>1. CASE PeerConnect(p)
  BY <1>1 DEF TypeOK, PeerConnect, client, acceptor, handler, history
<1>2. ASSUME NEW packet \in Packet, PeerSend(p, packet) PROVE TypeOK'
  BY <1>2 DEF TypeOK, PeerSend, client, acceptor, handler, history
<1>3. CASE PeerClose(p)
  BY <1>3 DEF TypeOK, PeerClose, PeerGone, client, acceptor, handler, history
<1>4. CASE PeerVanish(p)
  BY <1>4 DEF TypeOK, PeerVanish, PeerGone, client, acceptor, handler, history
<1>5. CASE TcpGiveUp(p)
  BY <1>5 DEF TypeOK, TcpGiveUp, PeerGone, client, acceptor, handler, history
<1> QED BY <1>1, <1>2, <1>3, <1>4, <1>5 DEF Peer

LEMMA AcceptType == ASSUME TypeOK, Accept PROVE TypeOK'
<1>1. CASE AcceptTest
  BY <1>1 DEF TypeOK, AcceptTest, AcceptGoto
<1>2. CASE AcceptCall
  BY <1>2 DEF TypeOK, AcceptCall, AcceptGoto
<1>3. CASE AcceptFail
  BY <1>3 DEF TypeOK, AcceptFail, AcceptGoto
<1>4. CASE AcceptReject
  BY <1>4, CloseType DEF TypeOK, AcceptReject, AcceptGoto
<1>5. CASE AcceptRegister
  BY <1>5, ServerAssumption DEF TypeOK, AcceptRegister, NewClient, AcceptGoto, Id
<1>6. ASSUME NEW p \in Conn, NEW f \in Fd, AcceptReturn(p, f) PROVE TypeOK'
  BY <1>6 DEF TypeOK, AcceptReturn, AcceptGoto
<1> QED BY <1>1, <1>2, <1>3, <1>4, <1>5, <1>6 DEF Accept

LEMMA HandlerType == ASSUME TypeOK, NEW id \in Id, Handler(id) PROVE TypeOK'
<1>1. CASE HandlerGreet(id)
  BY <1>1, SendType DEF TypeOK, HandlerGreet, HandlerGoto, acceptor
<1>2. CASE HandlerTest(id)
  BY <1>2 DEF TypeOK, HandlerTest, HandlerGoto, acceptor
<1>3. CASE HandlerEnterRecv(id)
  BY <1>3, DenotesType DEF TypeOK, HandlerEnterRecv, HandlerGoto, acceptor
<1>4. ASSUME NEW recipients, HandlerPacket(id, recipients) PROVE TypeOK'
  BY <1>4, SendType DEF TypeOK, HandlerPacket, HandlerGoto, acceptor
<1>5. CASE HandlerRecvFail(id)
  BY <1>5 DEF TypeOK, HandlerRecvFail, HandlerGoto, acceptor
<1>6. CASE HandlerBye(id)
  BY <1>6, SendType DEF TypeOK, HandlerBye, HandlerGoto, acceptor
<1>7. CASE HandlerRemove(id)
  BY <1>7, CloseType DEF TypeOK, HandlerRemove, RemoveClient, HandlerGoto, acceptor
<1> QED BY <1>1, <1>2, <1>3, <1>4, <1>5, <1>6, <1>7 DEF Handler

LEMMA OperatorType ==
    ASSUME TypeOK, (\E id \in Id : KickClient(id)) \/ StopBegin \/ Stop
    PROVE  TypeOK'
<1>1. ASSUME NEW id \in Id, KickClient(id) PROVE TypeOK'
  BY <1>1, SendType, CloseType DEF TypeOK, KickClient, acceptor, handler
<1>2. CASE StopBegin
  BY <1>2 DEF TypeOK, StopBegin, StopGoto, network, acceptor, handler, history
<1>3. CASE StopCloseListen
  BY <1>3 DEF TypeOK, StopCloseListen, StopGoto, network, acceptor, handler, history
<1>4. CASE StopCloseClients
  BY <1>4, CloseType DEF TypeOK, StopCloseClients, StopGoto, network, acceptor, handler, history
<1>5. CASE StopJoinAccept
  BY <1>5 DEF TypeOK, StopJoinAccept, StopGoto, network, acceptor, handler, history
<1>6. CASE StopJoinKeepalive
  BY <1>6 DEF TypeOK, StopJoinKeepalive, StopGoto, network, acceptor, handler, history
<1>7. CASE StopFree
  BY <1>7 DEF TypeOK, StopFree, StopGoto, network, acceptor, handler, history
<1> QED BY <1>1, <1>2, <1>3, <1>4, <1>5, <1>6, <1>7 DEF Stop

LEMMA KeepaliveType == ASSUME TypeOK, KeepaliveLoop PROVE TypeOK'
<1>1. CASE KeepaliveWake
  BY <1>1 DEF TypeOK, KeepaliveWake, network, client, acceptor, handler, history
<1>2. CASE KeepalivePing
  BY <1>2, SendType DEF TypeOK, KeepalivePing, client, acceptor, handler, history
<1> QED BY <1>1, <1>2 DEF KeepaliveLoop

LEMMA StutterType == ASSUME TypeOK, UNCHANGED vars PROVE TypeOK'
BY DEF TypeOK, vars, network, client, acceptor, handler, history

LEMMA StepType == ASSUME TypeOK, [Next]_vars PROVE TypeOK'
BY PeerType, AcceptType, HandlerType, OperatorType, KeepaliveType, StutterType
   DEF Next

(* Every variable of the server, of its threads and of the network keeps   *)
(* its type: ids stay in 1..MaxId, a socket is a descriptor or none.       *)
THEOREM TypeCorrect == Spec => []TypeOK
<1>1. Init => TypeOK
  BY InitType
<1>2. TypeOK /\ [Next]_vars => TypeOK'
  BY StepType
<1> QED BY <1>1, <1>2, PTL DEF Spec

-----------------------------------------------------------------------------
(* The inductive invariant: the safety properties and what holds them up.  *)

(* Ids are handed out in order, and no thread starts without one.          *)
IdsInOrder == \A id \in Id : handlerPc[id] = "none" <=> id >= m_next_id

(* accept_loop holds a descriptor exactly while it registers it, and has   *)
(* ended once stop() has joined it.                                        *)
AcceptorPhase ==
    /\ acceptPc = "register" <=> cs # None
    /\ operatorPc \in {"join_keepalive", "free", "stopped"} => acceptPc = "done"

(* A handler about to remove its client has announced it.                  *)
ByeBeforeRemove ==
    \A id \in Id : handlerPc[id] \in {"remove", "done"} => id \in announced

(* Until the first kick or the closes of stop(), clients have descriptors  *)
(* of their own, and so has the connection being registered.               *)
Undisturbed ==
    kicked = {} /\ operatorPc \in {"idle", "close_listen", "close_clients"}

OwnSockets ==
    Undisturbed =>
        /\ \A id \in m_clients :
              sock[id] \in Fd /\ ip[id] \in Conn /\ fdTable[sock[id]] = ip[id]
        /\ \A id, other \in m_clients : id # other => sock[id] # sock[other]
        /\ acceptPc = "register" =>
              /\ cs \in Fd /\ peer_ip \in Conn /\ fdTable[cs] = peer_ip
              /\ \A id \in m_clients : sock[id] # cs

IInv ==
    /\ TypeOK
    /\ Capacity
    /\ RegisteredWhileServed
    /\ IdsInOrder
    /\ AcceptorPhase
    /\ ByeBeforeRemove
    /\ DescriptorsReachable
    /\ OwnSockets

-----------------------------------------------------------------------------
(* The registry: the map against the handlers, ids, capacity, departures.  *)

(* Only accept_loop, a handler and the end of stop() touch these.          *)
LEMMA RegistryUntouched ==
    ASSUME [Next]_vars, ~AcceptRegister, ~StopFree,
           ~(\E id \in Id : Handler(id))
    PROVE  /\ UNCHANGED <<m_clients, m_next_id, handlerPc, announced>>
           /\ operatorPc' = "stopped" <=> operatorPc = "stopped"
<1>1. CASE \E p \in Conn : Peer(p)
  BY <1>1 DEF Peer, PeerConnect, PeerSend, PeerClose, PeerVanish, TcpGiveUp,
     PeerGone, client, acceptor, handler, history
<1>2. CASE Accept
  BY <1>2 DEF Accept, AcceptTest, AcceptCall, AcceptFail, AcceptReject,
     AcceptReturn, AcceptGoto
<1>3. CASE KeepaliveLoop
  BY <1>3 DEF KeepaliveLoop, KeepaliveWake, KeepalivePing, client, acceptor,
     handler, history
<1>4. CASE (\E id \in Id : KickClient(id)) \/ StopBegin \/ Stop
  BY <1>4 DEF KickClient, StopBegin, Stop, StopCloseListen, StopCloseClients,
     StopJoinAccept, StopJoinKeepalive, StopGoto, client, acceptor, handler,
     history
<1>5. CASE UNCHANGED vars
  BY <1>5 DEF vars, client, acceptor, handler, history
<1> QED BY <1>1, <1>2, <1>3, <1>4, <1>5 DEF Next

(* What a handler step does to the registry. *)
LEMMA HandlerRegistry ==
    ASSUME TypeOK, NEW id \in Id, Handler(id)
    PROVE  /\ handlerPc[id] \notin {"none", "done"}
           /\ m_next_id' = m_next_id /\ operatorPc' = operatorPc
           /\ \E pc \in {"test", "enter", "recv", "bye", "remove", "done"} :
                /\ handlerPc' = [handlerPc EXCEPT ![id] = pc]
                /\ pc = "done" <=> handlerPc[id] = "remove"
                /\ pc = "remove" <=> handlerPc[id] = "bye"
           /\ m_clients' = IF handlerPc[id] = "remove" THEN m_clients \ {id} ELSE m_clients
           /\ announced' = IF handlerPc[id] = "bye" THEN announced \cup {id} ELSE announced
BY DEF TypeOK, Handler, HandlerGreet, HandlerTest, HandlerEnterRecv,
   HandlerPacket, HandlerRecvFail, HandlerBye, HandlerRemove, RemoveClient,
   HandlerGoto

LEMMA MapFinite ==
    ASSUME TypeOK
    PROVE  IsFiniteSet(m_clients) /\ Cardinality(m_clients) \in Nat
<1>1. IsFiniteSet(Id)
  BY FS_Interval, ServerAssumption DEF Id
<1>2. m_clients \subseteq Id
  BY DEF TypeOK
<1> QED BY <1>1, <1>2, FS_Subset, FS_CardinalityType

LEMMA CapacityStep == ASSUME IInv, [Next]_vars PROVE Capacity'
<1>1. CASE AcceptRegister
  <2>1. Cardinality(m_clients \cup {m_next_id}) <= Cardinality(m_clients) + 1
    BY MapFinite, FS_AddElement DEF IInv
  <2>2. Cardinality(m_clients) + 1 <= MaxClients
    BY <1>1, MapFinite, ServerAssumption DEF AcceptRegister, Full, IInv
  <2> QED
    BY <1>1, <2>1, <2>2, MapFinite, ServerAssumption,
       FS_AddElement DEF AcceptRegister, NewClient, Capacity, IInv
<1>2. ASSUME NEW id \in Id, Handler(id) PROVE Capacity'
  <2>1. m_clients' \subseteq m_clients
    BY <1>2, HandlerRegistry DEF IInv
  <2> QED
    BY <2>1, MapFinite, FS_Subset, FS_CardinalityType, ServerAssumption
       DEF Capacity, IInv
<1>3. CASE StopFree
  BY <1>3, FS_EmptySet, ServerAssumption DEF StopFree, Capacity
<1>4. CASE UNCHANGED m_clients
  BY <1>4 DEF Capacity, IInv
<1> QED BY <1>1, <1>2, <1>3, <1>4, RegistryUntouched

LEMMA ServedStep ==
    ASSUME IInv, [Next]_vars PROVE RegisteredWhileServed' /\ IdsInOrder'
<1>1. CASE AcceptRegister
  <2>1. m_next_id \in Id /\ handlerPc[m_next_id] = "none"
    BY <1>1, ServerAssumption DEF AcceptRegister, IInv, IdsInOrder, TypeOK, Id
  <2>2. operatorPc # "stopped" /\ operatorPc' = operatorPc
    BY <1>1 DEF AcceptRegister, AcceptGoto, IInv, AcceptorPhase
  <2>3. handlerPc' = [handlerPc EXCEPT ![m_next_id] = "greet"]
        /\ m_clients' = m_clients \cup {m_next_id} /\ m_next_id' = m_next_id + 1
    BY <1>1 DEF AcceptRegister, NewClient
  <2>4. handlerPc \in [Id -> {"none", "greet", "test", "enter", "recv", "bye",
                              "remove", "done"}]
    BY DEF IInv, TypeOK
  <2>5. RegisteredWhileServed'
    BY <2>1, <2>2, <2>3, <2>4 DEF IInv, RegisteredWhileServed
  <2>6. IdsInOrder'
    BY <2>1, <2>3, <2>4, ServerAssumption DEF IInv, IdsInOrder, Id
  <2> QED BY <2>5, <2>6
<1>2. ASSUME NEW id \in Id, Handler(id)
      PROVE  RegisteredWhileServed' /\ IdsInOrder'
  BY <1>2, HandlerRegistry DEF IInv, RegisteredWhileServed, IdsInOrder, TypeOK
<1>3. CASE StopFree
  BY <1>3 DEF StopFree, StopGoto, handler, IInv, RegisteredWhileServed, IdsInOrder
<1>4. CASE /\ UNCHANGED <<m_clients, m_next_id, handlerPc, announced>>
           /\ operatorPc' = "stopped" <=> operatorPc = "stopped"
  BY <1>4 DEF IInv, RegisteredWhileServed, IdsInOrder
<1> QED BY <1>1, <1>2, <1>3, <1>4, RegistryUntouched

LEMMA ByeStep == ASSUME IInv, [Next]_vars PROVE ByeBeforeRemove'
<1>1. CASE AcceptRegister
  BY <1>1 DEF AcceptRegister, NewClient, AcceptGoto, IInv, TypeOK, ByeBeforeRemove
<1>2. ASSUME NEW id \in Id, Handler(id) PROVE ByeBeforeRemove'
  BY <1>2, HandlerRegistry DEF IInv, ByeBeforeRemove, TypeOK
<1>3. CASE StopFree
  BY <1>3 DEF StopFree, StopGoto, handler, history, IInv, ByeBeforeRemove
<1>4. CASE UNCHANGED <<m_clients, m_next_id, handlerPc, announced>>
  BY <1>4 DEF IInv, ByeBeforeRemove
<1> QED BY <1>1, <1>2, <1>3, <1>4, RegistryUntouched

-----------------------------------------------------------------------------
(* The acceptor. *)

LEMMA AcceptorStep == ASSUME IInv, [Next]_vars PROVE AcceptorPhase'
<1>1. CASE \E p \in Conn : Peer(p)
  BY <1>1 DEF Peer, PeerConnect, PeerSend, PeerClose, PeerVanish, TcpGiveUp,
     PeerGone, acceptor, IInv, AcceptorPhase
<1>2. CASE Accept
  <2>1. CASE \E p \in Conn, f \in Fd : AcceptReturn(p, f)
    BY <1>2, <2>1, ServerAssumption DEF AcceptReturn, AcceptGoto, IInv, AcceptorPhase
  <2>2. CASE ~\E p \in Conn, f \in Fd : AcceptReturn(p, f)
    BY <1>2, <2>2 DEF Accept, AcceptTest, AcceptCall, AcceptFail, AcceptReject,
       AcceptRegister, AcceptGoto, IInv, AcceptorPhase
  <2> QED BY <2>1, <2>2
<1>3. CASE \E id \in Id : Handler(id)
  BY <1>3 DEF Handler, HandlerGreet, HandlerTest, HandlerEnterRecv,
     HandlerPacket, HandlerRecvFail, HandlerBye, HandlerRemove, HandlerGoto,
     acceptor, IInv, AcceptorPhase
<1>4. CASE KeepaliveLoop
  BY <1>4 DEF KeepaliveLoop, KeepaliveWake, KeepalivePing, acceptor, IInv,
     AcceptorPhase
<1>5. CASE (\E id \in Id : KickClient(id)) \/ StopBegin \/ Stop
  BY <1>5 DEF KickClient, StopBegin, Stop, StopCloseListen, StopCloseClients,
     StopJoinAccept, StopJoinKeepalive, StopFree, StopGoto, acceptor, IInv,
     AcceptorPhase
<1>6. CASE UNCHANGED vars
  BY <1>6 DEF vars, acceptor, IInv, AcceptorPhase
<1> QED BY <1>1, <1>2, <1>3, <1>4, <1>5, <1>6 DEF Next

-----------------------------------------------------------------------------
(* Descriptors. *)

(* Only these steps touch the descriptor table or who owns what in it.     *)
LEMMA TableUntouched ==
    ASSUME [Next]_vars, ~Accept, ~(\E id \in Id : HandlerRemove(id)),
           ~(\E id \in Id : KickClient(id)), ~StopCloseClients, ~StopFree
    PROVE  /\ UNCHANGED <<fdTable, m_clients, sock, ip, cs, peer_ip, acceptPc, kicked>>
           /\ operatorPc' = "stopped" <=> operatorPc = "stopped"
           /\ operatorPc' \in {"idle", "close_listen", "close_clients"} =>
                 operatorPc \in {"idle", "close_listen", "close_clients"}
<1>1. CASE \E p \in Conn : Peer(p)
  BY <1>1 DEF Peer, PeerConnect, PeerSend, PeerClose, PeerVanish, TcpGiveUp,
     PeerGone, client, acceptor, handler, history
<1>2. CASE \E id \in Id : Handler(id)
  BY <1>2 DEF Handler, HandlerGreet, HandlerTest, HandlerEnterRecv,
     HandlerPacket, HandlerRecvFail, HandlerBye, HandlerGoto, acceptor
<1>3. CASE KeepaliveLoop
  BY <1>3 DEF KeepaliveLoop, KeepaliveWake, KeepalivePing, client, acceptor,
     handler, history
<1>4. CASE StopBegin \/ Stop
  BY <1>4 DEF StopBegin, Stop, StopCloseListen, StopJoinAccept,
     StopJoinKeepalive, StopGoto, client, acceptor, handler, history
<1>5. CASE UNCHANGED vars
  BY <1>5 DEF vars, client, acceptor, handler, history
<1> QED BY <1>1, <1>2, <1>3, <1>4, <1>5 DEF Next

(* The accept_loop steps that move no descriptor. *)
LEMMA AcceptQuiet ==
    ASSUME AcceptTest \/ AcceptCall \/ AcceptFail
    PROVE  /\ UNCHANGED <<fdTable, m_clients, sock, ip, cs, peer_ip, kicked, operatorPc>>
           /\ acceptPc # "register" /\ acceptPc' # "register"
BY DEF AcceptTest, AcceptCall, AcceptFail, AcceptGoto

LEMMA ReachableStep == ASSUME IInv, [Next]_vars PROVE DescriptorsReachable'
<1>1. CASE AcceptTest \/ AcceptCall \/ AcceptFail
  BY <1>1, AcceptQuiet DEF IInv, DescriptorsReachable
<1>2. CASE AcceptReject
  BY <1>2 DEF AcceptReject, AcceptGoto, Close, IInv, DescriptorsReachable
<1>3. CASE AcceptRegister
  <2>1. m_next_id \in Id
    BY <1>3, ServerAssumption DEF AcceptRegister, IInv, TypeOK, Id
  <2>2. operatorPc # "stopped" /\ operatorPc' = operatorPc /\ fdTable' = fdTable
    BY <1>3 DEF AcceptRegister, AcceptGoto, IInv, AcceptorPhase
  <2>3. m_next_id \notin m_clients
    BY <2>1, <2>2 DEF IInv, TypeOK, IdsInOrder, RegisteredWhileServed, Id
  <2> QED
    BY <1>3, <2>1, <2>2, <2>3 DEF AcceptRegister, NewClient, IInv, TypeOK,
       DescriptorsReachable
<1>4. ASSUME NEW p \in Conn, NEW f \in Fd, AcceptReturn(p, f)
      PROVE  DescriptorsReachable'
  <2>1. cs = None
    BY <1>4 DEF AcceptReturn, IInv, AcceptorPhase
  <2> QED
    BY <1>4, <2>1, ServerAssumption DEF AcceptReturn, AcceptGoto, IInv, TypeOK,
       DescriptorsReachable
<1>5. ASSUME NEW id \in Id, HandlerRemove(id) PROVE DescriptorsReachable'
  BY <1>5 DEF HandlerRemove, RemoveClient, HandlerGoto, Close, acceptor, IInv,
     DescriptorsReachable
<1>6. ASSUME NEW id \in Id, KickClient(id) PROVE DescriptorsReachable'
  BY <1>6 DEF KickClient, Close, acceptor, IInv, DescriptorsReachable
<1>7. CASE StopCloseClients
  BY <1>7 DEF StopCloseClients, StopGoto, Close, acceptor, IInv,
     DescriptorsReachable
<1>8. CASE StopFree
  BY <1>8 DEF StopFree, StopGoto, DescriptorsReachable
<1>9. CASE /\ UNCHANGED <<fdTable, m_clients, sock, cs>>
           /\ operatorPc' = "stopped" <=> operatorPc = "stopped"
  BY <1>9 DEF IInv, DescriptorsReachable
<1> QED
  BY <1>1, <1>2, <1>3, <1>4, <1>5, <1>6, <1>7, <1>8, <1>9, TableUntouched DEF Accept

LEMMA OwnSocketsStep == ASSUME IInv, [Next]_vars PROVE OwnSockets'
<1> USE DEF Undisturbed
<1>1. CASE AcceptTest \/ AcceptCall \/ AcceptFail
  BY <1>1, AcceptQuiet DEF IInv, OwnSockets
<1>2. CASE AcceptReject
  BY <1>2 DEF AcceptReject, AcceptGoto, Close, IInv, OwnSockets
<1>3. CASE AcceptRegister
  <2>1. m_next_id \in Id
    BY <1>3, ServerAssumption DEF AcceptRegister, IInv, TypeOK, Id
  <2>2. operatorPc # "stopped" /\ operatorPc' = operatorPc
    BY <1>3 DEF AcceptRegister, AcceptGoto, IInv, AcceptorPhase
  <2>3. m_next_id \notin m_clients
    BY <2>1, <2>2 DEF IInv, TypeOK, IdsInOrder, RegisteredWhileServed, Id
  <2> QED
    BY <1>3, <2>1, <2>2, <2>3 DEF AcceptRegister, NewClient, AcceptGoto, IInv,
       TypeOK, OwnSockets
<1>4. ASSUME NEW p \in Conn, NEW f \in Fd, AcceptReturn(p, f) PROVE OwnSockets'
  BY <1>4, ServerAssumption DEF AcceptReturn, AcceptGoto, IInv, TypeOK, OwnSockets
<1>5. ASSUME NEW id \in Id, HandlerRemove(id) PROVE OwnSockets'
  BY <1>5 DEF HandlerRemove, RemoveClient, HandlerGoto, Close, acceptor, IInv,
     OwnSockets
<1>6. ASSUME NEW id \in Id, KickClient(id) PROVE OwnSockets'
  BY <1>6 DEF KickClient, OwnSockets
<1>7. CASE StopCloseClients
  BY <1>7 DEF StopCloseClients, StopGoto, OwnSockets
<1>8. CASE StopFree
  BY <1>8 DEF StopFree, StopGoto, OwnSockets
<1>9. CASE /\ UNCHANGED <<fdTable, m_clients, sock, ip, cs, peer_ip, acceptPc, kicked>>
           /\ operatorPc' \in {"idle", "close_listen", "close_clients"} =>
                 operatorPc \in {"idle", "close_listen", "close_clients"}
  BY <1>9 DEF IInv, OwnSockets
<1> QED
  BY <1>1, <1>2, <1>3, <1>4, <1>5, <1>6, <1>7, <1>8, <1>9, TableUntouched DEF Accept

-----------------------------------------------------------------------------
(* The theorems. *)

LEMMA InitInv == Init => IInv
<1> SUFFICES ASSUME Init PROVE IInv
  OBVIOUS
<1>1. TypeOK
  BY InitType
<1>2. Capacity
  BY FS_EmptySet, ServerAssumption DEF Init, Capacity
<1>3. RegisteredWhileServed /\ IdsInOrder /\ ByeBeforeRemove
  BY DEF Init, RegisteredWhileServed, IdsInOrder, ByeBeforeRemove, Id
<1>4. AcceptorPhase /\ DescriptorsReachable /\ OwnSockets
  BY DEF Init, AcceptorPhase, DescriptorsReachable, OwnSockets
<1> QED BY <1>1, <1>2, <1>3, <1>4 DEF IInv

LEMMA StepInv == IInv /\ [Next]_vars => IInv'
<1> SUFFICES ASSUME IInv, [Next]_vars PROVE IInv'
  OBVIOUS
<1>1. TypeOK'
  BY StepType DEF IInv
<1> QED
  BY <1>1, CapacityStep, ServedStep, ByeStep, AcceptorStep, ReachableStep,
     OwnSocketsStep DEF IInv

THEOREM Invariance == Spec => []IInv
<1> QED BY InitInv, StepInv, PTL DEF Spec

(* However many connections race, the map never exceeds max_clients: the   *)
(* size test and the insertion of accept_loop cannot be separated.         *)
THEOREM CapacityHolds == Spec => []Capacity
<1>1. IInv => Capacity
  BY DEF IInv
<1> QED BY <1>1, Invariance, PTL

(* Every exit of client_loop takes its client out of the map, and nothing  *)
(* else does before stop() clears it.                                      *)
THEOREM ServedHolds == Spec => []RegisteredWhileServed
<1>1. IInv => RegisteredWhileServed
  BY DEF IInv
<1> QED BY <1>1, Invariance, PTL

(* Until stop() clears the map no client descriptor is lost, kicks, reuse  *)
(* of numbers and double closes included.                                  *)
THEOREM ReachableHolds == Spec => []DescriptorsReachable
<1>1. IInv => DescriptorsReachable
  BY DEF IInv
<1> QED BY <1>1, Invariance, PTL

(* Without a kick no two clients ever share a descriptor number, and each  *)
(* one denotes the connection its client was accepted on.                  *)
THEOREM OwnSocketsHold == Spec => []SocketsOwnUntilKick
<1>1. IInv => SocketsOwnUntilKick
  BY DEF IInv, OwnSockets, Undisturbed, SocketsOwnUntilKick, Denotes
<1> QED BY <1>1, Invariance, PTL

(* No departure is silent, and none is announced of an unknown id.         *)
THEOREM DeparturesHold == Spec => DeparturesAnnounced
<1> DEFINE Announced ==
      \A id \in Id :
        /\ id \in m_clients \ m_clients' => id \in announced \/ operatorPc = "free"
        /\ id \in announced' \ announced => id \in m_clients \/ operatorPc = "stopped"
<1>1. IInv /\ [Next]_vars => [Announced]_vars
  <2> SUFFICES ASSUME IInv, [Next]_vars PROVE Announced
    OBVIOUS
  <2>1. CASE AcceptRegister
    BY <2>1 DEF AcceptRegister, NewClient, AcceptGoto
  <2>2. ASSUME NEW id \in Id, Handler(id) PROVE Announced
    BY <2>2, HandlerRegistry DEF IInv, ByeBeforeRemove, RegisteredWhileServed
  <2>3. CASE StopFree
    BY <2>3 DEF StopFree, StopGoto, history
  <2>4. CASE UNCHANGED <<m_clients, announced>>
    BY <2>4
  <2> QED BY <2>1, <2>2, <2>3, <2>4, RegistryUntouched
<1> QED BY <1>1, Invariance, PTL DEF Spec, DeparturesAnnounced

(* The threads, sockets and lock implement the registry of Registry.tla:   *)
(* in particular nothing is admitted once stop() has returned, whatever    *)
(* accept() had in hand when it began.                                     *)
THEOREM Refinement == Spec => ImplementsRegistry
<1>1. Init => R!Init
  BY DEF Init, R!Init
<1>2. IInv /\ [Next]_vars => [R!Next]_(R!vars)
  <2> SUFFICES ASSUME IInv, [Next]_vars PROVE [R!Next]_(R!vars)
    OBVIOUS
  <2> USE DEF R!vars
  <2>1. CASE AcceptRegister
    <3>1. operatorPc # "stopped" /\ operatorPc' = operatorPc
      BY <2>1 DEF AcceptRegister, AcceptGoto, IInv, AcceptorPhase
    <3>2. Cardinality(m_clients) < MaxClients
      BY <2>1, MapFinite, ServerAssumption DEF AcceptRegister, Full, IInv
    <3>3. R!Cardinality(m_clients) = Cardinality(m_clients)
      BY DEF Cardinality, R!Cardinality
    <3> QED
      BY <2>1, <3>1, <3>2, <3>3 DEF AcceptRegister, NewClient, R!Next, R!Admit
  <2>2. ASSUME NEW id \in Id, Handler(id) PROVE [R!Next]_(R!vars)
    <3>1. CASE m_clients' = m_clients
      BY <2>2, <3>1, HandlerRegistry DEF IInv
    <3>2. CASE m_clients' # m_clients
      <4>1. id \in m_clients /\ m_clients' = m_clients \ {id}
        BY <2>2, <3>2, HandlerRegistry DEF IInv
      <4>2. operatorPc # "stopped" /\ operatorPc' = operatorPc /\ m_next_id' = m_next_id
        BY <2>2, <4>1, HandlerRegistry DEF IInv, RegisteredWhileServed
      <4> QED BY <4>1, <4>2 DEF R!Next, R!Leave
    <3> QED BY <3>1, <3>2
  <2>3. CASE StopFree
    BY <2>3 DEF StopFree, StopGoto, R!Next, R!Shutdown
  <2>4. CASE /\ UNCHANGED <<m_clients, m_next_id>>
             /\ operatorPc' = "stopped" <=> operatorPc = "stopped"
    BY <2>4
  <2> QED BY <2>1, <2>2, <2>3, <2>4, RegistryUntouched
<1> QED BY <1>1, <1>2, Invariance, PTL DEF Spec, ImplementsRegistry, R!Spec
=============================================================================
