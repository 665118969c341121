------------------------ MODULE ClientSessionProofs ------------------------
(***************************************************************************)
(* Theorems about ClientSession, for both builds, any behaviour of the     *)
(* server and any input.                                                   *)
(***************************************************************************)
EXTENDS ClientSession, TLAPS

(* Type correctness: of the fields of Client, its two threads and the      *)
(* packets of both directions (client.cpp).                                *)
THEOREM TypeCorrect == Spec => []TypeOK
<1>1. Init => TypeOK
  <2> SUFFICES ASSUME Init PROVE TypeOK
    OBVIOUS
  <2>1. down \in Seq(DownTypes) /\ up \in Seq(UpTypes)
    BY DEF Init
  <2>2. packets \in 0..MaxPackets /\ lines \in 0..MaxLines
    BY ClientAssumption DEF Init
  <2> QED BY <2>1, <2>2 DEF Init, TypeOK
<1>2. TypeOK /\ [Next]_vars => TypeOK'
  <2> SUFFICES ASSUME TypeOK, [Next]_vars PROVE TypeOK'
    OBVIOUS
  <2> USE DEF TypeOK, MainGoto, RecvGoto, fields
  <2>1. CASE Main
    <3>1. CASE ConnectFail \/ Connect \/ CliLoop \/ Destroy
      BY <3>1 DEF ConnectFail, Connect, CliLoop, Destroy
    <3>2. CASE Handshake
      <4>1. up' \in Seq(UpTypes)
        BY <3>2 DEF Handshake, SendUp, UpTypes
      <4> QED BY <3>2, <4>1 DEF Handshake, SendUp
    <3>3. CASE DisconnectFarewell
      <4>1. up' \in Seq(UpTypes)
        BY <3>3 DEF DisconnectFarewell, SendUp, UpTypes
      <4> QED BY <3>3, <4>1 DEF DisconnectFarewell, SendUp
    <3>4. CASE DisconnectTest \/ DisconnectUnset \/ DisconnectClose
               \/ DisconnectReset \/ DisconnectJoin
      BY <3>4 DEF DisconnectTest, DisconnectUnset, DisconnectClose,
                  DisconnectReset, DisconnectJoin
    <3> QED BY <2>1, <3>1, <3>2, <3>3, <3>4 DEF Main, Disconnect
  <2>2. CASE CliEof \/ CliLine \/ CliQuit
    BY <2>2 DEF CliEof, CliLine, CliQuit
  <2>3. CASE CliSay
    <3>1. up' \in Seq(UpTypes)
      BY <2>3 DEF CliSay, SendUp, UpTypes
    <3>2. lines' \in 0..MaxLines
      BY <2>3, ClientAssumption DEF CliSay
    <3> QED BY <2>3, <3>1, <3>2 DEF CliSay, SendUp
  <2>4. CASE RecvPacket
    <3>1. up' \in Seq(UpTypes)
      <4>1. up' = up \/ up' = Append(up, "PONG")
        BY <2>4 DEF RecvPacket, SendUp
      <4> HIDE DEF RecvGoto, MainGoto
      <4> QED BY <4>1 DEF UpTypes
    <3>2. down' \in Seq(DownTypes)
      BY <2>4 DEF RecvPacket
    <3>3. conn' \in {conn, "expiring"}
      BY <2>4 DEF RecvPacket, SendUp
    <3>4. m_running' \in BOOLEAN
      BY <2>4 DEF RecvPacket
    <3> QED BY <2>4, <3>1, <3>2, <3>3, <3>4 DEF RecvPacket
  <2>5. CASE RecvTest \/ RecvCall \/ RecvFail \/ RecvUnset \/ RecvStop
    BY <2>5 DEF RecvTest, RecvCall, RecvFail, RecvUnset, RecvStop
  <2>6. ASSUME NEW type \in DownTypes, ServerSend(type) PROVE TypeOK'
    <3>1. packets' \in 0..MaxPackets
      BY <2>6, ClientAssumption DEF ServerSend
    <3> QED BY <2>6, <3>1 DEF ServerSend
  <2>7. CASE ServerClose("close" \in ServerMay) \/ ServerReacts
    BY <2>7 DEF ServerClose, ServerReacts
  <2>8. CASE ServerHang \/ ServerVanish \/ TcpGiveUp
    BY <2>8 DEF ServerHang, ServerVanish, TcpGiveUp, ServerStops
  <2>9. CASE UNCHANGED vars
    BY <2>9 DEF vars, network
  <2> QED BY <2>1, <2>2, <2>3, <2>4, <2>5, <2>6, <2>7, <2>8, <2>9
          DEF Next, User, Recv
<1> QED BY <1>1, <1>2, PTL DEF Spec

-----------------------------------------------------------------------------
(* Why the end is clean.  The thread is joinable from connect() until it   *)
(* is joined, which only happens in disconnect(), after the socket was     *)
(* reset and the flag m_connected fell; and nothing raises the flag again. *)

(* The part of disconnect() after its test. *)
Disconnecting == {"unset", "farewell", "close", "reset", "join"}

NotStarted == mainPc = "connect" => recvPc = "none" /\ m_sock = "invalid"

Joined == ~joinable =>
    /\ recvPc \in {"none", "done"}
    /\ m_sock = "invalid"
    /\ ~m_connected
    /\ mainPc \notin Disconnecting \cup {"terminated"}

FlagDown == mainPc \in Disconnecting \ {"unset"} => ~m_connected

SocketReset == mainPc = "join" => m_sock = "invalid"

Over == mainPc = "ended" => ~joinable

IInv == NotStarted /\ Joined /\ FlagDown /\ SocketReset /\ Over

LEMMA IInvInit == Init => IInv
  BY DEF Init, IInv, NotStarted, Joined, FlagDown, SocketReset, Over, Disconnecting

LEMMA IInvNext == TypeOK /\ IInv /\ [Next]_vars => IInv'
<1> SUFFICES ASSUME TypeOK, IInv, [Next]_vars PROVE IInv'
  OBVIOUS
<1> USE DEF IInv, NotStarted, Joined, FlagDown, SocketReset, Over, Disconnecting,
            MainGoto, RecvGoto, fields
<1>1. CASE Connect \/ ConnectFail
  BY <1>1 DEF Connect, ConnectFail
<1>2. CASE Handshake \/ CliLoop
  BY <1>2 DEF Handshake, CliLoop, SendUp
<1>3. CASE DisconnectTest \/ DisconnectUnset
  BY <1>3 DEF DisconnectTest, DisconnectUnset
<1>4. CASE DisconnectFarewell \/ DisconnectClose \/ DisconnectReset
  BY <1>4 DEF DisconnectFarewell, DisconnectClose, DisconnectReset, SendUp
<1>5. CASE DisconnectJoin
  BY <1>5 DEF DisconnectJoin
<1>6. CASE Destroy
  BY <1>6 DEF Destroy
<1>7. CASE User
  BY <1>7 DEF User, CliEof, CliLine, CliSay, CliQuit, SendUp
<1>8. CASE Recv
  <2> joinable
    BY <1>8 DEF Recv, RecvTest, RecvCall, RecvPacket, RecvFail, RecvUnset, RecvStop
  <2> UNCHANGED <<joinable, m_sock, mainPc>>
    BY <1>8 DEF Recv, RecvTest, RecvCall, RecvPacket, RecvFail, RecvUnset, RecvStop
  <2> UNCHANGED m_connected \/ m_connected' = FALSE
    BY <1>8 DEF Recv, RecvTest, RecvCall, RecvPacket, RecvFail, RecvUnset, RecvStop
  <2> mainPc # "connect"
    BY <1>8 DEF Recv, RecvTest, RecvCall, RecvPacket, RecvFail, RecvUnset, RecvStop
  <2> QED OBVIOUS
<1>9. ASSUME NEW type \in DownTypes, ServerSend(type) PROVE IInv'
  BY <1>9 DEF ServerSend
<1>10. CASE ServerClose("close" \in ServerMay) \/ ServerReacts
  BY <1>10 DEF ServerClose, ServerReacts
<1>11. CASE ServerHang \/ ServerVanish \/ TcpGiveUp
  BY <1>11 DEF ServerHang, ServerVanish, TcpGiveUp, ServerStops
<1>12. CASE UNCHANGED vars
  BY <1>12 DEF vars, network
<1> QED BY <1>1, <1>2, <1>3, <1>4, <1>5, <1>6, <1>7, <1>8, <1>9, <1>10, <1>11,
           <1>12 DEF Next, Main, Disconnect

(* When main() returns, the receive thread has ended and the socket is     *)
(* closed: no path through run_cli, disconnect() and ~Client() leaves a    *)
(* thread behind that still uses the object (client.cpp:115, 232).         *)
THEOREM EndsCleanHolds == Spec => []EndsClean
<1>1. IInv => EndsClean
  BY DEF IInv, Over, Joined, EndsClean
<1> QED BY <1>1, IInvInit, IInvNext, TypeCorrect, PTL DEF Spec
=============================================================================
