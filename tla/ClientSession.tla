--------------------------- MODULE ClientSession ---------------------------
(***************************************************************************)
(* The command-line client, src/src/client.cpp: the main thread (connect,  *)
(* run_cli, disconnect, the destructor) and the receive thread (recv_loop, *)
(* handle_packet), which meet at m_connected, m_running and m_sock without *)
(* a lock, so that every access is a step of its own.                      *)
(*                                                                         *)
(* As in ServerSessions, a close by the main thread wakes a recv() that is *)
(* blocked on the socket with closesocket() and does not with close().     *)
(***************************************************************************)
EXTENDS Naturals, Sequences

CONSTANTS
    CloseWakes,         \* does closing the socket wake a blocked recv()?
    ServerMay,          \* what the server may do: a subset of ServerDeeds
    MaxPackets,         \* packets the server sends
    MaxLines            \* lines the user types before /quit

ServerDeeds == {"PING", "KICK", "TEXT", "close", "vanish", "hang"}

ASSUME ClientAssumption ==
    /\ CloseWakes \in BOOLEAN /\ ServerMay \subseteq ServerDeeds
    /\ MaxPackets \in Nat /\ MaxLines \in Nat

VARIABLES
    (* The connection: what the server did with its end, and the packets   *)
    (* of each direction.                                                  *)
    conn,               \* "none", "open", "closed", "hung" (its handler waits
                        \* for a mutex, say), "vanished" (its host died), or
                        \* "expiring": vanished, and TCP retransmits to it
    down,               \* unread packets from the server
    up,                 \* packets written by the client
    packets,            \* how many packets the server has sent
    (* Fields of Client. *)
    m_connected, m_running,
    m_sock,             \* "invalid", "open", or "stale": closed, not yet reset
    joinable,           \* m_recv_thread.joinable()
    (* Threads. *)
    mainPc, lines,
    recvPc

network == <<conn, down, packets>>
fields  == <<m_connected, m_running, m_sock, joinable>>

vars == <<network, up, fields, mainPc, lines, recvPc>>

DownTypes == {"PING", "KICK", "TEXT"}
UpTypes   == {"CONNECT", "BROADCAST", "PONG", "DISCONNECT"}

TypeOK ==
    /\ conn \in {"none", "open", "closed", "hung", "vanished", "expiring"}
    /\ down \in Seq(DownTypes)
    /\ up \in Seq(UpTypes)
    /\ packets \in 0..MaxPackets /\ lines \in 0..MaxLines
    /\ m_connected \in BOOLEAN /\ m_running \in BOOLEAN
    /\ joinable \in BOOLEAN
    /\ m_sock \in {"invalid", "open", "stale"}
    /\ mainPc \in {"connect", "handshake", "loop", "getline", "line",
                   "disconnect", "unset", "farewell", "close", "reset", "join",
                   "destroy", "ended", "terminated"}
    /\ recvPc \in {"none", "test", "call", "recv", "unset", "stop", "done"}

Init ==
    /\ conn = "none" /\ down = <<>> /\ up = <<>> /\ packets = 0
    /\ m_connected = FALSE /\ m_running = FALSE
    /\ m_sock = "invalid" /\ joinable = FALSE
    /\ mainPc = "connect" /\ lines = 0
    /\ recvPc = "none"

-----------------------------------------------------------------------------
(* The server's end. *)

ServerSend(type) ==
    /\ conn = "open" /\ packets < MaxPackets
    /\ type \in ServerMay
    /\ packets' = packets + 1
    /\ down' = Append(down, type)
    /\ UNCHANGED <<conn, up, fields, mainPc, lines, recvPc>>

(* It closes because it is stopped or has kicked the client, or when it    *)
(* reads MSG_DISCONNECT or the client's end of stream.                     *)
ServerClose(because) ==
    /\ conn = "open" /\ because
    /\ conn' = "closed"
    /\ UNCHANGED <<down, packets, up, fields, mainPc, lines, recvPc>>

(* A close() under a blocked recv() sends no end of stream until the       *)
(* recv() returns.                                                         *)
ClientClosed ==
    /\ m_sock # "open" /\ mainPc \notin {"connect", "handshake"}
    /\ CloseWakes \/ recvPc # "recv"

ServerReacts ==
    ServerClose(ClientClosed \/ \E k \in 1..Len(up) : up[k] = "DISCONNECT")

ServerStops(deed, from, to) ==
    /\ conn = from /\ deed \in ServerMay
    /\ conn' = to
    /\ UNCHANGED <<down, packets, up, fields, mainPc, lines, recvPc>>

ServerHang   == ServerStops("hang", "open", "hung")
ServerVanish == ServerStops("vanish", "open", "vanished")
TcpGiveUp    == ServerStops("vanish", "expiring", "closed")

-----------------------------------------------------------------------------
(* The main thread. *)

MainGoto(from, to) ==
    /\ mainPc = from
    /\ mainPc' = to
    /\ UNCHANGED <<down, packets>>

(* net_connect() fails: main() gives up, and no thread was started. *)
ConnectFail ==
    /\ MainGoto("connect", "destroy")
    /\ UNCHANGED <<conn, up, fields, lines, recvPc>>

(* ... or succeeds; the receive thread starts before the handshake. *)
Connect ==
    /\ MainGoto("connect", "handshake")
    /\ conn' = "open"
    /\ m_sock' = "open"
    /\ m_connected' = TRUE
    /\ m_running' = TRUE
    /\ joinable' = TRUE
    /\ recvPc' = "test"
    /\ UNCHANGED <<up, lines>>

(* net_send_packet(m_sock, ...); its result is not looked at.              *)
SendUp(type) ==
    /\ up' = IF m_sock = "open" THEN Append(up, type) ELSE up
    /\ conn' = IF m_sock = "open" /\ conn = "vanished" THEN "expiring" ELSE conn

Handshake ==
    /\ MainGoto("handshake", "loop")
    /\ SendUp("CONNECT")
    /\ UNCHANGED <<fields, lines, recvPc>>

(* run_cli: while (m_connected && m_running). *)
CliLoop ==
    /\ MainGoto("loop", IF m_connected /\ m_running THEN "getline" ELSE "destroy")
    /\ UNCHANGED <<conn, up, fields, lines, recvPc>>

(* End of input, which leaves run_cli without disconnecting. *)
CliEof ==
    /\ MainGoto("getline", "destroy")
    /\ UNCHANGED <<conn, up, fields, lines, recvPc>>

CliLine ==
    /\ MainGoto("getline", IF m_connected THEN "line" ELSE "destroy")
    /\ UNCHANGED <<conn, up, fields, lines, recvPc>>

CliSay ==
    /\ MainGoto("line", "loop")
    /\ lines < MaxLines
    /\ lines' = lines + 1
    /\ SendUp("BROADCAST")
    /\ UNCHANGED <<fields, recvPc>>

CliQuit ==
    /\ MainGoto("line", "disconnect")
    /\ UNCHANGED <<conn, up, fields, lines, recvPc>>

(* disconnect(): nothing to do if no longer connected. run_cli returns     *)
(* after it, and the destructor calls it again.                            *)
DisconnectTest ==
    /\ MainGoto("disconnect", IF m_connected THEN "unset" ELSE "destroy")
    /\ UNCHANGED <<conn, up, fields, lines, recvPc>>

DisconnectUnset ==
    /\ MainGoto("unset", "farewell")
    /\ m_running' = FALSE
    /\ m_connected' = FALSE
    /\ UNCHANGED <<conn, up, m_sock, joinable, lines, recvPc>>

DisconnectFarewell_Silent ==
    /\ MainGoto("farewell", "close")
    /\ UNCHANGED <<conn, up, fields, lines, recvPc>>

DisconnectFarewell ==
    /\ MainGoto("farewell", "close")
    /\ SendUp("DISCONNECT")
    /\ UNCHANGED <<fields, lines, recvPc>>

DisconnectClose ==
    /\ MainGoto("close", "reset")
    /\ m_sock' = "stale"
    /\ UNCHANGED <<conn, up, m_connected, m_running, joinable, lines, recvPc>>

DisconnectReset ==
    /\ MainGoto("reset", "join")
    /\ m_sock' = "invalid"
    /\ UNCHANGED <<conn, up, m_connected, m_running, joinable, lines, recvPc>>

DisconnectJoin_Detaches ==
    /\ MainGoto("join", "destroy")
    /\ joinable' = FALSE
    /\ UNCHANGED <<conn, up, m_connected, m_running, m_sock, lines, recvPc>>

DisconnectJoin ==
    /\ recvPc = "done"
    /\ MainGoto("join", "destroy")
    /\ joinable' = FALSE
    /\ UNCHANGED <<conn, up, m_connected, m_running, m_sock, lines, recvPc>>

(* ~Client(): disconnect(), then the members; the destructor of a thread   *)
(* that is joinable calls std::terminate.                                  *)
Destroy ==
    /\ MainGoto("destroy", IF m_connected THEN "disconnect"
                           ELSE IF joinable THEN "terminated" ELSE "ended")
    /\ UNCHANGED <<conn, up, fields, lines, recvPc>>

Disconnect ==
    \/ DisconnectTest \/ DisconnectUnset \/ DisconnectFarewell
    \/ DisconnectClose \/ DisconnectReset \/ DisconnectJoin

Main == ConnectFail \/ Connect \/ Handshake \/ CliLoop \/ Disconnect \/ Destroy

User == CliEof \/ CliLine \/ CliSay \/ CliQuit

-----------------------------------------------------------------------------
(* The receive thread. *)

RecvGoto(from, to) ==
    /\ recvPc = from
    /\ mainPc # "terminated"
    /\ recvPc' = to
    /\ UNCHANGED <<packets, m_sock, joinable, mainPc, lines>>

RecvTest ==
    /\ RecvGoto("test", IF m_running THEN "call" ELSE "unset")
    /\ UNCHANGED <<conn, down, up, m_connected, m_running>>

(* net_recv_packet(m_sock): a closed or invalid socket fails at once.      *)
RecvCall ==
    /\ RecvGoto("call", IF m_sock = "open" THEN "recv" ELSE "unset")
    /\ UNCHANGED <<conn, down, up, m_connected, m_running>>

(* handle_packet: MSG_KICK stops the loop, MSG_PING is answered, the rest  *)
(* is printed.                                                             *)
RecvPacket ==
    /\ down # <<>>
    /\ RecvGoto("recv", "test")
    /\ down' = Tail(down)
    /\ m_running' = (m_running /\ Head(down) # "KICK")
    /\ IF Head(down) = "PING" THEN SendUp("PONG") ELSE UNCHANGED <<up, conn>>
    /\ UNCHANGED m_connected

RecvFail_Continues ==
    /\ \/ conn = "closed" /\ down = <<>>
       \/ m_sock # "open" /\ CloseWakes
    /\ RecvGoto("recv", "test")
    /\ UNCHANGED <<conn, down, up, m_connected, m_running>>

(* The server closed and everything it sent is read, or the main thread    *)
(* closed the socket in a build where that wakes this one.                 *)
RecvFail ==
    /\ \/ conn = "closed" /\ down = <<>>
       \/ m_sock # "open" /\ CloseWakes
    /\ RecvGoto("recv", "unset")
    /\ UNCHANGED <<conn, down, up, m_connected, m_running>>

RecvUnset ==
    /\ RecvGoto("unset", "stop")
    /\ m_connected' = FALSE
    /\ UNCHANGED <<conn, down, up, m_running>>

RecvStop ==
    /\ RecvGoto("stop", "done")
    /\ m_running' = FALSE
    /\ UNCHANGED <<conn, down, up, m_connected>>

Recv == RecvTest \/ RecvCall \/ RecvPacket \/ RecvFail \/ RecvUnset \/ RecvStop

-----------------------------------------------------------------------------

Next ==
    \/ Main \/ User \/ Recv
    \/ \E type \in DownTypes : ServerSend(type)
    \/ ServerClose("close" \in ServerMay)
    \/ ServerReacts
    \/ ServerHang \/ ServerVanish \/ TcpGiveUp

(* Both threads run; a server that is up and not stuck reads what it is    *)
(* sent; TCP gives up on a host that is gone.                              *)
(* The user need not type anything.                                        *)
Fairness == WF_vars(Main) /\ WF_vars(Recv) /\ WF_vars(ServerReacts)
            /\ WF_vars(TcpGiveUp)

Spec == Init /\ [][Next]_vars

FairSpec == Spec /\ Fairness

-----------------------------------------------------------------------------
(* Properties. *)

(* When main() returns, nothing of the connection is left: the receive     *)
(* thread, which uses the Client object, has ended and the socket is       *)
(* closed, however quitting crosses a kick, a close or a packet.           *)
EndsClean ==
    mainPc = "ended" => recvPc \in {"none", "done"} /\ m_sock = "invalid"

(* The receive thread notices that the server closed or was lost by TCP,   *)
(* however many packets it still has to answer.                            *)
CloseNoticed == conn = "closed" ~> recvPc = "done" \/ mainPc = "terminated"

(* /quit returns unless the server is stuck or its host dies after it took *)
(* the farewell: on Linux, where closing the socket does not wake the      *)
(* receive thread, only because the server closes on MSG_DISCONNECT or TCP *)
(* gives up on it.                                                         *)
QuitReturns ==
    mainPc = "disconnect" ~> \/ mainPc \in {"ended", "terminated"}
                             \/ conn \in {"hung", "vanished"}

-----------------------------------------------------------------------------
(* What the comments say and the code does not do. *)

(* "Delegates to disconnect() to send MSG_DISCONNECT, close the socket,    *)
(* and join the receive thread" (~Client): the thread is never destroyed   *)
(* while joinable.                                                         *)
DestructorJoins == mainPc # "terminated"
=============================================================================
