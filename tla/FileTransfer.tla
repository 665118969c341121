---------------------------- MODULE FileTransfer ----------------------------
(***************************************************************************)
(* Files in both directions: send_file and send_file_all on the server,    *)
(* handle_incoming_file on the client; do_send_file on the client,         *)
(* handle_file_transfer on the server.                                     *)
(*                                                                         *)
(* A transfer is a conversation on the one stream of the session, and no   *)
(* thread owns a direction of it.  The thread that pushes reads the answer *)
(* from a socket that the session's handler is reading; the thread that    *)
(* uploads reads it from a socket that recv_loop is reading.  Whoever is   *)
(* scheduled first gets the packet.  A push holds m_clients_mutex from     *)
(* beginning to end, so every step of it is a step of its own.             *)
(***************************************************************************)
EXTENDS Naturals, Sequences, FiniteSets, FiniteSetsExt

CONSTANTS
    NumClients,         \* registered sessions, ids 1 .. NumClients
    Pusher,             \* server threads that push: the operator, or the
                        \* threads of AppState::server_send_file
    Uploader,           \* client threads that upload, as <<client, number>>
    Chunks,             \* MSG_FILE_DATA packets of a file
    MaxPushes,          \* pushes of each pusher
    MaxPings,           \* rounds of the keepalive thread
    MaxChats,           \* chat messages of each client
    Refusing,           \* clients whose max_file_size is below the files
    Unwritable,         \* clients that cannot open the output file
    Free                \* the mutex is not held

Client == 1..NumClients

ASSUME TransferAssumption ==
    /\ {NumClients, Chunks, MaxPushes, MaxPings, MaxChats} \subseteq Nat
    /\ Uploader \subseteq Client \X Nat
    /\ Refusing \subseteq Client /\ Unwritable \subseteq Client
    /\ Free \notin Pusher

VARIABLES
    m_clients,          \* ids in the map
    mutex,              \* the pusher that holds m_clients_mutex, or Free
    gone,               \* clients whose process has ended
    up, down,           \* unread packets of each stream
    push,               \* the pushing threads
    handlerPc,          \* client_loop and handle_file_transfer, per session
    upfile,             \* ... the upload it is writing
    opened,             \* nested calls of handle_incoming_file: their files
    upload,           \* do_send_file
    pings, chats,       \* rounds and messages so far
    (* What was reported and what is on disk. *)
    pushed,             \* pushes to each client that reported success
    received,           \* files each client reported saved, oldest first
    stored              \* files the server reported saved

streams  == <<up, down>>
serverTh == <<push, handlerPc, upfile>>
clientTh == <<opened, upload>>
results  == <<pushed, received, stored>>

vars == <<m_clients, mutex, gone, streams, serverTh, clientTh, pings, chats,
          results>>

(* The nth chunk of a file, or a packet that carries none (n = 0). A file  *)
(* is named by the thread that sends it and a number.                      *)
Packet(type, by, nr, n) == [type |-> type, by |-> by, nr |-> nr, n |-> n]

Plain(type) == Packet(type, 0, 0, 0)

Whole(by, nr) == [n \in 1..Chunks |-> Packet("DATA", by, nr, n)]

Types == {"START", "DATA", "END", "ACCEPT", "REJECT", "ACK", "TEXT", "PING", "PONG"}

IsStream(s) == \A k \in 1..Len(s) : s[k].type \in Types

TypeOK ==
    /\ m_clients \subseteq Client /\ gone \subseteq Client
    /\ mutex \in Pusher \cup {Free}
    /\ \A i \in Client : IsStream(up[i]) /\ IsStream(down[i])
    /\ \A p \in Pusher :
          /\ push[p].pc \in {"idle", "start", "reply", "data", "end"}
          /\ push[p].to \in 0..NumClients /\ push[p].left \subseteq Client
          /\ push[p].n \in 0..Chunks /\ push[p].nr \in 0..MaxPushes
    /\ handlerPc \in [Client -> {"recv", "forward", "file_start", "file_data",
                                 "bye", "remove", "done"}]
    /\ \A i \in Client : IsStream(upfile[i].data)
    /\ \A i \in Client : \A k \in 1..Len(opened[i]) : IsStream(opened[i][k])
    /\ upload \in [Uploader -> [pc: {"idle", "reply", "data", "done", "failed"},
                                n: 0..Chunks]]
    /\ pings \in 0..MaxPings /\ chats \in [Client -> 0..MaxChats]
    /\ pushed \in [Client -> Nat]

Init ==
    /\ m_clients = Client
    /\ mutex = Free
    /\ gone = {}
    /\ up = [i \in Client |-> <<>>]
    /\ down = [i \in Client |-> <<>>]
    /\ push = [p \in Pusher |->
                  [pc |-> "idle", to |-> 0, left |-> {}, n |-> 0, nr |-> 0]]
    /\ handlerPc = [i \in Client |-> "recv"]
    /\ upfile = [i \in Client |-> [by |-> i, nr |-> 0, data |-> <<>>]]
    /\ opened = [i \in Client |-> <<>>]
    /\ upload = [u \in Uploader |-> [pc |-> "idle", n |-> 0]]
    /\ pings = 0
    /\ chats = [i \in Client |-> 0]
    /\ pushed = [i \in Client |-> 0]
    /\ received = [i \in Client |-> <<>>]
    /\ stored = {}

-----------------------------------------------------------------------------
(* Streams. *)

(* net_send_packet of the server to the clients of to. A client that has   *)
(* ended reads nothing.                                                    *)
Deliver(to, packet) ==
    down' = [i \in Client |-> IF i \in to \ gone THEN Append(down[i], packet)
                              ELSE down[i]]

Take(stream, i) == [stream EXCEPT ![i] = Tail(@)]

MutexFree_Unchecked == TRUE

MutexFree == mutex = Free

-----------------------------------------------------------------------------
(* The pushing thread: send_file, send_file_all, send_file_to_client.      *)

PushUnchanged == UNCHANGED <<m_clients, gone, handlerPc, upfile, clientTh,
                             pings, chats, received, stored>>

(* The mutex is taken for the whole call. *)
PushBegin(p, targets) ==
    /\ push[p].pc = "idle" /\ push[p].nr < MaxPushes
    /\ MutexFree
    /\ targets # {}
    /\ mutex' = p
    /\ push' = [push EXCEPT ![p] = [pc |-> "start", to |-> Min(targets),
                                    left |-> targets \ {Min(targets)},
                                    n |-> 0, nr |-> @.nr + 1]]
    /\ PushUnchanged /\ UNCHANGED <<streams, pushed>>

PushGoto(p, pc, n) ==
    /\ push' = [push EXCEPT ![p].pc = pc, ![p].n = n]
    /\ PushUnchanged /\ UNCHANGED <<mutex, pushed>>

(* send_file_to_client returns; send_file_all goes on with the next client *)
(* whatever the result, and the mutex is released after the last.          *)
PushNext(p, ok) ==
    LET left == push[p].left
        last == left = {}
        next == [push[p] EXCEPT !.pc = "start", !.to = Min(left),
                                !.left = left \ {Min(left)}, !.n = 0]
    IN /\ pushed' = IF ok THEN [pushed EXCEPT ![push[p].to] = @ + 1] ELSE pushed
       /\ mutex' = IF last THEN Free ELSE mutex
       /\ push' = [push EXCEPT ![p] = IF last THEN [@ EXCEPT !.pc = "idle"]
                                      ELSE next]
       /\ PushUnchanged

(* A send fails once the client has ended and its reset has arrived. *)
PushSendFail(p) ==
    /\ push[p].pc \in {"start", "data"} /\ push[p].to \in gone
    /\ PushNext(p, FALSE) /\ UNCHANGED streams

PushStart(p) ==
    /\ push[p].pc = "start"
    /\ Deliver({push[p].to}, Packet("START", p, push[p].nr, 0))
    /\ PushGoto(p, "reply", 0) /\ UNCHANGED up

(* Any packet but MSG_FILE_REJECT counts as acceptance. *)
PushReply(p) ==
    /\ push[p].pc = "reply"
    /\ LET i == push[p].to IN
          /\ up[i] # <<>>
          /\ up' = Take(up, i)
          /\ IF Head(up[i]).type = "REJECT" THEN PushNext(p, FALSE)
             ELSE PushGoto(p, IF Chunks = 0 THEN "end" ELSE "data", 0)
    /\ UNCHANGED down

PushReplyFail_Retries(p) ==
    /\ push[p].pc = "reply"
    /\ push[p].to \in gone /\ up[push[p].to] = <<>>
    /\ PushGoto(p, "start", 0)
    /\ UNCHANGED streams

PushReplyFail(p) ==
    /\ push[p].pc = "reply"
    /\ push[p].to \in gone /\ up[push[p].to] = <<>>
    /\ PushNext(p, FALSE)
    /\ UNCHANGED streams

PushChunk_OffByOne(p) ==
    /\ push[p].pc = "data"
    /\ LET n == push[p].n + 1 IN
          /\ Deliver({push[p].to}, Packet("DATA", p, push[p].nr, n))
          /\ PushGoto(p, IF n <= Chunks THEN "data" ELSE "end", n)
    /\ UNCHANGED up

PushChunk(p) ==
    /\ push[p].pc = "data"
    /\ LET n == push[p].n + 1 IN
          /\ Deliver({push[p].to}, Packet("DATA", p, push[p].nr, n))
          /\ PushGoto(p, IF n < Chunks THEN "data" ELSE "end", n)
    /\ UNCHANGED up

PushEnd(p) ==
    /\ push[p].pc = "end"
    /\ Deliver({push[p].to}, Plain("END"))
    /\ PushNext(p, TRUE) /\ UNCHANGED up

PushRun(p) ==
    \/ PushSendFail(p) \/ PushStart(p) \/ PushReply(p) \/ PushReplyFail(p)
    \/ PushChunk(p) \/ PushEnd(p)

-----------------------------------------------------------------------------
(* The session's handler: client_loop, handle_packet, handle_file_transfer.*)

HandlerGoto(i, from, to) ==
    /\ handlerPc[i] = from
    /\ handlerPc' = [handlerPc EXCEPT ![i] = to]
    /\ UNCHANGED <<mutex, gone, push, clientTh, pings, chats, pushed, received>>

Received(i) == up[i] # <<>> /\ up' = Take(up, i)

(* A chat message is relayed under the mutex; MSG_FILE_START leads to      *)
(* handle_file_transfer; answers and file data are of unknown type here.   *)
HandlerRecv(i) ==
    /\ Received(i)
    /\ HandlerGoto(i, "recv", CASE Head(up[i]).type = "TEXT"  -> "forward"
                                [] Head(up[i]).type = "START" -> "file_start"
                                [] OTHER -> "recv")
    /\ UNCHANGED <<m_clients, down, upfile, stored>>

HandlerForward(i) ==
    /\ MutexFree
    /\ HandlerGoto(i, "forward", "recv")
    /\ Deliver(m_clients \ {i}, Plain("TEXT"))
    /\ UNCHANGED <<m_clients, up, upfile, stored>>

(* "A fresh recv is performed here to obtain the full file-start payload." *)
HandlerFileStart(i) ==
    /\ Received(i)
    /\ LET packet == Head(up[i]) IN
       IF packet.type = "START"
       THEN /\ HandlerGoto(i, "file_start", "file_data")
            /\ upfile' = [upfile EXCEPT ![i] = [by |-> packet.by, nr |-> packet.nr,
                                                data |-> <<>>]]
            /\ Deliver({i}, Plain("ACCEPT"))
       ELSE HandlerGoto(i, "file_start", "recv") /\ UNCHANGED <<upfile, down>>
    /\ UNCHANGED <<m_clients, stored>>

HandlerFileData(i) ==
    /\ Received(i)
    /\ LET packet == Head(up[i]) IN
       IF packet.type = "END"
       THEN /\ HandlerGoto(i, "file_data", "recv")
            /\ stored' = stored \cup {upfile[i]}
            /\ Deliver({i}, Plain("ACK"))
            /\ UNCHANGED upfile
       ELSE /\ HandlerGoto(i, "file_data", "file_data")
            /\ upfile' = IF packet.type = "DATA"
                         THEN [upfile EXCEPT ![i].data = Append(@, packet)]
                         ELSE upfile
            /\ UNCHANGED <<down, stored>>
    /\ UNCHANGED m_clients

HandlerRecvFail_StaysInTransfer(i) ==
    /\ i \in gone /\ up[i] = <<>>
    /\ \/ HandlerGoto(i, "recv", "bye")
       \/ HandlerGoto(i, "file_start", "recv")
    /\ UNCHANGED <<m_clients, streams, upfile, stored>>

(* recv() fails: out of client_loop, or out of handle_file_transfer only.  *)
HandlerRecvFail(i) ==
    /\ i \in gone /\ up[i] = <<>>
    /\ \/ HandlerGoto(i, "recv", "bye")
       \/ HandlerGoto(i, "file_start", "recv")
       \/ HandlerGoto(i, "file_data", "recv")
    /\ UNCHANGED <<m_clients, streams, upfile, stored>>

HandlerBye(i) ==
    /\ MutexFree
    /\ HandlerGoto(i, "bye", "remove")
    /\ Deliver(m_clients, Plain("TEXT"))
    /\ UNCHANGED <<m_clients, up, upfile, stored>>

HandlerRemove(i) ==
    /\ MutexFree
    /\ HandlerGoto(i, "remove", "done")
    /\ m_clients' = m_clients \ {i}
    /\ UNCHANGED <<streams, upfile, stored>>

Handler(i) ==
    \/ HandlerRecv(i) \/ HandlerForward(i) \/ HandlerFileStart(i)
    \/ HandlerFileData(i) \/ HandlerRecvFail(i) \/ HandlerBye(i)
    \/ HandlerRemove(i)

(* keepalive_loop, one round, under the mutex. *)
KeepalivePing ==
    /\ MutexFree /\ pings < MaxPings
    /\ pings' = pings + 1
    /\ Deliver(m_clients, Plain("PING"))
    /\ UNCHANGED <<m_clients, mutex, gone, up, serverTh, clientTh, chats, results>>

-----------------------------------------------------------------------------
(* The client. *)

ClientUnchanged == UNCHANGED <<m_clients, mutex, serverTh, pings, pushed, stored>>

(* handle_incoming_file: refuse, or accept and then open the file.         *)
Incoming(i) ==
    /\ up' = [up EXCEPT ![i] = Append(@, Plain(IF i \in Refusing THEN "REJECT"
                                               ELSE "ACCEPT"))]
    /\ opened' = IF i \in Refusing \cup Unwritable THEN opened
                 ELSE [opened EXCEPT ![i] = <<(<<>>)>> \o @]

ReceiveStart(i) ==
    /\ Head(down[i]).type = "START"
    /\ Incoming(i)
    /\ UNCHANGED received

(* Inside handle_incoming_file: the file of the innermost call.            *)
ReceiveData(i) ==
    /\ Head(down[i]).type = "DATA" /\ opened[i] # <<>>
    /\ opened' = [opened EXCEPT ![i][1] = Append(@, Head(down[i]))]
    /\ UNCHANGED <<up, received>>

ReceiveEnd_KeepsReading(i) ==
    /\ Head(down[i]).type = "END" /\ opened[i] # <<>>
    /\ UNCHANGED <<up, opened, received>>

ReceiveEnd(i) ==
    /\ Head(down[i]).type = "END" /\ opened[i] # <<>>
    /\ opened' = [opened EXCEPT ![i] = Tail(@)]
    /\ received' = [received EXCEPT ![i] = Append(@, opened[i][1])]
    /\ UNCHANGED up

ReceivePing(i) ==
    /\ Head(down[i]).type = "PING"
    /\ up' = [up EXCEPT ![i] = Append(@, Plain("PONG"))]
    /\ UNCHANGED <<opened, received>>

(* Printed, or of unknown type. *)
ReceiveOther(i) ==
    /\ \/ Head(down[i]).type \in {"TEXT", "ACK", "ACCEPT", "REJECT"}
       \/ Head(down[i]).type \in {"DATA", "END"} /\ opened[i] = <<>>
    /\ UNCHANGED <<up, opened, received>>

(* recv_loop takes a packet: for handle_packet, or for the innermost call  *)
(* of handle_incoming_file, which hands handle_packet what is not its own. *)
Receive(i) ==
    /\ i \notin gone /\ down[i] # <<>>
    /\ down' = Take(down, i)
    /\ \/ ReceiveStart(i) \/ ReceiveData(i) \/ ReceiveEnd(i)
       \/ ReceivePing(i) \/ ReceiveOther(i)
    /\ UNCHANGED <<gone, upload, chats>>
    /\ ClientUnchanged

SendUp(i, packet) ==
    /\ i \notin gone
    /\ up' = [up EXCEPT ![i] = Append(@, packet)]
    /\ UNCHANGED <<gone, down, opened, received>>
    /\ ClientUnchanged

Chat(i) ==
    /\ chats[i] < MaxChats
    /\ chats' = [chats EXCEPT ![i] = @ + 1]
    /\ SendUp(i, Plain("TEXT"))
    /\ UNCHANGED upload

(* do_send_file of thread u = <<client, number>>. *)
UploadGoto(u, from, to, n) ==
    /\ upload[u].pc = from
    /\ upload' = [upload EXCEPT ![u] = [pc |-> to, n |-> n]]
    /\ UNCHANGED chats

UploadStart(u) ==
    /\ UploadGoto(u, "idle", "reply", 0)
    /\ SendUp(u[1], Packet("START", u[1], u[2], 0))

(* Here too any packet but MSG_FILE_REJECT counts as acceptance. *)
UploadReply(u) ==
    LET i == u[1] IN
    /\ i \notin gone /\ down[i] # <<>>
    /\ down' = Take(down, i)
    /\ UploadGoto(u, "reply",
                  IF Head(down[i]).type = "REJECT" THEN "failed" ELSE "data", 0)
    /\ UNCHANGED <<up, gone, opened, received>>
    /\ ClientUnchanged

UploadChunk(u) ==
    LET n == upload[u].n + 1 IN
    /\ n <= Chunks
    /\ UploadGoto(u, "data", "data", n)
    /\ SendUp(u[1], Packet("DATA", u[1], u[2], n))

UploadEnd(u) ==
    /\ upload[u].n = Chunks
    /\ UploadGoto(u, "data", "done", Chunks)
    /\ SendUp(u[1], Plain("END"))

Upload(u) ==
    UploadStart(u) \/ UploadReply(u) \/ UploadChunk(u) \/ UploadEnd(u)

(* The client's process ends, whatever its threads are doing. *)
Quit(i) ==
    /\ i \notin gone
    /\ gone' = gone \cup {i}
    /\ down' = [down EXCEPT ![i] = <<>>]
    /\ UNCHANGED <<up, clientTh, chats, received>>
    /\ ClientUnchanged

-----------------------------------------------------------------------------

Next ==
    \/ \E p \in Pusher :
          \/ \E i \in Client : PushBegin(p, m_clients \cap {i})
          \/ PushBegin(p, m_clients)
          \/ PushRun(p)
    \/ \E i \in Client : Handler(i) \/ Receive(i) \/ Chat(i) \/ Quit(i)
    \/ \E u \in Uploader : Upload(u)
    \/ KeepalivePing

(* Every thread is scheduled. Beginning a push, chatting, pinging and      *)
(* quitting happen when somebody or the clock wants them.                  *)
Fairness ==
    /\ \A p \in Pusher : WF_vars(PushRun(p))
    /\ \A i \in Client : WF_vars(Handler(i)) /\ WF_vars(Receive(i))
    /\ \A u \in Uploader : WF_vars(Upload(u))

Spec == Init /\ [][Next]_vars

FairSpec == Spec /\ Fairness

-----------------------------------------------------------------------------
(* Properties. *)

(* A file a client reports saved is one pushed file, whole and in order,   *)
(* however the pushes, the pings and the chat interleave (test_file_send:  *)
(* "File arrives intact").                                                 *)
SavedIntact ==
    \A i \in Client : \A k \in 1..Len(received[i]) :
        \E p \in Pusher, nr \in 1..MaxPushes : received[i][k] = Whole(p, nr)

(* Once a client has read its stream, it has saved exactly as many files   *)
(* as the server reported sent to it: success at one end is success at the *)
(* other, and a push that failed left nothing that looks complete.         *)
ReportedIsSaved ==
    \A i \in Client \ gone :
        /\ \A p \in Pusher : push[p].pc = "idle" \/ push[p].to # i
        /\ down[i] = <<>>
        => Len(received[i]) = pushed[i] /\ opened[i] = <<>>

(* A push that waits for the answer of a client that has ended gives up,   *)
(* so that the mutex does not stay locked for ever on its account.         *)
DeadClientReleasesPush ==
    \A p \in Pusher, i \in Client :
        push[p].pc # "idle" /\ push[p].to = i /\ i \in gone
            ~> push[p].pc = "idle" \/ push[p].to # i

(* When every client has ended, every session is removed and the mutex is  *)
(* free, whatever transfers, in either direction, were cut short.          *)
EverybodyLeaves == gone = Client ~> m_clients = {} /\ mutex = Free

-----------------------------------------------------------------------------
(* What the comments say and the code does not do. *)

(* send_file returns, true or false, and with it the mutex is released     *)
(* (server.cpp:640; "never ... in a way that can deadlock").               *)
PushReturns == \A p \in Pusher : push[p].pc # "idle" ~> push[p].pc = "idle"

(* "Wait for MSG_FILE_ACCEPT; abort on MSG_FILE_REJECT" (server.cpp:635):  *)
(* no push is reported sent to a client that refuses every file.           *)
RefusedNotSent == \A i \in Refusing : pushed[i] = 0

(* "true if the full transfer completed" (client.cpp:585): when the server *)
(* has read what the client sent, a file reported sent is stored.          *)
UploadIsStored ==
    \A u \in Uploader :
        /\ upload[u].pc = "done" /\ u[1] \notin gone
        /\ up[u[1]] = <<>> /\ handlerPc[u[1]] = "recv"
        => [by |-> u[1], nr |-> u[2], data |-> Whole(u[1], u[2])] \in stored
=============================================================================
