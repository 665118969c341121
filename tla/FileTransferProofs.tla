------------------------- MODULE FileTransferProofs -------------------------
(* Theorems about FileTransfer, for any number of clients, pushers, pushes, *)
(* chunks and rounds of pings.                                              *)
EXTENDS FileTransfer, TLAPS, SequenceTheorems, WellFoundedInduction

-----------------------------------------------------------------------------
(* The invariant                                                           *)

Pkt == [type : Types, by : Pusher \cup Nat, nr : Nat, n : Nat]

Pushing == [pc : {"idle", "start", "reply", "data", "end"}, to : 0..NumClients,
            left : SUBSET Client, n : 0..Chunks, nr : 0..MaxPushes]

Typed ==
    /\ m_clients \in SUBSET Client /\ gone \in SUBSET Client
    /\ mutex \in Pusher \cup {Free}
    /\ up \in [Client -> Seq(Pkt)] /\ down \in [Client -> Seq(Pkt)]
    /\ push \in [Pusher -> Pushing]
    /\ handlerPc \in [Client -> {"recv", "forward", "file_start", "file_data",
                                 "bye", "remove", "done"}]
    /\ upfile \in [Client -> [by : Pusher \cup Nat, nr : Nat, data : Seq(Pkt)]]
    /\ opened \in [Client -> Seq(Seq(Pkt))]
    /\ upload \in [Uploader -> [pc : {"idle", "reply", "data", "done", "failed"},
                                n : 0..Chunks]]
    /\ pings \in 0..MaxPings /\ chats \in [Client -> 0..MaxChats]
    /\ pushed \in [Client -> Nat]
    /\ received \in [Client -> Seq(Seq(Pkt))]

\* A push under way has a client and a number, and a chunk to send next.
Pushes ==
    \A p \in Pusher : push[p].pc # "idle" =>
        /\ push[p].to \in Client /\ push[p].nr \in 1..MaxPushes
        /\ push[p].pc = "data" => push[p].n < Chunks

TypeInv == Typed /\ Pushes

-----------------------------------------------------------------------------
(* Minima, packets                                                         *)

\* Every set of numbers has a least one.
LEMMA NatWellFounded == IsWellFoundedOn({s \in Nat \X Nat : s[1] < s[2]}, Nat)
<1>1. OpToRel(<, Nat) = {s \in Nat \X Nat : s[1] < s[2]}
  BY Zenon DEF OpToRel
<1> QED
  BY <1>1, NatLessThanWellFounded

\* The next client of the map is one of those the file is for.
LEMMA MinIsIn ==
  ASSUME NEW S, S \subseteq Nat, S # {}
  PROVE  Min(S) \in S
<1> DEFINE R == {s \in Nat \X Nat : s[1] < s[2]}
<1>1. IsWellFoundedOn(R, Nat)
  BY NatWellFounded
<1> HIDE DEF R
<1>2. PICK x \in S : \A y \in S : ~(<<y, x>> \in R)
  BY <1>1, WFMin
<1>3. ASSUME NEW y \in S PROVE x <= y
  <2>1. x \in Nat /\ y \in Nat
    OBVIOUS
  <2>2. <<y, x>> \in Nat \X Nat /\ ~(<<y, x>> \in R)
    BY <2>1, <1>2
  <2>3. y < x => <<y, x>> \in R
    BY <2>2 DEF R
  <2> QED
    BY <2>1, <2>2, <2>3
<1> QED
  BY <1>2, <1>3 DEF Min

\* What the assumption says of each constant.
LEMMA ConstantsAre ==
  /\ NumClients \in Nat /\ Chunks \in Nat /\ MaxPushes \in Nat /\ MaxPings \in Nat
  /\ MaxChats \in Nat /\ Client \subseteq Nat /\ Client \subseteq 0..NumClients
  /\ Free \notin Pusher
  /\ \A u \in Uploader : u[1] \in Client /\ u[2] \in Nat
  BY TransferAssumption DEF Client

\* Packets are packets, of the type given.
LEMMA PacketsAre ==
  /\ \A type \in Types : Plain(type) \in Pkt /\ Plain(type).type = type
  /\ \A type \in Types, by \in Pusher \cup Nat, nr \in Nat, n \in Nat :
        Packet(type, by, nr, n) \in Pkt /\ Packet(type, by, nr, n).type = type
  BY DEF Plain, Packet, Pkt

\* Where a packet goes that the server sends.
LEMMA Delivered ==
  ASSUME Typed, NEW to, NEW m \in Pkt, Deliver(to, m)
  PROVE  /\ down' \in [Client -> Seq(Pkt)]
         /\ \A i \in Client : down'[i] = IF i \in to \ gone THEN Append(down[i], m) ELSE down[i]
<1>1. \A i \in Client : down[i] \in Seq(Pkt) /\ Append(down[i], m) \in Seq(Pkt)
  BY AppendProperties DEF Typed
<1> QED
  BY <1>1 DEF Deliver

\* What is left of a stream whose first packet is taken, and one more in it.
LEMMA Taken ==
  ASSUME NEW s \in [Client -> Seq(Pkt)], NEW i \in Client, s[i] # <<>>
  PROVE  Take(s, i) \in [Client -> Seq(Pkt)] /\ Head(s[i]) \in Pkt
<1>1. s[i] \in Seq(Pkt) /\ Tail(s[i]) \in Seq(Pkt) /\ Head(s[i]) \in Pkt
  BY HeadTailProperties
<1> QED
  BY <1>1 DEF Take

\* A stream keeps its type when a client sends.
LEMMA Sent ==
  ASSUME Typed, NEW i \in Client, NEW m \in Pkt, up' = [up EXCEPT ![i] = Append(@, m)]
  PROVE  up' \in [Client -> Seq(Pkt)]
<1>1. Append(up[i], m) \in Seq(Pkt)
  BY AppendProperties DEF Typed
<1> QED
  BY <1>1 DEF Typed

-----------------------------------------------------------------------------
(* Types                                                                   *)

\* send_file_to_client returns.
LEMMA PushNextType ==
  ASSUME TypeInv, NEW p \in Pusher, NEW ok \in BOOLEAN, push[p].pc # "idle", PushNext(p, ok),
         up' \in [Client -> Seq(Pkt)], down' \in [Client -> Seq(Pkt)]
  PROVE  TypeInv'
<1> DEFINE left == push[p].left
<1>1. /\ left \in SUBSET Client /\ push[p].to \in Client /\ push[p].nr \in 1..MaxPushes
      /\ push[p].nr \in 0..MaxPushes
  BY ConstantsAre DEF TypeInv, Typed, Pushes, Pushing
<1>2. left # {} => Min(left) \in left
  BY <1>1, ConstantsAre, MinIsIn
<1>3. pushed' \in [Client -> Nat] /\ mutex' \in Pusher \cup {Free} /\ PushUnchanged
  <2>1. pushed' \in [Client -> Nat]
    <3>1. /\ pushed' = IF ok THEN [pushed EXCEPT ![push[p].to] = @ + 1] ELSE pushed
          /\ pushed \in [Client -> Nat]
      BY DEF PushNext, TypeInv, Typed
    <3> QED
      BY <1>1, <3>1
  <2>2. mutex' = (IF left = {} THEN Free ELSE mutex) /\ PushUnchanged
    BY DEF PushNext
  <2> QED
    BY <2>1, <2>2 DEF TypeInv, Typed
<1>4. \A q \in Pusher : q # p => push'[q] = push[q]
  BY DEF PushNext, TypeInv, Typed
<1>5. push' \in [Pusher -> Pushing]
      /\ (push'[p].pc # "idle" => /\ push'[p].pc = "start" /\ push'[p].to \in Client
                                 /\ push'[p].nr = push[p].nr)
  <2>1. CASE left = {}
    <3>1. push' = [push EXCEPT ![p] = [@ EXCEPT !.pc = "idle"]]
      BY <2>1 DEF PushNext
    <3>2. push \in [Pusher -> Pushing]
      BY DEF TypeInv, Typed
    <3>3. [push[p] EXCEPT !.pc = "idle"] \in Pushing /\ [push[p] EXCEPT !.pc = "idle"].pc = "idle"
      BY <3>2 DEF Pushing
    <3> QED
      BY <3>1, <3>2, <3>3
  <2>2. CASE left # {}
    <3>1. push' = [push EXCEPT ![p] = [push[p] EXCEPT !.pc = "start", !.to = Min(left),
                                                      !.left = left \ {Min(left)}, !.n = 0]]
      BY <2>2 DEF PushNext
    <3>2. Min(left) \in Client /\ Min(left) \in 0..NumClients /\ 0 \in 0..Chunks
      BY <1>1, <1>2, <2>2, ConstantsAre
    <3> DEFINE x == [push[p] EXCEPT !.pc = "start", !.to = Min(left),
                                   !.left = left \ {Min(left)}, !.n = 0]
    <3>3. push \in [Pusher -> Pushing]
      BY DEF TypeInv, Typed
    <3>4. x \in Pushing /\ x.pc = "start" /\ x.to \in Client /\ x.nr = push[p].nr
      BY <1>1, <3>2, <3>3 DEF Pushing
    <3> HIDE DEF x
    <3> QED
      BY <3>1, <3>3, <3>4 DEF x
  <2> QED
    BY <2>1, <2>2
<1>6. Typed'
  BY <1>3, <1>5 DEF TypeInv, Typed, PushUnchanged, clientTh
<1>7. Pushes'
  BY <1>1, <1>4, <1>5 DEF TypeInv, Pushes
<1> QED
  BY <1>6, <1>7 DEF TypeInv

\* It goes on with the same client.
LEMMA PushGotoType ==
  ASSUME TypeInv, NEW p \in Pusher, push[p].pc # "idle",
         NEW pc \in {"reply", "data", "end"}, NEW n \in 0..Chunks, pc = "data" => n < Chunks,
         PushGoto(p, pc, n), up' \in [Client -> Seq(Pkt)], down' \in [Client -> Seq(Pkt)]
  PROVE  TypeInv'
<1>1. /\ push' = [push EXCEPT ![p].pc = pc, ![p].n = n]
      /\ PushUnchanged /\ UNCHANGED <<mutex, pushed>>
  BY DEF PushGoto
<1> DEFINE x == [push[p] EXCEPT !.pc = pc, !.n = n]
<1>2. push \in [Pusher -> Pushing] /\ push[p].to \in Client /\ push[p].nr \in 1..MaxPushes
  BY DEF TypeInv, Typed, Pushes
<1>3. x \in Pushing /\ x.pc = pc /\ x.n = n /\ x.to = push[p].to /\ x.nr = push[p].nr
  BY <1>2 DEF Pushing
<1>4. push' = [push EXCEPT ![p] = x]
  BY <1>1, <1>2 DEF Pushing
<1> HIDE DEF x
<1>5. push' \in [Pusher -> Pushing] /\ push'[p] = x /\ \A q \in Pusher : q # p => push'[q] = push[q]
  BY <1>2, <1>3, <1>4
<1>6. Typed'
  BY <1>1, <1>5 DEF TypeInv, Typed, PushUnchanged, clientTh
<1>7. Pushes'
  BY <1>2, <1>3, <1>5 DEF TypeInv, Pushes
<1> QED
  BY <1>6, <1>7 DEF TypeInv

\* Every step of send_file_to_client keeps the types.
LEMMA PushType ==
  ASSUME TypeInv, NEW p \in Pusher, PushRun(p)
  PROVE  TypeInv'
<1>0. Typed /\ up \in [Client -> Seq(Pkt)] /\ down \in [Client -> Seq(Pkt)]
  BY DEF TypeInv, Typed
<1>1. CASE PushSendFail(p)
  BY <1>0, <1>1, PushNextType DEF PushSendFail, streams
<1>2. CASE PushStart(p)
  <2>1. Packet("START", p, push[p].nr, 0) \in Pkt
    <3>1. push[p].nr \in Nat /\ 0 \in Nat
      BY <1>0, ConstantsAre DEF Typed, Pushing
    <3> QED
      BY <3>1, PacketsAre DEF Types
  <2>2. down' \in [Client -> Seq(Pkt)]
    BY <1>0, <1>2, <2>1, Delivered DEF PushStart
  <2>3. 0 \in 0..Chunks
    BY ConstantsAre
  <2> QED
    BY <1>0, <1>2, <2>2, <2>3, PushGotoType DEF PushStart
<1>3. CASE PushReply(p)
  <2> DEFINE i == push[p].to
  <2>1. i \in Client /\ up[i] # <<>> /\ up' = Take(up, i) /\ down' = down /\ push[p].pc = "reply"
    BY <1>3 DEF PushReply, TypeInv, Pushes
  <2>2. up' \in [Client -> Seq(Pkt)]
    BY <1>0, <2>1, Taken
  <2>3. CASE PushNext(p, FALSE)
    BY <1>0, <2>1, <2>2, <2>3, PushNextType
  <2>4. CASE PushGoto(p, IF Chunks = 0 THEN "end" ELSE "data", 0)
    <3>1. 0 \in 0..Chunks /\ (Chunks # 0 => 0 < Chunks)
      BY ConstantsAre
    <3> QED
      BY <1>0, <2>1, <2>2, <2>4, <3>1, PushGotoType
  <2> QED
    BY <1>3, <2>3, <2>4 DEF PushReply
<1>4. CASE PushReplyFail(p)
  BY <1>0, <1>4, PushNextType DEF PushReplyFail, streams
<1>5. CASE PushChunk(p)
  <2> DEFINE n == push[p].n + 1
  <2>1. /\ push[p].pc = "data" /\ Deliver({push[p].to}, Packet("DATA", p, push[p].nr, n))
        /\ PushGoto(p, IF n < Chunks THEN "data" ELSE "end", n) /\ up' = up
    BY <1>5 DEF PushChunk
  <2>2. n \in 0..Chunks /\ n \in Nat /\ push[p].nr \in Nat
    <3>1. push[p].n \in 0..Chunks /\ push[p].n < Chunks /\ push[p].nr \in 0..MaxPushes
      BY <2>1 DEF TypeInv, Typed, Pushes, Pushing
    <3> QED
      BY <3>1, ConstantsAre
  <2>3. Packet("DATA", p, push[p].nr, n) \in Pkt
    BY <2>2, PacketsAre DEF Types
  <2>4. down' \in [Client -> Seq(Pkt)]
    BY <1>0, <2>1, <2>3, Delivered
  <2> HIDE DEF n
  <2> QED
    BY <1>0, <2>1, <2>2, <2>4, PushGotoType
<1>6. CASE PushEnd(p)
  <2>1. down' \in [Client -> Seq(Pkt)]
    BY <1>0, <1>6, PacketsAre, Delivered DEF PushEnd, Types
  <2> QED
    BY <1>0, <1>6, <2>1, PushNextType DEF PushEnd
<1> QED
  BY <1>1, <1>2, <1>3, <1>4, <1>5, <1>6 DEF PushRun

\* send_file and send_file_all begin.
LEMMA PushBeginType ==
  ASSUME TypeInv, NEW p \in Pusher, NEW targets \in SUBSET Client, PushBegin(p, targets)
  PROVE  TypeInv'
<1>1. Min(targets) \in targets
  BY ConstantsAre, MinIsIn DEF PushBegin
<1>2. /\ push' = [push EXCEPT ![p] = [pc |-> "start", to |-> Min(targets),
                                    left |-> targets \ {Min(targets)},
                                    n |-> 0, nr |-> @.nr + 1]]
      /\ mutex' = p /\ push[p].nr \in 0..MaxPushes /\ push[p].nr < MaxPushes
      /\ PushUnchanged /\ UNCHANGED <<streams, pushed>>
  BY DEF PushBegin, TypeInv, Typed, Pushing
<1>3. push[p].nr + 1 \in 1..MaxPushes /\ push[p].nr + 1 \in 0..MaxPushes /\ 0 \in 0..Chunks
  BY <1>2, ConstantsAre
<1>4. Min(targets) \in Client /\ Min(targets) \in 0..NumClients
  BY <1>1, ConstantsAre
<1> DEFINE x == [pc |-> "start", to |-> Min(targets), left |-> targets \ {Min(targets)},
                 n |-> 0, nr |-> push[p].nr + 1]
<1>5. x \in Pushing
  BY <1>3, <1>4 DEF Pushing
<1>6. push' \in [Pusher -> Pushing] /\ push'[p] = x /\ \A q \in Pusher : q # p => push'[q] = push[q]
  BY <1>2, <1>5 DEF TypeInv, Typed
<1>7. Typed'
  BY <1>2, <1>6 DEF TypeInv, Typed, PushUnchanged, clientTh, streams
<1>8. Pushes'
  BY <1>3, <1>4, <1>6 DEF TypeInv, Pushes
<1> QED
  BY <1>7, <1>8 DEF TypeInv

\* Every step of client_loop and handle_file_transfer keeps the types.
LEMMA HandlerType ==
  ASSUME TypeInv, NEW i \in Client, Handler(i)
  PROVE  TypeInv'
<1>0. Typed
  BY DEF TypeInv
<1>1. ASSUME NEW from, NEW to \in {"recv", "forward", "file_start", "file_data", "bye", "remove",
                                 "done"},
             HandlerGoto(i, from, to),
             m_clients' \in SUBSET Client, up' \in [Client -> Seq(Pkt)],
             down' \in [Client -> Seq(Pkt)],
             upfile' \in [Client -> [by : Pusher \cup Nat, nr : Nat, data : Seq(Pkt)]]
      PROVE  TypeInv'
  <2>1. handlerPc' = [handlerPc EXCEPT ![i] = to]
        /\ UNCHANGED <<mutex, gone, push, clientTh, pings, chats, pushed, received>>
    BY <1>1 DEF HandlerGoto
  <2>2. Typed'
    BY <1>0, <1>1, <2>1 DEF Typed, clientTh
  <2>3. Pushes'
    BY <2>1 DEF TypeInv, Pushes
  <2> QED
    BY <2>2, <2>3 DEF TypeInv
<1>2. Plain("TEXT") \in Pkt /\ Plain("ACCEPT") \in Pkt /\ Plain("ACK") \in Pkt
  BY PacketsAre DEF Types
<1>3. ASSUME Received(i)
      PROVE  up' \in [Client -> Seq(Pkt)] /\ Head(up[i]) \in Pkt
  BY <1>0, <1>3, Taken DEF Received, Typed
<1>4. CASE HandlerRecv(i)
  <2>1. PICK to \in {"forward", "file_start", "recv"} : HandlerGoto(i, "recv", to)
    BY <1>4 DEF HandlerRecv
  <2> QED
    BY <1>0, <1>1, <1>3, <1>4, <2>1 DEF HandlerRecv, Typed
<1>5. CASE HandlerForward(i)
  BY <1>0, <1>1, <1>2, <1>5, Delivered DEF HandlerForward, Typed
<1>6. CASE HandlerFileStart(i)
  <2>1. Head(up[i]) \in Pkt /\ up' \in [Client -> Seq(Pkt)] /\ m_clients' = m_clients
    BY <1>3, <1>6 DEF HandlerFileStart
  <2>2. CASE Head(up[i]).type = "START"
    <3>1. /\ HandlerGoto(i, "file_start", "file_data") /\ Deliver({i}, Plain("ACCEPT"))
          /\ upfile' = [upfile EXCEPT ![i] = [by |-> Head(up[i]).by, nr |-> Head(up[i]).nr,
                                              data |-> <<>>]]
      BY <1>6, <2>2 DEF HandlerFileStart
    <3>2. upfile' \in [Client -> [by : Pusher \cup Nat, nr : Nat, data : Seq(Pkt)]]
      <4> DEFINE x == [by |-> Head(up[i]).by, nr |-> Head(up[i]).nr, data |-> <<>>]
      <4>1. Head(up[i]).by \in Pusher \cup Nat /\ Head(up[i]).nr \in Nat
        BY <2>1 DEF Pkt
      <4>2. x \in [by : Pusher \cup Nat, nr : Nat, data : Seq(Pkt)]
        BY <4>1
      <4> HIDE DEF x
      <4>3. upfile' = [upfile EXCEPT ![i] = x]
        BY <3>1 DEF x
      <4> QED
        BY <1>0, <4>2, <4>3 DEF Typed
    <3> QED
      BY <1>0, <1>1, <1>2, <2>1, <3>1, <3>2, Delivered DEF Typed
  <2>3. CASE Head(up[i]).type # "START"
    BY <1>0, <1>1, <1>6, <2>1, <2>3 DEF HandlerFileStart, Typed
  <2> QED
    BY <2>2, <2>3
<1>7. CASE HandlerFileData(i)
  <2>1. Head(up[i]) \in Pkt /\ up' \in [Client -> Seq(Pkt)] /\ m_clients' = m_clients
    BY <1>3, <1>7 DEF HandlerFileData
  <2>2. CASE Head(up[i]).type = "END"
    BY <1>0, <1>1, <1>2, <1>7, <2>1, <2>2, Delivered DEF HandlerFileData, Typed
  <2>3. CASE Head(up[i]).type # "END"
    <3>1. /\ HandlerGoto(i, "file_data", "file_data") /\ down' = down
          /\ upfile' = IF Head(up[i]).type = "DATA"
                       THEN [upfile EXCEPT ![i].data = Append(@, Head(up[i]))] ELSE upfile
      BY <1>7, <2>3 DEF HandlerFileData
    <3>2. upfile' \in [Client -> [by : Pusher \cup Nat, nr : Nat, data : Seq(Pkt)]]
      <4>1. Append(upfile[i].data, Head(up[i])) \in Seq(Pkt)
        BY <1>0, <2>1, AppendProperties DEF Typed
      <4> QED
        BY <1>0, <3>1, <4>1 DEF Typed
    <3> QED
      BY <1>0, <1>1, <2>1, <3>1, <3>2 DEF Typed
  <2> QED
    BY <2>2, <2>3
<1>8. CASE HandlerRecvFail(i)
  BY <1>0, <1>1, <1>8 DEF HandlerRecvFail, Typed, streams
<1>9. CASE HandlerBye(i)
  BY <1>0, <1>1, <1>2, <1>9, Delivered DEF HandlerBye, Typed
<1>10. CASE HandlerRemove(i)
  BY <1>0, <1>1, <1>10 DEF HandlerRemove, Typed, streams
<1> QED
  BY <1>4, <1>5, <1>6, <1>7, <1>8, <1>9, <1>10 DEF Handler

\* What recv_loop does with a packet.
LEMMA ReceiveType ==
  ASSUME TypeInv, NEW i \in Client, Receive(i)
  PROVE  TypeInv'
<1>0. Typed
  BY DEF TypeInv
<1>1. /\ down[i] # <<>> /\ down' = Take(down, i)
      /\ UNCHANGED <<gone, upload, chats, m_clients, mutex, push, handlerPc, upfile, pings,
                     pushed, stored>>
  BY DEF Receive, ClientUnchanged, serverTh
<1>2. down' \in [Client -> Seq(Pkt)] /\ Head(down[i]) \in Pkt
  BY <1>0, <1>1, Taken DEF Typed
<1>3. Plain("REJECT") \in Pkt /\ Plain("ACCEPT") \in Pkt /\ Plain("PONG") \in Pkt
  BY PacketsAre DEF Types
<1>4. opened[i] \in Seq(Seq(Pkt)) /\ received[i] \in Seq(Seq(Pkt))
  BY <1>0 DEF Typed
<1>5. /\ up' \in [Client -> Seq(Pkt)] /\ opened' \in [Client -> Seq(Seq(Pkt))]
      /\ received' \in [Client -> Seq(Seq(Pkt))]
  <2>1. CASE ReceiveStart(i)
    <3>1. up' \in [Client -> Seq(Pkt)]
      BY <1>0, <1>3, <2>1, Sent DEF ReceiveStart, Incoming
    <3>2. <<(<<>>)>> \o opened[i] \in Seq(Seq(Pkt))
      <4>1. <<(<<>>)>> \in Seq(Seq(Pkt))
        OBVIOUS
      <4> QED
        BY <1>4, <4>1, ConcatProperties
    <3>3. opened' = opened \/ opened' = [opened EXCEPT ![i] = <<(<<>>)>> \o @]
      BY <2>1 DEF ReceiveStart, Incoming
    <3> DEFINE x == <<(<<>>)>> \o opened[i]
    <3>4. opened' = opened \/ opened' = [opened EXCEPT ![i] = x]
      BY <3>3
    <3> HIDE DEF x
    <3>5. opened' \in [Client -> Seq(Seq(Pkt))]
      BY <1>0, <3>2, <3>4 DEF Typed, x
    <3> QED
      BY <1>0, <2>1, <3>1, <3>5 DEF ReceiveStart, Typed
  <2>2. CASE ReceiveData(i)
    <3>1. 1 \in 1..Len(opened[i]) /\ opened[i][1] \in Seq(Pkt)
      BY <1>4, <2>2, EmptySeq, LenProperties, ElementOfSeq DEF ReceiveData
    <3>2. Append(opened[i][1], Head(down[i])) \in Seq(Pkt)
      BY <1>2, <3>1, AppendProperties
    <3>3. [opened[i] EXCEPT ![1] = Append(@, Head(down[i]))] \in Seq(Seq(Pkt))
      BY <1>4, <3>1, <3>2, ExceptSeq
    <3> DEFINE x == [opened[i] EXCEPT ![1] = Append(@, Head(down[i]))]
    <3>4. opened' = [opened EXCEPT ![i] = x] /\ up' = up /\ received' = received
      BY <2>2 DEF ReceiveData
    <3> HIDE DEF x
    <3>5. opened' \in [Client -> Seq(Seq(Pkt))]
      BY <1>0, <3>3, <3>4 DEF Typed, x
    <3> QED
      BY <1>0, <3>4, <3>5 DEF Typed
  <2>3. CASE ReceiveEnd(i)
    <3>1. 1 \in 1..Len(opened[i]) /\ opened[i][1] \in Seq(Pkt)
      BY <1>4, <2>3, EmptySeq, LenProperties, ElementOfSeq DEF ReceiveEnd
    <3>2. Tail(opened[i]) \in Seq(Seq(Pkt))
      BY <1>4, <2>3, HeadTailProperties DEF ReceiveEnd
    <3>3. Append(received[i], opened[i][1]) \in Seq(Seq(Pkt))
      BY <1>4, <3>1, AppendProperties
    <3> QED
      BY <1>0, <2>3, <3>2, <3>3 DEF ReceiveEnd, Typed
  <2>4. CASE ReceivePing(i)
    BY <1>0, <1>3, <2>4, Sent DEF ReceivePing, Typed
  <2>5. CASE ReceiveOther(i)
    BY <1>0, <2>5 DEF ReceiveOther, Typed
  <2> QED
    BY <2>1, <2>2, <2>3, <2>4, <2>5 DEF Receive
<1>6. Typed'
  BY <1>0, <1>1, <1>2, <1>5 DEF Typed
<1>7. Pushes'
  BY <1>1 DEF TypeInv, Pushes
<1> QED
  BY <1>6, <1>7 DEF TypeInv

\* The steps of the other threads, uploads among them.
LEMMA OthersType ==
  ASSUME TypeInv, [Next]_vars,
         ~ \E p \in Pusher : PushRun(p), ~ \E i \in Client : Handler(i) \/ Receive(i)
  PROVE  TypeInv'
<1>0. Typed
  BY DEF TypeInv
<1>1. ASSUME NEW p \in Pusher, NEW targets \in SUBSET Client, PushBegin(p, targets) PROVE TypeInv'
  BY <1>1, PushBeginType
<1>2. ASSUME NEW i \in Client, Chat(i) PROVE TypeInv'
  <2>1. /\ up' \in [Client -> Seq(Pkt)] /\ chats' = [chats EXCEPT ![i] = @ + 1]
        /\ chats[i] < MaxChats
        /\ UNCHANGED <<upload, gone, down, opened, received, m_clients, mutex, push, handlerPc,
                       upfile, pings, pushed, stored>>
    BY <1>0, <1>2, PacketsAre, Sent DEF Chat, SendUp, ClientUnchanged, serverTh, Types
  <2>2. chats' \in [Client -> 0..MaxChats]
    <3>1. chats[i] + 1 \in 0..MaxChats
      BY <1>0, <2>1, ConstantsAre DEF Typed
    <3> QED
      BY <1>0, <2>1, <3>1 DEF Typed
  <2>3. Typed'
    BY <1>0, <2>1, <2>2 DEF Typed
  <2>4. Pushes'
    BY <2>1 DEF TypeInv, Pushes
  <2> QED
    BY <2>3, <2>4 DEF TypeInv
<1>3. ASSUME NEW i \in Client, Quit(i) PROVE TypeInv'
  <2>1. /\ gone' = gone \cup {i} /\ down' = [down EXCEPT ![i] = <<>>]
        /\ UNCHANGED <<up, opened, upload, chats, received, m_clients, mutex, push, handlerPc,
                       upfile, pings, pushed, stored>>
    BY <1>3 DEF Quit, ClientUnchanged, serverTh, clientTh
  <2>2. Typed'
    BY <1>0, <2>1 DEF Typed
  <2>3. Pushes'
    BY <2>1 DEF TypeInv, Pushes
  <2> QED
    BY <2>2, <2>3 DEF TypeInv
<1>4. ASSUME NEW u \in Uploader, Upload(u) PROVE TypeInv'
  <2>1. u[1] \in Client /\ u[2] \in Nat /\ u[1] \in Pusher \cup Nat /\ 0 \in 0..Chunks /\ Chunks \in 0..Chunks
    <3>1. Chunks \in Nat /\ u[1] \in Client /\ u[2] \in Nat /\ Client \subseteq Nat
      BY ConstantsAre
    <3>2. 0 \in 0..Chunks /\ Chunks \in 0..Chunks
      BY <3>1
    <3>3. u[1] \in Pusher \cup Nat
      BY <3>1
    <3> QED
      BY <3>1, <3>2, <3>3
  <2>2. ASSUME NEW from, NEW to \in {"idle", "reply", "data", "done", "failed"},
               NEW n \in 0..Chunks, UploadGoto(u, from, to, n),
               up' \in [Client -> Seq(Pkt)], down' \in [Client -> Seq(Pkt)],
               UNCHANGED <<gone, opened, received>>, ClientUnchanged
        PROVE  TypeInv'
    <3>1. upload' = [upload EXCEPT ![u] = [pc |-> to, n |-> n]]
          /\ UNCHANGED <<chats, gone, opened, received, m_clients, mutex, push, handlerPc, upfile,
                         pings, pushed, stored>>
      BY <2>2 DEF UploadGoto, ClientUnchanged, serverTh
    <3>2. upload' \in [Uploader -> [pc : {"idle", "reply", "data", "done", "failed"},
                                    n : 0..Chunks]]
      BY <1>0, <2>2, <3>1 DEF Typed
    <3>3. Typed'
      BY <1>0, <2>2, <3>1, <3>2 DEF Typed
    <3>4. Pushes'
      BY <3>1 DEF TypeInv, Pushes
    <3> QED
      BY <3>3, <3>4 DEF TypeInv
  <2>3. ASSUME NEW m \in Pkt, SendUp(u[1], m)
        PROVE  /\ up' \in [Client -> Seq(Pkt)] /\ down' \in [Client -> Seq(Pkt)]
               /\ UNCHANGED <<gone, opened, received>> /\ ClientUnchanged
    BY <1>0, <2>1, <2>3, Sent DEF SendUp, Typed
  <2>4. CASE UploadStart(u)
    <3>1. Packet("START", u[1], u[2], 0) \in Pkt
      BY <2>1, PacketsAre DEF Types
    <3> QED
      BY <2>1, <2>2, <2>3, <2>4, <3>1 DEF UploadStart
  <2>5. CASE UploadReply(u)
    <3>1. down' \in [Client -> Seq(Pkt)] /\ up' \in [Client -> Seq(Pkt)]
      BY <1>0, <2>1, <2>5, Taken DEF UploadReply, Typed
    <3> QED
      BY <2>1, <2>2, <2>5, <3>1 DEF UploadReply
  <2>6. CASE UploadChunk(u)
    <3> DEFINE n == upload[u].n + 1
    <3>1. n <= Chunks /\ UploadGoto(u, "data", "data", n) /\ SendUp(u[1], Packet("DATA", u[1], u[2], n))
      BY <2>6 DEF UploadChunk
    <3>2. n \in 0..Chunks /\ n \in Nat
      BY <1>0, <3>1, ConstantsAre DEF Typed
    <3>3. Packet("DATA", u[1], u[2], n) \in Pkt
      BY <2>1, <3>2, PacketsAre DEF Types
    <3> HIDE DEF n
    <3> QED
      BY <2>2, <2>3, <3>1, <3>2, <3>3
  <2>7. CASE UploadEnd(u)
    <3>1. Plain("END") \in Pkt
      BY PacketsAre DEF Types
    <3> QED
      BY <2>1, <2>2, <2>3, <2>7, <3>1 DEF UploadEnd
  <2> QED
    BY <1>4, <2>4, <2>5, <2>6, <2>7 DEF Upload
<1>5. CASE KeepalivePing
  <2>1. /\ down' \in [Client -> Seq(Pkt)] /\ pings' = pings + 1 /\ pings < MaxPings
        /\ UNCHANGED <<m_clients, mutex, gone, up, push, handlerPc, upfile, opened, upload, chats,
                       pushed, received, stored>>
    BY <1>0, <1>5, PacketsAre, Delivered DEF KeepalivePing, serverTh, clientTh, results, Types
  <2>2. pings' \in 0..MaxPings
    BY <1>0, <2>1, ConstantsAre DEF Typed
  <2>3. Typed'
    BY <1>0, <2>1, <2>2 DEF Typed
  <2>4. Pushes'
    BY <2>1 DEF TypeInv, Pushes
  <2> QED
    BY <2>3, <2>4 DEF TypeInv
<1>6. CASE UNCHANGED vars
  <2>1. Typed'
    BY <1>0, <1>6 DEF Typed, vars, streams, serverTh, clientTh, results
  <2>2. Pushes'
    BY <1>6 DEF TypeInv, Pushes, vars, serverTh
  <2> QED
    BY <2>1, <2>2 DEF TypeInv
<1>7. m_clients \in SUBSET Client /\ \A i \in Client : m_clients \cap {i} \in SUBSET Client
  BY <1>0 DEF Typed
<1> QED
  BY <1>1, <1>2, <1>3, <1>4, <1>5, <1>6, <1>7 DEF Next

\* No step disturbs a type.
LEMMA TypeStep == TypeInv /\ [Next]_vars => TypeInv'
<1> SUFFICES ASSUME TypeInv, [Next]_vars PROVE TypeInv'
  OBVIOUS
<1> QED
  BY PushType, HandlerType, ReceiveType, OthersType

-----------------------------------------------------------------------------
(* What a client has of a file and what it will get                        *)

Prefix(by, nr, n) == [m \in 1..n |-> Packet("DATA", by, nr, m)]

\* A place in the succession of files pushed to a client: inside the n first
\* chunks of one, or between two, and how many are done.
State == [open : BOOLEAN, by : Pusher \cup {0}, nr : 0..MaxPushes, n : 0..Chunks, done : Nat]

\* The packet m leads from s to r.
Leads(s, m, r) ==
    /\ m.type = "START" =>
          /\ ~s.open /\ m.by \in Pusher /\ m.nr \in 1..MaxPushes
          /\ r = [open |-> TRUE, by |-> m.by, nr |-> m.nr, n |-> 0, done |-> s.done]
    /\ m.type = "DATA" =>
          /\ s.open /\ s.n < Chunks /\ m = Packet("DATA", s.by, s.nr, s.n + 1)
          /\ r = [s EXCEPT !.n = s.n + 1]
    /\ m.type = "END" =>
          /\ s.open /\ s.n = Chunks
          /\ r = [s EXCEPT !.open = FALSE, !.done = s.done + 1]
    /\ m.type \notin {"START", "DATA", "END"} => r = s

\* Where handle_incoming_file is, and where the pushing thread is.
ClientAt(i, s) ==
    /\ s.done = Len(received[i])
    /\ s.open => /\ s.by \in Pusher /\ s.nr \in 1..MaxPushes
                 /\ opened[i] = <<Prefix(s.by, s.nr, s.n)>>
    /\ ~s.open => opened[i] = <<>>

ServerAt(i, s) ==
    /\ s.done = pushed[i]
    /\ s.open => \E p \in Pusher : /\ push[p].to = i /\ push[p].pc \in {"reply", "data", "end"}
                                   /\ s.by = p /\ s.nr = push[p].nr /\ s.n = push[p].n
    /\ ~s.open => \A p \in Pusher : push[p].to = i => push[p].pc \in {"idle", "start"}

\* The packets under way lead the client to where the server is.
FollowsAt(i) ==
    \E st \in [0..Len(down[i]) -> State] :
        /\ ClientAt(i, st[0])
        /\ \A k \in 1..Len(down[i]) : Leads(st[k - 1], down[i][k], st[k])
        /\ ServerAt(i, st[Len(down[i])])

Willing == Client \ (Refusing \cup Unwritable)

Follows == \A i \in Willing \ gone : FollowsAt(i)

\* Where a push is in its file.
Phases ==
    \A p \in Pusher :
        /\ push[p].pc = "reply" => push[p].n = 0
        /\ push[p].pc = "end" => push[p].n = Chunks

Holder == \A p \in Pusher : push[p].pc # "idle" => mutex = p

NoRefusal == \A i \in Client \ Refusing : \A k \in 1..Len(up[i]) : up[i][k].type # "REJECT"

\* Who refuses or cannot write has no file.
Untouched == \A i \in Client \ Willing : opened[i] = <<>>

IInv == Phases /\ Holder /\ NoRefusal /\ Untouched /\ SavedIntact /\ Follows

\* Nothing of the client's changes.
LEMMA FollowUnchanged ==
  ASSUME Typed, NEW i \in Client, FollowsAt(i),
         down'[i] = down[i], opened'[i] = opened[i], received'[i] = received[i],
         \A s \in State : ServerAt(i, s) => ServerAt(i, s)'
  PROVE  FollowsAt(i)'
<1>1. PICK st \in [0..Len(down[i]) -> State] :
        /\ ClientAt(i, st[0])
        /\ \A k \in 1..Len(down[i]) : Leads(st[k - 1], down[i][k], st[k])
        /\ ServerAt(i, st[Len(down[i])])
  BY DEF FollowsAt
<1>2. Len(down[i]) \in Nat
  BY LenProperties DEF Typed
<1>3. ClientAt(i, st[0])'
  BY <1>1 DEF ClientAt
<1>4. st[Len(down[i])] \in State
  BY <1>1, <1>2
<1>5. ServerAt(i, st[Len(down[i])])'
  BY <1>1, <1>4 DEF ServerAt
<1> QED
  BY <1>1, <1>3, <1>5 DEF FollowsAt

\* The server sends the client a packet.
LEMMA FollowAppend ==
  ASSUME Typed, NEW i \in Client, FollowsAt(i), NEW m \in Pkt,
         down'[i] = Append(down[i], m), opened'[i] = opened[i], received'[i] = received[i],
         \A s \in State : ServerAt(i, s) => \E r \in State : Leads(s, m, r) /\ ServerAt(i, r)'
  PROVE  FollowsAt(i)'
<1>0. PICK L \in Nat : L = Len(down[i])
  BY LenProperties DEF Typed
<1>1. PICK st \in [0..L -> State] :
        /\ ClientAt(i, st[0])
        /\ \A k \in 1..L : Leads(st[k - 1], down[i][k], st[k])
        /\ ServerAt(i, st[L])
  BY <1>0 DEF FollowsAt
<1>2. /\ L \in Nat /\ Len(down'[i]) = L + 1 /\ down'[i][L + 1] = m
      /\ \A k \in 1..L : down'[i][k] = down[i][k]
  BY <1>0, AppendProperties DEF Typed
<1>3. st[L] \in State
  BY <1>1, <1>2
<1>4. PICK r \in State : Leads(st[L], m, r) /\ ServerAt(i, r)'
  BY <1>1, <1>3
<1>5. PICK new \in [0..L + 1 -> State] :
        /\ new[0] = st[0] /\ new[L + 1] = r
        /\ \A k \in 1..L : new[k] = st[k] /\ new[k - 1] = st[k - 1]
        /\ new[(L + 1) - 1] = st[L]
  <2> DEFINE f == [k \in 0..L + 1 |-> IF k = L + 1 THEN r ELSE st[k]]
  <2>1. /\ f \in [0..L + 1 -> State] /\ f[0] = st[0] /\ f[L + 1] = r
        /\ \A k \in 1..L : f[k] = st[k] /\ f[k - 1] = st[k - 1]
        /\ f[(L + 1) - 1] = st[L]
    BY <1>1, <1>2, <1>4
  <2> QED
    BY <2>1
<1>6. ClientAt(i, new[0])'
  BY <1>1, <1>5 DEF ClientAt
<1>7. \A k \in 1..L + 1 : Leads(new[k - 1], down'[i][k], new[k])
  <2> SUFFICES ASSUME NEW k \in 1..L + 1 PROVE Leads(new[k - 1], down'[i][k], new[k])
    OBVIOUS
  <2>1. CASE k = L + 1
    BY <1>2, <1>4, <1>5, <2>1
  <2>2. CASE k \in 1..L
    BY <1>1, <1>2, <1>5, <2>2
  <2> QED
    BY <1>2, <2>1, <2>2
<1>8. ServerAt(i, new[L + 1])'
  BY <1>4, <1>5 DEF ServerAt
<1>9. \E x \in [0..L + 1 -> State] :
        /\ ClientAt(i, x[0])'
        /\ \A k \in 1..L + 1 : Leads(x[k - 1], down'[i][k], x[k])
        /\ ServerAt(i, x[L + 1])'
  BY <1>5, <1>6, <1>7, <1>8
<1> QED
  BY <1>2, <1>9 DEF FollowsAt

\* The client takes a packet.
LEMMA FollowTake ==
  ASSUME Typed, NEW i \in Client, FollowsAt(i), down[i] # <<>>, down'[i] = Tail(down[i]),
         \A s, r \in State : ClientAt(i, s) /\ Leads(s, Head(down[i]), r) => ClientAt(i, r)',
         \A s \in State : ServerAt(i, s) => ServerAt(i, s)'
  PROVE  FollowsAt(i)'
<1>0. PICK L \in Nat : L = Len(down[i])
  BY LenProperties DEF Typed
<1>1. PICK st \in [0..L -> State] :
        /\ ClientAt(i, st[0])
        /\ \A k \in 1..L : Leads(st[k - 1], down[i][k], st[k])
        /\ ServerAt(i, st[L])
  BY <1>0 DEF FollowsAt
<1>2. /\ L \in Nat \ {0} /\ Len(down'[i]) = L - 1 /\ Head(down[i]) = down[i][1]
      /\ \A k \in 1..L - 1 : down'[i][k] = down[i][k + 1]
  BY <1>0, EmptySeq, HeadTailProperties DEF Typed
<1>3. PICK new \in [0..L - 1 -> State] :
        /\ new[0] = st[1] /\ new[L - 1] = st[L]
        /\ \A k \in 1..L - 1 : new[k] = st[k + 1] /\ new[k - 1] = st[(k + 1) - 1]
        /\ st[0] \in State /\ st[1] \in State /\ st[L] \in State /\ 1 \in 1..L /\ 1 - 1 = 0
  <2> DEFINE f == [k \in 0..L - 1 |-> st[k + 1]]
  <2>1. /\ f \in [0..L - 1 -> State] /\ f[0] = st[1] /\ f[L - 1] = st[L]
        /\ \A k \in 1..L - 1 : f[k] = st[k + 1] /\ f[k - 1] = st[(k + 1) - 1]
        /\ st[0] \in State /\ st[1] \in State /\ st[L] \in State /\ 1 \in 1..L /\ 1 - 1 = 0
    BY <1>1, <1>2
  <2> QED
    BY <2>1
<1>4. ClientAt(i, st[1])'
  BY <1>1, <1>2, <1>3
<1>5. ServerAt(i, st[L])'
  BY <1>1, <1>3
<1>6. \A k \in 1..L - 1 : Leads(new[k - 1], down'[i][k], new[k])
  <2> SUFFICES ASSUME NEW k \in 1..L - 1 PROVE Leads(new[k - 1], down'[i][k], new[k])
    OBVIOUS
  <2>1. k + 1 \in 1..L
    BY <1>2
  <2> QED
    BY <1>1, <1>2, <1>3, <2>1
<1>7. \E x \in [0..L - 1 -> State] :
        /\ ClientAt(i, x[0])'
        /\ \A k \in 1..L - 1 : Leads(x[k - 1], down'[i][k], x[k])
        /\ ServerAt(i, x[L - 1])'
  <2>1. ClientAt(i, new[0])'
    BY <1>3, <1>4 DEF ClientAt
  <2>2. ServerAt(i, new[L - 1])'
    BY <1>3, <1>5 DEF ServerAt
  <2> QED
    BY <1>3, <1>6, <2>1, <2>2
<1> QED
  BY <1>2, <1>7 DEF FollowsAt

\* Packets that are not of a file leave everybody where he is.
LEMMA DeliverFollows ==
  ASSUME Typed, Follows, NEW to, NEW type \in {"TEXT", "ACCEPT", "ACK", "PING"},
         Deliver(to, Plain(type)), UNCHANGED <<gone, push, opened, received, pushed>>
  PROVE  Follows'
<1> SUFFICES ASSUME NEW i \in Willing \ gone PROVE FollowsAt(i)'
  BY DEF Follows, Willing
<1>1. i \in Client /\ FollowsAt(i)
  BY DEF Follows, Willing
<1>2. Plain(type) \in Pkt /\ Plain(type).type = type
  BY PacketsAre DEF Types
<1>3. down'[i] = Append(down[i], Plain(type)) \/ down'[i] = down[i]
  BY <1>1, <1>2, Delivered
<1>4. \A s \in State : ServerAt(i, s) => ServerAt(i, s)'
  BY DEF ServerAt
<1>5. CASE down'[i] = down[i]
  BY <1>1, <1>4, <1>5, FollowUnchanged
<1>6. CASE down'[i] = Append(down[i], Plain(type))
  <2>1. \A s \in State : ServerAt(i, s) => \E r \in State : Leads(s, Plain(type), r) /\ ServerAt(i, r)'
    BY <1>2, <1>4 DEF Leads
  <2> QED
    BY <1>1, <1>2, <1>6, <2>1, FollowAppend
<1> QED
  BY <1>3, <1>5, <1>6

\* The server sends nothing.
LEMMA QuietFollows ==
  ASSUME Typed, Follows, UNCHANGED <<down, gone, push, opened, received, pushed>>
  PROVE  Follows'
<1> SUFFICES ASSUME NEW i \in Willing \ gone PROVE FollowsAt(i)'
  BY DEF Follows, Willing
<1>1. i \in Client /\ FollowsAt(i)
  BY DEF Follows, Willing
<1>2. \A s \in State : ServerAt(i, s) => ServerAt(i, s)'
  BY DEF ServerAt
<1> QED
  BY <1>1, <1>2, FollowUnchanged

-----------------------------------------------------------------------------
(* Pushing                                                                 *)

\* Nobody else is pushing.
LEMMA Alone ==
  ASSUME Typed, Holder, NEW p \in Pusher, push[p].pc # "idle"
  PROVE  \A q \in Pusher : q # p => push[q].pc = "idle"
  BY DEF Holder

\* The client of a push is where the push is, any other is between two files.
LEMMA PushIsAt ==
  ASSUME Typed, Holder, NEW p \in Pusher, push[p].pc # "idle", NEW i \in Client,
         NEW s \in State, ServerAt(i, s)
  PROVE  /\ s.open => /\ push[p].to = i /\ push[p].pc \in {"reply", "data", "end"}
                      /\ s.by = p /\ s.nr = push[p].nr /\ s.n = push[p].n
         /\ ~s.open => (push[p].to = i => push[p].pc = "start")
  BY Alone DEF ServerAt

\* A client between two files stays there when the push goes on elsewhere.
LEMMA Elsewhere ==
  ASSUME Typed, Holder, NEW p \in Pusher, push[p].pc # "idle", NEW i \in Client,
         NEW s \in State, s.done = pushed'[i], ~s.open,
         \A q \in Pusher : q # p => push'[q] = push[q],
         push'[p].to = i => push'[p].pc \in {"idle", "start"}
  PROVE  ServerAt(i, s)'
<1>1. \A q \in Pusher : push'[q].to = i => push'[q].pc \in {"idle", "start"}
  BY Alone
<1> QED
  BY <1>1 DEF ServerAt

\* After the return of send_file_to_client.
LEMMA PushNextIs ==
  ASSUME Typed, Pushes, Holder, NEW p \in Pusher, push[p].pc # "idle",
         NEW ok \in BOOLEAN, PushNext(p, ok)
  PROVE  /\ \A q \in Pusher : q # p => push'[q] = push[q]
         /\ push'[p].pc \in {"idle", "start"}
         /\ push'[p].pc # "idle" => mutex' = p
         /\ \A i \in Client : i # push[p].to => pushed'[i] = pushed[i]
         /\ pushed'[push[p].to] = IF ok THEN pushed[push[p].to] + 1 ELSE pushed[push[p].to]
         /\ UNCHANGED <<gone, opened, received>>
<1> DEFINE left == push[p].left
<1>1. push \in [Pusher -> Pushing] /\ pushed \in [Client -> Nat] /\ push[p].to \in Client
      /\ mutex = p
  BY DEF Typed, Pushes, Holder
<1>2. /\ pushed' = IF ok THEN [pushed EXCEPT ![push[p].to] = @ + 1] ELSE pushed
      /\ mutex' = IF left = {} THEN Free ELSE mutex
      /\ UNCHANGED <<gone, opened, received>>
  BY DEF PushNext, PushUnchanged, clientTh
<1>3. /\ \A q \in Pusher : q # p => push'[q] = push[q]
      /\ push'[p].pc \in {"idle", "start"}
      /\ push'[p].pc # "idle" => left # {}
  <2>1. CASE left = {}
    <3>1. push' = [push EXCEPT ![p] = [@ EXCEPT !.pc = "idle"]]
      BY <2>1 DEF PushNext
    <3>2. [push[p] EXCEPT !.pc = "idle"].pc = "idle"
      BY <1>1 DEF Pushing
    <3> QED
      BY <1>1, <3>1, <3>2
  <2>2. CASE left # {}
    <3> DEFINE x == [push[p] EXCEPT !.pc = "start", !.to = Min(left),
                                   !.left = left \ {Min(left)}, !.n = 0]
    <3>1. push' = [push EXCEPT ![p] = x]
      BY <2>2 DEF PushNext
    <3>2. x.pc = "start"
      BY <1>1 DEF Pushing
    <3> HIDE DEF x
    <3> QED
      BY <1>1, <2>2, <3>1, <3>2 DEF x
  <2> QED
    BY <2>1, <2>2
<1> QED
  BY <1>1, <1>2, <1>3

\* Inside send_file_to_client.
LEMMA PushGotoIs ==
  ASSUME Typed, NEW p \in Pusher, NEW pc, NEW n, PushGoto(p, pc, n)
  PROVE  /\ \A q \in Pusher : q # p => push'[q] = push[q]
         /\ push'[p].pc = pc /\ push'[p].n = n
         /\ push'[p].to = push[p].to /\ push'[p].nr = push[p].nr
         /\ UNCHANGED <<mutex, pushed, gone, opened, received>>
  BY DEF PushGoto, PushUnchanged, clientTh, Typed, Pushing

\* Clients other than the push's.
LEMMA OthersFollow ==
  ASSUME Typed, Pushes, Holder, NEW p \in Pusher, push[p].pc # "idle",
         NEW i \in Client, i # push[p].to, FollowsAt(i), down'[i] = down[i],
         pushed'[i] = pushed[i], UNCHANGED <<opened, received>>,
         \A q \in Pusher : q # p => push'[q] = push[q],
         push'[p].to = i => push'[p].pc \in {"idle", "start"}
  PROVE  FollowsAt(i)'
<1>1. ASSUME NEW s \in State, ServerAt(i, s) PROVE ServerAt(i, s)'
  <2>1. ~s.open /\ s.done = pushed'[i]
    BY <1>1, PushIsAt DEF ServerAt
  <2> QED
    BY <2>1, Elsewhere
<1> QED
  BY <1>1, FollowUnchanged

\* Taking packets, and sending others than MSG_FILE_REJECT.
LEMMA TakenRefusals ==
  ASSUME Typed, NoRefusal, NEW i \in Client, up[i] # <<>>, up' = Take(up, i)
  PROVE  NoRefusal'
<1>1. /\ up'[i] = Tail(up[i]) /\ \A j \in Client : j # i => up'[j] = up[j]
      /\ Len(Tail(up[i])) = Len(up[i]) - 1 /\ Len(up[i]) \in Nat
      /\ \A k \in 1..Len(Tail(up[i])) : Tail(up[i])[k] = up[i][k + 1]
  BY HeadTailProperties, LenProperties DEF Typed, Take
<1> SUFFICES ASSUME NEW j \in Client \ Refusing, NEW k \in 1..Len(up'[j])
             PROVE  up'[j][k].type # "REJECT"
  BY DEF NoRefusal
<1>2. CASE j # i
  BY <1>1, <1>2 DEF NoRefusal
<1>3. CASE j = i
  <2> DEFINE n == Len(up[i])
  <2>1. n \in Nat /\ k \in 1..n - 1 /\ up'[i][k] = up[i][k + 1]
    BY <1>1, <1>3
  <2> HIDE DEF n
  <2>2. k + 1 \in 1..n
    BY <2>1
  <2>3. \A l \in 1..n : up[i][l].type # "REJECT"
    BY <1>3 DEF NoRefusal, n
  <2> QED
    BY <1>3, <2>1, <2>2, <2>3
<1> QED
  BY <1>2, <1>3

\* A client sends MSG_FILE_REJECT only if it refuses.
LEMMA SentRefusals ==
  ASSUME Typed, NoRefusal, NEW i \in Client, NEW m \in Pkt, up' = [up EXCEPT ![i] = Append(@, m)],
         m.type = "REJECT" => i \in Refusing
  PROVE  NoRefusal'
<1>1. /\ up'[i] = Append(up[i], m) /\ \A j \in Client : j # i => up'[j] = up[j]
      /\ Len(up'[i]) = Len(up[i]) + 1 /\ Len(up[i]) \in Nat
      /\ \A k \in 1..Len(up[i]) : up'[i][k] = up[i][k]
      /\ up'[i][Len(up[i]) + 1] = m
  BY AppendProperties, LenProperties DEF Typed
<1> SUFFICES ASSUME NEW j \in Client \ Refusing, NEW k \in 1..Len(up'[j])
             PROVE  up'[j][k].type # "REJECT"
  BY DEF NoRefusal
<1>2. CASE j # i
  BY <1>1, <1>2 DEF NoRefusal
<1>3. CASE j = i
  <2>1. k \in 1..Len(up[i]) \/ k = Len(up[i]) + 1
    BY <1>1, <1>3
  <2> QED
    BY <1>1, <1>3, <2>1 DEF NoRefusal
<1> QED
  BY <1>2, <1>3

\* What a step of a push leaves to show.
LEMMA PushInv ==
  ASSUME TypeInv, IInv, NEW p \in Pusher, push[p].pc # "idle",
         \A q \in Pusher : q # p => push'[q] = push[q],
         push'[p].pc # "idle" => mutex' = p,
         push'[p].pc = "reply" => push'[p].n = 0,
         push'[p].pc = "end" => push'[p].n = Chunks,
         UNCHANGED <<gone, opened, received>>,
         NoRefusal', Follows'
  PROVE  IInv'
<1>1. Phases'
  BY DEF IInv, Phases
<1>2. Holder'
  BY Alone DEF IInv, Holder, TypeInv
<1>3. Untouched' /\ SavedIntact'
  BY DEF IInv, Untouched, SavedIntact
<1> QED
  BY <1>1, <1>2, <1>3 DEF IInv

\* Each step of send_file_to_client.
LEMMA PushRunInv ==
  ASSUME TypeInv, IInv, NEW p \in Pusher, PushRun(p)
  PROVE  IInv'
<1>i. PICK i : i = push[p].to
  OBVIOUS
<1>0. Typed /\ Pushes /\ Holder /\ push \in [Pusher -> Pushing]
  BY DEF TypeInv, IInv, Typed
<1>p. (push[p].pc = "reply" => push[p].n = 0) /\ (push[p].pc = "end" => push[p].n = Chunks)
  BY DEF IInv, Phases
\* The push returns, from a client that has ended or after MSG_FILE_END.
<1>1. ASSUME push[p].pc # "idle", NEW ok \in BOOLEAN, PushNext(p, ok), NoRefusal',
             \A j \in Client \ gone : j # i => down'[j] = down[j],
             i \in Willing \ gone => FollowsAt(i)'
      PROVE  IInv'
  <2>1. /\ \A q \in Pusher : q # p => push'[q] = push[q]
        /\ push'[p].pc \in {"idle", "start"}
        /\ push'[p].pc # "idle" => mutex' = p
        /\ \A j \in Client : j # i => pushed'[j] = pushed[j]
        /\ UNCHANGED <<gone, opened, received>>
    BY <1>i, <1>0, <1>1, PushNextIs
  <2>2. Follows'
    <3>1. ASSUME NEW j \in Willing \ gone, j # i PROVE FollowsAt(j)'
      <4>1. j \in Client /\ FollowsAt(j) /\ j \in Client \ gone
        BY <3>1 DEF IInv, Follows, Willing
      <4>2. down'[j] = down[j] /\ pushed'[j] = pushed[j]
        BY <1>1, <2>1, <3>1, <4>1
      <4> QED
        BY <1>i, <1>0, <1>1, <2>1, <3>1, <4>1, <4>2, OthersFollow
    <3>2. ASSUME NEW j \in Willing \ gone PROVE FollowsAt(j)'
      BY <1>1, <3>1
    <3> QED
      BY <2>1, <3>2 DEF Follows, Willing
  <2> QED
    BY <1>1, <2>1, <2>2, PushInv
\* The push goes on with its client.
<1>2. ASSUME push[p].pc # "idle", NEW pc \in {"reply", "data", "end"}, NEW n, PushGoto(p, pc, n),
             pc = "reply" => n = 0, pc = "end" => n = Chunks, NoRefusal',
             \A j \in Client \ gone : j # i => down'[j] = down[j],
             i \in Willing \ gone => FollowsAt(i)'
      PROVE  IInv'
  <2>1. /\ \A q \in Pusher : q # p => push'[q] = push[q]
        /\ push'[p].pc = pc /\ push'[p].n = n /\ push'[p].to = i
        /\ UNCHANGED <<mutex, pushed, gone, opened, received>>
    BY <1>i, <1>0, <1>2, PushGotoIs
  <2>2. Follows'
    <3>1. ASSUME NEW j \in Willing \ gone, j # i PROVE FollowsAt(j)'
      <4>1. j \in Client /\ FollowsAt(j) /\ j \in Client \ gone
        BY <3>1 DEF IInv, Follows, Willing
      <4>2. down'[j] = down[j] /\ pushed'[j] = pushed[j]
        BY <1>2, <2>1, <3>1, <4>1
      <4> QED
        BY <1>i, <1>0, <1>2, <2>1, <3>1, <4>1, <4>2, OthersFollow
    <3>2. ASSUME NEW j \in Willing \ gone PROVE FollowsAt(j)'
      BY <1>2, <3>1
    <3> QED
      BY <2>1, <3>2 DEF Follows, Willing
  <2>3. mutex' = p
    BY <1>0, <1>2, <2>1 DEF Holder
  <2> QED
    BY <1>2, <2>1, <2>2, <2>3, PushInv
<1>3. ASSUME up' = up PROVE NoRefusal'
  BY <1>3 DEF IInv, NoRefusal
<1>4. push[p].pc # "idle" => i \in Client /\ push[p].nr \in 1..MaxPushes /\ push[p].n \in 0..Chunks
  BY <1>i, <1>0 DEF Pushes, Pushing
<1>5. i \in Willing \ gone => FollowsAt(i) /\ i \in Client
  BY DEF IInv, Follows, Willing
<1>6. CASE PushSendFail(p) \/ PushReplyFail(p)
  <2>1. push[p].pc # "idle" /\ PushNext(p, FALSE) /\ UNCHANGED <<up, down>> /\ i \in gone
    BY <1>i, <1>6 DEF PushSendFail, PushReplyFail, streams
  <2> QED
    BY <1>1, <1>3, <2>1
<1>7. CASE PushStart(p)
  <2> DEFINE m == Packet("START", p, push[p].nr, 0)
  <2>1. push[p].pc = "start" /\ Deliver({i}, m) /\ PushGoto(p, "reply", 0) /\ up' = up
    BY <1>i, <1>7 DEF PushStart
  <2>2. /\ m \in Pkt /\ m.type = "START" /\ m.by = p /\ m.nr = push[p].nr
        /\ push[p].nr \in 0..MaxPushes /\ 0 \in 0..Chunks
    BY <1>4, <2>1, ConstantsAre DEF Packet, Pkt, Types
  <2> HIDE DEF m
  <2>3. \A j \in Client : down'[j] = IF j \in {i} \ gone THEN Append(down[j], m) ELSE down[j]
    BY <1>0, <2>1, <2>2, Delivered
  <2>4. ASSUME i \in Willing \ gone PROVE FollowsAt(i)'
    <3>1. ASSUME NEW s \in State, ServerAt(i, s)
          PROVE  \E r \in State : Leads(s, m, r) /\ ServerAt(i, r)'
      <4> DEFINE r == [open |-> TRUE, by |-> p, nr |-> push[p].nr, n |-> 0, done |-> s.done]
      <4>1. ~s.open /\ s.done = pushed[i] /\ s.done \in Nat
        BY <1>0, <1>5, <2>1, <2>4, <3>1, <1>i, PushIsAt DEF ServerAt, State
      <4>2. r \in State
        BY <2>2, <4>1 DEF State
      <4>3. Leads(s, m, r)
        BY <1>4, <2>1, <2>2, <4>1 DEF Leads
      <4>4. /\ push'[p].pc = "reply" /\ push'[p].n = 0 /\ push'[p].to = i
            /\ push'[p].nr = push[p].nr /\ pushed' = pushed
        BY <1>i, <1>0, <2>1, PushGotoIs
      <4>5. PICK x \in State : x = r
        BY <4>2
      <4>6. ServerAt(i, x)'
        BY <4>1, <4>4, <4>5 DEF ServerAt
      <4> QED
        BY <4>3, <4>5, <4>6
    <3>2. /\ i \in Client /\ FollowsAt(i) /\ down'[i] = Append(down[i], m)
          /\ opened'[i] = opened[i] /\ received'[i] = received[i]
      BY <1>0, <1>5, <2>1, <2>3, <2>4, PushGotoIs
    <3> QED
      BY <1>0, <2>2, <3>1, <3>2, FollowAppend
  <2> QED
    BY <1>2, <1>3, <2>1, <2>3, <2>4
<1>8. CASE PushReply(p)
  <2>1. push[p].pc = "reply" /\ up[i] # <<>> /\ up' = Take(up, i) /\ down' = down
    BY <1>i, <1>8 DEF PushReply
  <2>2. NoRefusal'
    BY <1>0, <1>4, <2>1, TakenRefusals DEF IInv
  <2>3. CASE Head(up[i]).type = "REJECT"
    <3>1. PushNext(p, FALSE)
      BY <1>i, <1>8, <2>3 DEF PushReply
    <3>2. i \notin Willing
      <4>1. i \in Client /\ Len(up[i]) \in Nat /\ Len(up[i]) # 0 /\ Head(up[i]) = up[i][1]
        BY <1>0, <1>4, <2>1, EmptySeq, HeadTailProperties, LenProperties DEF Typed
      <4>2. 1 \in 1..Len(up[i])
        BY <4>1
      <4> QED
        BY <2>3, <4>1, <4>2 DEF IInv, NoRefusal, Willing
    <3> QED
      BY <1>1, <2>1, <2>2, <3>1, <3>2
  <2>4. CASE Head(up[i]).type # "REJECT"
    <3>1. PICK pc \in {"data", "end"} : PushGoto(p, pc, 0) /\ (pc = "end" => 0 = Chunks)
      BY <1>i, <1>8, <2>4 DEF PushReply
    <3>2. push[p].n = 0
      BY <1>p, <2>1
    <3>3. ASSUME i \in Willing \ gone PROVE FollowsAt(i)'
      <4>1. ASSUME NEW s \in State, ServerAt(i, s) PROVE ServerAt(i, s)'
        <5>1. s.open /\ s.by = p /\ s.nr = push[p].nr /\ s.n = push[p].n /\ s.done = pushed[i]
          BY <1>i, <1>0, <1>5, <2>1, <3>3, <4>1, PushIsAt DEF ServerAt, State
        <5>2. /\ push'[p].pc = pc /\ push'[p].n = 0 /\ push'[p].to = i
              /\ push'[p].nr = push[p].nr /\ pushed' = pushed
          BY <1>i, <1>0, <3>1, PushGotoIs
        <5> QED
          BY <3>1, <3>2, <5>1, <5>2 DEF ServerAt
      <4>2. /\ i \in Client /\ FollowsAt(i) /\ down'[i] = down[i]
            /\ opened'[i] = opened[i] /\ received'[i] = received[i]
        BY <1>i, <1>0, <1>5, <2>1, <3>1, <3>3, PushGotoIs
      <4> QED
        BY <1>0, <4>1, <4>2, FollowUnchanged
    <3> QED
      BY <1>2, <2>1, <2>2, <3>1, <3>3
  <2> QED
    BY <2>3, <2>4
<1>9. CASE PushChunk(p)
  <2>0. PICK n : n = push[p].n + 1
    OBVIOUS
  <2>1. /\ push[p].pc = "data" /\ Deliver({i}, Packet("DATA", p, push[p].nr, n)) /\ up' = up
        /\ PushGoto(p, IF n < Chunks THEN "data" ELSE "end", n)
    BY <1>i, <1>9, <2>0 DEF PushChunk
  <2>2. n \in Nat /\ n \in 0..Chunks /\ push[p].n < Chunks /\ n - 1 = push[p].n
    BY <1>i, <1>0, <1>4, <2>0, <2>1, ConstantsAre DEF Pushes
  <2>3. PICK pc \in {"data", "end"} : PushGoto(p, pc, n) /\ (pc = "end" => n = Chunks)
    BY <2>1, <2>2, ConstantsAre
  <2>4. PICK m \in Pkt : m = Packet("DATA", p, push[p].nr, n) /\ m.type = "DATA"
    <3>1. push[p].nr \in Nat
      BY <1>4, <2>1, ConstantsAre
    <3>2. Packet("DATA", p, push[p].nr, n) \in Pkt
      BY <2>2, <3>1 DEF Packet, Pkt, Types
    <3>3. Packet("DATA", p, push[p].nr, n).type = "DATA"
      BY DEF Packet
    <3> QED
      BY <3>2, <3>3
  <2>5. \A j \in Client : down'[j] = IF j \in {i} \ gone THEN Append(down[j], m) ELSE down[j]
    BY <1>0, <2>1, <2>4, Delivered
  <2>6. ASSUME i \in Willing \ gone PROVE FollowsAt(i)'
    <3>1. ASSUME NEW s \in State, ServerAt(i, s)
          PROVE  \E r \in State : Leads(s, m, r) /\ ServerAt(i, r)'
      <4>1. s.open /\ s.by = p /\ s.nr = push[p].nr /\ s.n = push[p].n /\ s.done = pushed[i]
        BY <1>i, <1>0, <1>5, <2>1, <2>6, <3>1, PushIsAt DEF ServerAt, State
      <4>2. PICK r \in State : r = [s EXCEPT !.n = s.n + 1]
        BY <2>0, <2>2, <4>1 DEF State
      <4>3. r.open /\ r.by = p /\ r.nr = push[p].nr /\ r.n = n /\ r.done = pushed[i]
        BY <2>0, <4>1, <4>2 DEF State
      <4>4. Leads(s, m, r)
        BY <2>0, <2>2, <2>4, <4>1, <4>2 DEF Leads
      <4>5. /\ push'[p].pc = pc /\ push'[p].n = n /\ push'[p].to = i
            /\ push'[p].nr = push[p].nr /\ pushed' = pushed
        BY <1>i, <1>0, <2>3, PushGotoIs
      <4>6. ServerAt(i, r)'
        BY <2>3, <4>3, <4>5 DEF ServerAt
      <4> QED
        BY <4>4, <4>6
    <3>2. /\ i \in Client /\ FollowsAt(i) /\ down'[i] = Append(down[i], m)
          /\ opened'[i] = opened[i] /\ received'[i] = received[i]
      BY <1>i, <1>0, <1>5, <2>3, <2>5, <2>6, PushGotoIs
    <3> QED
      BY <1>0, <3>1, <3>2, FollowAppend
  <2> QED
    BY <1>2, <1>3, <2>1, <2>3, <2>5, <2>6
<1>10. CASE PushEnd(p)
  <2>1. push[p].pc = "end" /\ Deliver({i}, Plain("END")) /\ PushNext(p, TRUE) /\ up' = up
    BY <1>i, <1>10 DEF PushEnd
  <2>2. PICK m \in Pkt : m = Plain("END") /\ m.type = "END"
    BY PacketsAre DEF Types
  <2>3. \A j \in Client : down'[j] = IF j \in {i} \ gone THEN Append(down[j], m) ELSE down[j]
    BY <1>0, <2>1, <2>2, Delivered
  <2>4. /\ push'[p].pc \in {"idle", "start"} /\ \A q \in Pusher : q # p => push'[q] = push[q]
        /\ pushed'[i] = pushed[i] + 1 /\ UNCHANGED <<gone, opened, received>>
    BY <1>i, <1>0, <2>1, PushNextIs
  <2>5. ASSUME i \in Willing \ gone PROVE FollowsAt(i)'
    <3>1. ASSUME NEW s \in State, ServerAt(i, s)
          PROVE  \E r \in State : Leads(s, m, r) /\ ServerAt(i, r)'
      <4>1. s.open /\ s.n = push[p].n /\ s.done = pushed[i] /\ s.done \in Nat
        BY <1>i, <1>0, <1>5, <2>1, <2>5, <3>1, PushIsAt DEF ServerAt, State
      <4>2. s.n = Chunks
        BY <1>p, <2>1, <4>1
      <4>3. PICK r \in State : r = [s EXCEPT !.open = FALSE, !.done = s.done + 1]
        <5>1. s.done + 1 \in Nat
          BY <4>1
        <5> QED
          BY <5>1 DEF State
      <4>4. ~r.open /\ r.done = pushed'[i]
        BY <2>4, <4>1, <4>3 DEF State
      <4>5. Leads(s, m, r)
        BY <2>2, <4>1, <4>2, <4>3 DEF Leads
      <4>6. ServerAt(i, r)'
        BY <1>0, <1>5, <2>1, <2>4, <2>5, <4>4, Elsewhere
      <4> QED
        BY <4>5, <4>6
    <3>2. /\ i \in Client /\ FollowsAt(i) /\ down'[i] = Append(down[i], m)
          /\ opened'[i] = opened[i] /\ received'[i] = received[i]
      BY <1>5, <2>3, <2>4, <2>5
    <3> QED
      BY <1>0, <3>1, <3>2, FollowAppend
  <2> QED
    BY <1>1, <1>3, <2>1, <2>3, <2>5
<1> QED
  BY <1>6, <1>7, <1>8, <1>9, <1>10 DEF PushRun

-----------------------------------------------------------------------------
(* The other threads                                                       *)

\* Nothing but the streams changes.
LEMMA StreamInv ==
  ASSUME TypeInv, IInv, UNCHANGED <<mutex, gone, push, opened, pushed, received>>,
         NoRefusal', Follows'
  PROVE  IInv'
<1>1. Phases' /\ Holder'
  BY DEF IInv, Phases, Holder
<1>2. Untouched' /\ SavedIntact'
  BY DEF IInv, Untouched, SavedIntact
<1> QED
  BY <1>1, <1>2 DEF IInv

\* Nobody is pushing when the mutex is free, so no client is inside a file.
LEMMA PushBeginInv ==
  ASSUME TypeInv, IInv, NEW p \in Pusher, NEW targets \in SUBSET Client, PushBegin(p, targets)
  PROVE  IInv'
<1>0. Typed /\ Pushes /\ Holder /\ push \in [Pusher -> Pushing]
  BY DEF TypeInv, IInv, Typed
<1>1. /\ mutex = Free /\ mutex' = p
      /\ push' = [push EXCEPT ![p] = [pc |-> "start", to |-> Min(targets),
                                      left |-> targets \ {Min(targets)},
                                      n |-> 0, nr |-> @.nr + 1]]
      /\ UNCHANGED <<gone, up, down, opened, pushed, received>>
  BY DEF PushBegin, MutexFree, PushUnchanged, streams, clientTh
<1>2. \A q \in Pusher : push[q].pc = "idle"
  BY <1>0, <1>1, ConstantsAre DEF Holder
<1>3. /\ push'[p].pc = "start"
      /\ \A q \in Pusher : q # p => push'[q] = push[q]
  BY <1>0, <1>1
<1>4. Phases'
  BY <1>2, <1>3 DEF Phases
<1>5. Holder'
  BY <1>1, <1>2, <1>3 DEF Holder
<1>6. NoRefusal' /\ Untouched' /\ SavedIntact'
  BY <1>1 DEF IInv, NoRefusal, Untouched, SavedIntact
<1>7. ASSUME NEW i \in Willing \ gone PROVE FollowsAt(i)'
  <2>1. i \in Client /\ FollowsAt(i)
    BY DEF IInv, Follows, Willing
  <2>2. ASSUME NEW s \in State, ServerAt(i, s) PROVE ServerAt(i, s)'
    <3>1. ~s.open /\ s.done = pushed'[i]
      BY <1>1, <1>2, <2>2 DEF ServerAt, State
    <3>2. \A q \in Pusher : push'[q].pc \in {"idle", "start"}
      BY <1>2, <1>3
    <3> QED
      BY <3>1, <3>2 DEF ServerAt
  <2>3. down'[i] = down[i] /\ opened'[i] = opened[i] /\ received'[i] = received[i]
    BY <1>1
  <2> QED
    BY <1>0, <2>1, <2>2, <2>3, FollowUnchanged
<1>8. Follows'
  BY <1>1, <1>7 DEF Follows
<1> QED
  BY <1>4, <1>5, <1>6, <1>8 DEF IInv

\* A handler sends its client no packet of a pushed file.
LEMMA HandlerInv ==
  ASSUME TypeInv, IInv, NEW i \in Client, Handler(i)
  PROVE  IInv'
<1>0. Typed /\ NoRefusal /\ Follows
  BY DEF TypeInv, IInv
<1>1. UNCHANGED <<mutex, gone, push, opened, pushed, received>>
  BY DEF Handler, HandlerRecv, HandlerForward, HandlerFileStart, HandlerFileData, HandlerRecvFail,
         HandlerBye, HandlerRemove, HandlerGoto, clientTh
<1>2. up' = up \/ (up[i] # <<>> /\ up' = Take(up, i))
  BY DEF Handler, HandlerRecv, HandlerForward, HandlerFileStart, HandlerFileData, HandlerRecvFail,
         HandlerBye, HandlerRemove, Received, streams
<1>3. down' = down \/ \E to : \E type \in {"TEXT", "ACCEPT", "ACK", "PING"} : Deliver(to, Plain(type))
  BY DEF Handler, HandlerRecv, HandlerForward, HandlerFileStart, HandlerFileData, HandlerRecvFail,
         HandlerBye, HandlerRemove, streams
<1>4. NoRefusal'
  <2>1. CASE up' = up
    BY <1>0, <2>1 DEF NoRefusal
  <2>2. CASE up[i] # <<>> /\ up' = Take(up, i)
    BY <1>0, <2>2, TakenRefusals
  <2> QED
    BY <1>2, <2>1, <2>2
<1>5. Follows'
  BY <1>0, <1>1, <1>3, DeliverFollows, QuietFollows
<1> QED
  BY <1>1, <1>4, <1>5, StreamInv

\* A file grows by one chunk at a time.
LEMMA PrefixIs ==
  ASSUME NEW by, NEW nr, NEW n \in Nat
  PROVE  /\ Prefix(by, nr, 0) = <<>>
         /\ Append(Prefix(by, nr, n), Packet("DATA", by, nr, n + 1)) = Prefix(by, nr, n + 1)
         /\ Prefix(by, nr, Chunks) = Whole(by, nr)
<1>1. PICK S : S = {Packet("DATA", by, nr, m) : m \in 1..n + 1}
  OBVIOUS
<1>2. PICK a : a = Prefix(by, nr, n)
  OBVIOUS
<1>3. PICK c : c = Prefix(by, nr, n + 1)
  OBVIOUS
<1>4. PICK x : x = Packet("DATA", by, nr, n + 1)
  OBVIOUS
<1>5. a \in Seq(S) /\ Len(a) = n /\ \A m \in 1..n : a[m] = Packet("DATA", by, nr, m)
  <2>1. \A m \in 1..n : Packet("DATA", by, nr, m) \in S
    BY <1>1
  <2> QED
    BY <1>2, <2>1 DEF Prefix
<1>6. c \in Seq(S) /\ Len(c) = n + 1 /\ \A m \in 1..n + 1 : c[m] = Packet("DATA", by, nr, m)
  <2>1. \A m \in 1..n + 1 : Packet("DATA", by, nr, m) \in S
    BY <1>1
  <2> QED
    BY <1>3, <2>1 DEF Prefix
<1>7. x \in S
  BY <1>1, <1>4
<1>8. PICK b \in Seq(S) : /\ b = Append(a, x) /\ Len(b) = n + 1
                          /\ \A m \in 1..n : b[m] = a[m]
                          /\ b[n + 1] = x
  BY <1>5, <1>7, AppendProperties
<1>9. ASSUME NEW m \in 1..n + 1 PROVE b[m] = c[m]
  <2>1. CASE m = n + 1
    BY <1>4, <1>6, <1>8, <2>1
  <2>2. CASE m \in 1..n
    BY <1>5, <1>6, <1>8, <2>2
  <2> QED
    BY <2>1, <2>2
<1>10. b = c
  BY <1>6, <1>8, <1>9, SeqEqual
<1> QED
  BY <1>2, <1>3, <1>4, <1>8, <1>10 DEF Prefix, Whole

\* A client in one transfer has one file open.
LEMMA OneFile ==
  ASSUME NEW x
  PROVE  /\ <<x>> # <<>> /\ <<x>>[1] = x /\ Tail(<<x>>) = <<>>
         /\ <<x>> \o <<>> = <<x>>
  OBVIOUS

\* The innermost file of a client that writes, and what it makes of a packet.
LEMMA ReceiveFollows ==
  ASSUME Typed, NEW i \in Client \ (Refusing \cup Unwritable),
         NEW s \in State, NEW r \in State, ClientAt(i, s), Leads(s, Head(down[i]), r),
         ReceiveStart(i) \/ ReceiveData(i) \/ ReceiveEnd(i) \/ ReceivePing(i) \/ ReceiveOther(i)
  PROVE  ClientAt(i, r)'
<1>0. /\ opened \in [Client -> Seq(Seq(Pkt))] /\ received \in [Client -> Seq(Seq(Pkt))]
      /\ s.n \in Nat /\ s.done = Len(received[i])
  BY ConstantsAre DEF Typed, State, ClientAt
<1>1. PICK h : h = Head(down[i])
  OBVIOUS
<1>2. CASE ReceiveStart(i)
  <2>1. /\ ~s.open /\ h.by \in Pusher /\ h.nr \in 1..MaxPushes
        /\ r = [open |-> TRUE, by |-> h.by, nr |-> h.nr, n |-> 0, done |-> s.done]
    BY <1>1, <1>2 DEF ReceiveStart, Leads
  <2>2. /\ opened[i] = <<>> /\ opened' = [opened EXCEPT ![i] = <<(<<>>)>> \o @]
        /\ received' = received
    BY <1>2, <2>1 DEF ReceiveStart, Incoming, ClientAt
  <2>3. opened'[i] = <<Prefix(h.by, h.nr, 0)>>
    BY <1>0, <2>2, OneFile, PrefixIs
  <2> QED
    BY <1>0, <2>1, <2>2, <2>3 DEF ClientAt
<1>3. CASE ReceiveData(i)
  <2>1. /\ s.open /\ h = Packet("DATA", s.by, s.nr, s.n + 1)
        /\ r = [s EXCEPT !.n = s.n + 1]
    BY <1>1, <1>3 DEF ReceiveData, Leads
  <2>2. /\ s.by \in Pusher /\ s.nr \in 1..MaxPushes /\ opened[i] = <<Prefix(s.by, s.nr, s.n)>>
        /\ opened' = [opened EXCEPT ![i][1] = Append(@, h)]
        /\ received' = received
    BY <1>1, <1>3, <2>1 DEF ReceiveData, ClientAt
  <2>3. opened'[i] = <<Prefix(s.by, s.nr, s.n + 1)>>
    <3>1. PICK x : x = Prefix(s.by, s.nr, s.n)
      OBVIOUS
    <3>2. opened'[i] = [<<x>> EXCEPT ![1] = Append(@, h)]
      BY <1>0, <2>2, <3>1
    <3>3. [<<x>> EXCEPT ![1] = Append(@, h)] = <<Append(x, h)>>
      OBVIOUS
    <3>4. Append(x, h) = Prefix(s.by, s.nr, s.n + 1)
      BY <1>0, <2>1, <3>1, PrefixIs
    <3> QED
      BY <3>2, <3>3, <3>4
  <2>4. r.open /\ r.by = s.by /\ r.nr = s.nr /\ r.n = s.n + 1 /\ r.done = s.done
    BY <2>1 DEF State
  <2> QED
    BY <1>0, <2>2, <2>3, <2>4 DEF ClientAt
<1>4. CASE ReceiveEnd(i)
  <2>1. s.open /\ r = [s EXCEPT !.open = FALSE, !.done = s.done + 1]
    BY <1>4 DEF ReceiveEnd, Leads
  <2>2. PICK x : opened[i] = <<x>>
    BY <2>1 DEF ClientAt
  <2>3. /\ opened'[i] = Tail(opened[i])
        /\ received'[i] = Append(received[i], opened[i][1])
    BY <1>0, <1>4 DEF ReceiveEnd
  <2>4. opened[i][1] \in Seq(Pkt)
    <3>1. 1 \in 1..Len(opened[i])
      BY <2>2
    <3> QED
      BY <1>0, <3>1, ElementOfSeq
  <2>5. opened'[i] = <<>> /\ Len(received'[i]) = s.done + 1
    BY <1>0, <2>2, <2>3, <2>4, OneFile, AppendProperties
  <2>6. ~r.open /\ r.done = s.done + 1
    BY <2>1 DEF State
  <2> QED
    BY <2>5, <2>6 DEF ClientAt
<1>5. CASE ReceivePing(i) \/ ReceiveOther(i)
  <2>1. opened' = opened /\ received' = received
    BY <1>5 DEF ReceivePing, ReceiveOther
  <2>2. s.open => opened[i] # <<>>
    BY OneFile DEF ClientAt
  <2>3. h.type \notin {"START", "DATA", "END"}
    BY <1>1, <1>5, <2>2 DEF ReceivePing, ReceiveOther, Leads
  <2>4. r = s
    BY <1>1, <2>3 DEF Leads
  <2> QED
    BY <2>1, <2>4 DEF ClientAt
<1> QED
  BY <1>2, <1>3, <1>4, <1>5

\* Each packet a client takes.
LEMMA ReceiveInv ==
  ASSUME TypeInv, IInv, NEW i \in Client, Receive(i)
  PROVE  IInv'
<1>0. Typed /\ NoRefusal /\ Follows /\ Untouched
  BY DEF TypeInv, IInv
<1>1. /\ i \notin gone /\ down[i] # <<>> /\ down' = Take(down, i)
      /\ UNCHANGED <<gone, mutex, push, pushed>>
      /\ ReceiveStart(i) \/ ReceiveData(i) \/ ReceiveEnd(i) \/ ReceivePing(i) \/ ReceiveOther(i)
  BY DEF Receive, ClientUnchanged, serverTh
<1>2. /\ opened \in [Client -> Seq(Seq(Pkt))] /\ received \in [Client -> Seq(Seq(Pkt))]
      /\ down \in [Client -> Seq(Pkt)]
  BY <1>0 DEF Typed
<1>3. /\ \A j \in Client : j # i => /\ opened'[j] = opened[j] /\ received'[j] = received[j]
                                    /\ down'[j] = down[j]
      /\ down'[i] = Tail(down[i])
  <2>1. \A j \in Client : j # i => opened'[j] = opened[j] /\ received'[j] = received[j]
    BY <1>1, <1>2 DEF ReceiveStart, Incoming, ReceiveData, ReceiveEnd, ReceivePing, ReceiveOther
  <2> QED
    BY <1>1, <1>2, <2>1 DEF Take
<1>4. Phases' /\ Holder'
  BY <1>1 DEF IInv, Phases, Holder
<1>5. NoRefusal'
  <2>1. CASE up' = up
    BY <1>0, <2>1 DEF NoRefusal
  <2>2. CASE ReceiveStart(i)
    <3>1. PICK type \in {"REJECT", "ACCEPT"} :
             /\ up' = [up EXCEPT ![i] = Append(@, Plain(type))]
             /\ type = "REJECT" => i \in Refusing
      BY <2>2 DEF ReceiveStart, Incoming
    <3>2. Plain(type) \in Pkt /\ Plain(type).type = type
      BY PacketsAre DEF Types
    <3> QED
      BY <1>0, <3>1, <3>2, SentRefusals
  <2>3. CASE ReceivePing(i)
    <3>1. Plain("PONG") \in Pkt /\ Plain("PONG").type = "PONG"
      BY PacketsAre DEF Types
    <3>2. up' = [up EXCEPT ![i] = Append(@, Plain("PONG"))]
      BY <2>3 DEF ReceivePing
    <3>3. Plain("PONG").type = "REJECT" => i \in Refusing
      BY <3>1
    <3> QED
      BY <1>0, <3>1, <3>2, <3>3, SentRefusals
  <2> QED
    BY <1>1, <2>1, <2>2, <2>3 DEF ReceiveData, ReceiveEnd, ReceiveOther
<1>6. Untouched'
  <2> SUFFICES ASSUME NEW j \in Client \ Willing PROVE opened'[j] = <<>>
    BY DEF Untouched
  <2>1. opened[j] = <<>>
    BY <1>0 DEF Untouched
  <2>2. CASE j # i
    BY <1>3, <2>1, <2>2
  <2>3. CASE j = i
    <3>1. i \in Refusing \cup Unwritable
      BY <2>3 DEF Willing
    <3> QED
      BY <1>1, <2>1, <2>3, <3>1
      DEF ReceiveStart, Incoming, ReceiveData, ReceiveEnd, ReceivePing, ReceiveOther
  <2> QED
    BY <2>2, <2>3
<1>7. Follows'
  <2> SUFFICES ASSUME NEW j \in Willing \ gone PROVE FollowsAt(j)'
    BY <1>1 DEF Follows, Willing
  <2>1. j \in Client \ (Refusing \cup Unwritable) /\ j \in Client /\ FollowsAt(j)
    BY <1>0 DEF Follows, Willing
  <2>2. \A s \in State : ServerAt(j, s) => ServerAt(j, s)'
    BY <1>1 DEF ServerAt
  <2>3. CASE j # i
    BY <1>0, <1>3, <2>1, <2>2, <2>3, FollowUnchanged
  <2>4. CASE j = i
    <3>1. \A s, r \in State : ClientAt(i, s) /\ Leads(s, Head(down[i]), r) => ClientAt(i, r)'
      BY <1>0, <1>1, <2>1, <2>4, ReceiveFollows
    <3> QED
      BY <1>0, <1>1, <1>3, <2>1, <2>2, <2>4, <3>1, FollowTake
  <2> QED
    BY <2>3, <2>4
<1>8. SavedIntact'
  <2>0. SavedIntact
    BY DEF IInv
  <2>1. CASE received' = received
    BY <2>0, <2>1 DEF SavedIntact
  <2>2. CASE ReceiveEnd(i)
    <3>1. /\ opened[i] # <<>> /\ Head(down[i]).type = "END"
          /\ received'[i] = Append(received[i], opened[i][1])
      BY <1>2, <2>2 DEF ReceiveEnd
    <3>2. FollowsAt(i)
      BY <1>0, <1>1, <3>1 DEF Untouched, Follows
    <3>3. PICK st \in [0..Len(down[i]) -> State] :
            /\ ClientAt(i, st[0])
            /\ \A k \in 1..Len(down[i]) : Leads(st[k - 1], down[i][k], st[k])
      BY <3>2 DEF FollowsAt
    <3>4. /\ 1 \in 1..Len(down[i]) /\ 0 \in 0..Len(down[i]) /\ 1 - 1 = 0
          /\ Head(down[i]) = down[i][1]
      <4>1. Len(down[i]) \in Nat \ {0}
        BY <1>1, <1>2, EmptySeq, LenProperties
      <4> QED
        BY <1>1, <1>2, <4>1, HeadTailProperties
    <3>5. Leads(st[0], Head(down[i]), st[1])
      BY <3>3, <3>4
    <3>6. st[0].open /\ st[0].n = Chunks
      BY <3>1, <3>5 DEF Leads
    <3>7. /\ st[0].by \in Pusher /\ st[0].nr \in 1..MaxPushes
          /\ opened[i] = <<Prefix(st[0].by, st[0].nr, Chunks)>>
      BY <3>3, <3>6 DEF ClientAt
    <3>8. opened[i][1] = Whole(st[0].by, st[0].nr)
      BY <3>7, ConstantsAre, PrefixIs
    <3>9. opened[i][1] \in Seq(Pkt)
      <4>1. 1 \in 1..Len(opened[i])
        BY <3>7
      <4> QED
        BY <1>2, <4>1, ElementOfSeq
    <3>10. /\ Len(received'[i]) = Len(received[i]) + 1 /\ Len(received[i]) \in Nat
           /\ \A k \in 1..Len(received[i]) : received'[i][k] = received[i][k]
           /\ received'[i][Len(received[i]) + 1] = opened[i][1]
      BY <1>2, <3>1, <3>9, AppendProperties, LenProperties
    <3> SUFFICES ASSUME NEW j \in Client, NEW k \in 1..Len(received'[j])
                 PROVE  \E p \in Pusher, nr \in 1..MaxPushes : received'[j][k] = Whole(p, nr)
      BY DEF SavedIntact
    <3>11. CASE j # i
      BY <1>3, <2>0, <3>11 DEF SavedIntact
    <3>12. CASE j = i /\ k \in 1..Len(received[i])
      BY <2>0, <3>10, <3>12 DEF SavedIntact
    <3>13. CASE j = i /\ k = Len(received[i]) + 1
      BY <3>7, <3>8, <3>10, <3>13
    <3> QED
      BY <3>10, <3>11, <3>12, <3>13
  <2> QED
    BY <1>1, <2>1, <2>2 DEF ReceiveStart, ReceiveData, ReceivePing, ReceiveOther
<1> QED
  BY <1>4, <1>5, <1>6, <1>7, <1>8 DEF IInv

\* No client uploads.
NoUploads == Uploader = {}

\* Every client accepts the files and can write them.
AllWilling == Refusing = {} /\ Unwritable = {}

\* Begin, chat, quit and keepalive.
LEMMA OthersInv ==
  ASSUME NoUploads, TypeInv, IInv, [Next]_vars,
         ~ \E p \in Pusher : PushRun(p), ~ \E i \in Client : Handler(i) \/ Receive(i)
  PROVE  IInv'
<1>0. Typed /\ NoRefusal /\ Follows
  BY DEF TypeInv, IInv
<1>1. ASSUME NEW p \in Pusher, NEW targets \in SUBSET Client, PushBegin(p, targets) PROVE IInv'
  BY <1>1, PushBeginInv
<1>2. ASSUME NEW i \in Client, Chat(i) PROVE IInv'
  <2>1. /\ up' = [up EXCEPT ![i] = Append(@, Plain("TEXT"))]
        /\ UNCHANGED <<mutex, gone, down, push, opened, pushed, received>>
    BY <1>2 DEF Chat, SendUp, ClientUnchanged, serverTh
  <2>2. Plain("TEXT") \in Pkt /\ Plain("TEXT").type = "TEXT"
    BY PacketsAre DEF Types
  <2>3. Plain("TEXT").type = "REJECT" => i \in Refusing
    BY <2>2
  <2>4. NoRefusal'
    BY <1>0, <2>1, <2>2, <2>3, SentRefusals
  <2>5. Follows'
    BY <1>0, <2>1, QuietFollows
  <2> QED
    BY <2>1, <2>4, <2>5, StreamInv
<1>3. ASSUME NEW i \in Client, Quit(i) PROVE IInv'
  <2>1. /\ gone' = gone \cup {i} /\ down' = [down EXCEPT ![i] = <<>>]
        /\ UNCHANGED <<mutex, up, push, opened, pushed, received>>
    BY <1>3 DEF Quit, ClientUnchanged, serverTh, clientTh
  <2>2. Phases' /\ Holder' /\ NoRefusal' /\ Untouched' /\ SavedIntact'
    BY <2>1 DEF IInv, Phases, Holder, NoRefusal, Untouched, SavedIntact
  <2>3. ASSUME NEW j \in Willing \ gone' PROVE FollowsAt(j)'
    <3>1. j \in Client /\ j # i /\ FollowsAt(j) /\ down'[j] = down[j]
      BY <1>0, <2>1 DEF Follows, Willing, Typed
    <3>2. \A s \in State : ServerAt(j, s) => ServerAt(j, s)'
      BY <2>1 DEF ServerAt
    <3>3. opened'[j] = opened[j] /\ received'[j] = received[j]
      BY <2>1
    <3> QED
      BY <1>0, <3>1, <3>2, <3>3, FollowUnchanged
  <2>4. Follows'
    BY <2>3 DEF Follows
  <2> QED
    BY <2>2, <2>4 DEF IInv
<1>4. CASE KeepalivePing
  <2>1. /\ Deliver(m_clients, Plain("PING"))
        /\ UNCHANGED <<mutex, gone, up, push, opened, pushed, received>>
    BY <1>4 DEF KeepalivePing, serverTh, clientTh, results
  <2>2. NoRefusal'
    BY <1>0, <2>1 DEF NoRefusal
  <2>3. Follows'
    BY <1>0, <2>1, DeliverFollows
  <2> QED
    BY <2>1, <2>2, <2>3, StreamInv
<1>5. CASE UNCHANGED vars
  <2>1. UNCHANGED <<mutex, gone, up, down, push, opened, pushed, received>>
    BY <1>5 DEF vars, streams, serverTh, clientTh, results
  <2>2. NoRefusal'
    BY <1>0, <2>1 DEF NoRefusal
  <2>3. Follows'
    BY <1>0, <2>1, QuietFollows
  <2> QED
    BY <2>1, <2>2, <2>3, StreamInv
<1>6. m_clients \in SUBSET Client /\ \A i \in Client : m_clients \cap {i} \in SUBSET Client
  BY <1>0 DEF Typed
<1> QED
  BY <1>1, <1>2, <1>3, <1>4, <1>5, <1>6 DEF Next, NoUploads

\* Without uploads, no step disturbs the invariant.
LEMMA Step ==
  ASSUME NoUploads
  PROVE  TypeInv /\ IInv /\ [Next]_vars => TypeInv' /\ IInv'
<1> SUFFICES ASSUME TypeInv, IInv, [Next]_vars PROVE TypeInv' /\ IInv'
  OBVIOUS
<1>1. TypeInv'
  BY TypeStep
<1>2. IInv'
  BY PushRunInv, HandlerInv, ReceiveInv, OthersInv
<1> QED
  BY <1>1, <1>2

\* The initial state has the types.
LEMMA InitTypes == Init => TypeInv
<1> SUFFICES ASSUME Init PROVE TypeInv
  OBVIOUS
<1>1. <<>> \in Seq(Pkt) /\ <<>> \in Seq(Seq(Pkt))
  BY EmptySeq
<1>2. [pc |-> "idle", to |-> 0, left |-> {}, n |-> 0, nr |-> 0] \in Pushing
  BY ConstantsAre DEF Pushing
<1>3. push \in [Pusher -> Pushing] /\ \A p \in Pusher : push[p].pc = "idle"
  BY <1>2 DEF Init
<1>4. upfile \in [Client -> [by : Pusher \cup Nat, nr : Nat, data : Seq(Pkt)]]
  BY <1>1, ConstantsAre DEF Init
<1>5. upload \in [Uploader -> [pc : {"idle", "reply", "data", "done", "failed"}, n : 0..Chunks]]
  BY ConstantsAre DEF Init
<1>6. pings \in 0..MaxPings /\ chats \in [Client -> 0..MaxChats]
  BY ConstantsAre DEF Init
<1>7. Typed
  BY <1>1, <1>3, <1>4, <1>5, <1>6 DEF Init, Typed
<1>8. Pushes
  BY <1>3 DEF Pushes
<1> QED
  BY <1>7, <1>8 DEF TypeInv

\* Initially no client is inside a file.
LEMMA InitInv == Init => IInv
<1> SUFFICES ASSUME Init PROVE IInv
  OBVIOUS
<1>1. \A p \in Pusher : push[p].pc = "idle" /\ push[p].n = 0
  BY DEF Init
<1>2. Phases /\ Holder
  BY <1>1 DEF Phases, Holder
<1>3. NoRefusal /\ Untouched /\ SavedIntact
  BY DEF Init, NoRefusal, Untouched, SavedIntact, Willing
<1>4. ASSUME NEW i \in Willing PROVE FollowsAt(i)
  <2>1. /\ i \in Client /\ down[i] = <<>> /\ opened[i] = <<>> /\ received[i] = <<>>
        /\ pushed[i] = 0
    BY DEF Init, Willing
  <2>2. PICK s \in State : ~s.open /\ s.done = 0
    <3>1. [open |-> FALSE, by |-> 0, nr |-> 0, n |-> 0, done |-> 0] \in State
      BY ConstantsAre DEF State
    <3> QED
      BY <3>1
  <2>3. PICK st \in [0..Len(down[i]) -> State] : st[0] = s /\ st[Len(down[i])] = s
    <3>1. [k \in 0..0 |-> s] \in [0..0 -> State] /\ [k \in 0..0 |-> s][0] = s
      OBVIOUS
    <3> QED
      BY <2>1, <3>1
  <2>4. ClientAt(i, st[0]) /\ ServerAt(i, st[Len(down[i])])
    BY <1>1, <2>1, <2>2, <2>3 DEF ClientAt, ServerAt
  <2>5. \A k \in 1..Len(down[i]) : Leads(st[k - 1], down[i][k], st[k])
    BY <2>1
  <2> QED
    BY <2>4, <2>5 DEF FollowsAt
<1>5. Follows
  BY <1>4 DEF Follows
<1> QED
  BY <1>2, <1>3, <1>5 DEF IInv

-----------------------------------------------------------------------------
(* Theorems                                                                *)

\* Streams of packets are streams.
LEMMA StreamTyped == \A s \in Seq(Pkt) : IsStream(s)
<1> SUFFICES ASSUME NEW s \in Seq(Pkt), NEW k \in 1..Len(s) PROVE s[k].type \in Types
  BY DEF IsStream
<1>1. s[k] \in Pkt
  BY ElementOfSeq
<1> QED
  BY <1>1 DEF Pkt

\* The invariant holds in every state.
LEMMA Inductive ==
  ASSUME NoUploads
  PROVE  Spec => [](TypeInv /\ IInv)
<1>1. Init => TypeInv /\ IInv
  BY InitTypes, InitInv
<1>2. (TypeInv /\ IInv) /\ [Next]_vars => (TypeInv /\ IInv)'
  BY Step
<1> QED
  BY <1>1, <1>2, PTL DEF Spec

\* Every variable keeps its type, whoever pushes, uploads, chats and quits:
\* the state send_file, handle_file_transfer, handle_incoming_file and
\* do_send_file keep.
THEOREM TypeCorrect == Spec => []TypeOK
<1>1. TypeInv => TypeOK
  <2> SUFFICES ASSUME Typed PROVE TypeOK
    BY DEF TypeInv
  <2>1. \A i \in Client : IsStream(up[i]) /\ IsStream(down[i]) /\ IsStream(upfile[i].data)
    BY StreamTyped DEF Typed
  <2>2. \A i \in Client : \A k \in 1..Len(opened[i]) : IsStream(opened[i][k])
    <3> SUFFICES ASSUME NEW i \in Client, NEW k \in 1..Len(opened[i]) PROVE IsStream(opened[i][k])
      OBVIOUS
    <3>1. opened[i] \in Seq(Seq(Pkt))
      BY DEF Typed
    <3>2. opened[i][k] \in Seq(Pkt)
      BY <3>1, ElementOfSeq
    <3> QED
      BY <3>2, StreamTyped
  <2>3. \A p \in Pusher :
          /\ push[p].pc \in {"idle", "start", "reply", "data", "end"}
          /\ push[p].to \in 0..NumClients /\ push[p].left \subseteq Client
          /\ push[p].n \in 0..Chunks /\ push[p].nr \in 0..MaxPushes
    BY DEF Typed, Pushing
  <2> QED
    BY <2>1, <2>2, <2>3 DEF TypeOK, Typed
<1> QED
  BY <1>1, InitTypes, TypeStep, PTL DEF Spec

\* A file a client reports saved is one pushed file, whole and in order, as
\* long as no upload takes packets from under recv_loop: handle_incoming_file
\* against send_file and send_file_all, whatever else the server sends.
THEOREM SavedIntactHolds ==
  ASSUME NoUploads
  PROVE  Spec => []SavedIntact
<1>1. TypeInv /\ IInv => SavedIntact
  BY DEF IInv
<1> QED
  BY <1>1, Inductive, PTL

\* A client that has read its stream has saved exactly what the server
\* reported sent, when every client takes the files and none uploads.
THEOREM ReportedHolds ==
  ASSUME NoUploads, AllWilling
  PROVE  Spec => []ReportedIsSaved
<1>1. TypeInv /\ IInv => ReportedIsSaved
  <2> SUFFICES ASSUME IInv, NEW i \in Client \ gone,
                      \A p \in Pusher : push[p].pc = "idle" \/ push[p].to # i, down[i] = <<>>
               PROVE  Len(received[i]) = pushed[i] /\ opened[i] = <<>>
    BY DEF ReportedIsSaved
  <2>1. FollowsAt(i)
    BY DEF IInv, Follows, Willing, AllWilling
  <2>2. Len(down[i]) = 0
    OBVIOUS
  <2>3. PICK s : ClientAt(i, s) /\ ServerAt(i, s)
    BY <2>1, <2>2 DEF FollowsAt
  <2>4. ~s.open
    BY <2>3 DEF ServerAt
  <2> QED
    BY <2>3, <2>4 DEF ClientAt, ServerAt
<1> QED
  BY <1>1, Inductive, PTL
=============================================================================
