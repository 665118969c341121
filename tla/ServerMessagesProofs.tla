------------------------ MODULE ServerMessagesProofs ------------------------
(* Theorems about ServerMessages, for any number of clients, packets and   *)
(* operator commands.                                                      *)
EXTENDS ServerMessages, TLAPS, SequenceTheorems, WellFoundedInduction

-----------------------------------------------------------------------------
(* The invariant                                                           *)

Section == [op: {"tell", "list", "private", "erase", "rename", "reply"},
            to: SUBSET Client, msg: Message]

Typed ==
    /\ m_clients \in SUBSET Client
    /\ session \in [Client -> {"new", "registered", "connected", "refused", "left"}]
    /\ sent \in [Thread -> Nat]
    /\ todo \in [Thread -> Seq(Section)]
    /\ mutex \in Thread \cup {Free}
    /\ pending \in [Thread -> SUBSET Client]
    /\ current \in [Thread -> Message]
    /\ stream \in [Client -> Seq(Message)]

\* Packets that only the client that caused them ever gets.
Solo == {"PONG", "ERROR"}

\* The types of the packets a section may write.
Emits(s) == CASE s.op = "private" -> {"PRIVATE", "ERROR"}
              [] s.op \in {"tell", "list", "reply"} -> {s.msg.type}
              [] OTHER -> {}

\* A section of t's program for the packet it handles, which has the number n.
Fits(t, n, s) ==
    /\ s.msg.from = t /\ s.msg.n = n
    /\ s.op = "reply" => s.to = {t} /\ s.msg.type \in Solo
    /\ s.op \in {"tell", "list"} => s.msg.type \notin Solo
    /\ s.op = "private" => s.msg.type = "PRIVATE"
    /\ s.op = "rename" => s.to = {}

\* No two sections of a program write packets of one type.
Program(t, n, p) ==
    /\ \A a \in 1..Len(p) : Fits(t, n, p[a])
    /\ \A a, b \in 1..Len(p) : a < b => Emits(p[a]) \cap Emits(p[b]) = {}

Programs == \A t \in Thread : todo[t] # <<>> => sent[t] > 0 /\ Program(t, sent[t] - 1, todo[t])

\* A client's packets are of the past, and answers are its own.
Streams ==
    \A j \in Client : \A k \in 1..Len(stream[j]) :
        /\ stream[j][k].n < sent[stream[j][k].from]
        /\ stream[j][k].type \in Solo => stream[j][k].from = j

\* What a section has not begun to write is in no stream.
Unsent ==
    \A t \in Thread : \A a \in 1..Len(todo[t]) : a > 1 \/ pending[t] = {} =>
        \A j \in Client : \A k \in 1..Len(stream[j]) :
            stream[j][k].from = t /\ stream[j][k].n = sent[t] - 1
                => stream[j][k].type \notin Emits(todo[t][a])

\* Who owes a packet holds the mutex, and owes it to those without it.
Sending ==
    \A t \in Thread : pending[t] # {} =>
        /\ mutex = t
        /\ todo[t] # <<>> /\ todo[t][1].op \in {"tell", "list", "private"}
        /\ current[t].from = t /\ current[t].n = sent[t] - 1
        /\ current[t].type \in Emits(todo[t][1])
        /\ current[t].type \in Solo => pending[t] \subseteq {t}
        /\ \A i \in pending[t] : \A k \in 1..Len(stream[i]) : stream[i][k] # current[t]

\* Only answers follow a packet that is still owed to somebody.
LastWord ==
    \A t \in Thread : pending[t] # {} =>
        \A j \in Client : \A q \in 1..Len(stream[j]) : stream[j][q] = current[t] =>
            \A r \in 1..Len(stream[j]) : r > q => stream[j][r].type \in Solo

Ordered ==
    \A i, j \in Client : i # j =>
        \A k, l \in 1..Len(stream[i]), q, r \in 1..Len(stream[j]) :
            k < l /\ q < r => ~(stream[i][l] = stream[j][q] /\ stream[i][k] = stream[j][r])

IInv == Typed /\ Programs /\ Streams /\ Unsent /\ Sending /\ LastWord /\ Ordered

-----------------------------------------------------------------------------
(* Sequences, minima, threads                                              *)

LEMMA NatWellFounded == IsWellFoundedOn({s \in Nat \X Nat : s[1] < s[2]}, Nat)
<1>1. OpToRel(<, Nat) = {s \in Nat \X Nat : s[1] < s[2]}
  BY Zenon DEF OpToRel
<1> QED
  BY <1>1, NatLessThanWellFounded

\* The next client of the map is one of those owed a packet.
LEMMA MinIsIn ==
  ASSUME NEW S, S \subseteq Nat, S # {}
  PROVE  Min(S) \in S
<1> DEFINE R == {s \in Nat \X Nat : s[1] < s[2]}
<1>1. IsWellFoundedOn(R, Nat)
  BY NatWellFounded
<1> HIDE DEF R
<1>2. PICK x \in S : \A y \in S : ~(<<y, x>> \in R)
  BY <1>1, WFMin
<1>3. ASSUME NEW y \in S PROVE x <= y
  <2>1. x \in Nat /\ y \in Nat
    OBVIOUS
  <2>2. <<y, x>> \in Nat \X Nat /\ ~(<<y, x>> \in R)
    BY <2>1, <1>2
  <2>3. y < x => <<y, x>> \in R
    BY <2>2 DEF R
  <2> QED
    BY <2>1, <2>2, <2>3
<1> QED
  BY <1>2, <1>3 DEF Min

LEMMA ThreadsAre ==
  /\ Client \subseteq Thread /\ Client \subseteq Nat /\ Operator \in Thread
  /\ Operator \notin Client /\ Free \notin Thread
  BY MessagesAssumption DEF Client, Thread, Operator

\* Where a packet of a stream comes from that one packet was written to.
LEMMA Written ==
  ASSUME Typed, NEW i \in Client, NEW m \in Message,
         stream' = [stream EXCEPT ![i] = Append(@, m)]
  PROVE  /\ stream' \in [Client -> Seq(Message)]
         /\ \A j \in Client : j # i => stream'[j] = stream[j]
         /\ Len(stream'[i]) = Len(stream[i]) + 1 /\ Len(stream[i]) \in Nat
         /\ stream'[i][Len(stream[i]) + 1] = m
         /\ \A k \in 1..Len(stream[i]) : stream'[i][k] = stream[i][k]
<1>1. stream[i] \in Seq(Message) /\ stream'[i] = Append(stream[i], m)
  BY DEF Typed
<1>2. /\ Append(stream[i], m) \in Seq(Message)
      /\ Len(Append(stream[i], m)) = Len(stream[i]) + 1 /\ Len(stream[i]) \in Nat
      /\ Append(stream[i], m)[Len(stream[i]) + 1] = m
      /\ \A k \in 1..Len(stream[i]) : Append(stream[i], m)[k] = stream[i][k]
  BY <1>1, AppendProperties, LenProperties
<1>3. stream' \in [Client -> Seq(Message)] /\ \A j \in Client : j # i => stream'[j] = stream[j]
  BY <1>1, <1>2 DEF Typed
<1> QED
  BY <1>1, <1>2, <1>3

\* Where a section of a program comes from whose first one is done.
LEMMA Shortened ==
  ASSUME Typed, NEW t \in Thread, todo[t] # <<>>, todo' = [todo EXCEPT ![t] = Tail(@)]
  PROVE  /\ todo' \in [Thread -> Seq(Section)]
         /\ \A u \in Thread : u # t => todo'[u] = todo[u]
         /\ Len(todo'[t]) = Len(todo[t]) - 1 /\ Len(todo[t]) \in Nat \ {0}
         /\ \A a \in 1..Len(todo'[t]) : a + 1 \in 1..Len(todo[t]) /\ todo'[t][a] = todo[t][a + 1]
<1>1. todo[t] \in Seq(Section) /\ todo'[t] = Tail(todo[t])
  BY DEF Typed
<1>2. /\ Tail(todo[t]) \in Seq(Section)
      /\ Len(Tail(todo[t])) = Len(todo[t]) - 1
      /\ \A a \in 1..Len(Tail(todo[t])) : Tail(todo[t])[a] = todo[t][a + 1]
  BY <1>1, HeadTailProperties
<1>3. Len(todo[t]) \in Nat \ {0}
  BY <1>1, EmptySeq, LenProperties
<1>4. todo' \in [Thread -> Seq(Section)] /\ \A u \in Thread : u # t => todo'[u] = todo[u]
  BY <1>1, <1>2 DEF Typed
<1> QED
  BY <1>1, <1>2, <1>3, <1>4

\* The section a thread is at.
LEMMA Current ==
  ASSUME Typed, NEW t \in Thread, todo[t] # <<>>
  PROVE  /\ Head(todo[t]) = todo[t][1] /\ todo[t][1] \in Section
         /\ 1 \in 1..Len(todo[t]) /\ Len(todo[t]) \in Nat
<1>1. todo[t] \in Seq(Section)
  BY DEF Typed
<1> QED
  BY <1>1, HeadTailProperties, EmptySeq, LenProperties, ElementOfSeq

-----------------------------------------------------------------------------
(* Programs                                                                *)

LEMMA SectionsFit ==
  ASSUME Typed, NEW t \in Thread
  PROVE  /\ \A to \in SUBSET Client, type \in {"JOINED", "LEFT", "RENAMED", "TEXT"} :
              /\ Tell(to, Msg(type, t)) \in Section /\ Fits(t, sent[t], Tell(to, Msg(type, t)))
              /\ Emits(Tell(to, Msg(type, t))) = {type}
         /\ \A to \in SUBSET Client : /\ List(to, t) \in Section /\ Fits(t, sent[t], List(to, t))
                                     /\ Emits(List(to, t)) = {"LIST"}
         /\ \A j \in Client : Private(j, t) \in Section /\ Fits(t, sent[t], Private(j, t))
         /\ t \in Client => /\ Erase(t) \in Section /\ Fits(t, sent[t], Erase(t))
                            /\ Emits(Erase(t)) = {}
         /\ Rename(t) \in Section /\ Fits(t, sent[t], Rename(t)) /\ Emits(Rename(t)) = {}
         /\ \A type \in Solo : t \in Client =>
              /\ Reply(Msg(type, t), t) \in Section /\ Fits(t, sent[t], Reply(Msg(type, t), t))
              /\ Emits(Reply(Msg(type, t), t)) = {type}
<1> sent[t] \in Nat
  BY DEF Typed
<1>1. ASSUME NEW to \in SUBSET Client, NEW type \in {"JOINED", "LEFT", "RENAMED", "TEXT"}
      PROVE  /\ Tell(to, Msg(type, t)) \in Section /\ Fits(t, sent[t], Tell(to, Msg(type, t)))
             /\ Emits(Tell(to, Msg(type, t))) = {type}
  BY DEF Tell, Msg, Section, Message, Fits, Emits, Solo
<1>2. ASSUME NEW to \in SUBSET Client
      PROVE  /\ List(to, t) \in Section /\ Fits(t, sent[t], List(to, t))
             /\ Emits(List(to, t)) = {"LIST"}
  BY DEF List, Msg, Section, Message, Fits, Emits, Solo
<1>3. ASSUME NEW j \in Client
      PROVE  Private(j, t) \in Section /\ Fits(t, sent[t], Private(j, t))
  BY DEF Private, Msg, Section, Message, Fits
<1>4. ASSUME t \in Client
      PROVE  Erase(t) \in Section /\ Fits(t, sent[t], Erase(t)) /\ Emits(Erase(t)) = {}
  BY <1>4 DEF Erase, Msg, Section, Message, Fits, Emits
<1>5. Rename(t) \in Section /\ Fits(t, sent[t], Rename(t)) /\ Emits(Rename(t)) = {}
  BY DEF Rename, Msg, Section, Message, Fits, Emits
<1>6. ASSUME NEW type \in Solo, t \in Client
      PROVE  /\ Reply(Msg(type, t), t) \in Section /\ Fits(t, sent[t], Reply(Msg(type, t), t))
             /\ Emits(Reply(Msg(type, t), t)) = {type}
  BY <1>6 DEF Reply, Msg, Section, Message, Fits, Emits, Solo
<1> QED
  BY <1>1, <1>2, <1>3, <1>4, <1>5, <1>6

\* Programs of one, two and three sections.
LEMMA ProgramOfOne ==
  ASSUME NEW t, NEW n, NEW x \in Section, Fits(t, n, x)
  PROVE  <<x>> \in Seq(Section) /\ Program(t, n, <<x>>)
<1>1. <<x>> \in Seq(Section) /\ Len(<<x>>) = 1 /\ <<x>>[1] = x
  OBVIOUS
<1> QED
  BY <1>1 DEF Program

LEMMA ProgramOfTwo ==
  ASSUME NEW t, NEW n, NEW x \in Section, NEW y \in Section, Fits(t, n, x), Fits(t, n, y),
         Emits(x) \cap Emits(y) = {}
  PROVE  <<x, y>> \in Seq(Section) /\ Program(t, n, <<x, y>>)
<1>1. <<x, y>> \in Seq(Section) /\ Len(<<x, y>>) = 2 /\ <<x, y>>[1] = x /\ <<x, y>>[2] = y
  OBVIOUS
<1> QED
  BY <1>1 DEF Program

LEMMA ProgramOfThree ==
  ASSUME NEW t, NEW n, NEW x \in Section, NEW y \in Section, NEW z \in Section,
         Fits(t, n, x), Fits(t, n, y), Fits(t, n, z),
         Emits(x) \cap Emits(y) = {}, Emits(x) \cap Emits(z) = {}, Emits(y) \cap Emits(z) = {}
  PROVE  <<x, y, z>> \in Seq(Section) /\ Program(t, n, <<x, y, z>>)
<1>1. /\ <<x, y, z>> \in Seq(Section) /\ Len(<<x, y, z>>) = 3
      /\ <<x, y, z>>[1] = x /\ <<x, y, z>>[2] = y /\ <<x, y, z>>[3] = z
  OBVIOUS
<1> QED
  BY <1>1 DEF Program

\* A thread between two packets takes the next one.
LEMMA RunInv ==
  ASSUME IInv, NEW t \in Thread, Idle(t), NEW p \in Seq(Section), Program(t, sent[t], p),
         Run(t, p),
         session' \in [Client -> {"new", "registered", "connected", "refused", "left"}]
  PROVE  IInv'
<1>1. /\ todo' = [todo EXCEPT ![t] = p] /\ sent' = [sent EXCEPT ![t] = @ + 1]
      /\ UNCHANGED <<m_clients, mutex, pending, current, stream>>
  BY DEF Run
<1>2. pending[t] = {}
  BY DEF IInv, Sending, Idle
<1>3. /\ todo'[t] = p /\ \A u \in Thread : u # t => todo'[u] = todo[u] /\ sent'[u] = sent[u]
      /\ sent[t] \in Nat /\ sent'[t] = sent[t] + 1 /\ sent'[t] - 1 = sent[t]
  BY <1>1 DEF IInv, Typed
<1>4. Typed'
  BY <1>1 DEF IInv, Typed
<1>5. Programs'
  BY <1>3 DEF IInv, Programs
<1>6. Streams'
  <2> SUFFICES ASSUME NEW j \in Client, NEW k \in 1..Len(stream[j])
               PROVE  stream[j][k].n < sent'[stream[j][k].from]
    BY <1>1 DEF IInv, Streams
  <2>1. stream[j][k] \in Message
    BY ElementOfSeq DEF IInv, Typed
  <2>2. stream[j][k].from \in Thread /\ stream[j][k].n \in Nat
    BY <2>1 DEF Message
  <2>3. stream[j][k].n < sent[stream[j][k].from] /\ sent[stream[j][k].from] \in Nat
    BY <2>2 DEF IInv, Streams, Typed
  <2> QED
    BY <1>3, <2>2, <2>3
<1>7. Unsent'
  <2> SUFFICES ASSUME NEW u \in Thread, NEW a \in 1..Len(todo'[u]), a > 1 \/ pending[u] = {},
                      NEW j \in Client, NEW k \in 1..Len(stream[j]),
                      stream[j][k].from = u, stream[j][k].n = sent'[u] - 1
               PROVE  stream[j][k].type \notin Emits(todo'[u][a])
    BY <1>1 DEF Unsent
  <2>1. CASE u = t
    <3>1. stream[j][k].n < sent[t]
      BY <2>1 DEF IInv, Streams
    <3> QED
      BY <1>3, <2>1, <3>1
  <2>2. CASE u # t
    BY <1>3, <2>2 DEF IInv, Unsent
  <2> QED
    BY <2>1, <2>2
<1>8. Sending'
  <2> SUFFICES ASSUME NEW u \in Thread, pending[u] # {}
               PROVE  u # t /\ todo'[u] = todo[u] /\ sent'[u] = sent[u]
    BY <1>1 DEF IInv, Sending
  <2> QED
    BY <1>2, <1>3
<1>9. LastWord' /\ Ordered'
  BY <1>1 DEF IInv, LastWord, Ordered
<1> QED
  BY <1>4, <1>5, <1>6, <1>7, <1>8, <1>9 DEF IInv

LEMMA PacketInv ==
  ASSUME IInv, NEW i \in Client, Packet(i)
  PROVE  IInv'
<1>0. i \in Thread /\ Typed
  BY ThreadsAre DEF IInv
<1>1. CASE HandleConnect(i)
  <2>1. Idle(i) /\ Run(i, ConnectProgram(i)) /\ session' = [session EXCEPT ![i] = "connected"]
    BY <1>1 DEF HandleConnect
  <2>2. ConnectProgram(i) \in Seq(Section) /\ Program(i, sent[i], ConnectProgram(i))
    BY <1>0, SectionsFit, ProgramOfThree DEF ConnectProgram
  <2> QED
    BY <1>0, <2>1, <2>2, RunInv DEF Typed
<1>2. CASE RefuseConnect(i)
  <2> DEFINE p == <<Rename(i), Reply(Msg("ERROR", i), i)>>
  <2>1. Idle(i) /\ Run(i, p) /\ session' = [session EXCEPT ![i] = "refused"]
    BY <1>2 DEF RefuseConnect
  <2>2. "ERROR" \in Solo
    BY DEF Solo
  <2>3. p \in Seq(Section) /\ Program(i, sent[i], p)
    BY <1>0, <2>2, SectionsFit, ProgramOfTwo
  <2> HIDE DEF p
  <2> QED
    BY <1>0, <2>1, <2>3, RunInv DEF Typed
<1>3. ASSUME NEW kind \in Kind, NEW target \in Client, HandlePacket(i, kind, target)
      PROVE  IInv'
  <2> DEFINE p == PacketProgram(i, kind, target)
  <2>1. Idle(i) /\ Run(i, p) /\ session' = session
    BY <1>3 DEF HandlePacket
  <2>2. kind \in {"TEXT", "PRIVATE", "CLIENT_LIST", "NICK_SET", "PING"}
    BY MessagesAssumption
  <2>3. p \in Seq(Section) /\ Program(i, sent[i], p)
    <3>1. CASE kind = "TEXT"
      <4>1. p = <<Tell(Client \ {i}, Msg("TEXT", i))>>
        BY <3>1 DEF PacketProgram
      <4> QED
        BY <1>0, <4>1, SectionsFit, ProgramOfOne
    <3>2. CASE kind = "PRIVATE"
      <4>1. p = <<Private(target, i)>>
        BY <3>2 DEF PacketProgram
      <4> QED
        BY <1>0, <4>1, SectionsFit, ProgramOfOne
    <3>3. CASE kind = "CLIENT_LIST"
      <4>1. p = <<List({i}, i)>>
        BY <3>3 DEF PacketProgram
      <4> QED
        BY <1>0, <4>1, SectionsFit, ProgramOfOne
    <3>4. CASE kind = "NICK_SET"
      <4>1. p = <<Rename(i), Tell(Client, Msg("RENAMED", i)), List(Client, i)>>
        BY <3>4 DEF PacketProgram
      <4> QED
        BY <1>0, <4>1, SectionsFit, ProgramOfThree
    <3>5. CASE kind = "PING"
      <4>1. p = <<Reply(Msg("PONG", i), i)>>
        BY <3>5 DEF PacketProgram
      <4>2. "PONG" \in Solo
        BY DEF Solo
      <4> QED
        BY <1>0, <4>1, <4>2, SectionsFit, ProgramOfOne
    <3> QED
      BY <2>2, <3>1, <3>2, <3>3, <3>4, <3>5
  <2> HIDE DEF p
  <2> QED
    BY <1>0, <2>1, <2>3, RunInv DEF Typed
<1>4. CASE ClientLeave(i)
  <2> DEFINE p == <<Tell(Client, Msg("LEFT", i)), Erase(i)>>
  <2>1. Idle(i) /\ Run(i, p) /\ session' = [session EXCEPT ![i] = "left"]
    BY <1>4 DEF ClientLeave
  <2>2. p \in Seq(Section) /\ Program(i, sent[i], p)
    BY <1>0, SectionsFit, ProgramOfTwo
  <2> HIDE DEF p
  <2> QED
    BY <1>0, <2>1, <2>2, RunInv DEF Typed
<1> QED
  BY <1>1, <1>2, <1>3, <1>4 DEF Packet

LEMMA OperatorInv == IInv /\ OperatorCommand => IInv'
<1> SUFFICES ASSUME IInv, OperatorCommand PROVE IInv'
  OBVIOUS
<1>0. Operator \in Thread /\ Typed /\ Idle(Operator)
      /\ session' \in [Client -> {"new", "registered", "connected", "refused", "left"}]
  BY ThreadsAre DEF IInv, Typed, OperatorCommand
<1>1. ASSUME NEW x \in Section, Fits(Operator, sent[Operator], x), Run(Operator, <<x>>)
      PROVE  IInv'
  BY <1>0, <1>1, ProgramOfOne, RunInv
<1>2. CASE Run(Operator, <<Tell(Client, Msg("TEXT", Operator))>>)
  BY <1>0, <1>1, <1>2, SectionsFit
<1>3. ASSUME NEW j \in Client, Run(Operator, <<Private(j, Operator)>>) PROVE IInv'
  BY <1>0, <1>1, <1>3, SectionsFit
<1>4. CASE Run(Operator, <<List({}, Operator)>>)
  BY <1>0, <1>1, <1>4, SectionsFit
<1> QED
  BY <1>2, <1>3, <1>4 DEF OperatorCommand

-----------------------------------------------------------------------------
(* Sections                                                                *)

\* What holds of a program holds of what is left of it.
LEMMA ShortenedPrograms ==
  ASSUME IInv, NEW t \in Thread, todo[t] # <<>>, todo' = [todo EXCEPT ![t] = Tail(@)],
         UNCHANGED sent
  PROVE  Programs'
<1> SUFFICES ASSUME NEW u \in Thread, todo'[u] # <<>>
             PROVE  sent[u] > 0 /\ Program(u, sent[u] - 1, todo'[u])
  BY DEF Programs
<1>0. Typed /\ Programs
  BY DEF IInv
<1>1. CASE u # t
  BY <1>0, <1>1, Shortened DEF Programs
<1>2. CASE u = t
  <2>1. sent[t] > 0 /\ Program(t, sent[t] - 1, todo[t])
    BY <1>0 DEF Programs
  <2>2. \A a \in 1..Len(todo'[t]) : a + 1 \in 1..Len(todo[t]) /\ todo'[t][a] = todo[t][a + 1]
    BY <1>0, Shortened
  <2>3. \A a \in 1..Len(todo'[t]) : Fits(t, sent[t] - 1, todo'[t][a])
    BY <2>1, <2>2 DEF Program
  <2>4. ASSUME NEW a \in 1..Len(todo'[t]), NEW b \in 1..Len(todo'[t]), a < b
        PROVE  Emits(todo'[t][a]) \cap Emits(todo'[t][b]) = {}
    <3>1. a + 1 < b + 1
      BY <2>4
    <3> QED
      BY <2>1, <2>2, <3>1 DEF Program
  <2> QED
    BY <1>2, <2>1, <2>3, <2>4 DEF Program
<1> QED
  BY <1>1, <1>2

\* The sections behind the first one write packets of other types than it.
LEMMA FirstDiffers ==
  ASSUME IInv, NEW t \in Thread, NEW a \in 1..Len(todo[t]), a > 1
  PROVE  Emits(todo[t][1]) \cap Emits(todo[t][a]) = {}
<1>1. todo[t] \in Seq(Section)
  BY DEF IInv, Typed
<1>2. todo[t] # <<>>
  BY <1>1, EmptySeq
<1>3. 1 \in 1..Len(todo[t])
  BY <1>2, Current DEF IInv
<1> QED
  BY <1>2, <1>3 DEF IInv, Programs, Program

\* A thread writes one packet to one client: its own answer, or one that only
\* answers followed wherever it is.
LEMMA WriteOrdered ==
  ASSUME IInv, NEW i \in Client, NEW m \in Message,
         stream' = [stream EXCEPT ![i] = Append(@, m)],
         m.n < sent[m.from], m.type \in Solo => m.from = i,
         UNCHANGED sent,
         \A j \in Client \ {i} : \A q \in 1..Len(stream[j]) : stream[j][q] = m =>
            \A r \in 1..Len(stream[j]) : r > q => stream[j][r].type \in Solo
  PROVE  Streams' /\ Ordered'
<1>0. /\ \A j \in Client : j # i => stream'[j] = stream[j]
      /\ Len(stream'[i]) = Len(stream[i]) + 1 /\ Len(stream[i]) \in Nat
      /\ stream'[i][Len(stream[i]) + 1] = m
      /\ \A k \in 1..Len(stream[i]) : stream'[i][k] = stream[i][k]
  BY Written DEF IInv
<1>s. \A j \in Client : Len(stream[j]) \in Nat
  BY LenProperties DEF IInv, Typed
<1>1. Streams'
  <2> SUFFICES ASSUME NEW j \in Client, NEW k \in 1..Len(stream'[j])
               PROVE  /\ stream'[j][k].n < sent[stream'[j][k].from]
                      /\ stream'[j][k].type \in Solo => stream'[j][k].from = j
    BY DEF Streams
  <2>1. CASE j # i
    BY <1>0, <2>1 DEF IInv, Streams
  <2>2. CASE j = i /\ k \in 1..Len(stream[i])
    BY <1>0, <2>2 DEF IInv, Streams
  <2>3. CASE j = i /\ k = Len(stream[i]) + 1
    BY <1>0, <2>3
  <2> QED
    BY <1>0, <2>1, <2>2, <2>3
<1>2. Ordered'
  <2> SUFFICES ASSUME NEW x \in Client, NEW y \in Client, x # y,
                      NEW k \in 1..Len(stream'[x]), NEW l \in 1..Len(stream'[x]),
                      NEW q \in 1..Len(stream'[y]), NEW r \in 1..Len(stream'[y]), k < l, q < r,
                      stream'[x][l] = stream'[y][q], stream'[x][k] = stream'[y][r]
               PROVE  FALSE
    BY DEF Ordered
  <2>1. CASE x # i /\ y # i
    BY <1>0, <2>1 DEF IInv, Ordered
  <2>2. CASE x = i
    <3>1. stream'[y] = stream[y] /\ k \in 1..Len(stream[i]) /\ stream'[i][k] = stream[i][k]
      BY <1>0, <2>2
    <3>2. CASE l \in 1..Len(stream[i])
      <4>1. stream[i][l] = stream[y][q] /\ stream[i][k] = stream[y][r]
        BY <1>0, <2>2, <3>1, <3>2
      <4>2. q \in 1..Len(stream[y]) /\ r \in 1..Len(stream[y]) /\ y # i
        BY <2>2, <3>1
      <4> QED
        BY <3>1, <3>2, <4>1, <4>2 DEF IInv, Ordered
    <3>3. CASE l = Len(stream[i]) + 1
      <4>1. stream[y][q] = m
        BY <1>0, <2>2, <3>1, <3>3
      <4>2. stream[y][r].type \in Solo
        BY <2>2, <3>1, <4>1
      <4>3. stream[y][r].from = y /\ stream[i][k].from = i
        BY <2>2, <3>1, <4>2 DEF IInv, Streams
      <4> QED
        BY <2>2, <3>1, <4>3
    <3> QED
      BY <1>0, <2>2, <3>2, <3>3
  <2>3. CASE y = i
    <3>1. stream'[x] = stream[x] /\ q \in 1..Len(stream[i]) /\ stream'[i][q] = stream[i][q]
      BY <1>0, <2>3
    <3>2. CASE r \in 1..Len(stream[i])
      BY <1>0, <2>3, <3>1, <3>2 DEF IInv, Ordered
    <3>3. CASE r = Len(stream[i]) + 1
      <4>1. stream[x][k] = m
        BY <1>0, <2>3, <3>1, <3>3
      <4>2. stream[x][l].type \in Solo
        BY <2>3, <3>1, <4>1
      <4>3. stream[x][l].from = x /\ stream[i][q].from = i
        BY <2>3, <3>1, <4>2 DEF IInv, Streams
      <4> QED
        BY <2>3, <3>1, <4>3
    <3> QED
      BY <1>0, <2>3, <3>2, <3>3
  <2> QED
    BY <2>1, <2>2, <2>3
<1> QED
  BY <1>1, <1>2

\* The first packet of a section is new to every stream.
LEMMA SectionBegins ==
  ASSUME IInv, NEW t \in Thread, SectionBegin(t)
  PROVE  LET s == todo[t][1]  c == Content(t, s)  owed == Recipients(t, s)
         IN  /\ s.op \in {"tell", "list", "private"}
             /\ c \in Message /\ c.from = t /\ c.n = sent[t] - 1 /\ c.type \in Emits(s)
             /\ owed \subseteq Client /\ (c.type \in Solo => owed \subseteq {t})
             /\ \A j \in Client : \A k \in 1..Len(stream[j]) : stream[j][k] # c
<1> DEFINE s == todo[t][1]
           c == Content(t, s)
           owed == Recipients(t, s)
<1>1. /\ todo[t] # <<>> /\ pending[t] = {} /\ s = Head(todo[t])
      /\ s.op \in {"tell", "list", "private"} /\ s \in Section /\ 1 \in 1..Len(todo[t])
  BY Current DEF SectionBegin, IInv
<1>2. Fits(t, sent[t] - 1, s)
  BY <1>1 DEF IInv, Programs, Program
<1>3. s.msg \in Message /\ s.to \subseteq Client /\ m_clients \subseteq Client
  BY <1>1 DEF Section, IInv, Typed
<1>4. /\ c \in Message /\ c.from = t /\ c.n = sent[t] - 1 /\ c.type \in Emits(s)
      /\ owed \subseteq Client /\ (c.type \in Solo => owed \subseteq {t})
  <2>1. CASE s.op = "tell"
    BY <1>2, <1>3, <2>1 DEF Fits, Content, Recipients, Emits
  <2>2. CASE s.op = "list"
    BY <1>2, <1>3, <2>2 DEF Fits, Content, Recipients, Emits, Message
  <2>3. CASE s.op = "private" /\ s.to \cap m_clients = {}
    BY <1>2, <1>3, <2>3 DEF Fits, Content, Recipients, Emits, Message
  <2>4. CASE s.op = "private" /\ s.to \cap m_clients # {}
    BY <1>2, <1>3, <2>4 DEF Fits, Content, Recipients, Emits, Solo
  <2> QED
    BY <1>1, <2>1, <2>2, <2>3, <2>4
<1>5. ASSUME NEW j \in Client, NEW k \in 1..Len(stream[j]) PROVE stream[j][k] # c
  BY <1>1, <1>4 DEF IInv, Unsent
<1> QED
  BY <1>1, <1>4, <1>5

LEMMA SectionBeginInv ==
  ASSUME IInv, NEW t \in Thread, SectionBegin(t)
  PROVE  IInv'
<1> DEFINE s == todo[t][1]
           c == Content(t, s)
           owed == Recipients(t, s)
<1>1. /\ s.op \in {"tell", "list", "private"}
      /\ c \in Message /\ c.from = t /\ c.n = sent[t] - 1 /\ c.type \in Emits(s)
      /\ owed \subseteq Client /\ (c.type \in Solo => owed \subseteq {t})
      /\ \A j \in Client : \A k \in 1..Len(stream[j]) : stream[j][k] # c
  BY SectionBegins
<1>2. /\ todo[t] # <<>> /\ pending[t] = {} /\ s = Head(todo[t]) /\ mutex = Free
      /\ current' = [current EXCEPT ![t] = c] /\ Release(t, owed)
      /\ UNCHANGED <<m_clients, session, sent, stream>>
  BY Current DEF SectionBegin, MutexFree, IInv
<1> HIDE DEF c, owed, s
<1>3. \A u \in Thread : pending[u] = {}
  BY <1>2, ThreadsAre DEF IInv, Sending
<1>4. current'[t] = c /\ current' \in [Thread -> Message]
  BY <1>1, <1>2 DEF IInv, Typed
<1>5. /\ pending' = [pending EXCEPT ![t] = owed] /\ pending'[t] = owed
      /\ \A u \in Thread : u # t => pending'[u] = {}
      /\ pending' \in [Thread -> SUBSET Client]
  BY <1>1, <1>2, <1>3 DEF IInv, Typed, Release
<1>6. Streams' /\ Ordered'
  BY <1>2 DEF IInv, Streams, Ordered
<1>7. CASE owed = {}
  <2>1. todo' = [todo EXCEPT ![t] = Tail(@)] /\ mutex' = Free
    BY <1>2, <1>7 DEF Release
  <2>2. Typed'
    BY <1>2, <1>4, <1>5, <2>1, Shortened DEF IInv, Typed
  <2>3. Programs'
    BY <1>2, <2>1, ShortenedPrograms
  <2>4. Sending' /\ LastWord'
    BY <1>5, <1>7 DEF Sending, LastWord
  <2>5. Unsent'
    <3> SUFFICES ASSUME NEW u \in Thread, NEW a \in 1..Len(todo'[u]), NEW j \in Client,
                        NEW k \in 1..Len(stream[j]),
                        stream[j][k].from = u, stream[j][k].n = sent[u] - 1
                 PROVE  stream[j][k].type \notin Emits(todo'[u][a])
      BY <1>2 DEF Unsent
    <3>1. \E b \in 1..Len(todo[u]) : todo'[u][a] = todo[u][b]
      BY <1>2, <2>1, Shortened DEF IInv
    <3> QED
      BY <1>3, <3>1 DEF IInv, Unsent
  <2> QED
    BY <1>6, <2>2, <2>3, <2>4, <2>5 DEF IInv
<1>8. CASE owed # {}
  <2>1. todo' = todo /\ mutex' = t
    BY <1>2, <1>8 DEF Release
  <2>2. Typed'
    BY <1>2, <1>4, <1>5, <2>1 DEF IInv, Typed
  <2>3. Programs'
    BY <1>2, <2>1 DEF IInv, Programs
  <2>4. Sending'
    BY <1>1, <1>2, <1>4, <1>5, <2>1 DEF Sending, s
  <2>5. LastWord'
    BY <1>1, <1>2, <1>4, <1>5 DEF LastWord
  <2>6. Unsent'
    BY <1>2, <1>3, <2>1 DEF IInv, Unsent
  <2> QED
    BY <1>6, <2>2, <2>3, <2>4, <2>5, <2>6 DEF IInv
<1> QED
  BY <1>7, <1>8

LEMMA SectionSendInv ==
  ASSUME IInv, NEW t \in Thread, SectionSend(t)
  PROVE  IInv'
<1> DEFINE i == Min(pending[t])
           m == current[t]
           owed == pending[t] \ {i}
<1>1. /\ pending[t] # {} /\ stream' = [stream EXCEPT ![i] = Append(@, m)]
      /\ Release(t, owed) /\ UNCHANGED <<m_clients, session, sent, current>>
  BY DEF SectionSend
<1>2. i \in pending[t] /\ i \in Client
  BY <1>1, MinIsIn, ThreadsAre DEF IInv, Typed
<1> HIDE DEF i
<1>3. /\ mutex = t /\ todo[t] # <<>> /\ todo[t][1].op \in {"tell", "list", "private"}
      /\ m \in Message /\ m.from = t /\ m.n = sent[t] - 1 /\ m.type \in Emits(todo[t][1])
      /\ m.type \in Solo => pending[t] \subseteq {t}
      /\ \A j \in pending[t] : \A k \in 1..Len(stream[j]) : stream[j][k] # m
      /\ sent[t] \in Nat
  BY <1>1 DEF IInv, Sending, Typed
<1>4. /\ \A u \in Thread : u # t => pending[u] = {} /\ pending'[u] = {}
      /\ pending'[t] = owed /\ pending' \in [Thread -> SUBSET Client]
  BY <1>1, <1>3 DEF IInv, Sending, Typed, Release
<1>5. /\ stream' \in [Client -> Seq(Message)]
      /\ \A j \in Client : j # i => stream'[j] = stream[j]
      /\ Len(stream'[i]) = Len(stream[i]) + 1 /\ Len(stream[i]) \in Nat
      /\ stream'[i][Len(stream[i]) + 1] = m
      /\ \A k \in 1..Len(stream[i]) : stream'[i][k] = stream[i][k]
  BY <1>1, <1>2, <1>3, Written DEF IInv
<1>6. Streams' /\ Ordered'
  <2>1. m.n < sent[m.from] /\ (m.type \in Solo => m.from = i)
    BY <1>2, <1>3
  <2>2. \A j \in Client \ {i} : \A q \in 1..Len(stream[j]) : stream[j][q] = m =>
            \A r \in 1..Len(stream[j]) : r > q => stream[j][r].type \in Solo
    BY <1>1 DEF IInv, LastWord
  <2>3. /\ stream' = [stream EXCEPT ![i] = Append(@, m)] /\ UNCHANGED sent
        /\ m \in Message /\ i \in Client
    BY <1>1, <1>2, <1>3
  <2> HIDE DEF m
  <2> QED
    BY <2>1, <2>2, <2>3, WriteOrdered
\* A packet of a stream was there before, or is the one written.
<1>7. ASSUME NEW j \in Client, NEW k \in 1..Len(stream'[j])
      PROVE  (j = i /\ k = Len(stream[i]) + 1 /\ stream'[j][k] = m)
             \/ (k \in 1..Len(stream[j]) /\ stream'[j][k] = stream[j][k])
  BY <1>5
<1>8. /\ owed # {} => todo' = todo /\ mutex' = t
      /\ owed = {} => todo' = [todo EXCEPT ![t] = Tail(@)] /\ mutex' = Free
  BY <1>1 DEF Release
<1>9. Typed' /\ Programs'
  <2>1. CASE owed = {}
    BY <1>1, <1>3, <1>4, <1>5, <1>8, <2>1, Shortened, ShortenedPrograms DEF IInv, Typed
  <2>2. CASE owed # {}
    BY <1>1, <1>3, <1>4, <1>5, <1>8, <2>2 DEF IInv, Typed, Programs
  <2> QED
    BY <2>1, <2>2
<1>10. Sending'
  <2> SUFFICES ASSUME NEW u \in Thread, pending'[u] # {}
               PROVE  /\ u = t /\ owed # {}
                      /\ m.type \in Solo => owed \subseteq {t}
                      /\ \A j \in owed : \A k \in 1..Len(stream'[j]) : stream'[j][k] # m
    BY <1>1, <1>3, <1>4, <1>8 DEF Sending
  <2>1. u = t /\ owed # {}
    BY <1>4
  <2>2. ASSUME NEW j \in owed, NEW k \in 1..Len(stream'[j]) PROVE stream'[j][k] # m
    <3>1. j \in Client /\ j # i /\ j \in pending[t]
      BY DEF IInv, Typed
    <3> QED
      BY <1>3, <1>5, <3>1
  <2> QED
    BY <1>3, <2>1, <2>2
<1>11. LastWord'
  <2> SUFFICES ASSUME NEW j \in Client, NEW q \in 1..Len(stream'[j]), stream'[j][q] = m,
                      NEW r \in 1..Len(stream'[j]), r > q
               PROVE  stream'[j][r].type \in Solo
    BY <1>1, <1>4 DEF LastWord
  <2>1. CASE j = i
    BY <1>2, <1>3, <1>5, <1>7, <2>1
  <2>2. CASE j # i
    BY <1>1, <1>5, <2>2 DEF IInv, LastWord
  <2> QED
    BY <2>1, <2>2
<1>12. Unsent'
  <2> SUFFICES ASSUME NEW u \in Thread, NEW a \in 1..Len(todo'[u]), a > 1 \/ pending'[u] = {},
                      NEW j \in Client, NEW k \in 1..Len(stream'[j]),
                      stream'[j][k].from = u, stream'[j][k].n = sent[u] - 1
               PROVE  stream'[j][k].type \notin Emits(todo'[u][a])
    BY <1>1 DEF Unsent
  <2>1. CASE u # t
    <3>1. todo'[u] = todo[u] /\ pending[u] = {}
      BY <1>3, <1>4, <1>8, <2>1, Shortened DEF IInv
    <3>2. stream'[j][k] # m
      BY <1>3, <2>1
    <3>3. k \in 1..Len(stream[j]) /\ stream'[j][k] = stream[j][k]
      BY <1>7, <3>2
    <3> QED
      BY <3>1, <3>3 DEF IInv, Unsent
  <2>2. CASE u = t
    <3>1. PICK b \in 1..Len(todo[t]) : b > 1 /\ todo'[t][a] = todo[t][b]
      <4>1. CASE owed = {}
        <5>1. a + 1 \in 1..Len(todo[t]) /\ todo'[t][a] = todo[t][a + 1]
          BY <1>3, <1>8, <2>2, <4>1, Shortened DEF IInv
        <5>2. a + 1 > 1
          BY <2>2
        <5> QED
          BY <5>1, <5>2
      <4>2. CASE owed # {}
        BY <1>4, <1>8, <2>2, <4>2
      <4> QED
        BY <4>1, <4>2
    <3>2. m.type \notin Emits(todo[t][b])
      BY <1>3, <3>1, FirstDiffers
    <3>3. CASE stream'[j][k] = m
      BY <2>2, <3>1, <3>2, <3>3
    <3>4. CASE k \in 1..Len(stream[j]) /\ stream'[j][k] = stream[j][k]
      BY <2>2, <3>1, <3>4 DEF IInv, Unsent
    <3> QED
      BY <1>7, <3>3, <3>4
  <2> QED
    BY <2>1, <2>2
<1> QED
  BY <1>6, <1>9, <1>10, <1>11, <1>12 DEF IInv

LEMMA RemoveClientInv ==
  ASSUME IInv, NEW t \in Thread, RemoveClient(t)
  PROVE  IInv'
<1>1. /\ todo[t] # <<>> /\ todo[t][1].op = "erase" /\ mutex = Free
      /\ m_clients' = m_clients \ {t} /\ todo' = [todo EXCEPT ![t] = Tail(@)]
      /\ UNCHANGED <<session, sent, mutex, pending, current, stream>>
  BY Current DEF RemoveClient, MutexFree, IInv
<1>2. \A u \in Thread : pending[u] = {}
  BY <1>1, ThreadsAre DEF IInv, Sending
<1>3. Typed'
  BY <1>1, Shortened DEF IInv, Typed
<1>4. Programs'
  BY <1>1, ShortenedPrograms
<1>5. Streams' /\ Ordered' /\ Sending' /\ LastWord'
  BY <1>1, <1>2 DEF IInv, Streams, Ordered, Sending, LastWord
<1>6. Unsent'
  <2> SUFFICES ASSUME NEW u \in Thread, NEW a \in 1..Len(todo'[u]), NEW j \in Client,
                      NEW k \in 1..Len(stream[j]),
                      stream[j][k].from = u, stream[j][k].n = sent[u] - 1
               PROVE  stream[j][k].type \notin Emits(todo'[u][a])
    BY <1>1 DEF Unsent
  <2>1. \E b \in 1..Len(todo[u]) : todo'[u][a] = todo[u][b]
    BY <1>1, Shortened DEF IInv
  <2> QED
    BY <1>2, <2>1 DEF IInv, Unsent
<1> QED
  BY <1>3, <1>4, <1>5, <1>6 DEF IInv

LEMMA AcceptRegisterInv ==
  ASSUME IInv, NEW i \in Client, AcceptRegister(i)
  PROVE  IInv'
<1>1. /\ session' = [session EXCEPT ![i] = "registered"] /\ m_clients' = m_clients \cup {i}
      /\ UNCHANGED <<sent, todo, mutex, pending, current, stream>>
  BY DEF AcceptRegister
<1>2. Typed'
  BY <1>1 DEF IInv, Typed
<1> QED
  BY <1>1, <1>2 DEF IInv, Programs, Streams, Unsent, Sending, LastWord, Ordered

\* A nickname assigned, or an answer written, without the mutex.
LEMMA UnlockedInv ==
  ASSUME IInv, NEW t \in Thread, Unlocked(t)
  PROVE  IInv'
<1> DEFINE s == todo[t][1]
           m == s.msg
<1>1. /\ todo[t] # <<>> /\ s.op \in {"rename", "reply"} /\ s \in Section
      /\ todo' = [todo EXCEPT ![t] = Tail(@)]
      /\ stream' = [i \in Client |-> IF i \in s.to THEN Append(stream[i], m) ELSE stream[i]]
      /\ UNCHANGED <<m_clients, session, sent, mutex, pending, current>>
  BY Current DEF Unlocked, IInv
<1>2. Fits(t, sent[t] - 1, s) /\ sent[t] > 0 /\ sent[t] \in Nat
  BY <1>1, Current DEF IInv, Programs, Program, Typed
<1>3. pending[t] = {}
  BY <1>1 DEF IInv, Sending
<1>4. m \in Message /\ m.from = t /\ m.n = sent[t] - 1 /\ s.to \subseteq Client
  BY <1>1, <1>2 DEF Section, Fits
<1>5. /\ todo' \in [Thread -> Seq(Section)] /\ \A u \in Thread : u # t => todo'[u] = todo[u]
      /\ \A a \in 1..Len(todo'[t]) : a + 1 \in 1..Len(todo[t]) /\ todo'[t][a] = todo[t][a + 1]
  BY <1>1, Shortened DEF IInv
<1>6. Programs'
  BY <1>1, ShortenedPrograms
<1>7. CASE s.op = "rename"
  <2>1. stream' = stream
    BY <1>1, <1>2, <1>7 DEF Fits, IInv, Typed
  <2>2. Typed'
    BY <1>1, <1>5, <2>1 DEF IInv, Typed
  <2>3. Streams' /\ Ordered' /\ LastWord'
    BY <1>1, <2>1 DEF IInv, Streams, Ordered, LastWord
  <2>4. Sending'
    BY <1>1, <1>3, <1>5, <2>1 DEF IInv, Sending
  <2>5. Unsent'
    <3> SUFFICES ASSUME NEW u \in Thread, NEW a \in 1..Len(todo'[u]), a > 1 \/ pending[u] = {},
                        NEW j \in Client, NEW k \in 1..Len(stream[j]),
                        stream[j][k].from = u, stream[j][k].n = sent[u] - 1
                 PROVE  stream[j][k].type \notin Emits(todo'[u][a])
      BY <1>1, <2>1 DEF Unsent
    <3>1. CASE u = t
      BY <1>3, <1>5, <3>1 DEF IInv, Unsent
    <3>2. CASE u # t
      BY <1>5, <3>2 DEF IInv, Unsent
    <3> QED
      BY <3>1, <3>2
  <2> QED
    BY <1>6, <2>2, <2>3, <2>4, <2>5 DEF IInv
<1>8. CASE s.op = "reply"
  <2>1. s.to = {t} /\ t \in Client /\ m.type \in Solo /\ Emits(s) = {m.type}
    BY <1>2, <1>4, <1>8 DEF Fits, Emits
  <2>2. stream' = [stream EXCEPT ![t] = Append(@, m)]
    BY <1>1, <2>1 DEF IInv, Typed
  <2>m. /\ m \in Message /\ m.from = t /\ m.n = sent[t] - 1 /\ m.n < sent[m.from]
        /\ UNCHANGED sent /\ (m.type \in Solo => m.from = t)
    BY <1>1, <1>2, <1>4
  <2>x. \A a \in 1..Len(todo[t]) : a > 1 => m.type \notin Emits(todo[t][a])
    BY <2>1, FirstDiffers
  <2> HIDE DEF m, s
  <2>3. /\ stream' \in [Client -> Seq(Message)]
        /\ \A j \in Client : j # t => stream'[j] = stream[j]
        /\ Len(stream'[t]) = Len(stream[t]) + 1 /\ Len(stream[t]) \in Nat
        /\ stream'[t][Len(stream[t]) + 1] = m
        /\ \A k \in 1..Len(stream[t]) : stream'[t][k] = stream[t][k]
    BY <2>1, <2>2, <2>m, Written DEF IInv
  <2>4. ASSUME NEW j \in Client, NEW k \in 1..Len(stream'[j])
        PROVE  (j = t /\ k = Len(stream[t]) + 1 /\ stream'[j][k] = m)
               \/ (k \in 1..Len(stream[j]) /\ stream'[j][k] = stream[j][k])
    BY <2>3
  <2>5. Typed'
    BY <1>1, <1>5, <2>3 DEF IInv, Typed
  <2>6. Streams' /\ Ordered'
    <3>1. \A j \in Client \ {t} : \A q \in 1..Len(stream[j]) : stream[j][q] = m =>
            \A r \in 1..Len(stream[j]) : r > q => stream[j][r].type \in Solo
      BY <2>1, <2>m DEF IInv, Streams
    <3>2. /\ t \in Client /\ m \in Message /\ m.n < sent[m.from] /\ UNCHANGED sent
          /\ m.type \in Solo => m.from = t
      BY <2>1, <2>m
    <3> QED
      BY <2>2, <3>1, <3>2, WriteOrdered
  <2>7. ASSUME NEW u \in Thread, pending'[u] # {}
        PROVE  u # t /\ pending[u] # {} /\ current'[u] = current[u] /\ current[u] # m
    BY <1>1, <1>3, <2>m, <2>7 DEF IInv, Sending
  <2>8. Sending'
    <3>1. ASSUME NEW u \in Thread, pending'[u] # {}, NEW j \in pending'[u],
                 NEW k \in 1..Len(stream'[j])
          PROVE  stream'[j][k] # current'[u]
      <4>1. j \in Client /\ j \in pending[u]
        BY <1>1 DEF IInv, Typed
      <4> QED
        BY <2>4, <2>7, <3>1, <4>1 DEF IInv, Sending
    <3>2. ASSUME NEW u \in Thread, pending'[u] # {}
          PROVE  /\ mutex' = u
                 /\ todo'[u] # <<>> /\ todo'[u][1].op \in {"tell", "list", "private"}
                 /\ current'[u].from = u /\ current'[u].n = sent'[u] - 1
                 /\ current'[u].type \in Emits(todo'[u][1])
                 /\ current'[u].type \in Solo => pending'[u] \subseteq {u}
      <4>1. u # t /\ todo'[u] = todo[u]
        BY <1>5, <2>7, <3>2
      <4> QED
        BY <1>1, <3>2, <4>1 DEF IInv, Sending
    <3> QED
      BY <3>1, <3>2 DEF Sending
  <2>9. LastWord'
    <3> SUFFICES ASSUME NEW u \in Thread, pending'[u] # {}, NEW j \in Client,
                        NEW q \in 1..Len(stream'[j]), stream'[j][q] = current[u],
                        NEW r \in 1..Len(stream'[j]), r > q
                 PROVE  stream'[j][r].type \in Solo
      BY <1>1 DEF LastWord
    <3>1. q \in 1..Len(stream[j]) /\ stream[j][q] = current[u]
      BY <2>4, <2>7
    <3>2. CASE stream'[j][r] = m
      BY <2>1, <3>2
    <3>3. CASE r \in 1..Len(stream[j]) /\ stream'[j][r] = stream[j][r]
      BY <2>7, <3>1, <3>3 DEF IInv, LastWord
    <3> QED
      BY <2>4, <3>2, <3>3
  <2>10. Unsent'
    <3>0. sent' = sent /\ pending' = pending
      BY <1>1
    <3> SUFFICES ASSUME NEW u \in Thread, NEW a \in 1..Len(todo'[u]), a > 1 \/ pending[u] = {},
                        NEW j \in Client, NEW k \in 1..Len(stream'[j]),
                        stream'[j][k].from = u, stream'[j][k].n = sent[u] - 1
                 PROVE  stream'[j][k].type \notin Emits(todo'[u][a])
      BY <3>0 DEF Unsent
    <3>1. CASE u = t
      <4>1. a + 1 \in 1..Len(todo[t]) /\ a + 1 > 1 /\ todo'[t][a] = todo[t][a + 1]
        BY <1>5, <3>1
      <4>2. CASE stream'[j][k] = m
        BY <2>x, <3>1, <4>1, <4>2
      <4>3. CASE k \in 1..Len(stream[j]) /\ stream'[j][k] = stream[j][k]
        BY <1>3, <3>1, <4>1, <4>3 DEF IInv, Unsent
      <4> QED
        BY <2>4, <4>2, <4>3
    <3>2. CASE u # t
      <4>1. k \in 1..Len(stream[j]) /\ stream'[j][k] = stream[j][k]
        BY <2>4, <2>m, <3>2
      <4> QED
        BY <1>5, <3>2, <4>1 DEF IInv, Unsent
    <3> QED
      BY <3>1, <3>2
  <2> QED
    BY <1>6, <2>5, <2>6, <2>8, <2>9, <2>10 DEF IInv
<1> QED
  BY <1>1, <1>7, <1>8

-----------------------------------------------------------------------------
(* Who is told of whom                                                     *)

\* A session stays in the map until remove_client.
Members ==
    \A i \in Client : session[i] \in {"registered", "connected", "refused"} => i \in m_clients

\* What programs contain: who says goodbye and erases itself has left.
Contents ==
    \A t \in Thread : \A a \in 1..Len(todo[t]) : LET s == todo[t][a] IN
        /\ s.op = "erase" => t \in Client /\ session[t] = "left"
        /\ s.op = "tell" => s.msg.type # "LIST"
        /\ s.op = "tell" /\ s.msg.type = "LEFT" => t \in Client /\ session[t] = "left"
        /\ s.op = "list" => s.msg.type = "LIST"

\* The map does not change while a list of it is written.
Lists ==
    \A t \in Thread : pending[t] # {} /\ current[t].type = "LIST" => current[t].ids = m_clients

\* Thread t still has a packet of this type to write to i.
Owes(t, i, type) ==
    \E a \in 1..Len(todo[t]) :
        /\ todo[t][a].op \in {"tell", "list"}
        /\ todo[t][a].msg.type = type
        /\ i \in todo[t][a].to
        /\ a > 1 \/ pending[t] = {} \/ i \in pending[t]

\* A connected client knows of another, or will be told: by the handler of the
\* other, which says that it joined, or by its own, which sends the list.
Informed ==
    \A i, j \in Client : session[i] = "connected" /\ session[j] = "connected" =>
        Owes(j, i, "JOINED") \/ Owes(i, i, "LIST") \/ j \in KnownTo(i)

Presence == Members /\ Contents /\ Lists /\ Informed

\* What one more packet does to what a client knows.
LEMMA KnowsAfter ==
  ASSUME Typed, NEW i \in Client, NEW m \in Message,
         stream' = [stream EXCEPT ![i] = Append(@, m)]
  PROVE  \A x, j \in Client :
           \/ x \in Client \ {i} /\ j \in KnownTo(x)
           \/ x = i /\ j \in KnownTo(i) /\ ~ Denies(m, j)
           \/ x = i /\ Says(m, j)
           => j \in KnownTo(x)'
<1>0. /\ \A x \in Client : x # i => stream'[x] = stream[x]
      /\ Len(stream'[i]) = Len(stream[i]) + 1 /\ Len(stream[i]) \in Nat
      /\ stream'[i][Len(stream[i]) + 1] = m
      /\ \A k \in 1..Len(stream[i]) : stream'[i][k] = stream[i][k]
  BY Written
<1>1. ASSUME NEW x \in Client \ {i}, NEW j \in Client, j \in KnownTo(x) PROVE j \in KnownTo(x)'
  BY <1>0, <1>1 DEF KnownTo
<1>2. ASSUME NEW j \in Client, j \in KnownTo(i), ~ Denies(m, j) PROVE j \in KnownTo(i)'
  <2>1. PICK k \in 1..Len(stream[i]) :
          /\ Says(stream[i][k], j)
          /\ \A r \in (k + 1)..Len(stream[i]) : ~ Denies(stream[i][r], j)
    BY <1>2 DEF KnownTo
  <2>2. k \in 1..Len(stream'[i]) /\ Says(stream'[i][k], j)
    BY <1>0, <2>1
  <2>3. ASSUME NEW r \in (k + 1)..Len(stream'[i]) PROVE ~ Denies(stream'[i][r], j)
    <3>1. CASE r = Len(stream[i]) + 1
      BY <1>0, <1>2, <3>1
    <3>2. CASE r \in (k + 1)..Len(stream[i])
      BY <1>0, <2>1, <3>2
    <3> QED
      BY <1>0, <3>1, <3>2
  <2> QED
    BY <2>2, <2>3 DEF KnownTo
<1>3. ASSUME NEW j \in Client, Says(m, j) PROVE j \in KnownTo(i)'
  <2>1. /\ Len(stream'[i]) \in 1..Len(stream'[i]) /\ Says(stream'[i][Len(stream'[i])], j)
        /\ (Len(stream'[i]) + 1)..Len(stream'[i]) = {}
    BY <1>0, <1>3
  <2> QED
    BY <2>1 DEF KnownTo
<1> QED
  BY <1>1, <1>2, <1>3

\* An unchanged stream tells what it told.
LEMMA KnowsAsBefore ==
  ASSUME stream' = stream
  PROVE  \A x : KnownTo(x)' = KnownTo(x)
BY DEF KnownTo

\* What is true of a program is true of what is left of it.
LEMMA ShortenedContents ==
  ASSUME Typed, Contents, NEW t \in Thread, todo[t] # <<>>,
         todo' = [todo EXCEPT ![t] = Tail(@)], session' = session
  PROVE  Contents'
<1> SUFFICES ASSUME NEW u \in Thread, NEW a \in 1..Len(todo'[u])
             PROVE  \E b \in 1..Len(todo[u]) : todo'[u][a] = todo[u][b]
  BY DEF Contents
<1>1. CASE u = t
  BY <1>1, Shortened
<1>2. CASE u # t
  BY <1>2, Shortened
<1> QED
  BY <1>1, <1>2

\* When the first section is done, what the others owe is still owed.
LEMMA OwesShortened ==
  ASSUME Typed, NEW t \in Thread, todo[t] # <<>>, todo' = [todo EXCEPT ![t] = Tail(@)],
         pending' = [pending EXCEPT ![t] = {}], NEW u \in Thread, NEW i, NEW type,
         u = t => \E a \in 1..Len(todo[t]) :
                    /\ a > 1 /\ todo[t][a].op \in {"tell", "list"}
                    /\ todo[t][a].msg.type = type /\ i \in todo[t][a].to,
         Owes(u, i, type)
  PROVE  Owes(u, i, type)'
<1>0. /\ \A v \in Thread : v # t => todo'[v] = todo[v] /\ pending'[v] = pending[v]
      /\ pending'[t] = {}
  BY Shortened DEF Typed
<1>1. CASE u # t
  BY <1>0, <1>1 DEF Owes
<1>2. CASE u = t
  <2>1. PICK a \in 1..Len(todo[t]) :
                    /\ a > 1 /\ todo[t][a].op \in {"tell", "list"}
                    /\ todo[t][a].msg.type = type /\ i \in todo[t][a].to
    BY <1>2
  <2>2. Len(todo'[t]) = Len(todo[t]) - 1 /\ Len(todo[t]) \in Nat
    BY Shortened
  <2>3. PICK b \in 1..Len(todo'[t]) : b + 1 = a
    <3>1. a - 1 \in 1..Len(todo'[t]) /\ (a - 1) + 1 = a
      BY <2>1, <2>2
    <3> QED
      BY <3>1
  <2>4. \A c \in 1..Len(todo'[t]) : todo'[t][c] = todo[t][c + 1]
    BY Shortened
  <2>5. todo'[t][b] = todo[t][a]
    BY <2>3, <2>4
  <2>6. /\ todo'[t][b].op \in {"tell", "list"} /\ todo'[t][b].msg.type = type
        /\ i \in todo'[t][b].to /\ pending'[t] = {}
    BY <1>0, <2>1, <2>5
  <2> QED
    BY <1>2, <2>6 DEF Owes
<1> QED
  BY <1>1, <1>2

\* A thread that is between two packets owes nothing.
LEMMA IdleOwesNothing ==
  ASSUME Typed, NEW t \in Thread, Idle(t), NEW i, NEW type
  PROVE  ~ Owes(t, i, type)
<1>1. Len(todo[t]) = 0
  BY DEF Idle
<1> QED
  BY <1>1 DEF Owes

\* A thread takes its next packet: what the others owe they still owe, and who
\* is connected by it owes the list to itself and "joined" to everyone.
LEMMA RunPresence ==
  ASSUME IInv, Presence, NEW t \in Thread, Idle(t), NEW p \in Seq(Section), Run(t, p),
         session' \in [Client -> {"new", "registered", "connected", "refused", "left"}],
         \A u \in Client : u # t => session'[u] = session[u],
         t \in Client /\ session'[t] \in {"registered", "connected", "refused"}
            => session[t] \in {"registered", "connected", "refused"},
         t \in Client /\ session'[t] = "connected" =>
            \/ session[t] = "connected"
            \/ \E a, b \in 1..Len(p) : /\ p[a] = List({t}, t)
                                       /\ p[b] = Tell(Client, Msg("JOINED", t)),
         \A a \in 1..Len(p) :
            /\ p[a].op = "erase" => t \in Client /\ session'[t] = "left"
            /\ p[a].op = "tell" => p[a].msg.type # "LIST"
            /\ p[a].op = "tell" /\ p[a].msg.type = "LEFT" => t \in Client /\ session'[t] = "left"
            /\ p[a].op = "list" => p[a].msg.type = "LIST"
  PROVE  Presence'
<1>1. /\ todo' \in [Thread -> Seq(Section)] /\ todo'[t] = p
      /\ \A u \in Thread : u # t => todo'[u] = todo[u]
      /\ UNCHANGED <<m_clients, mutex, pending, current, stream>>
      /\ pending[t] = {} /\ Typed
  BY DEF Run, Idle, IInv, Typed, Sending
<1>2. Members'
  BY <1>1 DEF Presence, Members
<1>3. Contents'
  <2> SUFFICES ASSUME NEW u \in Thread, NEW a \in 1..Len(todo'[u])
               PROVE  LET s == todo'[u][a] IN
                        /\ s.op = "erase" => u \in Client /\ session'[u] = "left"
                        /\ s.op = "tell" => s.msg.type # "LIST"
                        /\ s.op = "tell" /\ s.msg.type = "LEFT" => u \in Client /\ session'[u] = "left"
                        /\ s.op = "list" => s.msg.type = "LIST"
    BY DEF Contents
  <2>1. CASE u = t
    BY <1>1, <2>1
  <2>2. CASE u # t
    BY <1>1, <2>2 DEF Presence, Contents
  <2> QED
    BY <2>1, <2>2
<1>4. Lists'
  BY <1>1 DEF Presence, Lists
<1>5. ASSUME NEW u \in Thread, NEW i, NEW type, Owes(u, i, type) PROVE Owes(u, i, type)'
  <2>1. u # t
    BY <1>1, <1>5, IdleOwesNothing
  <2> QED
    BY <1>1, <1>5, <2>1 DEF Owes
<1>6. Informed'
  <2> SUFFICES ASSUME NEW i \in Client, NEW j \in Client,
                      session'[i] = "connected", session'[j] = "connected"
               PROVE  Owes(j, i, "JOINED")' \/ Owes(i, i, "LIST")' \/ j \in KnownTo(i)'
    BY DEF Informed
  <2>0. i \in Thread /\ j \in Thread
    BY ThreadsAre
  <2>1. CASE session[i] = "connected" /\ session[j] = "connected"
    <3>1. Owes(j, i, "JOINED") \/ Owes(i, i, "LIST") \/ j \in KnownTo(i)
      BY <2>1 DEF Presence, Informed
    <3> QED
      BY <1>1, <1>5, <2>0, <3>1, KnowsAsBefore
  <2>2. CASE session[i] # "connected"
    <3>1. i = t /\ \E a \in 1..Len(p) : p[a] = List({t}, t)
      BY <2>2
    <3>2. PICK a \in 1..Len(p) : p[a] = List({t}, t)
      BY <3>1
    <3>3. p[a].op = "list" /\ p[a].msg.type = "LIST" /\ i \in p[a].to
      BY <3>1, <3>2 DEF List, Msg
    <3>4. Owes(i, i, "LIST")'
      BY <1>1, <3>1, <3>3 DEF Owes
    <3> QED
      BY <3>4
  <2>3. CASE session[j] # "connected"
    <3>1. j = t /\ \E b \in 1..Len(p) : p[b] = Tell(Client, Msg("JOINED", t))
      BY <2>3
    <3>2. PICK b \in 1..Len(p) : p[b] = Tell(Client, Msg("JOINED", t))
      BY <3>1
    <3>3. p[b].op = "tell" /\ p[b].msg.type = "JOINED" /\ i \in p[b].to
      BY <3>2 DEF Tell, Msg
    <3>4. Owes(j, i, "JOINED")'
      BY <1>1, <3>1, <3>3 DEF Owes
    <3> QED
      BY <3>4
  <2> QED
    BY <2>1, <2>2, <2>3
<1> QED
  BY <1>2, <1>3, <1>4, <1>6 DEF Presence

\* The packets of a client, and the end of its session.
LEMMA PacketPresence ==
  ASSUME IInv, Presence, NEW i \in Client, Packet(i)
  PROVE  Presence'
<1>0. i \in Thread /\ Typed
  BY ThreadsAre DEF IInv
<1>1. CASE HandleConnect(i)
  <2> DEFINE p == ConnectProgram(i)
  <2>1. /\ Idle(i) /\ Run(i, p) /\ session[i] = "registered"
        /\ session' = [session EXCEPT ![i] = "connected"]
    BY <1>1 DEF HandleConnect
  <2>2. /\ p \in Seq(Section) /\ Len(p) = 3 /\ p[1] = Rename(i) /\ p[2] = List({i}, i)
        /\ p[3] = Tell(Client, Msg("JOINED", i))
    BY <1>0, SectionsFit, ProgramOfThree DEF ConnectProgram
  <2>3. \A a \in 1..Len(p) :
            /\ p[a].op # "erase"
            /\ p[a].op = "tell" => p[a].msg.type = "JOINED"
            /\ p[a].op = "list" => p[a].msg.type = "LIST"
    BY <2>2 DEF Rename, List, Tell, Msg
  <2> HIDE DEF p
  <2>4. /\ session' \in [Client -> {"new", "registered", "connected", "refused", "left"}]
        /\ \A u \in Client : u # i => session'[u] = session[u]
        /\ session[i] \in {"registered", "connected", "refused"}
    BY <1>0, <2>1 DEF Typed
  <2>5. \E a, b \in 1..Len(p) : p[a] = List({i}, i) /\ p[b] = Tell(Client, Msg("JOINED", i))
    BY <2>2
  <2> QED
    BY <1>0, <2>1, <2>2, <2>3, <2>4, <2>5, RunPresence
<1>2. CASE RefuseConnect(i)
  <2> DEFINE p == <<Rename(i), Reply(Msg("ERROR", i), i)>>
  <2>1. /\ Idle(i) /\ Run(i, p) /\ session[i] = "registered"
        /\ session' = [session EXCEPT ![i] = "refused"]
    BY <1>2 DEF RefuseConnect
  <2>2. "ERROR" \in Solo
    BY DEF Solo
  <2>3. p \in Seq(Section) /\ \A a \in 1..Len(p) : p[a].op \in {"rename", "reply"}
    BY <1>0, <2>2, SectionsFit, ProgramOfTwo DEF Rename, Reply
  <2> HIDE DEF p
  <2>4. /\ session' \in [Client -> {"new", "registered", "connected", "refused", "left"}]
        /\ \A u \in Client : u # i => session'[u] = session[u]
        /\ session'[i] = "refused" /\ session[i] \in {"registered", "connected", "refused"}
    BY <1>0, <2>1 DEF Typed
  <2> QED
    BY <1>0, <2>1, <2>3, <2>4, RunPresence
<1>3. ASSUME NEW kind \in Kind, NEW target \in Client, HandlePacket(i, kind, target)
      PROVE  Presence'
  <2> DEFINE p == PacketProgram(i, kind, target)
  <2>1. Idle(i) /\ Run(i, p) /\ session' = session
    BY <1>3 DEF HandlePacket
  <2>2. kind \in {"TEXT", "PRIVATE", "CLIENT_LIST", "NICK_SET", "PING"}
    BY MessagesAssumption
  <2> DEFINE Calm == /\ p \in Seq(Section)
                     /\ \A a \in 1..Len(p) :
                          /\ p[a].op # "erase"
                          /\ p[a].op = "tell" => p[a].msg.type \in {"TEXT", "RENAMED"}
                          /\ p[a].op = "list" => p[a].msg.type = "LIST"
  <2>3. Calm
    <3>1. CASE kind = "TEXT"
      <4>1. p = <<Tell(Client \ {i}, Msg("TEXT", i))>>
        BY <3>1 DEF PacketProgram
      <4>2. Tell(Client \ {i}, Msg("TEXT", i)) \in Section
        BY <1>0, SectionsFit
      <4> QED
        BY <4>1, <4>2 DEF Tell, Msg
    <3>2. CASE kind = "PRIVATE"
      <4>1. p = <<Private(target, i)>>
        BY <3>2 DEF PacketProgram
      <4> QED
        BY <1>0, <4>1, SectionsFit DEF Private
    <3>3. CASE kind = "CLIENT_LIST"
      <4>1. p = <<List({i}, i)>>
        BY <3>3 DEF PacketProgram
      <4>2. List({i}, i) \in Section
        BY <1>0, SectionsFit
      <4> QED
        BY <4>1, <4>2 DEF List, Msg
    <3>4. CASE kind = "NICK_SET"
      <4>1. p = <<Rename(i), Tell(Client, Msg("RENAMED", i)), List(Client, i)>>
        BY <3>4 DEF PacketProgram
      <4>2. /\ Rename(i) \in Section /\ Tell(Client, Msg("RENAMED", i)) \in Section
            /\ List(Client, i) \in Section
        BY <1>0, SectionsFit
      <4>3. p \in Seq(Section) /\ Len(p) = 3
        BY <4>1, <4>2
      <4> QED
        BY <4>1, <4>3 DEF Rename, Tell, List, Msg
    <3>5. CASE kind = "PING"
      <4>1. p = <<Reply(Msg("PONG", i), i)>>
        BY <3>5 DEF PacketProgram
      <4>2. "PONG" \in Solo
        BY DEF Solo
      <4> QED
        BY <1>0, <4>1, <4>2, SectionsFit DEF Reply
    <3> QED
      BY <2>2, <3>1, <3>2, <3>3, <3>4, <3>5
  <2> HIDE DEF p
  <2> QED
    BY <1>0, <2>1, <2>3, RunPresence DEF Typed
<1>4. CASE ClientLeave(i)
  <2> DEFINE p == <<Tell(Client, Msg("LEFT", i)), Erase(i)>>
  <2>1. Idle(i) /\ Run(i, p) /\ session' = [session EXCEPT ![i] = "left"]
    BY <1>4 DEF ClientLeave
  <2>2. /\ p \in Seq(Section)
        /\ \A a \in 1..Len(p) : /\ p[a].op \in {"tell", "erase"}
                                /\ p[a].op = "tell" => p[a].msg.type = "LEFT"
    <3>1. Tell(Client, Msg("LEFT", i)) \in Section /\ Erase(i) \in Section
      BY <1>0, SectionsFit
    <3>2. p \in Seq(Section) /\ Len(p) = 2
      BY <3>1
    <3> QED
      BY <3>2 DEF Tell, Erase, Msg
  <2> HIDE DEF p
  <2>3. /\ session' \in [Client -> {"new", "registered", "connected", "refused", "left"}]
        /\ \A u \in Client : u # i => session'[u] = session[u]
        /\ session'[i] = "left"
    BY <1>0, <2>1 DEF Typed
  <2> QED
    BY <1>0, <2>1, <2>2, <2>3, RunPresence
<1> QED
  BY <1>1, <1>2, <1>3, <1>4 DEF Packet

\* The operator's commands.
LEMMA OperatorPresence ==
  ASSUME IInv, Presence, OperatorCommand
  PROVE  Presence'
<1>0. /\ Operator \in Thread /\ Operator \notin Client /\ Typed /\ Idle(Operator)
      /\ session' = session
  BY ThreadsAre DEF IInv, OperatorCommand
<1>1. ASSUME NEW x \in Section, x.op # "erase", x.op = "tell" => x.msg.type = "TEXT",
             x.op = "list" => x.msg.type = "LIST", Run(Operator, <<x>>)
      PROVE  Presence'
  <2>1. <<x>> \in Seq(Section) /\ \A a \in 1..Len(<<x>>) : <<x>>[a] = x
    OBVIOUS
  <2> QED
    BY <1>0, <1>1, <2>1, RunPresence DEF Typed
<1>2. CASE Run(Operator, <<Tell(Client, Msg("TEXT", Operator))>>)
  BY <1>0, <1>1, <1>2, SectionsFit DEF Tell, Msg
<1>3. ASSUME NEW j \in Client, Run(Operator, <<Private(j, Operator)>>) PROVE Presence'
  BY <1>0, <1>1, <1>3, SectionsFit DEF Private
<1>4. CASE Run(Operator, <<List({}, Operator)>>)
  BY <1>0, <1>1, <1>4, SectionsFit DEF List, Msg
<1> QED
  BY <1>2, <1>3, <1>4 DEF OperatorCommand

\* A section that writes nothing leaves what is known and owed.
LEMMA InformedShortened ==
  ASSUME IInv, Presence, NEW t \in Thread, todo[t] # <<>>,
         todo' = [todo EXCEPT ![t] = Tail(@)], pending' = [pending EXCEPT ![t] = {}],
         session' = session,
         \A i, j \in Client : j \in KnownTo(i) => j \in KnownTo(i)',
         \A i \in Client, type \in {"JOINED", "LIST"} :
            session[i] = "connected" /\ Owes(t, i, type) =>
            \E a \in 1..Len(todo[t]) : /\ a > 1 /\ todo[t][a].op \in {"tell", "list"}
                                       /\ todo[t][a].msg.type = type /\ i \in todo[t][a].to
  PROVE  Contents' /\ Informed'
<1>0. Typed /\ Contents /\ Informed
  BY DEF IInv, Presence
<1>1. Contents'
  BY <1>0, ShortenedContents
<1>2. ASSUME NEW u \in Thread, NEW i \in Client, NEW type \in {"JOINED", "LIST"},
             session[i] = "connected", Owes(u, i, type)
      PROVE  Owes(u, i, type)'
  <2>1. u = t => \E a \in 1..Len(todo[t]) :
                    /\ a > 1 /\ todo[t][a].op \in {"tell", "list"}
                    /\ todo[t][a].msg.type = type /\ i \in todo[t][a].to
    BY <1>2
  <2> QED
    BY <1>0, <1>2, <2>1, OwesShortened
<1>3. ASSUME NEW i \in Client, NEW j \in Client, session[i] = "connected", session[j] = "connected"
      PROVE  Owes(j, i, "JOINED")' \/ Owes(i, i, "LIST")' \/ j \in KnownTo(i)'
  <2>1. i \in Thread /\ j \in Thread
    BY ThreadsAre
  <2>2. Owes(j, i, "JOINED") \/ Owes(i, i, "LIST") \/ j \in KnownTo(i)
    BY <1>0, <1>3 DEF Informed
  <2> QED
    BY <1>2, <1>3, <2>1, <2>2
<1> QED
  BY <1>1, <1>3 DEF Informed

\* A section begins: a client of the map whom it is for is among those owed.
LEMMA SectionBeginPresence ==
  ASSUME IInv, Presence, NEW t \in Thread, SectionBegin(t)
  PROVE  Presence'
<1> DEFINE s == todo[t][1]
           c == Content(t, s)
           owed == Recipients(t, s)
<1>0. Typed /\ Members /\ Contents /\ Lists /\ Informed
  BY DEF IInv, Presence
<1>1. /\ todo[t] # <<>> /\ pending[t] = {} /\ s = Head(todo[t]) /\ mutex = Free
      /\ s.op \in {"tell", "list", "private"} /\ 1 \in 1..Len(todo[t])
      /\ current' = [current EXCEPT ![t] = c] /\ Release(t, owed)
      /\ UNCHANGED <<m_clients, session, sent, stream>>
  BY <1>0, Current DEF SectionBegin, MutexFree
<1>2. c.type = "LIST" => c.ids = m_clients
  <2>1. CASE s.op = "tell"
    BY <1>0, <1>1, <2>1 DEF Content, Contents
  <2>2. CASE s.op = "list"
    <3>1. s.msg \in Message
      BY <1>0, <1>1, Current DEF Section
    <3> QED
      BY <2>2, <3>1 DEF Content, Message
  <2>3. CASE s.op = "private"
    <3>1. s.msg \in Message /\ s.msg.type = "PRIVATE"
      BY <1>0, <1>1, <2>3, Current DEF Section, IInv, Programs, Program, Fits
    <3> QED
      BY <2>3, <3>1 DEF Content, Message
  <2> QED
    BY <1>1, <2>1, <2>2, <2>3
<1>3. s.op \in {"tell", "list"} => owed = s.to \cap m_clients
  BY DEF Recipients
<1> HIDE DEF c, owed
<1>4. \A u \in Thread : pending[u] = {}
  BY <1>1, ThreadsAre DEF IInv, Sending
<1>5. Members'
  BY <1>0, <1>1 DEF Members
<1>6. /\ pending' = [pending EXCEPT ![t] = owed] /\ pending'[t] = owed
      /\ \A u \in Thread : u # t => pending'[u] = {}
  BY <1>0, <1>1, <1>4 DEF Release, Typed
<1>7. Lists'
  BY <1>0, <1>1, <1>2, <1>6 DEF Lists, Typed
<1>8. \A x : KnownTo(x)' = KnownTo(x)
  BY <1>1, KnowsAsBefore
<1>9. CASE owed = {}
  <2>1. todo' = [todo EXCEPT ![t] = Tail(@)] /\ pending' = [pending EXCEPT ![t] = {}]
    BY <1>1, <1>6, <1>9 DEF Release
  <2>2. ASSUME NEW i \in Client, NEW type \in {"JOINED", "LIST"},
               session[i] = "connected", Owes(t, i, type)
        PROVE  \E a \in 1..Len(todo[t]) : /\ a > 1 /\ todo[t][a].op \in {"tell", "list"}
                                          /\ todo[t][a].msg.type = type /\ i \in todo[t][a].to
    <3>1. PICK a \in 1..Len(todo[t]) : /\ todo[t][a].op \in {"tell", "list"}
                                       /\ todo[t][a].msg.type = type /\ i \in todo[t][a].to
      BY <2>2 DEF Owes
    <3>2. i \in m_clients
      BY <1>0, <2>2 DEF Members
    <3>3. a # 1
      BY <1>3, <1>9, <3>1, <3>2
    <3> QED
      BY <3>1, <3>3
  <2>3. Contents' /\ Informed'
    BY <1>1, <1>8, <2>1, <2>2, InformedShortened
  <2> QED
    BY <1>5, <1>7, <2>3 DEF Presence
<1>10. CASE owed # {}
  <2>1. todo' = todo
    BY <1>1, <1>10 DEF Release
  <2>2. Contents'
    BY <1>0, <1>1, <2>1 DEF Contents
  <2>3. ASSUME NEW u \in Thread, NEW i \in Client, NEW type,
               session[i] = "connected", Owes(u, i, type)
        PROVE  Owes(u, i, type)'
    <3>1. PICK a \in 1..Len(todo[u]) : /\ todo[u][a].op \in {"tell", "list"}
                                       /\ todo[u][a].msg.type = type /\ i \in todo[u][a].to
      BY <2>3 DEF Owes
    <3>2. i \in m_clients
      BY <1>0, <2>3 DEF Members
    <3>3. u = t /\ a = 1 => i \in owed
      BY <1>3, <3>1, <3>2
    <3>4. a > 1 \/ pending'[u] = {} \/ i \in pending'[u]
      BY <1>6, <3>3
    <3> QED
      BY <2>1, <3>1, <3>4 DEF Owes
  <2>4. Informed'
    <3> SUFFICES ASSUME NEW i \in Client, NEW j \in Client,
                        session[i] = "connected", session[j] = "connected"
                 PROVE  Owes(j, i, "JOINED")' \/ Owes(i, i, "LIST")' \/ j \in KnownTo(i)'
      BY <1>1 DEF Informed
    <3>1. i \in Thread /\ j \in Thread
      BY ThreadsAre
    <3>2. Owes(j, i, "JOINED") \/ Owes(i, i, "LIST") \/ j \in KnownTo(i)
      BY <1>0 DEF Informed
    <3> QED
      BY <1>8, <2>3, <3>1, <3>2
  <2> QED
    BY <1>5, <1>7, <2>2, <2>4 DEF Presence
<1> QED
  BY <1>9, <1>10

\* A packet is written: it denies nobody who is connected, and the "joined" or
\* the list that was owed tells its reader what it did not know.
LEMMA SectionSendPresence ==
  ASSUME IInv, Presence, NEW t \in Thread, SectionSend(t)
  PROVE  Presence'
<1> DEFINE x == Min(pending[t])
           m == current[t]
           owed == pending[t] \ {x}
<1>0. Typed /\ Members /\ Contents /\ Lists /\ Informed
  BY DEF IInv, Presence
<1>1. /\ pending[t] # {} /\ stream' = [stream EXCEPT ![x] = Append(@, m)]
      /\ Release(t, owed) /\ UNCHANGED <<m_clients, session, sent, current>>
  BY DEF SectionSend
<1>2. x \in pending[t] /\ x \in Client
  BY <1>0, <1>1, MinIsIn, ThreadsAre DEF Typed
<1> HIDE DEF x
<1>3. /\ todo[t] # <<>> /\ todo[t][1].op \in {"tell", "list", "private"}
      /\ 1 \in 1..Len(todo[t])
      /\ m \in Message /\ m.from = t /\ m.type \in Emits(todo[t][1])
      /\ m.type = "LIST" => m.ids = m_clients
  BY <1>0, <1>1, Current DEF IInv, Sending, Lists, Typed
<1>4. /\ pending' = [pending EXCEPT ![t] = owed] /\ pending'[t] = owed
      /\ \A u \in Thread : u # t => pending'[u] = pending[u]
  BY <1>0, <1>1 DEF Release, Typed
<1>5. Members' /\ Lists'
  <2>1. \A u \in Thread : pending'[u] # {} => pending[u] # {}
    BY <1>4
  <2> QED
    BY <1>0, <1>1, <2>1 DEF Members, Lists
\* Nobody who is connected is denied.
<1>6. ASSUME NEW j \in Client, session[j] = "connected" PROVE ~ Denies(m, j)
  <2>1. j \in m_clients
    BY <1>0, <1>6 DEF Members
  <2>2. m.type # "LEFT" \/ m.from # j
    <3>1. CASE todo[t][1].op = "tell"
      BY <1>0, <1>3, <1>6, <3>1 DEF Contents, Emits
    <3>2. CASE todo[t][1].op = "list"
      BY <1>0, <1>3, <3>2 DEF Contents, Emits
    <3>3. CASE todo[t][1].op = "private"
      BY <1>3, <3>3 DEF Emits
    <3> QED
      BY <1>3, <3>1, <3>2, <3>3
  <2> QED
    BY <1>3, <2>1, <2>2 DEF Denies
<1>7. ASSUME NEW i \in Client, NEW j \in Client, session[j] = "connected",
             j \in KnownTo(i) \/ (i = x /\ Says(m, j))
      PROVE  j \in KnownTo(i)'
  BY <1>0, <1>1, <1>2, <1>3, <1>6, <1>7, KnowsAfter
\* What is owed to others than x, or by other sections, is still owed.
<1>8. ASSUME NEW u \in Thread, NEW i \in Client, NEW type, Owes(u, i, type)
      PROVE  Owes(u, i, type)' \/ (u = t /\ i = x /\ m.type = type)
  <2>1. PICK a \in 1..Len(todo[u]) : /\ todo[u][a].op \in {"tell", "list"}
                                     /\ todo[u][a].msg.type = type /\ i \in todo[u][a].to
                                     /\ a > 1 \/ pending[u] = {} \/ i \in pending[u]
    BY <1>8 DEF Owes
  <2>2. CASE u = t /\ a = 1
    <3>1. i \in pending[t] /\ m.type = type
      BY <1>1, <1>3, <2>1, <2>2 DEF Emits
    <3>2. CASE i # x
      <4>1. i \in owed /\ todo' = todo
        BY <1>1, <3>1, <3>2 DEF Release
      <4> QED
        BY <1>4, <2>1, <2>2, <4>1 DEF Owes
    <3> QED
      BY <2>2, <3>1, <3>2
  <2>3. CASE u # t \/ a > 1
    <3>1. CASE owed # {}
      <4>1. todo' = todo
        BY <1>1, <3>1 DEF Release
      <4> QED
        BY <1>4, <2>1, <2>3, <4>1 DEF Owes
    <3>2. CASE owed = {}
      <4>1. todo' = [todo EXCEPT ![t] = Tail(@)] /\ pending' = [pending EXCEPT ![t] = {}]
        BY <1>1, <1>4, <3>2 DEF Release
      <4>2. u = t => \E b \in 1..Len(todo[t]) :
                        /\ b > 1 /\ todo[t][b].op \in {"tell", "list"}
                        /\ todo[t][b].msg.type = type /\ i \in todo[t][b].to
        BY <2>1, <2>3
      <4> QED
        BY <1>0, <1>3, <1>8, <4>1, <4>2, OwesShortened
    <3> QED
      BY <3>1, <3>2
  <2> QED
    BY <2>2, <2>3
<1>9. Contents'
  <2>1. CASE owed # {}
    BY <1>0, <1>1, <2>1 DEF Release, Contents
  <2>2. CASE owed = {}
    BY <1>0, <1>1, <1>3, <2>2, ShortenedContents DEF Release
  <2> QED
    BY <2>1, <2>2
<1>10. Informed'
  <2> SUFFICES ASSUME NEW i \in Client, NEW j \in Client,
                      session[i] = "connected", session[j] = "connected"
               PROVE  Owes(j, i, "JOINED")' \/ Owes(i, i, "LIST")' \/ j \in KnownTo(i)'
    BY <1>1 DEF Informed
  <2>0. i \in Thread /\ j \in Thread /\ j \in m_clients
    BY <1>0, ThreadsAre DEF Members
  <2>1. CASE Owes(j, i, "JOINED")
    <3>1. j = t /\ i = x /\ m.type = "JOINED" => Says(m, j)
      BY <1>3 DEF Says
    <3> QED
      BY <1>7, <1>8, <2>0, <2>1, <3>1
  <2>2. CASE Owes(i, i, "LIST")
    <3>1. m.type = "LIST" => Says(m, j)
      BY <1>3, <2>0 DEF Says
    <3> QED
      BY <1>7, <1>8, <2>0, <2>2, <3>1
  <2>3. CASE j \in KnownTo(i)
    BY <1>7, <2>3
  <2> QED
    BY <1>0, <2>1, <2>2, <2>3 DEF Informed
<1> QED
  BY <1>5, <1>9, <1>10 DEF Presence

\* Who erases itself has left.
LEMMA RemoveClientPresence ==
  ASSUME IInv, Presence, NEW t \in Thread, RemoveClient(t)
  PROVE  Presence'
<1>0. Typed /\ Members /\ Contents /\ Informed
  BY DEF IInv, Presence
<1>1. /\ todo[t] # <<>> /\ todo[t][1].op = "erase" /\ mutex = Free /\ 1 \in 1..Len(todo[t])
      /\ m_clients' = m_clients \ {t} /\ todo' = [todo EXCEPT ![t] = Tail(@)]
      /\ UNCHANGED <<session, sent, mutex, pending, current, stream>>
  BY <1>0, Current DEF RemoveClient, MutexFree
<1>2. \A u \in Thread : pending[u] = {}
  BY <1>1, ThreadsAre DEF IInv, Sending
<1>3. Lists'
  BY <1>1, <1>2 DEF Lists
<1>4. Members'
  <2>1. t \in Client /\ session[t] = "left"
    BY <1>0, <1>1 DEF Contents
  <2> QED
    BY <1>0, <1>1, <2>1 DEF Members
<1>5. pending' = [pending EXCEPT ![t] = {}]
  BY <1>0, <1>1, <1>2 DEF Typed
<1>6. ASSUME NEW i \in Client, NEW type \in {"JOINED", "LIST"}, Owes(t, i, type)
      PROVE  \E a \in 1..Len(todo[t]) : /\ a > 1 /\ todo[t][a].op \in {"tell", "list"}
                                        /\ todo[t][a].msg.type = type /\ i \in todo[t][a].to
  BY <1>1, <1>6 DEF Owes
<1>7. Contents' /\ Informed'
  BY <1>1, <1>5, <1>6, KnowsAsBefore, InformedShortened
<1> QED
  BY <1>3, <1>4, <1>7 DEF Presence

\* A nickname or an answer says nothing of who is there.
LEMMA UnlockedPresence ==
  ASSUME IInv, Presence, NEW t \in Thread, Unlocked(t)
  PROVE  Presence'
<1> DEFINE s == todo[t][1]
           m == s.msg
<1>0. Typed /\ Members /\ Contents /\ Lists /\ Informed
  BY DEF IInv, Presence
<1>1. /\ todo[t] # <<>> /\ s.op \in {"rename", "reply"} /\ s \in Section
      /\ 1 \in 1..Len(todo[t]) /\ todo' = [todo EXCEPT ![t] = Tail(@)]
      /\ stream' = [i \in Client |-> IF i \in s.to THEN Append(stream[i], m) ELSE stream[i]]
      /\ UNCHANGED <<m_clients, session, sent, mutex, pending, current>>
  BY <1>0, Current DEF Unlocked
<1>2. Fits(t, sent[t] - 1, s)
  BY <1>1 DEF IInv, Programs, Program
<1>3. pending' = [pending EXCEPT ![t] = {}]
  BY <1>0, <1>1 DEF IInv, Sending, Typed
<1>4. Members' /\ Lists'
  BY <1>0, <1>1 DEF Members, Lists
<1>5. ASSUME NEW i \in Client, NEW j \in Client, j \in KnownTo(i) PROVE j \in KnownTo(i)'
  <2>1. CASE s.op = "rename"
    <3>1. stream' = stream
      BY <1>0, <1>1, <1>2, <2>1 DEF Fits, Typed
    <3> QED
      BY <1>5, <3>1, KnowsAsBefore
  <2>2. CASE s.op = "reply"
    <3>1. s.to = {t} /\ m.type \in Solo /\ m \in Message /\ t \in Client
      BY <1>1, <1>2, <2>2 DEF Fits, Section
    <3>2. stream' = [stream EXCEPT ![t] = Append(@, m)]
      BY <1>0, <1>1, <3>1 DEF Typed
    <3>3. ~ Denies(m, j)
      BY <3>1 DEF Denies, Solo
    <3> HIDE DEF m
    <3> QED
      BY <1>0, <1>5, <3>1, <3>2, <3>3, KnowsAfter
  <2> QED
    BY <1>1, <2>1, <2>2
<1>6. ASSUME NEW i \in Client, NEW type \in {"JOINED", "LIST"}, Owes(t, i, type)
      PROVE  \E a \in 1..Len(todo[t]) : /\ a > 1 /\ todo[t][a].op \in {"tell", "list"}
                                        /\ todo[t][a].msg.type = type /\ i \in todo[t][a].to
  BY <1>1, <1>6 DEF Owes
<1>7. Contents' /\ Informed'
  BY <1>1, <1>3, <1>5, <1>6, InformedShortened
<1> QED
  BY <1>4, <1>7 DEF Presence

LEMMA PresenceInit == Init => Presence
<1> SUFFICES ASSUME Init PROVE Presence
  OBVIOUS
<1>1. \A t \in Thread : todo[t] = <<>> /\ pending[t] = {}
  BY DEF Init
<1>2. \A i \in Client : session[i] = "new"
  BY DEF Init
<1> QED
  BY <1>1, <1>2 DEF Presence, Members, Contents, Lists, Informed

LEMMA PresenceStep == IInv /\ Presence /\ [Next]_vars => Presence'
<1> SUFFICES ASSUME IInv, Presence, [Next]_vars PROVE Presence'
  OBVIOUS
<1>0. Typed /\ Members /\ Contents /\ Lists /\ Informed
  BY DEF IInv, Presence
<1>1. ASSUME NEW i \in Client, AcceptRegister(i) PROVE Presence'
  <2>1. /\ session' = [session EXCEPT ![i] = "registered"] /\ m_clients' = m_clients \cup {i}
        /\ session[i] = "new" /\ mutex = Free
        /\ UNCHANGED <<sent, todo, mutex, pending, current, stream>>
    BY <1>1 DEF AcceptRegister
  <2>2. \A u \in Thread : pending[u] = {}
    BY <2>1, ThreadsAre DEF IInv, Sending
  <2>3. \A u \in Client : /\ session'[u] = "connected" => session[u] = "connected"
                          /\ session[u] = "left" => session'[u] = "left"
    BY <1>0, <2>1 DEF Typed
  <2>4. Members'
    BY <1>0, <2>1 DEF Members, Typed
  <2>5. Contents' /\ Lists'
    BY <1>0, <2>1, <2>2, <2>3 DEF Contents, Lists
  <2>6. \A u, x, type : Owes(u, x, type)' = Owes(u, x, type)
    BY <2>1 DEF Owes
  <2>7. Informed'
    BY <1>0, <2>1, <2>3, <2>6, KnowsAsBefore DEF Informed
  <2> QED
    BY <2>4, <2>5, <2>7 DEF Presence
<1>2. ASSUME NEW i \in Client, Packet(i) PROVE Presence'
  BY <1>2, PacketPresence
<1>3. CASE OperatorCommand
  BY <1>3, OperatorPresence
<1>4. ASSUME NEW t \in Thread, Work(t) PROVE Presence'
  BY <1>4, SectionBeginPresence, SectionSendPresence, RemoveClientPresence, UnlockedPresence DEF Work
<1>5. CASE UNCHANGED vars
  <2>1. Members' /\ Contents' /\ Lists'
    BY <1>0, <1>5 DEF vars, Members, Contents, Lists
  <2>2. \A u, x, type : Owes(u, x, type)' = Owes(u, x, type)
    BY <1>5 DEF vars, Owes
  <2>3. Informed'
    BY <1>0, <1>5, <2>2, KnowsAsBefore DEF vars, Informed
  <2> QED
    BY <2>1, <2>3 DEF Presence
<1> QED
  BY <1>1, <1>2, <1>3, <1>4, <1>5 DEF Next

-----------------------------------------------------------------------------
(* Theorems                                                                *)

LEMMA InitInv == Init => IInv
<1> SUFFICES ASSUME Init PROVE IInv
  OBVIOUS
<1>1. \A t \in Thread : sent[t] = 0 /\ Msg("LIST", t) \in Message
  BY DEF Init, Msg, Message
<1>2. /\ current \in [Thread -> Message] /\ \A t \in Thread : todo[t] = <<>> /\ pending[t] = {}
      /\ \A i \in Client : stream[i] = <<>> /\ Len(stream[i]) = 0
  BY <1>1 DEF Init
<1>3. Typed
  BY <1>2 DEF Init, Typed
<1> QED
  BY <1>2, <1>3 DEF IInv, Programs, Streams, Unsent, Sending, LastWord, Ordered

LEMMA StepInv == IInv /\ [Next]_vars => IInv'
<1> SUFFICES ASSUME IInv, [Next]_vars PROVE IInv'
  OBVIOUS
<1>1. ASSUME NEW i \in Client, AcceptRegister(i) \/ Packet(i) PROVE IInv'
  BY <1>1, AcceptRegisterInv, PacketInv
<1>2. CASE OperatorCommand
  BY <1>2, OperatorInv
<1>3. ASSUME NEW t \in Thread, Work(t) PROVE IInv'
  BY <1>3, SectionBeginInv, SectionSendInv, RemoveClientInv, UnlockedInv DEF Work
<1>4. CASE UNCHANGED vars
  <2>1. Typed' /\ Programs' /\ Streams'
    BY <1>4 DEF vars, IInv, Typed, Programs, Streams
  <2>2. Unsent'
    BY <1>4 DEF vars, IInv, Unsent
  <2>3. Sending' /\ LastWord'
    BY <1>4 DEF vars, IInv, Sending, LastWord
  <2>4. Ordered'
    BY <1>4 DEF vars, IInv, Ordered
  <2> QED
    BY <2>1, <2>2, <2>3, <2>4 DEF IInv
<1> QED
  BY <1>1, <1>2, <1>3, <1>4 DEF Next

\* The invariant holds in every state.
THEOREM Inductive == Spec => []IInv
<1> QED
  BY InitInv, StepInv, PTL DEF Spec

\* Sessions, programs, owed packets and streams keep their types, whatever
\* handle_packet and the operator start, for any number of clients.
THEOREM TypeCorrect == Spec => []TypeOK
<1>1. IInv => TypeOK
  <2> SUFFICES ASSUME IInv PROVE TypeOK
    OBVIOUS
  <2>1. ASSUME NEW t \in Thread, NEW i \in 1..Len(todo[t]) PROVE todo[t][i] \in Section
    BY ElementOfSeq DEF IInv, Typed
  <2>2. ASSUME NEW i \in Client, NEW k \in 1..Len(stream[i]) PROVE stream[i][k] \in Message
    BY ElementOfSeq DEF IInv, Typed
  <2> QED
    BY <2>1, <2>2 DEF IInv, Typed, TypeOK, Section
<1> QED
  BY <1>1, Inductive, PTL

\* Two clients see the packets they both receive in one order: a section of
\* broadcast_* or broadcast_client_list holds m_clients_mutex from its first
\* recipient to its last, and what is written without it goes to one client.
THEOREM OrderKept == Spec => []SameOrder
<1>1. IInv => SameOrder
  <2> SUFFICES ASSUME IInv, NEW i \in Client, NEW j \in Client, i < j,
                      NEW l \in 1..Len(stream[i]), NEW q \in 1..Len(stream[j]),
                      stream[i][l] = stream[j][q],
                      NEW k \in 1..(l - 1), NEW r \in (q + 1)..Len(stream[j])
               PROVE  stream[i][k] # stream[j][r]
    BY DEF SameOrder
  <2>1. i # j /\ Len(stream[i]) \in Nat /\ Len(stream[j]) \in Nat
    BY ThreadsAre, LenProperties DEF IInv, Typed
  <2>2. k \in 1..Len(stream[i]) /\ r \in 1..Len(stream[j]) /\ k < l /\ q < r
    BY <2>1
  <2> QED
    BY <2>1, <2>2 DEF IInv, Ordered
<1> QED
  BY <1>1, Inductive, PTL

\* When no handler is at work, every connected client has been told of every
\* other: whichever of send_client_list to the one and "joined the server!" of
\* the other came second told it, and nothing written since took it back.
THEOREM PeersKnown == Spec => []NoUnknownPeer
<1>1. IInv /\ Presence => NoUnknownPeer
  <2> SUFFICES ASSUME IInv, Presence, Quiet, NEW i \in Client, NEW j \in Client,
                      session[i] = "connected", session[j] = "connected"
               PROVE  j \in KnownTo(i)
    BY DEF NoUnknownPeer
  <2>1. i \in Thread /\ j \in Thread /\ Typed
    BY ThreadsAre DEF IInv
  <2>2. ~ Owes(j, i, "JOINED") /\ ~ Owes(i, i, "LIST")
    BY <2>1, IdleOwesNothing DEF Quiet
  <2> QED
    BY <2>2 DEF Presence, Informed
<1> QED
  BY <1>1, Inductive, PresenceInit, PresenceStep, PTL DEF Spec
=============================================================================
