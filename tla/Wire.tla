------------------------------- MODULE Wire -------------------------------
(***************************************************************************)
(* One direction of one connection (network.cpp): threads that send        *)
(* packets with net_send_packet and threads that receive them with         *)
(* net_recv_packet, over a byte stream with a bounded buffer.              *)
(*                                                                         *)
(* A header is two units, the magic number and the rest, and a payload     *)
(* byte is one.  send() and recv() move any number of units that fit, so a *)
(* packet is written and read in many steps.  Nothing in network.cpp keeps *)
(* two threads apart: writers in `Locked' hold a mutex of their caller for *)
(* the whole packet (m_clients_mutex for broadcasts), the others do not    *)
(* (the handler's greeting and MSG_PONG, all threads of the client), and   *)
(* any number of threads may read (a handler and a push; the client's      *)
(* upload and receive threads).                                            *)
(***************************************************************************)
EXTENDS Ciphers

CONSTANTS
    Writers,     \* threads that send on this socket
    Locked,      \* those that hold the caller's mutex while they do
    Readers,     \* threads that receive from it
    Payload,     \* payloads to send
    Keys,        \* keys both ends may be configured with
    Room,        \* units the socket buffers hold
    MaxPackets,  \* bound on the packets sent
    None

ASSUME WireAssumption ==
    /\ Writers # {} /\ Locked \subseteq Writers
    /\ None \notin Writers
    /\ Payload \subseteq Seq(Byte) /\ Keys \subseteq Seq(Byte)
    /\ Room \in Nat \ {0} /\ MaxPackets \in Nat

VARIABLES
    type, key,  \* g_config.encrypt_type and encrypt_key, equal at both ends
    wire,       \* history: every unit written
    taken,      \* how many of them were read; the rest is in the buffers
    closed,     \* either end has closed the connection
    lock,       \* holder of the callers' mutex
    sent,       \* history: packets whose sending began
    starts,     \* history: the length of the wire when each began
    out,        \* what each writer has still to write
    reader,     \* pc of each reader
    got,        \* units of the header or payload it is reading
    header,     \* the header it has read
    received,   \* history: packets the readers were given
    mixed       \* history: two calls that nothing keeps apart have overlapped

vars == <<type, key, wire, taken, closed, lock, sent, starts, out,
          reader, got, header, received, mixed>>
config  == <<type, key>>
sending == <<lock, sent, starts, out>>
reading == <<reader, got, header, received>>

Magic == [kind |-> "magic", from |-> None, v |-> 0]
Rest(w, n) == [kind |-> "rest", from |-> w, v |-> n]
Unit(b) == [kind |-> "byte", from |-> None, v |-> b]

Units == {Magic} \cup [kind : {"rest"}, from : Writers, v : Nat]
                 \cup [kind : {"byte"}, from : {None}, v : Byte]
NoHeader == Rest(CHOOSE w \in Writers : TRUE, 0)

Init ==
    /\ type \in Types
    /\ key \in Keys
    /\ wire = <<>>
    /\ taken = 0
    /\ closed = FALSE
    /\ lock = None
    /\ sent = <<>>
    /\ starts = <<>>
    /\ out = [w \in Writers |-> <<>>]
    /\ reader = [r \in Readers |-> "header"]
    /\ got = [r \in Readers |-> <<>>]
    /\ header = [r \in Readers |-> NoHeader]
    /\ received = <<>>
    /\ mixed = FALSE

-----------------------------------------------------------------------------
(* net_send_packet and net_send_raw                                        *)

\* The header and the encrypted payload of a packet.
Serialized(w, p) ==
    LET body == crypto_encrypt(p, type, key)
    IN  <<Magic, Rest(w, Len(body))>> \o [i \in 1 .. Len(body) |-> Unit(body[i])]

\* Another packet is being written, and no mutex keeps w out of it.
Overlaps(w) == \E v \in Writers \ {w} : out[v] # <<>> /\ ~({v, w} \subseteq Locked)

\* A thread calls net_send_packet; a caller that locks has the mutex first.
Begin_Unlocked(w, p) ==  \* no lock_guard in a caller that has one
    /\ ~closed
    /\ out[w] = <<>>
    /\ Len(sent) < MaxPackets
    /\ sent' = Append(sent, [from |-> w, data |-> p])
    /\ starts' = Append(starts, Len(wire))
    /\ out' = [out EXCEPT ![w] = Serialized(w, p)]
    /\ mixed' = (mixed \/ Overlaps(w))
    /\ UNCHANGED <<config, wire, taken, closed, lock, reading>>
Begin(w, p) ==
    /\ ~closed
    /\ out[w] = <<>>
    /\ Len(sent) < MaxPackets
    /\ w \in Locked => lock = None
    /\ lock' = IF w \in Locked THEN w ELSE lock
    /\ sent' = Append(sent, [from |-> w, data |-> p])
    /\ starts' = Append(starts, Len(wire))
    /\ out' = [out EXCEPT ![w] = Serialized(w, p)]
    /\ mixed' = (mixed \/ Overlaps(w))
    /\ UNCHANGED <<config, wire, taken, closed, reading>>

\* What one send() may take of the header, or of the payload behind it.
Chunk(w) == CASE out[w][1].kind = "magic" -> 2
              [] out[w][1].kind = "rest"  -> 1
              [] OTHER                    -> Len(out[w])

\* One send() of net_send_raw: k units fit into the buffer.  When the last is
\* written net_send_packet returns and the caller unlocks.
Write_Once(w, k) ==  \* send() taken to have sent it all, no loop
    /\ out[w] # <<>>
    /\ ~closed
    /\ k <= Chunk(w)
    /\ Len(wire) - taken + k <= Room
    /\ wire' = wire \o SubSeq(out[w], 1, k)
    /\ out' = [out EXCEPT ![w] = SubSeq(@, Chunk(w) + 1, Len(@))]
    /\ lock' = IF lock = w /\ out'[w] = <<>> THEN None ELSE lock
    /\ UNCHANGED <<config, taken, closed, sent, starts, reading, mixed>>
Write(w, k) ==
    /\ out[w] # <<>>
    /\ ~closed
    /\ k <= Chunk(w)
    /\ Len(wire) - taken + k <= Room
    /\ wire' = wire \o SubSeq(out[w], 1, k)
    /\ out' = [out EXCEPT ![w] = SubSeq(@, k + 1, Len(@))]
    /\ lock' = IF lock = w /\ out'[w] = <<>> THEN None ELSE lock
    /\ UNCHANGED <<config, taken, closed, sent, starts, reading, mixed>>

\* send() on a closed connection: net_send_packet returns false.
WriteFails(w) ==
    /\ out[w] # <<>>
    /\ closed
    /\ out' = [out EXCEPT ![w] = <<>>]
    /\ lock' = IF lock = w THEN None ELSE lock
    /\ UNCHANGED <<config, wire, taken, closed, sent, starts, reading, mixed>>

-----------------------------------------------------------------------------
(* net_recv_packet and net_recv_raw                                        *)

\* The length net_recv_raw was asked for.
Wanted_OneMore(r) == IF reader[r] = "header" THEN 2 ELSE header[r].v + 1
Wanted(r) == IF reader[r] = "header" THEN 2 ELSE header[r].v

\* A reader is within a packet: others that read now take part of it.
InPacket(r) == reader[r] = "body" \/ got[r] # <<>>

\* One recv(): k units of what is there.
Read(r, k) ==
    /\ reader[r] \in {"header", "body"}
    /\ Len(got[r]) + k <= Wanted(r)
    /\ taken + k <= Len(wire)
    /\ got' = [got EXCEPT ![r] = @ \o SubSeq(wire, taken + 1, taken + k)]
    /\ taken' = taken + k
    /\ mixed' = (mixed \/ \E q \in Readers \ {r} : InPacket(q))
    /\ UNCHANGED <<config, wire, closed, sending, reader, header, received>>

\* recv() at the end of a closed stream: net_recv_packet returns false.
ReadFails(r) ==
    /\ reader[r] \in {"header", "body"}
    /\ Len(got[r]) < Wanted(r)
    /\ closed /\ taken = Len(wire)
    /\ reader' = [reader EXCEPT ![r] = "failed"]
    /\ UNCHANGED <<config, wire, taken, closed, sending, got, header, received, mixed>>

\* The header is complete.  Without the magic in front net_recv_packet returns
\* false ("Bad magic in packet header"); a `rest' that is not one is some other
\* writer's bytes, and its length anything.
CheckHeader(r, h) ==
    /\ reader[r] = "header" /\ Len(got[r]) = 2
    /\ got[r][2].kind = "rest" => h = got[r][2]
    /\ IF got[r][1].kind = "magic"
       THEN /\ header' = [header EXCEPT ![r] = h]
            /\ reader' = [reader EXCEPT ![r] = "body"]
            /\ got' = [got EXCEPT ![r] = <<>>]
       ELSE /\ reader' = [reader EXCEPT ![r] = "failed"]
            /\ UNCHANGED <<header, got>>
    /\ UNCHANGED <<config, wire, taken, closed, sending, received, mixed>>

\* The payload is complete: it is decrypted and the packet returned.
Deliver(r) ==
    /\ reader[r] = "body" /\ Len(got[r]) = Wanted(r)
    /\ LET body == [i \in 1 .. Len(got[r]) |-> got[r][i].v % N]
       IN  received' = Append(received,
               [from |-> header[r].from, data |-> crypto_decrypt(body, type, key)])
    /\ reader' = [reader EXCEPT ![r] = "header"]
    /\ got' = [got EXCEPT ![r] = <<>>]
    /\ UNCHANGED <<config, wire, taken, closed, sending, header, mixed>>

-----------------------------------------------------------------------------
\* Either end closes the connection, or a host dies and TCP gives it up.
Close ==
    /\ ~closed
    /\ closed' = TRUE
    /\ UNCHANGED <<config, wire, taken, sending, reading, mixed>>

Headers == {Rest(w, Len(p)) : w \in Writers, p \in Payload}

Writer(w) == (\E k \in 1 .. Room : Write(w, k)) \/ WriteFails(w)
Reader(r) ==
    \/ \E k \in 1 .. Room : Read(r, k)
    \/ \E h \in Headers : CheckHeader(r, h)
    \/ ReadFails(r) \/ Deliver(r)

Next ==
    \/ \E w \in Writers, p \in Payload : Begin(w, p)
    \/ \E w \in Writers : Writer(w)
    \/ \E r \in Readers : Reader(r)
    \/ Close

Spec == Init /\ [][Next]_vars

\* Blocked calls return when they can.
FairSpec == Spec /\ (\A w \in Writers : WF_vars(Writer(w)))
                 /\ (\A r \in Readers : WF_vars(Reader(r)))

-----------------------------------------------------------------------------
(* Properties                                                              *)

\* Units, packets and program counters keep their types; nothing is read before
\* it is written, and the buffers hold no more than they can.
TypeOK ==
    /\ type \in Types /\ key \in Keys
    /\ wire \in Seq(Units)
    /\ taken \in 0 .. Len(wire) /\ Len(wire) - taken <= Room
    /\ closed \in BOOLEAN
    /\ lock \in Locked \cup {None}
    /\ sent \in Seq([from : Writers, data : Payload])
    /\ starts \in Seq(Nat)
    /\ out \in [Writers -> Seq(Units)]
    /\ reader \in [Readers -> {"header", "body", "failed"}]
    /\ got \in [Readers -> Seq(Units)]
    /\ header \in [Readers -> [kind : {"rest"}, from : Writers, v : Nat]]
    /\ received \in Seq([from : Writers, data : Seq(Byte)])
    /\ mixed \in BOOLEAN

\* However send() and recv() split them, packets are received as they were
\* sent, decrypted, once and in order, as long as no two calls have overlapped
\* that no mutex of the callers keeps apart; those that lock never do.
Intact ==
    ~mixed => /\ Len(received) <= Len(sent)
              /\ \A i \in 1 .. Len(received) : received[i] = sent[i]

\* Until then the two functions implement the abstract channel, which loses at
\* a close no more than the tail of what was sent.
ChannelOf == INSTANCE Channel WITH
    Packet <- [from : Writers, data : Payload],
    queue <- SubSeq(sent, Len(received) + 1, Len(sent)),
    delivered <- received,
    open <- ~closed,
    broken <- mixed
ImplementsChannel == ChannelOf!Spec

\* Until then, and unless the connection is closed, every packet arrives, a
\* full buffer and a held mutex notwithstanding: nobody waits for anybody who
\* waits.
Arrives ==
    \A n \in 1 .. MaxPackets :
        Len(sent) >= n ~> (closed \/ mixed \/ Len(received) >= n)

\* The same with nothing asked of the callers, which the program's own do not
\* meet: not so (README).
IntactAnyway ==
    /\ Len(received) <= Len(sent)
    /\ \A i \in 1 .. Len(received) : received[i] = sent[i]
=============================================================================
