------------------------------ MODULE Channel ------------------------------
(***************************************************************************)
(* What net_send_packet and net_recv_packet promise together: packets      *)
(* arrive whole, unchanged, once and in order, until the connection is     *)
(* closed; what is under way then may be lost, from the tail.  Callers     *)
(* that do not keep their calls apart break the channel, and nothing is    *)
(* promised any more but that a closed one stays closed.                   *)
(***************************************************************************)
EXTENDS Sequences

CONSTANT Packet

VARIABLES
    queue,      \* packets sent and not yet received
    delivered,  \* packets received
    open,
    broken      \* calls have overlapped

vars == <<queue, delivered, open, broken>>

Init == queue = <<>> /\ delivered = <<>> /\ open = TRUE /\ broken = FALSE

Send(p) ==
    /\ open
    /\ queue' = Append(queue, p)
    /\ UNCHANGED <<delivered, open, broken>>

Deliver ==
    /\ queue # <<>>
    /\ delivered' = Append(delivered, Head(queue))
    /\ queue' = Tail(queue)
    /\ UNCHANGED <<open, broken>>

Close ==
    /\ open
    /\ open' = FALSE
    /\ UNCHANGED <<queue, delivered, broken>>

\* Calls overlap, or have: anything may become of the packets.
Break ==
    /\ broken' = TRUE
    /\ open' => open

Next == (\E p \in Packet : Send(p)) \/ Deliver \/ Close \/ Break

Spec == Init /\ [][Next]_vars
=============================================================================
