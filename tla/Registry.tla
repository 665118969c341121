------------------------------ MODULE Registry ------------------------------
(***************************************************************************)
(* What the server promises about its client registry, with no thread, no  *)
(* socket and no lock: clients are admitted one at a time under the next   *)
(* unused id while there is room, they leave one at a time, and a shutdown *)
(* empties the registry for good.  ServerSessions implements it.           *)
(***************************************************************************)
EXTENDS Naturals, FiniteSets

CONSTANT MaxClients     \* g_config.max_clients

VARIABLES
    registered,         \* ids the server would list, relay to or kick
    nextId,             \* the id the next admitted client receives
    open                \* FALSE once the server has been shut down

vars == <<registered, nextId, open>>

Init ==
    /\ registered = {}
    /\ nextId = 1
    /\ open = TRUE

Admit ==
    /\ open
    /\ Cardinality(registered) < MaxClients
    /\ registered' = registered \cup {nextId}
    /\ nextId' = nextId + 1
    /\ UNCHANGED open

Leave ==
    /\ open
    /\ \E id \in registered : registered' = registered \ {id}
    /\ UNCHANGED <<nextId, open>>

Shutdown ==
    /\ open
    /\ registered' = {}
    /\ open' = FALSE
    /\ UNCHANGED nextId

Next == Admit \/ Leave \/ Shutdown

Spec == Init /\ [][Next]_vars
=============================================================================
