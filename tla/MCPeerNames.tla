----------------------------- MODULE MCPeerNames -----------------------------
(* Instances of PeerNames for TLC: two clients, each configured with a     *)
(* nickname of its own.                                                    *)
EXTENDS PeerNames, TLC

CONSTANTS c1, c2, f1, f2, a, b

OwnNames == c1 :> a @@ c2 :> b

(* The descriptor numbers can be exchanged, and the clients together with  *)
(* their nicknames.                                                        *)
Symmetry ==
    Permutations(Fd) \cup
    {p \in Permutations(Client \cup Nick) :
        \A c \in Client : p[c] \in Client /\ p[OwnNames[c]] = OwnNames[p[c]]}
=============================================================================
