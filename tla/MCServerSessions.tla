-------------------------- MODULE MCServerSessions --------------------------
(* Instances of ServerSessions for TLC. *)
EXTENDS ServerSessions, TLC

CONSTANTS p1, p2, f1, f2

TwoConns == {p1, p2}
OneFd    == {f1}
TwoFds   == {f1, f2}

(* Ids are numbers and not permuted; connections and descriptors are only  *)
(* compared, so permuting them is sound for the safety runs.               *)
Symmetry == Permutations(TwoConns) \cup Permutations(TwoFds)
=============================================================================
