--------------------------- MODULE MCFileTransfer ---------------------------
(* Instances of FileTransfer for TLC. *)
EXTENDS FileTransfer, TLC

CONSTANTS p, q

NoUpload   == {}
OneUpload  == {<<1, 1>>}
TwoUploads == {<<1, 1>>, <<1, 2>>}

(* Pushing threads are only compared. *)
Symmetry == Permutations(Pusher)
=============================================================================
