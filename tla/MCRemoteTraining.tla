--------------------------- MODULE MCRemoteTraining ---------------------------
(* RemoteTraining with interchangeable pages. *)
EXTENDS RemoteTraining, TLC

Symmetry == Permutations(Pages)
=============================================================================
