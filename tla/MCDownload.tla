----------------------------- MODULE MCDownload -----------------------------
(* Instances of Download for the model checker. *)
EXTENDS Download, TLC

(* Threads run the same function and are told apart by nothing else. *)
ThreadSymmetry == Permutations(Workers)
=============================================================================
