----------------------------- MODULE MCSession ------------------------------
(* Session with the bounds of its cfg. *)
EXTENDS Session
=============================================================================
