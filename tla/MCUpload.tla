------------------------------ MODULE MCUpload -------------------------------
(* An instance of Upload for the model checker. *)
EXTENDS Upload

(* Two blocks, one of them after INTERESTED and before a message that      *)
(* writes, and a session kept up by a keep-alive and then stuck.           *)
MCTalks == {<<>>,
            <<Request(0), Request(1)>>,
            <<Plain("interested"), Request(0), Plain("write")>>,
            <<Plain("keepalive"), Plain("flag"), Plain("unreadable")>>}
=============================================================================
