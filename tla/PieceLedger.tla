---------------------------- MODULE PieceLedger -----------------------------
(***************************************************************************)
(* What the shared state of the download promises, without the threads'    *)
(* control, the messages or the file: a ledger of the pieces.  A piece is  *)
(* to do, in one hand or done; a hand takes a piece that is to do, and     *)
(* either gives it back or completes it, once and for good.                *)
(*                                                                         *)
(* The promise ends when the program uses a value nobody wrote as a piece  *)
(* number (broken): from then on the ledger may read as anything.          *)
(***************************************************************************)
CONSTANTS
  Pieces,  (* the pieces of the torrent                                     *)
  Workers, (* the threads                                                   *)
  None     (* no piece; the theorems about the ledger assume it is none     *)

VARIABLES
  todo,    (* pieces waiting                                               *)
  hand,    (* the piece each worker answers for, or None                   *)
  done,    (* pieces completed                                             *)
  broken   (* the ledger is void                                           *)

vars == <<todo, hand, done, broken>>

Init == /\ todo = Pieces
        /\ hand = [w \in Workers |-> None]
        /\ done = {}
        /\ broken = FALSE

Take(w, p) == /\ ~broken
              /\ hand[w] = None /\ p \in todo
              /\ hand' = [hand EXCEPT ![w] = p]
              /\ todo' = todo \ {p}
              /\ UNCHANGED <<done, broken>>

GiveBack(w) == /\ ~broken
               /\ hand[w] # None
               /\ todo' = todo \cup {hand[w]}
               /\ hand' = [hand EXCEPT ![w] = None]
               /\ UNCHANGED <<done, broken>>

Complete(w) == /\ ~broken
               /\ hand[w] # None
               /\ done' = done \cup {hand[w]}
               /\ hand' = [hand EXCEPT ![w] = None]
               /\ UNCHANGED <<todo, broken>>

(* A value nobody wrote was used as a piece number. *)
Void == /\ broken' = TRUE
        /\ todo' \in SUBSET Pieces
        /\ hand' \in [Workers -> Pieces \cup {None}]
        /\ done' \in SUBSET Pieces

Next == \/ \E w \in Workers : GiveBack(w) \/ Complete(w) \/ \E p \in Pieces : Take(w, p)
        \/ Void

Spec == Init /\ [][Next]_vars

-----------------------------------------------------------------------------
(* Each piece is in exactly one place of the ledger, whoever handles it:   *)
(* the accounts of pieces_to_download, the threads and havemesslist agree. *)
Balanced ==
  ~broken =>
    \A p \in Pieces :
      /\ (p \in todo) # (p \in done \/ \E w \in Workers : hand[w] = p)
      /\ ~(p \in done /\ \E w \in Workers : hand[w] = p)
      /\ \A v, w \in Workers : hand[v] = p /\ hand[w] = p => v = w
=============================================================================
