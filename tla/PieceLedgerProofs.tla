------------------------- MODULE PieceLedgerProofs --------------------------
(* Theorems about PieceLedger, for any pieces and any workers. *)
EXTENDS PieceLedger, TLAPS

(* The values the variables of the ledger take. *)
Types == /\ todo \subseteq Pieces
         /\ hand \in [Workers -> Pieces \cup {None}]
         /\ done \subseteq Pieces
         /\ broken \in BOOLEAN

LInv == Types /\ Balanced

(* A step keeps the types. *)
LEMMA TypesKept == Types /\ [Next]_vars => Types'
<1> SUFFICES ASSUME Types, [Next]_vars PROVE Types'
  OBVIOUS
<1> USE DEF Types
<1>1. ASSUME NEW w \in Workers, NEW p \in Pieces, Take(w, p) PROVE Types'
  BY <1>1 DEF Take
<1>2. ASSUME NEW w \in Workers, GiveBack(w) PROVE Types'
  BY <1>2 DEF GiveBack
<1>3. ASSUME NEW w \in Workers, Complete(w) PROVE Types'
  BY <1>3 DEF Complete
<1>4. CASE Void BY <1>4 DEF Void
<1>5. CASE UNCHANGED vars BY <1>5 DEF vars
<1> QED BY <1>1, <1>2, <1>3, <1>4, <1>5 DEF Next

(* A step keeps each piece in one place. *)
LEMMA BalanceKept ==
  ASSUME None \notin Pieces, LInv, [Next]_vars
  PROVE  Balanced'
<1> USE DEF LInv, Types, Balanced
<1>1. ASSUME NEW w \in Workers, NEW p \in Pieces, Take(w, p) PROVE Balanced'
  BY <1>1 DEF Take
<1>2. ASSUME NEW w \in Workers, GiveBack(w) PROVE Balanced'
  BY <1>2 DEF GiveBack
<1>3. ASSUME NEW w \in Workers, Complete(w) PROVE Balanced'
  BY <1>3 DEF Complete
<1>4. CASE Void BY <1>4 DEF Void
<1>5. CASE UNCHANGED vars BY <1>5 DEF vars
<1> QED BY <1>1, <1>2, <1>3, <1>4, <1>5 DEF Next

(* The ledger balances: each piece is to do, in one hand or done, as long  *)
(* as no value nobody wrote was used as a piece.                           *)
THEOREM LedgerBalances ==
  ASSUME None \notin Pieces
  PROVE  Spec => []Balanced
<1>1. Init => LInv
  BY DEF Init, LInv, Types, Balanced
<1>2. LInv /\ [Next]_vars => LInv'
  BY TypesKept, BalanceKept DEF LInv
<1>3. LInv => Balanced BY DEF LInv
<1> QED BY <1>1, <1>2, <1>3, PTL DEF Spec
=============================================================================
