---------------------------- MODULE MCBlockPlan -----------------------------
(* BlockPlan with the bounds of its cfgs. *)
EXTENDS BlockPlan
=============================================================================
