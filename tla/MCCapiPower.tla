----------------------------- MODULE MCCapiPower -----------------------------
(* Small instances of CapiPower. *)
EXTENDS CapiPower
=============================================================================
