----------------------------- MODULE MCVariants -----------------------------
(* Variants as the .cfg files instantiate it.                                *)
EXTENDS Variants
=============================================================================
