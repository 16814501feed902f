--------------------------- MODULE MCVectorRepair ---------------------------
(* VectorRepair for TLC: one request in flight at a time (the theorems cover any
   number), two rows. *)
EXTENDS VectorRepair

CONSTANT q1
=============================================================================
