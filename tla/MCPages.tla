------------------------------ MODULE MCPages ------------------------------
(* Two pages over one store.                                               *)
EXTENDS Pages
=============================================================================
