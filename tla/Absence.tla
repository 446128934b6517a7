------------------------------ MODULE Absence ------------------------------
(* The value that stands for undefined, null or a missing row in the modules *)
(* that are checked together.                                                *)
CONSTANT None
=============================================================================
