---------------------------- MODULE MCIvaSystem ----------------------------
(* The life of the program on small instances.                             *)
EXTENDS IvaSystem
=============================================================================
