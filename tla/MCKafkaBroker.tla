--------------------------- MODULE MCKafkaBroker ---------------------------
(* The messaging component on small instances.                             *)
EXTENDS KafkaBroker
=============================================================================
