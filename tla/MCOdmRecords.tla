---------------------------- MODULE MCOdmRecords ----------------------------
(* Instances of OdmRecords for TLC. *)
EXTENDS OdmRecords
=============================================================================
