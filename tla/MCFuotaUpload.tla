--------------------------- MODULE MCFuotaUpload ---------------------------
(* Instances of FuotaUpload for TLC. *)
EXTENDS FuotaUpload
=============================================================================
