--------------------------- MODULE MCOnCpuUpload ---------------------------
(***************************************************************************)
(* OnCpuUpload for TLC, with a server other than the default one.          *)
(***************************************************************************)
EXTENDS OnCpuUpload
=============================================================================
