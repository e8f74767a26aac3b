--------------------------- MODULE MCLokiExporter ---------------------------
(***************************************************************************)
(* LokiExporter for TLC; the instance is in LokiExporter.cfg.  The channel *)
(* and the batch are small enough for both to fill.                        *)
(***************************************************************************)
EXTENDS LokiExporter
=============================================================================
