-------------------------- MODULE MCSqliteExporter --------------------------
(***************************************************************************)
(* SqliteExporter for TLC: two tables, a channel and a batch that fill.    *)
(* SqliteExporter.cfg checks the batching, SqliteShutDown.cfg ShutDown.    *)
(***************************************************************************)
EXTENDS SqliteExporter
=============================================================================
