---------------------------- MODULE MCSpyPipeline ----------------------------
(***************************************************************************)
(* SpyPipeline for TLC: two tools of different detectors in one process,   *)
(* as started from the YAML file, hence two goroutines on every channel,   *)
(* and oncpu stacks that stay in the trie.  Until the second tool has      *)
(* started it is also the pipeline of a single tool.                       *)
(***************************************************************************)
EXTENDS SpyPipeline
=============================================================================
