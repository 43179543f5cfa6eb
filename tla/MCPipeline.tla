----------------------------- MODULE MCPipeline -----------------------------
(* TLC instance of Pipeline. *)
EXTENDS Pipeline
=============================================================================
