-------------------------- MODULE MCPipelineSync ---------------------------
(* Small instances of PipelineSync.                                        *)
EXTENDS PipelineSync
=============================================================================
