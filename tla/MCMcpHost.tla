----------------------------- MODULE MCMcpHost -----------------------------
(* McpHost with room for two child processes.                              *)
EXTENDS McpHost
=============================================================================
