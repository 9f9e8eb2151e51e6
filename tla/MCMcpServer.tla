---------------------------- MODULE MCMcpServer ----------------------------
(* McpServer with a few messages, for TLC.                                 *)
EXTENDS McpServer
=============================================================================
