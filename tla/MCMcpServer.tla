----------------------------- MODULE MCMcpServer -----------------------------
(* McpServer for TLC: two live calls and a local one, two ports, two servers. *)
EXTENDS McpServer

MCLive == {"write", "add"}

MCLocal == {"ping"}
=============================================================================
