------------------------------ MODULE MCMcpProxy ------------------------------
(***************************************************************************)
(* Small instance of McpProxy: a server that succeeds or is killed by      *)
(* SIGTERM, and one signal to the proxy.                                   *)
(***************************************************************************)
EXTENDS McpProxy

MCCodes == {0, -15}
MCOneCode == {-15}
MCSignalCode == [s \in {"SIGTERM"} |-> 143]
=============================================================================
