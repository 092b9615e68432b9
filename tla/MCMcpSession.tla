------------------------------ MODULE MCMcpSession ------------------------------
(* A small MCP session: two ids, requests that reuse them, two slots and   *)
(* one blocking permit.                                                    *)
EXTENDS McpSession

(* The opening of the old family, a method of either family alone, and a   *)
(* tool call without a version and with the new one.                       *)
MCInputs == {[method |-> "initialize", meta |-> "none"],
             [method |-> "ping", meta |-> "none"],
             [method |-> "discover", meta |-> "2025"],
             [method |-> "tool", meta |-> "none"],
             [method |-> "tool", meta |-> "2026"]}
===============================================================================
