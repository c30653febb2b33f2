---------------------------- MODULE MCMcpSearch ----------------------------
(* One page in two languages, one pipeline, and one call of any kind. *)
EXTENDS McpSearch, TLC

CONSTANTS p1, en, pt, short, long, j1, j2, c1

MCSections == [c \in Contents |-> CASE c = short -> 1 [] c = long -> 2]

Rpc(version, id, method, tool, arguments) ==
  [endpoint |-> "mcp", jsonrpc |-> version, id |-> id, method |-> method,
   tool |-> tool, arguments |-> arguments]

MCMessages ==
  {[endpoint |-> "query"],
   Rpc("2.0", FALSE, "tools/call", "query", "valid"),
   Rpc("2.0", TRUE, "tools/call", "other", "valid"),
   Rpc("2.0", TRUE, "initialized", "none", "none"),
   Rpc("1.0", TRUE, "tools/list", "none", "none")}

MCSymmetry == Permutations(Languages) \union Permutations(Jobs)
=============================================================================
