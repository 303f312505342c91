----------------------------- MODULE MCGateway -----------------------------
(* Small instances of Gateway: two sub-apps, a path of each, one of the      *)
(* gateway's own, and one that a prefix begins but that is nobody's.          *)
EXTENDS Gateway, TLC

TwoSubApps == <<"geneco-mcp", "second-mcp">>
SomePaths == {"/geneco-mcp/t1", "/second-mcp/t1", "/health", "/geneco-mcpx"}
Prefixes == [p \in SomePaths |-> CASE p \in {"/geneco-mcp/t1", "/geneco-mcpx"} -> {"geneco-mcp"}
                                 [] p = "/second-mcp/t1" -> {"second-mcp"}
                                 [] OTHER -> {}]
Routes == [p \in SomePaths |-> CASE p = "/geneco-mcp/t1" -> "geneco-mcp"
                                 [] p = "/second-mcp/t1" -> "second-mcp"
                                 [] OTHER -> "duta-mcp-host"]
SomeContexts == {[tenant_slug |-> "t1"], [request_id |-> "r1"],
                 [tenant_slug |-> "t2", request_id |-> "r1"]}
SomeKeys == {"tenant_slug", "request_id"}
Interchangeable == Permutations(Requests)
=============================================================================
