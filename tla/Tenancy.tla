------------------------------ MODULE Tenancy ------------------------------
(* The tenants: rows, cache entries, vaults and tool calls are all per       *)
(* tenant_slug, a path parameter of every route of the service.              *)
CONSTANT Tenants
=============================================================================
