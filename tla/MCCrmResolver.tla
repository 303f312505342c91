--------------------------- MODULE MCCrmResolver ---------------------------
(* Small instances of CrmResolver.  Tenant t1 moves between two vaults, v1   *)
(* and v2; tenant t2, if there, has a vault of its own.                      *)
EXTENDS CrmResolver, TLC

CONSTANTS t1, t2, v1, v2, v3

MCColumns == {"org", "vault", "secret"}
MCValues == {v1, v2, v3}
AllOf(x) == [k \in MCColumns |-> x]
MCBodies == [t \in Tenants |-> IF t = t1 THEN {AllOf(v1), AllOf(v2)} ELSE {AllOf(v3)}]
MCRegistrations == [vault : Vaults, id : 0..MaxGen, secret : 0..MaxGen]
Slots == Permutations(Calls) \cup Permutations(Requests) \cup Permutations({v1, v2})
=============================================================================
