--------------------------- MODULE MCCrmToolCalls ---------------------------
(* A small instance of CrmToolCalls.  Tenant t1 moves between two bodies with *)
(* an organisation and a vault each; a call opens a case.  Exchanging the      *)
(* bodies, or the requests, changes nothing.                                 *)
EXTENDS CrmToolCalls, TLC

CONSTANTS t1, s1, s2, v1, v2

Titles == [description |-> "title"]

MCFieldMaps == {Titles}
MCColumns == {"org", "vault", "field_map", "secret"}
MCCaseColumns == {"title", "description", "customerid_account@odata.bind"}
MCValues == Servers \cup Vaults \cup MCFieldMaps
Posted(s, v) == [org |-> s, vault |-> v, field_map |-> Titles, secret |-> v]
MCBodies == [t \in Tenants |-> {Posted(s1, v1), Posted(s2, v2)}]
MCRegistrations == [vault : Vaults, id : 0..MaxGen, secret : 0..MaxGen]
MCPosts == [c \in Calls |-> [tool |-> "create_support_case", tenant |-> t1, given |-> {"description"}]]
Exchange == Permutations(Requests)
            \cup {(s1 :> s2) @@ (s2 :> s1) @@ (v1 :> v2) @@ (v2 :> v1)}
=============================================================================
