---------------------------- MODULE MCToolCalls ----------------------------
(* Small instances of ToolCalls: calls, servers and accounts are alike.      *)
EXTENDS ToolCalls, TLC

Interchangeable == Permutations(Calls) \cup Permutations(Servers) \cup Permutations(Accounts)

(* By the keys the code reads: one text sent to the other's default column,   *)
(* and one sent to the account's, beside one in a column of its own.          *)
SomeMaps == {[description |-> "title"], [subject |-> Bind, description |-> "urgent"]}

(* By the keys the API's schema documents. *)
DocumentedMaps == {[title |-> "urgent"]}

SomeColumns == {"title", "description", "urgent", Bind}
=============================================================================
