--------------------------- MODULE MCServiceLoop ---------------------------
(* Small instances of ServiceLoop.  The backends of tenant well answer in    *)
(* ReplyTime, those of mute not at all or late, those of drip bit by bit.    *)
EXTENDS ServiceLoop, TLC

CONSTANTS well, mute, drip

MCTraffic == [t \in Tenants |-> CASE t = well -> {"health", "admin", "post", "cold"}
                                   [] t = mute -> {"warm"}
                                   [] t = drip -> {"custom"}]

(* Only vaults are out of order: a tenant whose registration is cached, and  *)
(* one whose is not and cannot be read.                                      *)
MCOutage == [t \in Tenants |-> IF t = well THEN {"health", "warm"} ELSE {"cold"}]
Alike == Permutations(Calls)
=============================================================================
