------------------------- MODULE CrmCredentialCache -------------------------
(***************************************************************************)
(* The process-local TTL cache of D365 app registrations: CrmCredentialCache *)
(* of app/store/crm_resolver.py, kept on app.state.  An entry's expires_at   *)
(* is modelled by the ticks it has left; the code's expires_at <= now is     *)
(* left = 0.  Nothing sweeps the cache: an expired entry goes when its       *)
(* tenant is next looked up, overwritten or invalidated.                     *)
(***************************************************************************)
EXTENDS Tenancy, Naturals

CONSTANTS Registrations,  \* what a vault fetch can return: id and secret
          TTL,            \* ttl_seconds, in ticks
          NoEntry         \* no entry for the tenant

ASSUME TTLAssumption == TTL \in Nat
ASSUME NoEntryAssumption ==
  /\ NoEntry \notin [reg : Registrations, left : 0..TTL]
  /\ NoEntry \notin Registrations

VARIABLE cache  \* cache[t]: the entry of tenant t, or NoEntry

CacheTypeOK == cache \in [Tenants -> [reg : Registrations, left : 0..TTL] \cup {NoEntry}]

Expired(t) == cache[t] # NoEntry /\ cache[t].left = 0
Usable(t)  == cache[t] # NoEntry /\ cache[t].left > 0

EmptyCache == [t \in Tenants |-> NoEntry]

(* Mutant: every use prolongs the entry. *)
CacheHitSliding(t, reg) == /\ Usable(t) /\ reg = cache[t].reg
                           /\ cache' = [cache EXCEPT ![t].left = TTL]

(* get() returning an entry. *)
CacheHit(t, reg) == Usable(t) /\ reg = cache[t].reg /\ UNCHANGED cache

(* get() returning None; an expired entry is deleted on the way. *)
CacheMiss(t) == ~Usable(t) /\ cache' = [cache EXCEPT ![t] = NoEntry]

(* Mutant: the tenant is not part of the key. *)
CacheSetShared(t, reg) == cache' = [u \in Tenants |-> [reg |-> reg, left |-> TTL]]

(* Mutant: the entry lives a tick too long. *)
CacheSetLonger(t, reg) == cache' = [cache EXCEPT ![t] = [reg |-> reg, left |-> TTL + 1]]

(* set(): a new entry, whatever was there, with the whole TTL before it. *)
CacheSet(t, reg) == cache' = [cache EXCEPT ![t] = [reg |-> reg, left |-> TTL]]

(* Mutant: invalidate() drops what get() would drop anyway. *)
CacheInvalidateExpired(t) == cache' = [cache EXCEPT ![t] = IF Usable(t) THEN @ ELSE NoEntry]

(* invalidate(): the entry goes, expired or not. *)
CacheInvalidate(t) == cache' = [cache EXCEPT ![t] = NoEntry]

(* time.monotonic() advances by one tick. *)
CacheTick ==
  /\ \E t \in Tenants : Usable(t)
  /\ cache' = [t \in Tenants |-> IF Usable(t) THEN [cache[t] EXCEPT !.left = @ - 1]
                                              ELSE cache[t]]
=============================================================================
