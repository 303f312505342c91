---------------------------- MODULE CrmResolver ----------------------------
(***************************************************************************)
(* How a tool call gets its D365 connector, against the admin requests     *)
(* that change what it should get: CrmCredentialResolver.get_connector     *)
(* over the d365_credentials table (CredentialStore), the TTL cache        *)
(* (CrmCredentialCache) and the tenants' Key Vaults.                       *)
(*                                                                         *)
(* One process runs every handler on one event loop.  Between two awaits a *)
(* handler is alone; at an await any other may run.  So a call is split    *)
(* where its handler awaits: the SELECT, then the secret with the client   *)
(* id, then the one with the client secret, then the return to the         *)
(* handler with both.  Reading and writing the cache never awaits.         *)
(***************************************************************************)
EXTENDS CredentialStore, CrmCredentialCache

CONSTANTS Calls,   \* slots for the tool calls in progress, used again and again
          Vaults,  \* the Key Vaults (the values of column "vault")
          MaxGen   \* how many times a vault's registration is rotated

ASSUME ResolverAssumption ==
  /\ {"org", "vault"} \subseteq Columns
  /\ MaxGen \in Nat
  /\ \A t \in Tenants : \A b \in Bodies[t] : b["vault"] \in Vaults
  /\ Registrations = [vault : Vaults, id : 0..MaxGen, secret : 0..MaxGen]

VARIABLES
  vault,    \* vault[v]: the generation of the registration vault v holds (external)
  call,     \* call[c]: where the call in slot c stands; its locals while it runs
  excused,  \* history: tenants given a stale entry by something other than an admin in progress
  calm      \* history: calls no change of their tenant's credentials has touched

vars == <<row, req, cache, vault, call, excused, calm>>

Call ==
       [pc : {"idle", "not_configured", "unavailable"}]
  \cup [pc : {"row", "get_id"}, tenant : Tenants, kv : Body]
  \cup [pc : {"get_secret"}, tenant : Tenants, kv : Body, id : 0..MaxGen]
  \cup [pc : {"landing", "connected"}, tenant : Tenants, kv : Body, reg : Registrations]

ResolverTypeOK == /\ TypeOK
                  /\ CacheTypeOK
                  /\ vault \in [Vaults -> 0..MaxGen]
                  /\ call \in [Calls -> Call]
                  /\ excused \subseteq Tenants
                  /\ calm \subseteq Calls

ResolverInit == /\ Init
                /\ cache = EmptyCache
                /\ vault = [v \in Vaults |-> 0]
                /\ call = [c \in Calls |-> [pc |-> "idle"]]
                /\ excused = {}
                /\ calm = {}

Ended(c) == call[c].pc \in {"idle", "not_configured", "unavailable", "connected"}

(* Admin requests on t that have committed a change and not yet invalidated. *)
Unannounced(t) == \E a \in Requests : /\ req[a].pc \in {"committed", "refreshed", "deleted"}
                                      /\ req[a].tenant = t

(* The registration the vault named by row r holds now. *)
Current(r) == [vault |-> r["vault"], id |-> vault[r["vault"]], secret |-> vault[r["vault"]]]

(* The entry of t was fetched from another vault than t's row names. *)
Stale(t) == /\ cache[t] # NoEntry /\ row[t] # NoRow
            /\ cache[t].reg.vault # row[t]["vault"]

(* The entry of t is left in memory without a row; a call that begins now is  *)
(* told NOT_CONFIGURED before the cache is asked.                             *)
Orphaned(t) == cache[t] # NoEntry /\ row[t] = NoRow

-----------------------------------------------------------------------------
(* The calls.                                                               *)
Advance(c, r) == call' = [call EXCEPT ![c] = r]

(* get_kv_credentials: the SELECT of a new call. *)
ReadRow(c, t) ==
  /\ Ended(c)
  /\ \/ /\ row[t] # NoRow
        /\ Advance(c, [pc |-> "row", tenant |-> t, kv |-> row[t]])
        /\ calm' = IF Unannounced(t) THEN calm \ {c} ELSE calm \cup {c}
     \/ /\ row[t] = NoRow
        /\ Advance(c, [pc |-> "not_configured"])
        /\ calm' = calm \ {c}
  /\ UNCHANGED <<row, req, cache, vault, excused>>

(* The handler resumes: the cache answers ... *)
Hit(c) ==
  /\ call[c].pc = "row"
  /\ LET t == call[c].tenant  IN
     \E reg \in Registrations :
        /\ CacheHit(t, reg)
        /\ Advance(c, [pc |-> "connected", tenant |-> t, kv |-> call[c].kv, reg |-> reg])
        /\ calm' = IF t \in excused THEN calm \ {c} ELSE calm
  /\ UNCHANGED <<row, req, vault, excused>>

(* ... or does not, and the handler asks the vault for the client id. *)
Miss(c) ==
  /\ call[c].pc = "row"
  /\ CacheMiss(call[c].tenant)
  /\ Advance(c, [pc |-> "get_id", tenant |-> call[c].tenant, kv |-> call[c].kv])
  /\ UNCHANGED <<row, req, vault, excused, calm>>

(* The vault reads the client id, then, on a second GET, the client secret. *)
VaultAnswersId(c) ==
  /\ call[c].pc = "get_id"
  /\ Advance(c, [pc |-> "get_secret", tenant |-> call[c].tenant, kv |-> call[c].kv,
                 id |-> vault[call[c].kv["vault"]]])
  /\ UNCHANGED <<row, req, cache, vault, excused, calm>>

VaultAnswersSecret(c) ==
  /\ call[c].pc = "get_secret"
  /\ LET v == call[c].kv["vault"]  IN
     Advance(c, [pc |-> "landing", tenant |-> call[c].tenant, kv |-> call[c].kv,
                 reg |-> [vault |-> v, id |-> call[c].id, secret |-> vault[v]]])
  /\ UNCHANGED <<row, req, cache, vault, excused, calm>>

(* KeyVaultError, turned into ConnectorError: nothing is cached. *)
VaultFails(c) ==
  /\ call[c].pc \in {"get_id", "get_secret"}
  /\ Advance(c, [pc |-> "unavailable"])
  /\ UNCHANGED <<row, req, cache, vault, excused, calm>>

(* The handler resumes with the pair: it caches it and builds the connector. *)
Land(c) ==
  /\ call[c].pc = "landing"
  /\ LET t == call[c].tenant  reg == call[c].reg  IN
     /\ CacheSet(t, reg)
     /\ Advance(c, [call[c] EXCEPT !.pc = "connected"])
     /\ excused' = IF row[t] # NoRow /\ reg.vault = row[t]["vault"]
                   THEN excused \ {t} ELSE excused \cup {t}
  /\ UNCHANGED <<row, req, vault, calm>>

CallStep(c) == \/ \E t \in Tenants : ReadRow(c, t)
               \/ Hit(c) \/ Miss(c)
               \/ VaultAnswersId(c) \/ VaultAnswersSecret(c) \/ VaultFails(c)
               \/ Land(c)

-----------------------------------------------------------------------------
(* The admin requests, with what they do to the cache.                      *)
AdminBegin(a) ==
  /\ \/ Reject(a) \/ FailBefore(a) \/ UpsertConflict(a) \/ UpsertRefresh(a)
     \/ \E t \in Tenants : \/ Get(a, t) \/ DeleteStart(a, t)
                           \/ \E b \in Bodies[t] : UpsertLoad(a, t, b)
  /\ UNCHANGED <<cache, vault, call, excused, calm>>

(* The row changes: calls in progress for the tenant are no longer calm. *)
AdminCommit(a) ==
  /\ UpsertCommit(a) \/ DeleteRow(a)
  /\ calm' = {c \in calm : call[c].pc # "row" \/ call[c].tenant # req[a].tenant}
  /\ UNCHANGED <<cache, vault, call, excused>>

(* Mutant: a DELETE does not invalidate. *)
AdminRespondDeleteKeeps(a) ==
  /\ \/ UpsertRespond(a) /\ CacheInvalidate(req[a].tenant) /\ excused' = excused \ {req[a].tenant}
     \/ DeleteRespond(a) /\ UNCHANGED <<cache, excused>>
  /\ UNCHANGED <<vault, call, calm>>

(* After the session closes, before the answer: invalidate. *)
AdminRespond(a) ==
  /\ UpsertRespond(a) \/ DeleteRespond(a)
  /\ CacheInvalidate(req[a].tenant)
  /\ excused' = excused \ {req[a].tenant}
  /\ UNCHANGED <<vault, call, calm>>

(* The handler raised after its commit, before the line that invalidates. *)
AdminLost(a) ==
  /\ FailAfter(a) \/ RefreshGone(a)
  /\ excused' = excused \cup {req[a].tenant}
  /\ UNCHANGED <<cache, vault, call, calm>>

AdminStep(a) == AdminBegin(a) \/ AdminCommit(a) \/ AdminRespond(a) \/ AdminLost(a)

-----------------------------------------------------------------------------
(* The environment.                                                         *)
RotateVault(v) ==
  /\ vault[v] < MaxGen
  /\ vault' = [vault EXCEPT ![v] = @ + 1]
  /\ UNCHANGED <<row, req, cache, call, excused, calm>>

Tick == CacheTick /\ UNCHANGED <<row, req, vault, call, excused, calm>>

(* The cache is memory: it is empty when the process comes back. *)
RestartProcess ==
  /\ Restart
  /\ cache' = EmptyCache
  /\ call' = [c \in Calls |-> [pc |-> "idle"]]
  /\ excused' = {}
  /\ calm' = {}
  /\ UNCHANGED vault

ResolverNext == \/ \E c \in Calls : CallStep(c)
                \/ \E a \in Requests : AdminStep(a)
                \/ \E v \in Vaults : RotateVault(v)
                \/ Tick
                \/ RestartProcess

ResolverSpec == ResolverInit /\ [][ResolverNext]_vars

-----------------------------------------------------------------------------
(* A cached registration that is not that of the row's vault, or has no row   *)
(* any more, has one of three causes: an admin request that has committed and is still to         *)
(* invalidate, a fetch begun before the change that came back after it, or   *)
(* an admin request that raised between its commit and its invalidate.  No   *)
(* other order of the handlers' steps leaves one.                             *)
StaleEntryHasACause ==
  \A t \in Tenants : Stale(t) \/ Orphaned(t) => Unannounced(t) \/ t \in excused

(* A call that no change of its tenant's credentials overlapped, answered    *)
(* from an entry nobody spoilt, uses the registration of the very vault its  *)
(* row names: never one config's organisation with another's registration.   *)
CalmCallIsCoherent ==
  \A c \in calm : call[c].pc = "connected" => call[c].reg.vault = call[c].kv["vault"]

(* No interleaving gives a tenant the registration of another: what is       *)
(* cached for it, and what its connectors use, came from a vault posted for  *)
(* that tenant.                                                              *)
PostedVault(t, v) == \E b \in Bodies[t] : b["vault"] = v

TenantIsolation ==
  /\ \A t \in Tenants : cache[t] # NoEntry => PostedVault(t, cache[t].reg.vault)
  /\ \A c \in Calls : call[c].pc = "connected" =>
       /\ PostedVault(call[c].tenant, call[c].kv["vault"])
       /\ PostedVault(call[c].tenant, call[c].reg.vault)

(* Once the operators and the vaults rest, what the cache serves becomes and *)
(* stays the registration in the vault: no stale entry outlives its TTL by   *)
(* being used ("a rotated secret is picked up within the TTL").              *)
Settles == <>[](\A t \in Tenants :
                  Usable(t) => row[t] # NoRow /\ cache[t].reg = Current(row[t]))

-----------------------------------------------------------------------------
(* What the comments say, and the code does not keep.                        *)

(* "Rotated vault credentials must take effect now, not at TTL expiry"        *)
(* (admin_router.py): when every POST and DELETE has been answered, none with *)
(* an error, a call that begins now is not served, from the cache, the        *)
(* registration of a vault that the tenant's row has dropped for another.      *)
RotationTakesEffectNow ==
  (\A a \in Requests : req[a].pc \notin Running \cup {"failed"})
     => \A t \in Tenants : ~(Usable(t) /\ Stale(t))

(* "The tenant's real D365 app registration, as (client_id, client_secret)"   *)
(* (keyvault_client.py): the two halves of a cached pair belong together.     *)
PairIsOneRegistration ==
  \A t \in Tenants : cache[t] # NoEntry => cache[t].reg.id = cache[t].reg.secret
=============================================================================
