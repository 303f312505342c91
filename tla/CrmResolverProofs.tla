------------------------- MODULE CrmResolverProofs -------------------------
(***************************************************************************)
(* What holds of the resolver, its cache and the admin requests for every  *)
(* number of tenants, calls and requests, every TTL and every set of       *)
(* posted bodies.                                                          *)
(***************************************************************************)
EXTENDS CrmResolver, CredentialStoreProofs

(* Every step of the composed system is a step of the credential store, or   *)
(* leaves it alone: what is proved of the store holds here.                   *)
LEMMA StepOfStore == [ResolverNext]_vars => [Next]_storeVars
BY DEF ResolverNext, vars, storeVars, CallStep, ReadRow, Hit, Miss, VaultAnswersId,
       VaultAnswersSecret, VaultFails, Land, AdminStep, AdminBegin, AdminCommit, AdminRespond,
       AdminLost, RotateVault, Tick, RestartProcess, Next, Step

(* Every behaviour of the composed system is one of the credential store. *)
LEMMA ResolverIsAStore == ResolverSpec => Spec
BY StepOfStore, PTL DEF ResolverSpec, ResolverInit, Spec

-----------------------------------------------------------------------------
(* Where the vaults of calls and entries come from: always a body posted for *)
(* the tenant.  Typing needs it too, for a column may hold any value and only *)
(* a posted "vault" is sure to be a vault.                                    *)
Provenance ==
  /\ \A c \in Calls : call[c].pc \in {"row", "get_id", "get_secret", "landing", "connected"}
       => PostedVault(call[c].tenant, call[c].kv["vault"])
  /\ \A c \in Calls : call[c].pc \in {"landing", "connected"}
       => PostedVault(call[c].tenant, call[c].reg.vault)
  /\ \A t \in Tenants : cache[t] # NoEntry => PostedVault(t, cache[t].reg.vault)

(* A posted vault is one of the vaults. *)
LEMMA PostedIsAVault ==
  ASSUME NEW t \in Tenants, NEW v, PostedVault(t, v) PROVE v \in Vaults
BY ResolverAssumption DEF PostedVault

(* The vault a stored row names was posted for its tenant. *)
LEMMA RowVaultPosted ==
  ASSUME ColumnsWerePosted, NEW t \in Tenants, row[t] # NoRow
  PROVE  PostedVault(t, row[t]["vault"])
BY ResolverAssumption DEF ColumnsWerePosted, PostedVault

(* A step of a tool call keeps types and provenance. *)
LEMMA CallStepTyped ==
  ASSUME ResolverTypeOK, ColumnsWerePosted, Provenance, NEW c \in Calls, CallStep(c)
  PROVE  ResolverTypeOK' /\ Provenance'
<1> USE DEF ResolverTypeOK, Advance
<1>1. ASSUME NEW t \in Tenants, ReadRow(c, t) PROVE ResolverTypeOK' /\ Provenance'
  <2>1. row[t] # NoRow => row[t] \in Body /\ PostedVault(t, row[t]["vault"])
    BY RowVaultPosted DEF TypeOK, Row
  <2>2. call' \in [Calls -> Call]
    BY <1>1, <2>1 DEF ReadRow, Call
  <2>3. Provenance'
    BY <1>1, <2>1 DEF ReadRow, Provenance
  <2> QED BY <1>1, <2>2, <2>3 DEF ReadRow, CacheTypeOK, TypeOK
<1>2. CASE Hit(c)
  <2> DEFINE t == call[c].tenant
  <2>1. t \in Tenants /\ call[c].kv \in Body
    BY <1>2 DEF Hit, Call
  <2>2. PICK reg \in Registrations :
           /\ CacheHit(t, reg)
           /\ call' = [call EXCEPT ![c] = [pc |-> "connected", tenant |-> t, kv |-> call[c].kv,
                                           reg |-> reg]]
    BY <1>2 DEF Hit
  <2>3. call' \in [Calls -> Call]
    BY <2>1, <2>2 DEF Call
  <2>4. PostedVault(t, call[c].kv["vault"]) /\ PostedVault(t, reg.vault)
    BY <1>2, <2>1, <2>2 DEF Hit, Provenance, CacheHit, Usable
  <2>5. Provenance'
    BY <2>2, <2>4 DEF Provenance, CacheHit
  <2> QED BY <1>2, <2>2, <2>3, <2>5 DEF Hit, CacheHit, CacheTypeOK, TypeOK
<1>3. CASE Miss(c)
  <2>1. call' \in [Calls -> Call]
    BY <1>3 DEF Miss, Call
  <2>2. CacheTypeOK' /\ \A t \in Tenants : cache'[t] \in {cache[t], NoEntry}
    BY <1>3 DEF Miss, CacheMiss, CacheTypeOK
  <2>3. Provenance'
    BY <1>3, <2>2 DEF Miss, Provenance
  <2> QED BY <1>3, <2>1, <2>2, <2>3 DEF Miss, TypeOK
<1>4. CASE VaultAnswersId(c)
  <2> DEFINE t == call[c].tenant  v == call[c].kv["vault"]
  <2>1. t \in Tenants /\ call[c].kv \in Body
    BY <1>4 DEF VaultAnswersId, Call
  <2>2. PostedVault(t, v) /\ v \in Vaults
    BY <1>4, <2>1, PostedIsAVault DEF VaultAnswersId, Provenance
  <2>3. call' \in [Calls -> Call]
    BY <1>4, <2>1, <2>2 DEF VaultAnswersId, Call
  <2>4. Provenance'
    BY <1>4, <2>2 DEF VaultAnswersId, Provenance
  <2> QED BY <1>4, <2>3, <2>4 DEF VaultAnswersId, CacheTypeOK, TypeOK
<1>5. CASE VaultAnswersSecret(c)
  <2> DEFINE t == call[c].tenant  v == call[c].kv["vault"]
  <2>1. t \in Tenants /\ call[c].kv \in Body /\ call[c].id \in 0..MaxGen
    BY <1>5 DEF VaultAnswersSecret, Call
  <2>2. PostedVault(t, v) /\ v \in Vaults
    BY <1>5, <2>1, PostedIsAVault DEF VaultAnswersSecret, Provenance
  <2>3. call' \in [Calls -> Call]
    BY <1>5, <2>1, <2>2, ResolverAssumption DEF VaultAnswersSecret, Call
  <2>4. Provenance'
    BY <1>5, <2>2 DEF VaultAnswersSecret, Provenance
  <2> QED BY <1>5, <2>3, <2>4 DEF VaultAnswersSecret, CacheTypeOK, TypeOK
<1>6. CASE VaultFails(c)
  <2>1. call' \in [Calls -> Call]
    BY <1>6 DEF VaultFails, Call
  <2>2. Provenance'
    BY <1>6 DEF VaultFails, Provenance
  <2> QED BY <1>6, <2>1, <2>2 DEF VaultFails, CacheTypeOK, TypeOK
<1>7. CASE Land(c)
  <2> DEFINE t == call[c].tenant  reg == call[c].reg
  <2>1. t \in Tenants /\ call[c].kv \in Body /\ reg \in Registrations
    BY <1>7 DEF Land, Call
  <2>2. cache' = [cache EXCEPT ![t] = [reg |-> reg, left |-> TTL]]
    BY <1>7 DEF Land, CacheSet
  <2>3. call'[c] = [pc |-> "connected", tenant |-> t, kv |-> call[c].kv, reg |-> reg]
    BY <1>7 DEF Land, Call
  <2>4. call' = [call EXCEPT ![c] = call'[c]] /\ call' \in [Calls -> Call]
    BY <1>7, <2>1, <2>3 DEF Land, Call
  <2>5. CacheTypeOK'
    BY <2>1, <2>2, TTLAssumption DEF CacheTypeOK
  <2>6. PostedVault(t, call[c].kv["vault"]) /\ PostedVault(t, reg.vault)
    BY <1>7 DEF Land, Provenance
  <2>7. Provenance'
    BY <2>1, <2>2, <2>3, <2>4, <2>6 DEF Provenance
  <2> QED BY <1>7, <2>1, <2>4, <2>5, <2>7 DEF Land, TypeOK
<1> QED BY <1>1, <1>2, <1>3, <1>4, <1>5, <1>6, <1>7 DEF CallStep

(* So does every other step: admin requests, rotations, time, restart. *)
LEMMA RestTyped ==
  ASSUME ResolverTypeOK, ColumnsWerePosted, Provenance, [ResolverNext]_vars,
         ~ \E c \in Calls : CallStep(c)
  PROVE  ResolverTypeOK' /\ Provenance'
<1>1. TypeOK'
  BY StepOfStore, TypeStep DEF ResolverTypeOK
<1> USE <1>1 DEF ResolverTypeOK
<1>2. CASE UNCHANGED vars
  BY <1>2 DEF vars, CacheTypeOK, Provenance
<1>3. ASSUME NEW a \in Requests, AdminStep(a) PROVE ResolverTypeOK' /\ Provenance'
  <2>1. UNCHANGED <<call, vault>>
    BY <1>3 DEF AdminStep, AdminBegin, AdminCommit, AdminRespond, AdminLost
  <2>2. CacheTypeOK' /\ \A t \in Tenants : cache'[t] \in {cache[t], NoEntry}
    BY <1>3 DEF AdminStep, AdminBegin, AdminCommit, AdminRespond, AdminLost, CacheInvalidate,
                CacheTypeOK
  <2>3. Provenance'
    BY <2>1, <2>2 DEF Provenance
  <2>4. calm' \subseteq calm
    BY <1>3 DEF AdminStep, AdminBegin, AdminCommit, AdminRespond, AdminLost
  <2>5. excused' \subseteq Tenants
    <3>1. CASE AdminLost(a)
      <4>1. req[a].tenant \in Tenants
        BY <3>1 DEF AdminLost, FailAfter, RefreshGone, TypeOK, Request
      <4> QED BY <3>1, <4>1 DEF AdminLost
    <3> QED BY <1>3, <3>1 DEF AdminStep, AdminBegin, AdminCommit, AdminRespond
  <2> QED BY <2>1, <2>2, <2>3, <2>4, <2>5
<1>4. ASSUME NEW v \in Vaults, RotateVault(v) PROVE ResolverTypeOK' /\ Provenance'
  <2>1. vault' \in [Vaults -> 0..MaxGen]
    BY <1>4, ResolverAssumption DEF RotateVault
  <2> QED BY <1>4, <2>1 DEF RotateVault, CacheTypeOK, Provenance
<1>5. CASE Tick
  <2>1. \A t \in Tenants : Usable(t) => /\ cache[t].reg \in Registrations
                                       /\ cache[t].left \in 0..TTL /\ cache[t].left > 0
                                       /\ cache[t] \in [reg : Registrations, left : 0..TTL]
    BY DEF CacheTypeOK, Usable
  <2>2. \A t \in Tenants : Usable(t) => /\ cache'[t] \in [reg : Registrations, left : 0..TTL]
                                       /\ cache'[t].reg = cache[t].reg
    BY <1>5, <2>1, TTLAssumption DEF Tick, CacheTick
  <2>3. \A t \in Tenants : ~Usable(t) => cache'[t] = cache[t]
    BY <1>5 DEF Tick, CacheTick
  <2>4. CacheTypeOK'
    BY <1>5, <2>2, <2>3 DEF Tick, CacheTick, CacheTypeOK
  <2>5. Provenance'
    BY <1>5, <2>2, <2>3 DEF Tick, Provenance, Usable
  <2> QED BY <1>5, <2>4, <2>5 DEF Tick
<1>6. CASE RestartProcess
  BY <1>6 DEF RestartProcess, EmptyCache, CacheTypeOK, Call, Provenance
<1> QED BY <1>2, <1>3, <1>4, <1>5, <1>6 DEF ResolverNext

(* Types and provenance are invariants. *)
LEMMA TypedAndPosted == ResolverSpec => [](ResolverTypeOK /\ Provenance)
<1>1. ResolverInit => ResolverTypeOK /\ Provenance
  BY ResolverAssumption
     DEF ResolverInit, ResolverTypeOK, Init, TypeOK, Row, Request, EmptyCache, CacheTypeOK, Call,
         Provenance
<1>2. ResolverTypeOK /\ Provenance /\ ColumnsWerePosted /\ [ResolverNext]_vars
        => (ResolverTypeOK /\ Provenance)'
  BY CallStepTyped, RestTyped
<1> QED BY <1>1, <1>2, ResolverIsAStore, ProvenanceOfColumns, PTL DEF ResolverSpec

(* Every state of a call, of the cache and of the vaults is well formed; an  *)
(* entry never has more than the TTL left.                                    *)
THEOREM ResolverTypeCorrect == ResolverSpec => []ResolverTypeOK
BY TypedAndPosted, PTL

(* No interleaving hands a tenant a registration from another's vault. *)
THEOREM TenantsAreIsolated == ResolverSpec => []TenantIsolation
<1>1. ResolverTypeOK /\ Provenance => TenantIsolation
  BY DEF Provenance, TenantIsolation
<1> QED BY <1>1, TypedAndPosted, PTL

-----------------------------------------------------------------------------
(* What a step does to the row, the entry and the pending admin requests of  *)
(* a tenant decides whether its entry goes stale without a cause.             *)
LEMMA StaleStep ==
  ASSUME ResolverTypeOK, StaleEntryHasACause, [ResolverNext]_vars
  PROVE  StaleEntryHasACause'
<1> USE DEF ResolverTypeOK, TypeOK, CacheTypeOK
<1>1. ASSUME UNCHANGED <<row, req, excused>>,
             \A t \in Tenants : \/ cache'[t] = NoEntry
                                \/ cache[t] # NoEntry /\ cache'[t].reg = cache[t].reg
      PROVE  StaleEntryHasACause'
  BY <1>1 DEF StaleEntryHasACause, Stale, Orphaned, Unannounced
<1>2. CASE UNCHANGED vars
  BY <1>1, <1>2 DEF vars
<1>3. ASSUME NEW c \in Calls, CallStep(c) PROVE StaleEntryHasACause'
  <2>1. CASE Land(c)
    <3>1. PICK t \in Tenants, reg \in Registrations :
             /\ cache' = [cache EXCEPT ![t] = [reg |-> reg, left |-> TTL]]
             /\ excused' = IF row[t] # NoRow /\ reg.vault = row[t]["vault"]
                           THEN excused \ {t} ELSE excused \cup {t}
      <4>1. call[c].tenant \in Tenants /\ call[c].reg \in Registrations
        BY <2>1 DEF Land, Call
      <4> QED BY <2>1, <4>1 DEF Land, CacheSet
    <3>2. UNCHANGED <<row, req>>
      BY <2>1 DEF Land
    <3>3. cache'[t].reg = reg
      BY <3>1
    <3>4. Stale(t)' \/ Orphaned(t)' => t \in excused'
      BY <3>1, <3>2, <3>3 DEF Stale, Orphaned
    <3>5. ASSUME NEW u \in Tenants, u # t, Stale(u)' \/ Orphaned(u)' PROVE Unannounced(u)' \/ u \in excused'
      BY <3>1, <3>2, <3>5 DEF StaleEntryHasACause, Stale, Orphaned, Unannounced
    <3>6. ASSUME NEW u \in Tenants, Stale(u)' \/ Orphaned(u)' PROVE Unannounced(u)' \/ u \in excused'
      BY <3>4, <3>5, <3>6
    <3> QED BY <3>6 DEF StaleEntryHasACause
  <2>2. CASE ~Land(c)
    BY <1>1, <1>3, <2>2 DEF CallStep, ReadRow, Hit, Miss, VaultAnswersId, VaultAnswersSecret,
       VaultFails, CacheHit, CacheMiss
  <2> QED BY <2>1, <2>2
<1>4. ASSUME NEW a \in Requests, AdminStep(a) PROVE StaleEntryHasACause'
  <2>1. req' = [req EXCEPT ![a] = req'[a]]
    BY <1>4, OneRequestMoves DEF AdminStep, AdminBegin, AdminCommit, AdminRespond, AdminLost, Step
  <2>2. CASE AdminBegin(a)
    <3>1. UNCHANGED <<row, cache, excused>>
      BY <2>2 DEF AdminBegin, Reject, FailBefore, UpsertConflict, UpsertRefresh, Get, DeleteStart,
                  UpsertLoad, Drop
    <3>2. req[a].pc \in {"committed", "refreshed", "deleted"}
            => req'[a].pc \in {"committed", "refreshed", "deleted"} /\ req'[a].tenant = req[a].tenant
      BY <2>2 DEF AdminBegin, Reject, FailBefore, UpsertConflict, UpsertRefresh, Get, DeleteStart,
                  UpsertLoad, Drop, Move
    <3> QED BY <2>1, <3>1, <3>2 DEF StaleEntryHasACause, Stale, Orphaned, Unannounced
  <2>3. CASE AdminCommit(a)
    <3> DEFINE t == req[a].tenant
    <3>1. t \in Tenants /\ req[a].pc \in {"loaded", "deleting"}
      BY <2>3 DEF AdminCommit, UpsertCommit, DeleteRow, Request
    <3>2. /\ row' = [row EXCEPT ![t] = row'[t]] /\ UNCHANGED <<cache, excused>>
          /\ req'[a].tenant = t
          /\ row'[t] = row[t] \/ req'[a].pc \in {"committed", "deleted"}
      BY <2>3, <3>1 DEF AdminCommit, UpsertCommit, DeleteRow, Move
    <3>3. ASSUME NEW u \in Tenants, Stale(u)' \/ Orphaned(u)' PROVE Unannounced(u)' \/ u \in excused'
      <4>1. CASE u = t /\ req'[a].pc \in {"committed", "deleted"}
        BY <3>2, <4>1 DEF Unannounced
      <4>2. CASE ~(u = t /\ req'[a].pc \in {"committed", "deleted"})
        <5>1. Stale(u) \/ Orphaned(u)
          BY <3>1, <3>2, <3>3, <4>2 DEF Stale, Orphaned
        <5>2. Unannounced(u) => Unannounced(u)'
          BY <2>1, <3>1 DEF Unannounced
        <5> QED BY <3>2, <5>1, <5>2 DEF StaleEntryHasACause
      <4> QED BY <4>1, <4>2
    <3> QED BY <3>3 DEF StaleEntryHasACause
  <2>4. CASE AdminRespond(a)
    <3>1. req[a].tenant \in Tenants
      BY <2>4 DEF AdminRespond, UpsertRespond, DeleteRespond, Request
    <3>2. /\ row' = row /\ excused' = excused \ {req[a].tenant}
          /\ cache' = [cache EXCEPT ![req[a].tenant] = NoEntry]
      BY <2>4 DEF AdminRespond, UpsertRespond, DeleteRespond, CacheInvalidate
    <3> QED BY <2>1, <3>1, <3>2 DEF StaleEntryHasACause, Stale, Orphaned, Unannounced
  <2>5. CASE AdminLost(a)
    <3>1. row' = row /\ cache' = cache /\ excused' = excused \cup {req[a].tenant}
      BY <2>5 DEF AdminLost, FailAfter, RefreshGone, Drop
    <3> QED BY <2>1, <3>1 DEF StaleEntryHasACause, Stale, Orphaned, Unannounced
  <2> QED BY <1>4, <2>2, <2>3, <2>4, <2>5 DEF AdminStep
<1>5. CASE \E v \in Vaults : RotateVault(v)
  BY <1>1, <1>5 DEF RotateVault
<1>6. CASE Tick
  <2>1. \A t \in Tenants : \/ cache'[t] = NoEntry
                           \/ cache[t] # NoEntry /\ cache'[t].reg = cache[t].reg
    BY <1>6 DEF Tick, CacheTick, Usable
  <2> QED BY <1>1, <1>6, <2>1 DEF Tick
<1>7. CASE RestartProcess
  BY <1>7 DEF RestartProcess, EmptyCache, StaleEntryHasACause, Stale, Orphaned
<1> QED BY <1>2, <1>3, <1>4, <1>5, <1>6, <1>7 DEF ResolverNext

(* A stale entry always has one of the three causes, in every interleaving. *)
THEOREM StalenessIsCaused == ResolverSpec => []StaleEntryHasACause
<1>1. ResolverInit => StaleEntryHasACause
  BY DEF ResolverInit, EmptyCache, StaleEntryHasACause, Stale, Orphaned
<1> QED BY <1>1, StaleStep, ResolverTypeCorrect, PTL DEF ResolverSpec

-----------------------------------------------------------------------------
(* A calm call still holds the row as it is, with no admin request pending,  *)
(* until it meets the cache; a fetched registration is of the call's vault.   *)
CalmInv ==
  /\ \A c \in calm : call[c].pc = "row" =>
       row[call[c].tenant] = call[c].kv /\ ~Unannounced(call[c].tenant)
  /\ \A c \in Calls : call[c].pc = "landing" => call[c].reg.vault = call[c].kv["vault"]
  /\ CalmCallIsCoherent

(* Every step keeps the invariant that calm calls are coherent. *)
LEMMA CalmStep ==
  ASSUME ResolverTypeOK, StaleEntryHasACause, CalmInv, [ResolverNext]_vars
  PROVE  CalmInv'
<1> USE DEF ResolverTypeOK, TypeOK, CacheTypeOK, CalmInv, CalmCallIsCoherent
<1>1. ASSUME UNCHANGED <<row, req, call, calm>> PROVE CalmInv'
  BY <1>1 DEF Unannounced
<1>2. CASE UNCHANGED vars
  BY <1>1, <1>2 DEF vars
<1>3. ASSUME NEW c \in Calls, CallStep(c) PROVE CalmInv'
  <2>1. UNCHANGED <<row, req>> /\ \A t : Unannounced(t)' <=> Unannounced(t)
    BY <1>3 DEF CallStep, ReadRow, Hit, Miss, VaultAnswersId, VaultAnswersSecret, VaultFails, Land,
                Unannounced
  <2>2. call' = [call EXCEPT ![c] = call'[c]] /\ calm' \ {c} \subseteq calm
    BY <1>3 DEF CallStep, ReadRow, Hit, Miss, VaultAnswersId, VaultAnswersSecret, VaultFails, Land,
                Advance
  <2>3. SUFFICES /\ c \in calm' /\ call'[c].pc = "row" =>
                      row[call'[c].tenant] = call'[c].kv /\ ~Unannounced(call'[c].tenant)
                 /\ call'[c].pc = "landing" => call'[c].reg.vault = call'[c].kv["vault"]
                 /\ c \in calm' /\ call'[c].pc = "connected" =>
                      call'[c].reg.vault = call'[c].kv["vault"]
    BY <2>1, <2>2
  <2> USE DEF Advance
  <2>4. CASE \E t \in Tenants : ReadRow(c, t)
    BY <2>4 DEF ReadRow
  <2>5. CASE Hit(c)
    <3> DEFINE t == call[c].tenant
    <3>1. t \in Tenants /\ call[c].kv \in Body
      BY <2>5 DEF Hit, Call
    <3>2. /\ cache[t] # NoEntry
          /\ call'[c] = [pc |-> "connected", tenant |-> t, kv |-> call[c].kv, reg |-> cache[t].reg]
      BY <2>5, <3>1 DEF Hit, CacheHit, Usable
    <3>3. ASSUME c \in calm' PROVE cache[t].reg.vault = call[c].kv["vault"]
      <4>1. c \in calm /\ t \notin excused
        BY <2>5, <3>3 DEF Hit
      <4>2. row[t] = call[c].kv /\ ~Unannounced(t)
        BY <2>5, <4>1 DEF Hit
      <4>3. ~Stale(t)
        BY <3>1, <4>1, <4>2 DEF StaleEntryHasACause
      <4> QED BY <3>1, <3>2, <4>2, <4>3, NoRowAssumption DEF Stale
    <3> QED BY <3>2, <3>3
  <2>6. CASE Miss(c) \/ VaultAnswersId(c) \/ VaultFails(c)
    BY <2>6 DEF Miss, VaultAnswersId, VaultFails
  <2>7. CASE VaultAnswersSecret(c)
    BY <2>7 DEF VaultAnswersSecret
  <2>8. CASE Land(c)
    <3>1. /\ call[c].pc = "landing" /\ call'[c].pc = "connected"
          /\ call'[c].reg = call[c].reg /\ call'[c].kv = call[c].kv
      BY <2>8 DEF Land, Call
    <3> QED BY <3>1
  <2> QED BY <1>3, <2>4, <2>5, <2>6, <2>7, <2>8 DEF CallStep
<1>4. ASSUME NEW a \in Requests, AdminStep(a) PROVE CalmInv'
  <2>1. call' = call /\ calm' \subseteq calm
    BY <1>4 DEF AdminStep, AdminBegin, AdminCommit, AdminRespond, AdminLost
  <2>2. req' = [req EXCEPT ![a] = req'[a]]
    BY <1>4, OneRequestMoves DEF AdminStep, AdminBegin, AdminCommit, AdminRespond, AdminLost, Step
  <2>3. CASE AdminCommit(a)
    <3> DEFINE t == req[a].tenant
    <3>1. /\ t \in Tenants /\ row' = [row EXCEPT ![t] = row'[t]] /\ req'[a].tenant = t
          /\ calm' = {c \in calm : call[c].pc # "row" \/ call[c].tenant # t}
      BY <2>3 DEF AdminCommit, UpsertCommit, DeleteRow, Request, Move
    <3>2. ASSUME NEW u, u # t, Unannounced(u)' PROVE Unannounced(u)
      BY <2>2, <3>1, <3>2 DEF Unannounced
    <3>3. ASSUME NEW c \in calm', call[c].pc = "row"
          PROVE  row'[call[c].tenant] = call[c].kv /\ ~Unannounced(call[c].tenant)'
      <4>1. c \in calm /\ call[c].tenant # t
        BY <3>1, <3>3
      <4>2. row[call[c].tenant] = call[c].kv /\ ~Unannounced(call[c].tenant)
        BY <3>3, <4>1
      <4>3. row'[call[c].tenant] = row[call[c].tenant]
        BY <3>1, <4>1, <3>3 DEF Call
      <4>4. ASSUME NEW u, u = call[c].tenant PROVE ~Unannounced(u)'
        BY <3>2, <4>1, <4>2, <4>4
      <4> QED BY <2>1, <4>2, <4>3, <4>4
    <3>4. \A c \in calm' : call[c].pc = "row" =>
             row'[call[c].tenant] = call[c].kv /\ ~Unannounced(call[c].tenant)'
      BY <3>3
    <3> QED BY <2>1, <3>4
  <2>4. CASE ~AdminCommit(a)
    <3>1. row' = row
      BY <1>4, <2>4 DEF AdminStep, AdminBegin, AdminRespond, AdminLost, Reject, FailBefore,
         UpsertConflict, UpsertRefresh, Get, DeleteStart, UpsertLoad, UpsertRespond, DeleteRespond,
         FailAfter, RefreshGone, Drop
    <3>2. req'[a].pc \in {"committed", "refreshed", "deleted"}
            => req[a].pc \in {"committed", "refreshed", "deleted"} /\ req'[a].tenant = req[a].tenant
      BY <1>4, <2>4 DEF AdminStep, AdminBegin, AdminRespond, AdminLost, Reject, FailBefore,
         UpsertConflict, UpsertRefresh, Get, DeleteStart, UpsertLoad, UpsertRespond, DeleteRespond,
         FailAfter, RefreshGone, Drop, Move
    <3>3. ASSUME NEW u, Unannounced(u)' PROVE Unannounced(u)
      BY <2>2, <3>2, <3>3 DEF Unannounced
    <3> QED BY <2>1, <3>1, <3>3
  <2> QED BY <2>3, <2>4
<1>5. CASE Tick \/ \E v \in Vaults : RotateVault(v)
  BY <1>1, <1>5 DEF Tick, RotateVault
<1>6. CASE RestartProcess
  BY <1>6 DEF RestartProcess
<1> QED BY <1>2, <1>3, <1>4, <1>5, <1>6 DEF ResolverNext

(* A tool call that overlaps no change of its tenant's credentials gets a    *)
(* connector whose organisation and registration belong to one configuration. *)
THEOREM CalmCallsAreCoherent == ResolverSpec => []CalmCallIsCoherent
<1>1. ResolverInit => CalmInv
  BY DEF ResolverInit, CalmInv, CalmCallIsCoherent
<1>2. CalmInv => CalmCallIsCoherent
  BY DEF CalmInv
<1> QED
  BY <1>1, <1>2, CalmStep, ResolverTypeCorrect, StalenessIsCaused, PTL DEF ResolverSpec
=============================================================================
