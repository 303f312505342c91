------------------------ MODULE CrmStalenessProofs ------------------------
(***************************************************************************)
(* How stale a registration in use can be, for every TTL, every time a      *)
(* fetch may take and any number of tenants, calls and admin requests.      *)
(***************************************************************************)
EXTENDS CrmStaleness, CrmResolverProofs

(* With its clock the resolver does what it does without: whatever is proved  *)
(* of CrmResolver holds here.                                                 *)
THEOREM TimedIsAResolver == TimedSpec => ResolverSpec
<1>1. TimedInit => ResolverInit
  BY DEF TimedInit
<1>2. [TimedNext]_timedVars => [ResolverNext]_vars
  <2>1. TimedNext => ResolverNext \/ UNCHANGED vars
    BY DEF TimedNext, Elapse, TimedAsk, TimedAnswer, TimedLand, TimedAdmin, ResolverNext, CallStep
  <2>2. UNCHANGED timedVars => UNCHANGED vars
    BY DEF timedVars
  <2> QED BY <2>1, <2>2
<1> QED BY <1>1, <1>2, PTL DEF TimedSpec, ResolverSpec

-----------------------------------------------------------------------------
(* What a call has read is outdated for no longer than the call has been in   *)
(* get_connector; what an entry has lost of its TTL, and the call that cached   *)
(* it took, is all the time it can have been outdated.                         *)
ClockInv ==
  /\ fetch \in [Calls -> 0..MaxFetch]
  /\ behind \in [Calls -> 0..MaxFetch]
  /\ lag \in [Tenants -> Nat]
  /\ \A c \in Calls : behind[c] <= fetch[c]
  /\ \A c \in Calls : ~Fetches(c) => behind[c] = 0
  /\ \A t \in Tenants : cache[t] # NoEntry => lag[t] + cache[t].left <= TTL + MaxFetch

(* A step without time leaves the clocks of the fetches, or clears them. *)
LEMMA FetchClocksKept ==
  ASSUME ClockInv, FetchClocks
  PROVE  /\ fetch' \in [Calls -> 0..MaxFetch]
         /\ behind' \in [Calls -> 0..MaxFetch]
         /\ \A c \in Calls : behind'[c] <= fetch'[c]
         /\ \A c \in Calls : ~Fetches(c)' => behind'[c] = 0
<1>1. MaxFetch \in Nat
  BY MaxFetchAssumption
<1> QED BY <1>1 DEF ClockInv, FetchClocks

(* No such step but the landing of a fetch puts or changes an entry. *)
LEMMA EntriesOnlyGo ==
  ASSUME CacheTypeOK,
         \/ \E c \in Calls : TimedAsk(c) \/ TimedAnswer(c)
         \/ \E a \in Requests : TimedAdmin(a)
         \/ \E v \in Vaults : RotateVault(v)
         \/ RestartProcess,
         NEW t \in Tenants
  PROVE  cache'[t] \in {cache[t], NoEntry}
<1>1. ASSUME NEW c \in Calls, TimedAsk(c) \/ TimedAnswer(c) PROVE cache'[t] \in {cache[t], NoEntry}
  BY <1>1 DEF TimedAsk, TimedAnswer, ReadRow, Hit, CacheHit, Miss, CacheMiss, VaultAnswersId,
              VaultAnswersSecret, VaultFails, CacheTypeOK
<1>2. ASSUME NEW a \in Requests, TimedAdmin(a) PROVE cache'[t] \in {cache[t], NoEntry}
  BY <1>2 DEF TimedAdmin, AdminStep, AdminBegin, AdminCommit, AdminRespond, AdminLost,
              CacheInvalidate, CacheTypeOK
<1>3. ASSUME NEW v \in Vaults, RotateVault(v) PROVE cache'[t] \in {cache[t], NoEntry}
  BY <1>3 DEF RotateVault
<1>4. CASE RestartProcess
  BY <1>4 DEF RestartProcess, EmptyCache
<1> QED BY <1>1, <1>2, <1>3, <1>4

LEMMA InstantKeeps ==
  ASSUME ClockInv, Instant, \A t \in Tenants : cache'[t] \in {cache[t], NoEntry}
  PROVE  ClockInv'
<1>1. /\ fetch' \in [Calls -> 0..MaxFetch]
      /\ behind' \in [Calls -> 0..MaxFetch]
      /\ \A c \in Calls : behind'[c] <= fetch'[c]
      /\ \A c \in Calls : ~Fetches(c)' => behind'[c] = 0
  BY FetchClocksKept DEF Instant
<1>2. lag' \in [Tenants -> Nat]
  BY DEF Instant, ClockInv
<1>3. \A t \in Tenants : cache'[t] # NoEntry => lag'[t] + cache'[t].left <= TTL + MaxFetch
  BY DEF Instant, ClockInv
<1> QED BY <1>1, <1>2, <1>3 DEF ClockInv

(* A fetch that lands brings an entry as old as the fetch. *)
LEMMA LandKeeps ==
  ASSUME ResolverTypeOK, ClockInv, NEW c \in Calls, TimedLand(c)
  PROVE  ClockInv'
<1> DEFINE t == call[c].tenant
<1>1. /\ fetch' \in [Calls -> 0..MaxFetch]
      /\ behind' \in [Calls -> 0..MaxFetch]
      /\ \A d \in Calls : behind'[d] <= fetch'[d]
      /\ \A d \in Calls : ~Fetches(d)' => behind'[d] = 0
  BY FetchClocksKept DEF TimedLand
<1>2. t \in Tenants
  BY DEF TimedLand, Land, ResolverTypeOK, Call
<1>3. behind[c] \in 0..MaxFetch /\ MaxFetch \in Nat /\ TTL \in Nat
  BY MaxFetchAssumption, TTLAssumption DEF ClockInv
<1>4. lag' = [lag EXCEPT ![t] = behind[c]]
  BY DEF TimedLand
<1>5. cache' = [cache EXCEPT ![t] = [reg |-> call[c].reg, left |-> TTL]]
  BY DEF TimedLand, Land, CacheSet
<1>6. lag' \in [Tenants -> Nat]
  <2>1. behind[c] \in Nat /\ lag \in [Tenants -> Nat]
    BY <1>3 DEF ClockInv
  <2> QED BY <1>2, <1>4, <2>1
<1>7. ASSUME NEW u \in Tenants, cache'[u] # NoEntry
      PROVE  lag'[u] + cache'[u].left <= TTL + MaxFetch
  <2>1. CASE u = t
    <3>1. lag'[u] = behind[c] /\ cache'[u].left = TTL
      BY <1>2, <1>4, <1>5, <2>1 DEF ClockInv, ResolverTypeOK, CacheTypeOK
    <3> QED BY <3>1, <1>3
  <2>2. CASE u # t
    BY <1>4, <1>5, <1>7, <2>2 DEF ClockInv, ResolverTypeOK, CacheTypeOK
  <2> QED BY <2>1, <2>2
<1> QED BY <1>1, <1>6, <1>7 DEF ClockInv

(* A tick: what an entry gains in lag it loses of its TTL. *)
LEMMA ElapseKeeps ==
  ASSUME ResolverTypeOK, ClockInv, Elapse
  PROVE  ClockInv'
<1>0. MaxFetch \in Nat /\ TTL \in Nat /\ Horizon \in Nat
  BY MaxFetchAssumption, TTLAssumption DEF Horizon
<1>1. call' = call
  BY DEF Elapse, Tick, vars
<1>2. \A c \in Calls : Fetches(c)' <=> Fetches(c)
  BY <1>1 DEF Fetches
<1>3. ASSUME NEW c \in Calls
      PROVE  /\ fetch'[c] \in 0..MaxFetch /\ behind'[c] \in 0..MaxFetch
             /\ behind'[c] <= fetch'[c]
             /\ ~Fetches(c) => behind'[c] = 0
  <2>1. fetch[c] \in 0..MaxFetch /\ behind[c] \in 0..MaxFetch /\ behind[c] <= fetch[c]
        /\ (~Fetches(c) => behind[c] = 0)
    BY DEF ClockInv
  <2>2. CASE Fetches(c)
    BY <1>0, <2>1, <2>2 DEF Elapse, Later
  <2>3. CASE ~Fetches(c)
    BY <1>0, <2>1, <2>3 DEF Elapse, Outdated
  <2> QED BY <2>2, <2>3
<1>4. fetch' \in [Calls -> 0..MaxFetch] /\ behind' \in [Calls -> 0..MaxFetch]
  BY <1>3 DEF Elapse
<1>5. lag' \in [Tenants -> Nat]
  BY <1>0 DEF Elapse, Later, ClockInv
<1>6. ASSUME NEW t \in Tenants, cache'[t] # NoEntry
      PROVE  lag'[t] + cache'[t].left <= TTL + MaxFetch
  <2>1. lag[t] \in Nat /\ (lag'[t] = lag[t] \/ (lag'[t] = lag[t] + 1 /\ Usable(t)))
    BY DEF Elapse, Later, ClockInv, Replaced
  <2>2. CASE Usable(t)
    <3>1. cache' = [u \in Tenants |-> IF Usable(u) THEN [cache[u] EXCEPT !.left = @ - 1]
                                                   ELSE cache[u]]
      BY <2>2 DEF Elapse, Tick, CacheTick
    <3>2. cache[t] \in [reg : Registrations, left : 0..TTL] /\ cache[t] # NoEntry
      BY <2>2 DEF ResolverTypeOK, CacheTypeOK, Usable
    <3>3. cache'[t].left = cache[t].left - 1
      BY <2>2, <3>1, <3>2
    <3>4. lag[t] + cache[t].left <= TTL + MaxFetch
      BY <3>2 DEF ClockInv
    <3> QED BY <1>0, <2>1, <3>2, <3>3, <3>4
  <2>3. CASE ~Usable(t)
    <3>1. cache'[t] = cache[t]
      BY <2>3 DEF Elapse, Tick, CacheTick, vars
    <3> QED BY <1>6, <2>1, <2>3, <3>1 DEF ClockInv
  <2> QED BY <2>2, <2>3
<1> QED BY <1>2, <1>3, <1>4, <1>5, <1>6 DEF ClockInv

LEMMA ClockInvariant == TimedSpec => []ClockInv
<1>1. TimedInit => ClockInv
  BY MaxFetchAssumption DEF TimedInit, ResolverInit, EmptyCache, ClockInv
<1>2. ResolverTypeOK /\ ClockInv /\ [TimedNext]_timedVars => ClockInv'
  <2> SUFFICES ASSUME ResolverTypeOK, ClockInv, [TimedNext]_timedVars PROVE ClockInv'
    OBVIOUS
  <2>1. CASE UNCHANGED timedVars
    BY <2>1 DEF timedVars, clocks, vars, ClockInv, Fetches
  <2>2. CASE Elapse
    BY <2>2, ElapseKeeps
  <2>3. ASSUME NEW c \in Calls, TimedLand(c) PROVE ClockInv'
    BY <2>3, LandKeeps
  <2>4. CASE \/ \E c \in Calls : TimedAsk(c) \/ TimedAnswer(c)
             \/ \E a \in Requests : TimedAdmin(a)
             \/ \E v \in Vaults : RotateVault(v) /\ Instant
             \/ RestartProcess /\ Instant
    <3>1. Instant
      BY <2>4 DEF TimedAsk, TimedAnswer, TimedAdmin
    <3>2. \A t \in Tenants : cache'[t] \in {cache[t], NoEntry}
      BY <2>4, EntriesOnlyGo DEF ResolverTypeOK
    <3> QED BY <3>1, <3>2, InstantKeeps
  <2> QED BY <2>1, <2>2, <2>3, <2>4 DEF TimedNext
<1>3. TimedSpec => []ResolverTypeOK
  BY TimedIsAResolver, ResolverTypeCorrect, PTL
<1> QED BY <1>1, <1>2, <1>3, PTL DEF TimedSpec

(* A registration replaced in its vault, or by a committed change of the row,  *)
(* is used for at most the TTL plus the time of the get_connector that cached   *)
(* it: for every TTL and every such time, however calls, rotations and admin   *)
(* requests overlap.                                                          *)
THEOREM StalenessIsBounded == TimedSpec => []StalenessBounded
<1>1. ClockInv => StalenessBounded
  BY DEF ClockInv, StalenessBounded, Usable
<1> QED BY <1>1, ClockInvariant, PTL
=============================================================================
