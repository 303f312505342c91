---------------------------- MODULE CrmStaleness ----------------------------
(***************************************************************************)
(* The resolver with its clock: how long a registration stays in use after  *)
(* it is no longer the tenant's, its vault having replaced it or its row     *)
(* naming another vault or being gone.                                       *)
(*                                                                         *)
(* CrmResolver lets time pass only through the expiry of an entry.  Here it *)
(* also passes while get_connector is on its way and while nothing is        *)
(* cached, and three histories tell how old what was read is.  A run of      *)
(* get_connector ends within MaxFetch ticks of its SELECT: each request it    *)
(* makes is answered or times out (see ServiceLoop for a vault that sends    *)
(* its reply bit by bit, which can hold it longer).                          *)
(***************************************************************************)
EXTENDS CrmResolver

CONSTANT MaxFetch  \* ticks from the SELECT of a call to the return with the pair

ASSUME MaxFetchAssumption == MaxFetch \in Nat

VARIABLES
  fetch,   \* fetch[c]: ticks since call c read its row; 0 if it is not in get_connector
  behind,  \* behind[c]: ticks for which what c has read since was outdated
  lag      \* lag[t]: ticks for which the registration usable for t was not t's any more

clocks == <<fetch, behind, lag>>
timedVars == <<vars, clocks>>

Horizon == TTL + MaxFetch + 1  \* the histories count no further

TimedInit == /\ ResolverInit
             /\ fetch = [c \in Calls |-> 0]
             /\ behind = [c \in Calls |-> 0]
             /\ lag = [t \in Tenants |-> 0]

(* Call c is in get_connector, with a row and perhaps a client id it has read. *)
Fetches(c) == call[c].pc \in {"row", "get_id", "get_secret", "landing"}
HasId(c)   == call[c].pc \in {"get_secret", "landing"}
IdRead(c)  == IF call[c].pc = "landing" THEN call[c].reg.id ELSE call[c].id

(* The tenant's row names another vault now, or the vault another id. *)
Outdated(c) ==
  /\ Fetches(c)
  /\ LET r == row[call[c].tenant]  v == call[c].kv["vault"]  IN
     \/ r = NoRow \/ r["vault"] # v
     \/ HasId(c) /\ IdRead(c) # vault[v]

(* The registration usable for t is no longer what its row and vault give. *)
Replaced(t) == Usable(t) /\ (Stale(t) \/ Orphaned(t) \/ cache[t].reg.id # vault[cache[t].reg.vault])

-----------------------------------------------------------------------------
Later(n) == IF n < Horizon THEN n + 1 ELSE n

(* A tick of the clock, for every entry and every fetch. *)
Elapse ==
  /\ \A c \in Calls : Fetches(c) => fetch[c] < MaxFetch
  /\ IF \E t \in Tenants : Usable(t) THEN Tick ELSE UNCHANGED vars
  /\ fetch' = [c \in Calls |-> IF Fetches(c) THEN fetch[c] + 1 ELSE 0]
  /\ behind' = [c \in Calls |-> IF Outdated(c) THEN Later(behind[c]) ELSE behind[c]]
  /\ lag' = [t \in Tenants |-> IF Replaced(t) THEN Later(lag[t]) ELSE lag[t]]

(* Any other step takes no time; a call that has left get_connector, and a    *)
(* tenant that has no entry, start again at 0.                               *)
FetchClocks == /\ fetch' = [c \in Calls |-> IF Fetches(c) /\ Fetches(c)' THEN fetch[c] ELSE 0]
               /\ behind' = [c \in Calls |-> IF Fetches(c) /\ Fetches(c)' THEN behind[c] ELSE 0]

Instant == /\ FetchClocks
           /\ lag' = [t \in Tenants |-> IF cache'[t] = NoEntry THEN 0 ELSE lag[t]]

TimedAsk(c) == (\E t \in Tenants : ReadRow(c, t)) /\ Instant

TimedAnswer(c) == /\ \/ Hit(c) \/ Miss(c)
                     \/ VaultAnswersId(c) \/ VaultAnswersSecret(c) \/ VaultFails(c)
                  /\ Instant

TimedLand(c) == /\ Land(c)
                /\ FetchClocks
                /\ lag' = [lag EXCEPT ![call[c].tenant] = behind[c]]

TimedAdmin(a) == AdminStep(a) /\ Instant

TimedNext == \/ Elapse
             \/ \E c \in Calls : TimedAsk(c) \/ TimedAnswer(c) \/ TimedLand(c)
             \/ \E a \in Requests : TimedAdmin(a)
             \/ \E v \in Vaults : RotateVault(v) /\ Instant
             \/ RestartProcess /\ Instant

TimedSpec == TimedInit /\ [][TimedNext]_timedVars

(* Time passes, and a call in get_connector goes on: the loop resumes it, and  *)
(* the request it waits for is answered or times out.  Nothing makes operators, *)
(* vaults or chatbots do anything.                                             *)
TimedFairSpec == /\ TimedSpec
                 /\ WF_timedVars(Elapse)
                 /\ \A c \in Calls : WF_timedVars(TimedAnswer(c) \/ TimedLand(c))

-----------------------------------------------------------------------------
(* A registration replaced in its vault, or in whose place a committed POST    *)
(* or DELETE has put another vault's or none, is used for at most the TTL,      *)
(* which starts when the fetch lands and is not prolonged by use, plus the      *)
(* time of the get_connector that cached it: whatever calls, rotations and     *)
(* admin requests overlap it.                                                  *)
StalenessBounded == \A t \in Tenants : Usable(t) => lag[t] + cache[t].left <= TTL + MaxFetch
=============================================================================
