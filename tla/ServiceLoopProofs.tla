------------------------- MODULE ServiceLoopProofs -------------------------
(***************************************************************************)
(* What holds of the event loop and the connection pool for every number of *)
(* requests, connections and tenants, and for all timeouts: no connection   *)
(* is lost, and a call is over in time.                                      *)
(***************************************************************************)
EXTENDS ServiceLoop, FiniteSetTheorems, TLAPS

-----------------------------------------------------------------------------
(* What a call in state r may wait for connections, all in all. *)
Connecting(r) == Checkouts[r.kind] * PoolTimeout

(* How long a call in state r may have waited with the loop running, if its  *)
(* backends do not drip: the time of the stages it has been through.         *)
OnTime(r, w) ==
  /\ r.pc = "arrived"  => w <= (r.visit - 1) * PoolTimeout
  /\ r.pc = "queued"   => w <= (r.visit - 1) * PoolTimeout + r.waited
  /\ r.pc = "database" => w <= r.visit * PoolTimeout
  /\ r.pc = "token"    => w <= Connecting(r) + (r.n - 1) * RequestTimeout
  /\ r.pc = "request"  => w <= Connecting(r) + (r.n - 1) * RequestTimeout + r.quiet
  /\ r.pc = "answered" => w <= Connecting(r) + Requests[r.kind] * RequestTimeout

Good(r, w) ==
  /\ r \in Call
  /\ w \in 0..Patience + 1
  /\ r.pc = "new" => w = 0
  /\ r.pc \in {"queued", "database"} => r.visit <= Checkouts[r.kind]
  /\ r.pc = "arrived" => (r.kind = "health" /\ r.visit = 1) \/ r.visit <= Checkouts[r.kind]
  /\ r.pc \in {"token", "request"} => r.n <= Requests[r.kind]
  /\ r.pc # "new" /\ r.tenant \notin Dripping => OnTime(r, w)

LoopInv ==
  /\ loop \in Calls \cup {NoCall}
  /\ free \in Nat
  /\ call \in [Calls -> Call]
  /\ awake \in [Calls -> 0..Patience + 1]
  /\ \A c \in Calls : Good(call[c], awake[c])
  /\ \A c \in Calls : call[c].pc = "token" <=> loop = c
  /\ ConnectionsAccounted

-----------------------------------------------------------------------------
LEMMA RequestsTyped ==
  \A k \in Kinds : /\ Requests[k] \in 0..4 /\ Checkouts[k] \in 0..2
                   /\ k # "health" => Checkouts[k] \in 1..2
BY DEF Kinds, Requests, Checkouts

(* The timeouts of the checkouts and of the requests add up. *)
LEMMA Sums ==
  /\ PoolTimeout \in Nat /\ RequestTimeout \in Nat /\ Patience \in Nat
  /\ \A v \in 0..2 : v * PoolTimeout \in Nat
  /\ \A v \in 1..2 : (v - 1) * PoolTimeout + PoolTimeout = v * PoolTimeout
  /\ \A v \in 0..2, m \in 0..2 : v <= m => v * PoolTimeout <= m * PoolTimeout
  /\ \A n \in 0..4 : n * RequestTimeout \in Nat /\ n * RequestTimeout <= 4 * RequestTimeout
  /\ \A n \in 1..4 : (n - 1) * RequestTimeout + RequestTimeout = n * RequestTimeout
  /\ \A n \in 0..4, m \in 0..4 : n <= m => n * RequestTimeout <= m * RequestTimeout
<1>1. PoolTimeout \in Nat /\ RequestTimeout \in Nat
  BY LoopAssumption
<1>2. \A n \in 0..4 : n = 0 \/ n = 1 \/ n = 2 \/ n = 3 \/ n = 4
  OBVIOUS
<1>3. /\ 0 * RequestTimeout = 0 /\ 1 * RequestTimeout = RequestTimeout
      /\ 0 * PoolTimeout = 0 /\ 1 * PoolTimeout = PoolTimeout
  BY <1>1
<1>4. \A v \in 0..2 : v = 0 \/ v = 1 \/ v = 2
  OBVIOUS
<1> QED BY <1>1, <1>2, <1>3, <1>4 DEF Patience

(* What a session has waited for a connection when it has got the v-th, or     *)
(* will never get it, is part of what it may wait in all.                      *)
LEMMA VisitInTime ==
  ASSUME NEW r, NEW w \in Nat, r \in Call, r.pc \in {"arrived", "queued", "database"},
         Good(r, w), r.tenant \notin Dripping
  PROVE  /\ r.visit \in 1..2 /\ Connecting(r) \in Nat
         /\ w <= r.visit * PoolTimeout
         /\ w <= Connecting(r)
<1>1. r.visit \in 1..2 /\ r.kind \in Kinds /\ Checkouts[r.kind] \in 0..2
  BY RequestsTyped DEF Call
<1>2. /\ (r.visit - 1) * PoolTimeout \in Nat /\ r.visit * PoolTimeout \in Nat
      /\ (r.visit - 1) * PoolTimeout + PoolTimeout = r.visit * PoolTimeout
      /\ Connecting(r) \in Nat
  BY <1>1, Sums DEF Connecting
<1>3. OnTime(r, w)
  BY DEF Good
<1>4. w <= r.visit * PoolTimeout
  <2>1. r.pc = "queued" => r.waited \in 0..PoolTimeout
    BY DEF Call
  <2> QED BY <1>2, <1>3, <2>1, Sums DEF OnTime
<1>5. CASE r.visit <= Checkouts[r.kind]
  BY <1>1, <1>2, <1>4, <1>5, Sums DEF Connecting
<1>6. CASE ~(r.visit <= Checkouts[r.kind])
  <2>1. r.pc = "arrived" /\ r.visit - 1 = 0
    BY <1>1, <1>6 DEF Good
  <2>2. w <= 0 * PoolTimeout
    BY <1>3, <2>1 DEF OnTime
  <2>3. 0 * PoolTimeout <= Connecting(r)
    BY <1>1, Sums DEF Connecting
  <2> QED BY <1>1, <1>2, <1>4, <2>2, <2>3, Sums
<1> QED BY <1>1, <1>2, <1>4, <1>5, <1>6

(* An answer comes in time if what came before it did. *)
LEMMA AnswerGood ==
  ASSUME NEW r, NEW w, Good(r, w), r.pc \notin {"new", "answered"},
         NEW answer \in {"done", "refused"}
  PROVE  Good([pc |-> "answered", kind |-> r.kind, tenant |-> r.tenant, answer |-> answer], w)
<1> DEFINE s == [pc |-> "answered", kind |-> r.kind, tenant |-> r.tenant, answer |-> answer]
<1>1. r.kind \in Kinds /\ r.tenant \in Tenants /\ s \in Call
  BY DEF Good, Call
<1>2. Requests[r.kind] \in 0..4 /\ w \in Nat
  BY <1>1, RequestsTyped, Sums DEF Good
<1>3. ASSUME r.tenant \notin Dripping
      PROVE  w <= Connecting(r) + Requests[r.kind] * RequestTimeout
  <2>1. OnTime(r, w)
    BY <1>3 DEF Good
  <2>2. Requests[r.kind] * RequestTimeout \in Nat /\ Connecting(r) \in Nat
    BY <1>1, <1>2, RequestsTyped, Sums DEF Connecting
  <2>3. CASE r.pc \in {"arrived", "queued", "database"}
    <3>1. w <= Connecting(r)
      BY <1>2, <1>3, <2>3, VisitInTime DEF Good
    <3> QED BY <1>2, <2>2, <3>1
  <2>4. CASE r.pc \in {"token", "request"}
    <3>1. r.n \in 1..4 /\ r.n <= Requests[r.kind]
      BY <2>4 DEF Good, Call
    <3>2. r.n * RequestTimeout <= Requests[r.kind] * RequestTimeout
      BY <3>1, <1>2, Sums
    <3>3. /\ (r.n - 1) * RequestTimeout + RequestTimeout = r.n * RequestTimeout
          /\ (r.n - 1) * RequestTimeout \in Nat /\ r.n * RequestTimeout \in Nat
      BY <3>1, Sums
    <3>4. r.pc = "request" => r.quiet \in 0..RequestTimeout
      BY DEF Good, Call
    <3>5. r.pc = "request" => w <= Connecting(r) + (r.n - 1) * RequestTimeout + r.quiet
      BY <2>1 DEF OnTime
    <3>6. r.pc = "token" => w <= Connecting(r) + (r.n - 1) * RequestTimeout
      BY <2>1 DEF OnTime
    <3> HIDE DEF s
    <3> QED BY <1>2, <2>2, <2>4, <3>2, <3>3, <3>4, <3>5, <3>6, Sums
  <2> QED BY <2>3, <2>4 DEF Good, Call
<1> QED BY <1>1, <1>3 DEF Good, OnTime, Connecting

(* So does a call's next request, or its wait for a token before it. *)
LEMMA EnterGood ==
  ASSUME NEW r, NEW w, Good(r, w), NEW n \in 1..4, n <= Requests[r.kind],
         \/ r.pc = "database" /\ n = 1
         \/ r.pc = "request" /\ n = r.n + 1
  PROVE  /\ Good([pc |-> "token", kind |-> r.kind, tenant |-> r.tenant, n |-> n], w)
         /\ Good([pc |-> "request", kind |-> r.kind, tenant |-> r.tenant, n |-> n, quiet |-> 0], w)
<1> DEFINE s == [pc |-> "token", kind |-> r.kind, tenant |-> r.tenant, n |-> n]
           q == [pc |-> "request", kind |-> r.kind, tenant |-> r.tenant, n |-> n, quiet |-> 0]
<1>1. r.kind \in Kinds /\ r.tenant \in Tenants
  BY DEF Good, Call
<1>2. s \in Call /\ q \in Call
  BY <1>1, Sums DEF Call
<1>3. w \in Nat
  BY Sums DEF Good
<1>4. Connecting(r) \in Nat /\ (n - 1) * RequestTimeout \in Nat
  BY <1>1, RequestsTyped, Sums DEF Connecting
<1>5. ASSUME r.tenant \notin Dripping
      PROVE  w <= Connecting(r) + (n - 1) * RequestTimeout
  <2>1. OnTime(r, w)
    BY <1>5 DEF Good
  <2>2. CASE r.pc = "database"
    <3>1. w <= Connecting(r)
      BY <1>3, <1>5, <2>2, VisitInTime DEF Good
    <3> QED BY <1>3, <1>4, <3>1
  <2>3. CASE r.pc = "request" /\ n = r.n + 1
    <3>1. r.n \in 1..4 /\ r.quiet \in 0..RequestTimeout /\ n - 1 = r.n
      BY <2>3 DEF Good, Call
    <3>2. (r.n - 1) * RequestTimeout + RequestTimeout = (n - 1) * RequestTimeout
      BY <3>1, Sums
    <3>3. w <= Connecting(r) + (r.n - 1) * RequestTimeout + r.quiet
      BY <2>1, <2>3 DEF OnTime
    <3>4. (r.n - 1) * RequestTimeout \in Nat
      BY <3>1, Sums
    <3> QED BY <1>3, <1>4, <3>1, <3>2, <3>3, <3>4, Sums
  <2> QED BY <2>2, <2>3
<1>6. /\ Connecting(s) = Connecting(r) /\ Connecting(q) = Connecting(r)
      /\ s.pc = "token" /\ s.n = n /\ s.kind = r.kind /\ s.tenant = r.tenant
      /\ q.pc = "request" /\ q.n = n /\ q.kind = r.kind /\ q.tenant = r.tenant /\ q.quiet = 0
  BY DEF Connecting
<1>7. w \in 0..Patience + 1
  BY DEF Good
<1> HIDE DEF s, q
<1>8. ASSUME r.tenant \notin Dripping PROVE OnTime(s, w) /\ OnTime(q, w)
  BY <1>3, <1>4, <1>5, <1>6, <1>8 DEF OnTime
<1>9. Good(s, w) /\ Good(q, w)
  BY <1>2, <1>6, <1>7, <1>8 DEF Good
<1> QED BY <1>9 DEF s, q

-----------------------------------------------------------------------------
(* A step of request c that takes it to r and nobody else anywhere keeps the *)
(* invariant, if r is good, it blocks the loop when it should, and free      *)
(* changes by what c takes or gives back.                                    *)
HoldsAt(r) == r.pc \in {"database", "token", "request"}

Becomes(c, r) ==
  /\ call' = [call EXCEPT ![c] = r]
  /\ awake' = awake
  /\ Good(r, awake[c])
  /\ r.pc = "token" <=> loop' = c
  /\ loop' = loop \/ (loop \in {NoCall, c} /\ loop' \in {NoCall, c})
  /\ \/ HoldsAt(r) /\ ~Holds(c) /\ free > 0 /\ free' = free - 1
     \/ ~HoldsAt(r) /\ Holds(c) /\ free' = free + 1
     \/ (HoldsAt(r) <=> Holds(c)) /\ free' = free

LEMMA BecomesKeeps ==
  ASSUME LoopInv, NEW c \in Calls, NEW r, Becomes(c, r)
  PROVE  LoopInv'
<1> DEFINE Held == {d \in Calls : Holds(d)}
<1>1. r \in Call /\ call' \in [Calls -> Call] /\ call'[c] = r
  BY DEF LoopInv, Becomes, Good
<1>2. \A d \in Calls : d # c => call'[d] = call[d]
  BY DEF LoopInv, Becomes
<1>3. \A d \in Calls : Good(call'[d], awake'[d])
  <2> SUFFICES ASSUME NEW d \in Calls PROVE Good(call'[d], awake[d])
    BY DEF Becomes
  <2>1. CASE d = c
    BY <1>1, <2>1 DEF Becomes
  <2>2. CASE d # c
    BY <1>2, <2>2 DEF LoopInv
  <2> QED BY <2>1, <2>2
<1>4. \A d \in Calls : call'[d].pc = "token" <=> loop' = d
  BY <1>1, <1>2, LoopAssumption DEF LoopInv, Becomes
<1>5. loop' \in Calls \cup {NoCall}
  BY DEF LoopInv, Becomes
<1>6. IsFiniteSet(Held) /\ Cardinality(Held) \in Nat
  BY FS_Subset, FS_CardinalityType, LoopAssumption
<1>7. free \in Nat /\ free + Cardinality(Held) = PoolSize
  BY DEF LoopInv, ConnectionsAccounted
<1>8. \A d \in Calls : d # c => (Holds(d)' <=> Holds(d))
  BY <1>2 DEF Holds
<1>9. Holds(c)' <=> HoldsAt(r)
  BY <1>1 DEF Holds, HoldsAt
<1>10. CASE HoldsAt(r) /\ ~Holds(c) /\ free > 0 /\ free' = free - 1
  <2>1. Held' = Held \cup {c} /\ c \notin Held
    BY <1>8, <1>9, <1>10
  <2>2. Cardinality(Held') = Cardinality(Held) + 1
    BY <2>1, <1>6, FS_AddElement
  <2>3. free' \in Nat /\ free' + Cardinality(Held') = PoolSize
    BY <1>6, <1>7, <1>10, <2>2
  <2> QED BY <1>1, <1>3, <1>4, <1>5, <2>3 DEF LoopInv, ConnectionsAccounted, Becomes
<1>11. CASE ~HoldsAt(r) /\ Holds(c) /\ free' = free + 1
  <2>1. Held' = Held \ {c} /\ c \in Held
    BY <1>8, <1>9, <1>11
  <2>2. Cardinality(Held') = Cardinality(Held) - 1
    BY <2>1, <1>6, FS_RemoveElement
  <2>3. free' \in Nat /\ free' + Cardinality(Held') = PoolSize
    BY <1>6, <1>7, <1>11, <2>2
  <2> QED BY <1>1, <1>3, <1>4, <1>5, <2>3 DEF LoopInv, ConnectionsAccounted, Becomes
<1>12. CASE (HoldsAt(r) <=> Holds(c)) /\ free' = free
  <2>1. Held' = Held
    BY <1>8, <1>9, <1>12
  <2> QED BY <1>1, <1>3, <1>4, <1>5, <1>7, <1>12, <2>1 DEF LoopInv, ConnectionsAccounted, Becomes
<1> QED BY <1>10, <1>11, <1>12 DEF Becomes

-----------------------------------------------------------------------------
(* An answer, from a handler that runs: its session is closed. *)
LEMMA AnswerKeeps ==
  ASSUME LoopInv, NEW c \in Calls, NEW answer \in {"done", "refused"},
         call[c].pc \notin {"new", "answered"}, loop \in {NoCall, c}, loop' = NoCall,
         Answer(c, answer), awake' = awake
  PROVE  LoopInv'
<1> DEFINE r == [pc |-> "answered", kind |-> call[c].kind, tenant |-> call[c].tenant,
                 answer |-> answer]
<1>1. Good(r, awake[c])
  BY AnswerGood DEF LoopInv
<1>2. ~HoldsAt(r) /\ r.pc # "token" /\ loop' # c
  BY LoopAssumption DEF HoldsAt
<1>3. free' = free \/ (Holds(c) /\ free' = free + 1)
  BY DEF Answer
<1>4. Becomes(c, r)
  BY <1>1, <1>2, <1>3 DEF Becomes, Answer, Goto
<1> QED BY <1>4, BecomesKeeps

(* The next request, or the wait for its token. *)
LEMMA EnterKeeps ==
  ASSUME LoopInv, NEW c \in Calls, NEW n \in 1..4, n <= Requests[call[c].kind],
         \/ call[c].pc = "database" /\ n = 1
         \/ call[c].pc = "request" /\ n = call[c].n + 1,
         loop = NoCall, Enter(c, n), free' = free, awake' = awake
  PROVE  LoopInv'
<1> DEFINE s == [pc |-> "token", kind |-> call[c].kind, tenant |-> call[c].tenant, n |-> n]
           q == [pc |-> "request", kind |-> call[c].kind, tenant |-> call[c].tenant, n |-> n,
                 quiet |-> 0]
<1>1. Good(s, awake[c]) /\ Good(q, awake[c])
  BY EnterGood DEF LoopInv
<1>2. HoldsAt(s) /\ HoldsAt(q) /\ Holds(c)
  BY DEF HoldsAt, Holds
<1>3. CASE n \in TokenBefore[call[c].kind]
  <2>1. Becomes(c, s)
    BY <1>1, <1>2, <1>3 DEF Becomes, Enter, Goto
  <2> QED BY <2>1, BecomesKeeps
<1>4. CASE n \notin TokenBefore[call[c].kind]
  <2>1. NoCall # c
    BY LoopAssumption
  <2>2. Becomes(c, q)
    BY <1>1, <1>2, <1>4, <2>1 DEF Becomes, Enter, Goto
  <2> QED BY <2>2, BecomesKeeps
<1> QED BY <1>3, <1>4

LEMMA GoOnKeeps ==
  ASSUME LoopInv, NEW c \in Calls, NEW n \in 1..5,
         \/ call[c].pc = "database" /\ n = 1
         \/ call[c].pc = "request" /\ n = call[c].n + 1,
         loop = NoCall, GoOn(c, n), awake' = awake
  PROVE  LoopInv'
<1>1. CASE Answer(c, "done") /\ loop' = NoCall
  BY <1>1, AnswerKeeps
<1>2. CASE n <= Requests[call[c].kind] /\ Enter(c, n) /\ UNCHANGED free
  <2>1. call[c].kind \in Kinds
    BY DEF LoopInv, Call
  <2>2. n \in 1..4
    BY <1>2, <2>1, RequestsTyped
  <2> QED BY <1>2, <2>2, EnterKeeps
<1> QED BY <1>1, <1>2 DEF GoOn

-----------------------------------------------------------------------------
(* Each operation of a request keeps the invariant.                          *)
LEMMA StepKeeps ==
  ASSUME LoopInv, NEW c \in Calls,
         \/ \E t \in Tenants : \E k \in Traffic[t] : Arrive(c, k, t)
         \/ Handler(c) \/ TokenReturns(c) \/ Replies(c) \/ Drips(c)
  PROVE  LoopInv'
<1>0. /\ call[c] \in Call /\ Good(call[c], awake[c]) /\ awake[c] \in Nat
      /\ call[c].pc = "token" <=> loop = c
      /\ loop \in Calls \cup {NoCall} /\ free \in Nat
  BY Sums DEF LoopInv
<1>1. ASSUME NEW t \in Tenants, NEW k \in Traffic[t], Arrive(c, k, t)
      PROVE  LoopInv'
  <2> DEFINE r == [pc |-> "arrived", kind |-> k, tenant |-> t, visit |-> 1]
  <2>1. k \in Kinds
    BY LoopAssumption
  <2>2. r \in Call
    BY <2>1 DEF Call
  <2>3. awake[c] = 0
    BY <1>0, <1>1 DEF Arrive, Good
  <2>4. Good(r, awake[c])
    <3>1. (1 - 1) * PoolTimeout \in Nat /\ (k = "health" \/ 1 <= Checkouts[k])
      BY <2>1, RequestsTyped, Sums
    <3> QED BY <2>2, <2>3, <3>1, <1>0 DEF Good, OnTime
  <2>5. Becomes(c, r)
    BY <2>4, <1>0, <1>1 DEF Becomes, Arrive, Goto, HoldsAt, Holds
  <2> QED BY <2>5, BecomesKeeps
<1>2. CASE Health(c)
  BY <1>2, AnswerKeeps DEF Health
<1>3. CASE Checkout(c)
  <2> DEFINE r == At(c, "database", call[c].visit)
  <2>1. /\ call[c].kind \in Kinds /\ call[c].tenant \in Tenants /\ call[c].visit \in 1..2
        /\ call[c].pc \in {"arrived", "queued"} /\ call[c].kind # "health"
    BY <1>0, <1>3 DEF Checkout, Call
  <2>2. /\ r \in Call /\ r.pc = "database" /\ r.kind = call[c].kind
        /\ r.tenant = call[c].tenant /\ r.visit = call[c].visit
    BY <2>1 DEF Call, At
  <2>3. call[c].tenant \notin Dripping => awake[c] <= call[c].visit * PoolTimeout
    BY <1>0, <2>1, VisitInTime
  <2>4. call[c].visit <= Checkouts[call[c].kind] /\ awake[c] \in 0..Patience + 1
    BY <1>0, <2>1 DEF Good
  <2> HIDE DEF r
  <2>5. Good(r, awake[c])
    BY <2>2, <2>3, <2>4 DEF Good, OnTime
  <2>6. HoldsAt(r) /\ ~Holds(c) /\ r.pc # "token" /\ loop # c
    BY <1>3, <2>1, <2>2, LoopAssumption DEF Checkout, HoldsAt, Holds
  <2>7. Becomes(c, r)
    BY <2>5, <2>6, <1>3 DEF Becomes, Checkout, Goto, r
  <2> QED BY <2>7, BecomesKeeps
<1>4. CASE Queue(c)
  <2> DEFINE r == [pc |-> "queued", kind |-> call[c].kind, tenant |-> call[c].tenant,
                   visit |-> call[c].visit, waited |-> 0]
  <2>1. /\ call[c].kind \in Kinds /\ call[c].tenant \in Tenants /\ call[c].visit \in 1..2
        /\ call[c].pc = "arrived" /\ call[c].kind # "health"
    BY <1>0, <1>4 DEF Queue, Call
  <2>2. /\ r \in Call /\ r.pc = "queued" /\ r.kind = call[c].kind /\ r.waited = 0
        /\ r.tenant = call[c].tenant /\ r.visit = call[c].visit
    BY <2>1, Sums DEF Call
  <2>3. (call[c].visit - 1) * PoolTimeout \in Nat
    BY <2>1, Sums
  <2> HIDE DEF r
  <2>4. Good(r, awake[c])
    BY <2>1, <2>2, <2>3, <1>0 DEF Good, OnTime
  <2>5. ~HoldsAt(r) /\ ~Holds(c) /\ r.pc # "token" /\ loop # c
    BY <1>4, <2>1, <2>2, LoopAssumption DEF Queue, HoldsAt, Holds
  <2>6. Becomes(c, r)
    BY <2>4, <2>5, <1>4 DEF Becomes, Queue, Goto, r
  <2> QED BY <2>6, BecomesKeeps
<1>5. CASE PoolTimesOut(c)
  BY <1>5, AnswerKeeps DEF PoolTimesOut
<1>6. CASE DatabaseAnswers(c)
  BY <1>6, GoOnKeeps DEF DatabaseAnswers
<1>7. CASE RequestTimesOut(c)
  BY <1>7, AnswerKeeps DEF RequestTimesOut
<1>8. CASE TokenReturns(c)
  <2>1. CASE Answer(c, "done")
    BY <1>0, <1>8, <2>1, AnswerKeeps DEF TokenReturns
  <2> DEFINE r == [pc |-> "request", kind |-> call[c].kind, tenant |-> call[c].tenant,
                   n |-> call[c].n, quiet |-> 0]
  <2>2. CASE Goto(c, r) /\ UNCHANGED free
    <3>1. call[c].pc = "token" /\ loop = c /\ loop' = NoCall
      BY <1>0, <1>8 DEF TokenReturns
    <3>2. call[c].kind \in Kinds /\ call[c].tenant \in Tenants /\ call[c].n \in 1..4
      BY <1>0, <3>1 DEF Call
    <3>3. r \in Call
      BY <3>2, Sums DEF Call
    <3>4. (call[c].n - 1) * RequestTimeout \in Nat /\ Connecting(call[c]) \in Nat
      BY <3>2, RequestsTyped, Sums DEF Connecting
    <3>5. Good(r, awake[c])
      <4>1. Connecting(r) = Connecting(call[c])
        BY DEF Connecting
      <4> QED BY <1>0, <3>1, <3>3, <3>4, <4>1 DEF Good, OnTime
    <3>6. HoldsAt(r) /\ Holds(c) /\ loop' # c
      BY <3>1, LoopAssumption DEF HoldsAt, Holds
    <3>7. Becomes(c, r)
      BY <3>1, <3>5, <3>6, <2>2, <1>8 DEF Becomes, TokenReturns, Goto
    <3> QED BY <3>7, BecomesKeeps
  <2> QED BY <2>1, <2>2, <1>8 DEF TokenReturns
<1>9. CASE Replies(c)
  <2>1. call[c].n \in 1..4
    BY <1>0, <1>9 DEF Replies, Call
  <2> QED BY <1>9, <2>1, GoOnKeeps DEF Replies
<1>10. CASE Drips(c)
  <2> DEFINE r == [call[c] EXCEPT !.quiet = 0]
  <2>1. r \in Call /\ r.pc = "request" /\ r.n = call[c].n /\ r.kind = call[c].kind
        /\ r.tenant = call[c].tenant
    BY <1>0, <1>10, Sums DEF Drips, Call
  <2>2. Good(r, awake[c])
    BY <2>1, <1>0, <1>10 DEF Good, Drips
  <2>3. HoldsAt(r) /\ Holds(c) /\ loop # c
    BY <2>1, <1>10, LoopAssumption DEF Drips, HoldsAt, Holds
  <2>4. Becomes(c, r)
    BY <2>1, <2>2, <2>3, <1>10 DEF Becomes, Drips, Goto
  <2> QED BY <2>4, BecomesKeeps
<1>11. CASE CommitReturns(c)
  <2> DEFINE r == At(c, "arrived", call[c].visit + 1)
  <2>1. /\ call[c].kind \in Kinds /\ call[c].tenant \in Tenants /\ call[c].visit \in 1..2
        /\ call[c].pc = "database" /\ call[c].visit < Checkouts[call[c].kind]
    BY <1>0, <1>11 DEF CommitReturns, Call
  <2>2. Checkouts[call[c].kind] \in 0..2
    BY <2>1, RequestsTyped
  <2>3. call[c].visit + 1 \in 1..2 /\ call[c].visit + 1 <= Checkouts[call[c].kind]
    BY <2>1, <2>2
  <2>4. /\ r \in Call /\ r.pc = "arrived" /\ r.kind = call[c].kind
        /\ r.tenant = call[c].tenant /\ r.visit = call[c].visit + 1
    BY <2>1, <2>3 DEF Call, At
  <2>5. call[c].tenant \notin Dripping => awake[c] <= call[c].visit * PoolTimeout
    BY <1>0, <2>1, VisitInTime
  <2>6. call[c].visit + 1 - 1 = call[c].visit
    BY <2>1
  <2> HIDE DEF r
  <2>7. Good(r, awake[c])
    <3>1. r.visit - 1 = call[c].visit /\ r.visit <= Checkouts[r.kind]
      BY <2>1, <2>2, <2>3, <2>4, <2>6
    <3>2. r.tenant \notin Dripping => OnTime(r, awake[c])
      BY <2>4, <2>5, <3>1 DEF OnTime
    <3> QED BY <1>0, <2>4, <3>1, <3>2 DEF Good
  <2>8. ~HoldsAt(r) /\ Holds(c) /\ r.pc # "token" /\ loop # c
    BY <1>11, <2>1, <2>4, LoopAssumption DEF CommitReturns, HoldsAt, Holds
  <2>9. Becomes(c, r)
    BY <2>7, <2>8, <1>11 DEF Becomes, CommitReturns, Goto, r
  <2> QED BY <2>9, BecomesKeeps
<1> QED BY <1>1, <1>2, <1>3, <1>4, <1>5, <1>6, <1>7, <1>8, <1>9, <1>10, <1>11 DEF Handler

(* So does time: a call that waits while the loop runs uses up a timer that   *)
(* is not due, and nobody else waits.                                        *)
LEMMA TickKeeps == ASSUME LoopInv, Tick PROVE LoopInv'
<1>1. ASSUME NEW c \in Calls
      PROVE  /\ Good(Aged(call[c]), awake'[c])
             /\ Aged(call[c]).pc = call[c].pc
             /\ awake'[c] \in 0..Patience + 1
  <2> DEFINE r == call[c]
             w == awake[c]
  <2>0. r \in Call /\ Good(r, w) /\ w \in 0..Patience + 1 /\ w \in Nat
    BY Sums DEF LoopInv
  <2>1. awake'[c] \in 0..Patience + 1 /\ (awake'[c] = w \/ awake'[c] = w + 1)
    BY <2>0, Sums DEF Tick, Later, LoopInv
  <2>2. CASE r.pc = "queued"
    <3>1. /\ Aged(r) \in Call /\ Aged(r).pc = "queued" /\ Aged(r).tenant = r.tenant
          /\ Aged(r).visit = r.visit /\ Aged(r).kind = r.kind
          /\ r.waited \in 0..PoolTimeout /\ r.visit \in 1..2
          /\ Aged(r).waited = Later(r.waited, PoolTimeout)
      BY <2>0, <2>2, Sums DEF Aged, Later, Call
    <3>2. awake'[c] = w + 1 => r.waited # PoolTimeout
      BY <2>0, <2>2 DEF Tick, Due, LoopInv
    <3>3. (r.visit - 1) * PoolTimeout \in Nat
      BY <3>1, Sums
    <3>4. ASSUME w <= (r.visit - 1) * PoolTimeout + r.waited
          PROVE  awake'[c] <= (r.visit - 1) * PoolTimeout + Aged(r).waited
      BY <2>0, <2>1, <3>1, <3>2, <3>3, <3>4, Sums DEF Later
    <3> QED BY <2>0, <2>1, <2>2, <3>1, <3>4 DEF Good, OnTime
  <2>3. CASE r.pc = "request"
    <3>1. /\ Aged(r) \in Call /\ Aged(r).pc = "request" /\ Aged(r).tenant = r.tenant
          /\ Aged(r).n = r.n /\ Aged(r).kind = r.kind
          /\ r.quiet \in 0..RequestTimeout /\ r.n \in 1..4
          /\ Aged(r).quiet = Later(r.quiet, RequestTimeout)
      BY <2>0, <2>3, Sums DEF Aged, Later, Call
    <3>2. awake'[c] = w + 1 => r.quiet # RequestTimeout
      BY <2>0, <2>3 DEF Tick, Due, LoopInv
    <3>3. /\ (r.n - 1) * RequestTimeout \in Nat /\ Connecting(r) \in Nat
          /\ Connecting(Aged(r)) = Connecting(r)
      <4>1. r.kind \in Kinds
        BY <2>0, <2>3 DEF Call
      <4> QED BY <3>1, <4>1, RequestsTyped, Sums DEF Connecting
    <3>4. /\ Aged(r).quiet \in Nat /\ r.quiet \in Nat /\ awake'[c] \in Nat
          /\ awake'[c] - w <= Aged(r).quiet - r.quiet
      BY <2>0, <2>1, <3>1, <3>2, Sums DEF Later
    <3>5. ASSUME w <= Connecting(r) + (r.n - 1) * RequestTimeout + r.quiet
          PROVE  awake'[c] <= Connecting(r) + (r.n - 1) * RequestTimeout + Aged(r).quiet
      BY <2>0, <3>3, <3>4, <3>5
    <3> QED BY <2>0, <2>1, <2>3, <3>1, <3>3, <3>5 DEF Good, OnTime
  <2>4. CASE r.pc \notin {"queued", "request"}
    <3>1. Aged(r) = r
      BY <2>4 DEF Aged
    <3>2. awake'[c] = w
      <4>1. CASE loop = NoCall
        <5>1. r.pc # "token"
          BY <4>1, LoopAssumption DEF LoopInv
        <5>2. ~Ready(c)
          BY <4>1 DEF Tick
        <5>3. ~Pending(c)
          BY <5>1, <5>2, <2>4 DEF Ready, Pending
        <5> QED BY <4>1, <5>3 DEF Tick, LoopInv
      <4>2. CASE loop # NoCall
        BY <4>2 DEF Tick
      <4> QED BY <4>1, <4>2
    <3> QED BY <2>0, <3>1, <3>2
  <2> QED BY <2>1, <2>2, <2>3, <2>4
<1>2. call' = [c \in Calls |-> Aged(call[c])] /\ loop' = loop /\ free' = free
  BY DEF Tick
<1>3. call' \in [Calls -> Call] /\ \A c \in Calls : Good(call'[c], awake'[c])
  BY <1>1, <1>2 DEF Good
<1>4. \A c \in Calls : call'[c].pc = call[c].pc
  BY <1>1, <1>2
<1>5. awake' \in [Calls -> 0..Patience + 1]
  <2>1. awake' = awake \/ awake' = [c \in Calls |-> IF Pending(c) THEN Later(awake[c], Patience + 1)
                                                                   ELSE awake[c]]
    BY DEF Tick
  <2>2. awake' = [c \in Calls |-> awake'[c]]
    BY <2>1 DEF LoopInv
  <2> QED BY <1>1, <2>2
<1>6. {c \in Calls : Holds(c)'} = {c \in Calls : Holds(c)}
  BY <1>4 DEF Holds
<1> QED BY <1>2, <1>3, <1>4, <1>5, <1>6 DEF LoopInv, ConnectionsAccounted

-----------------------------------------------------------------------------
LEMMA LoopInvariant == LoopSpec => []LoopInv
<1>1. LoopInit => LoopInv
  <2> SUFFICES ASSUME LoopInit PROVE LoopInv
    OBVIOUS
  <2>1. \A c \in Calls : call[c] \in Call /\ Good(call[c], awake[c]) /\ call[c].pc = "new"
    BY Sums DEF LoopInit, Good, Call
  <2>2. {c \in Calls : Holds(c)} = {}
    BY <2>1 DEF Holds
  <2>3. Cardinality({}) = 0
    BY FS_EmptySet
  <2>4. ConnectionsAccounted
    BY <2>2, <2>3, LoopAssumption DEF ConnectionsAccounted, LoopInit
  <2>5. call \in [Calls -> Call] /\ awake \in [Calls -> 0..Patience + 1]
    BY <2>1, Sums DEF LoopInit
  <2> QED BY <2>1, <2>4, <2>5, LoopAssumption DEF LoopInv, LoopInit
<1>2. LoopInv /\ [LoopNext]_vars => LoopInv'
  <2> SUFFICES ASSUME LoopInv, [LoopNext]_vars PROVE LoopInv'
    OBVIOUS
  <2>1. CASE UNCHANGED vars
    <3>1. \A c \in Calls : Holds(c)' <=> Holds(c)
      BY <2>1 DEF vars, Holds
    <3> QED BY <2>1, <3>1 DEF vars, LoopInv, ConnectionsAccounted
  <2>2. CASE Tick
    BY <2>2, TickKeeps
  <2> QED BY <2>1, <2>2, StepKeeps DEF LoopNext
<1> QED BY <1>1, <1>2, PTL DEF LoopSpec

(* Every reachable state is well formed; in particular nobody ever returns a  *)
(* connection it does not hold, so the pool never seems larger than it is.    *)
THEOREM LoopTypeCorrect == LoopSpec => []LoopTypeOK
<1>1. LoopInv => LoopTypeOK
  <2> SUFFICES ASSUME LoopInv PROVE LoopTypeOK
    OBVIOUS
  <2>1. Cardinality({c \in Calls : Holds(c)}) \in Nat
    BY FS_Subset, FS_CardinalityType, LoopAssumption
  <2>2. free \in 0..PoolSize
    BY <2>1, LoopAssumption DEF LoopInv, ConnectionsAccounted
  <2> QED BY <2>2 DEF LoopInv, LoopTypeOK
<1> QED BY <1>1, LoopInvariant, PTL

(* However a request ends, the connection it holds goes back: for any size of *)
(* the pool and any number of requests, none is lost.                         *)
THEOREM NoConnectionIsLost == LoopSpec => []ConnectionsAccounted
<1>1. LoopInv => ConnectionsAccounted
  BY DEF LoopInv
<1> QED BY <1>1, LoopInvariant, PTL

(* Whatever other calls and backends do, and however many there are, a call   *)
(* whose own backends do not drip is over within the pool's timeout for each  *)
(* connection it takes (two for a POST of credentials) and those of its own   *)
(* requests, while the loop runs.                                             *)
THEOREM CallsEndInTime == LoopSpec => []LatencyBounded
<1>1. LoopInv => LatencyBounded
  <2> SUFFICES ASSUME LoopInv, NEW c \in Calls, call[c].pc # "new",
                      call[c].tenant \notin Dripping
               PROVE  awake[c] <= Connecting(call[c]) + Requests[call[c].kind] * RequestTimeout
    BY DEF LatencyBounded, Connecting
  <2>1. Good(call[c], awake[c])
    BY DEF LoopInv
  <2>2. CASE call[c].pc = "answered"
    BY <2>1, <2>2 DEF Good, OnTime
  <2>3. CASE call[c].pc # "answered"
    <3> DEFINE s == [pc |-> "answered", kind |-> call[c].kind, tenant |-> call[c].tenant,
                     answer |-> "done"]
    <3>1. Good(s, awake[c])
      BY <2>1, <2>3, AnswerGood
    <3> QED BY <3>1 DEF Good, OnTime, Connecting
  <2> QED BY <2>2, <2>3
<1> QED BY <1>1, LoopInvariant, PTL
=============================================================================
