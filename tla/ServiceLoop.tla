---------------------------- MODULE ServiceLoop ----------------------------
(***************************************************************************)
(* What the requests of one process share besides data: the event loop,     *)
(* and the connections of the database pool.                                *)
(*                                                                         *)
(* A session takes a connection for its first statement and keeps it to a    *)
(* commit or to its end; a tool call's session encloses its requests to the  *)
(* vault and to the backend, and a POST of credentials takes a second one    *)
(* after its commit, for the refresh.  When every connection is taken the    *)
(* request waits, each time at most PoolTimeout, then fails.  A request to a *)
(* backend fails when nothing of the reply has come for RequestTimeout.     *)
(* msal asks for a token synchronously: meanwhile no handler and no timer    *)
(* of any request runs, and nothing limits how long that lasts.             *)
(***************************************************************************)
EXTENDS Tenancy, Naturals, FiniteSets

CONSTANTS Calls,           \* the requests to the service, each made once
          Traffic,         \* Traffic[t]: the kinds of request that come for tenant t
          PoolSize,        \* connections: pool_size + max_overflow
          PoolTimeout,     \* ticks a checkout waits for a connection
          RequestTimeout,  \* ticks of silence a request to a backend bears
          ReplyTime,       \* ticks a backend that is well takes to reply, at most
          SlowLogin,       \* tenants whose Entra login may be slow to give a token
          Silent,          \* tenants whose vault or backend may keep silent
          Dripping,        \* those whose backend may also send its reply bit by bit
          NoCall           \* the loop is not blocked

(* GET /health; a GET or DELETE of credentials, and a POST of them; a call of *)
(* a custom API tool; one of a CRM tool whose registration is cached, and one *)
(* whose is not.                                                             *)
Kinds == {"health", "admin", "post", "custom", "warm", "cold"}

ASSUME LoopAssumption == /\ PoolSize \in Nat \ {0}
                         /\ PoolTimeout \in Nat \ {0}
                         /\ RequestTimeout \in Nat \ {0}
                         /\ ReplyTime \in Nat
                         /\ Dripping \subseteq Silent
                         /\ NoCall \notin Calls
                         /\ Traffic \in [Tenants -> SUBSET Kinds]
                         /\ IsFiniteSet(Calls)

(* How often it takes a connection: the statements of a POST end with a       *)
(* commit(), which returns it, and refresh() takes one again.                *)
Checkouts == [health |-> 0, admin |-> 1, post |-> 2, custom |-> 1, warm |-> 1, cold |-> 1]

(* How many requests to vault and backend a call makes: cold, two secrets,   *)
(* and warm or cold, the account and then its cases.                         *)
Requests == [health |-> 0, admin |-> 0, post |-> 0, custom |-> 1, warm |-> 2, cold |-> 4]

(* Before which of them it waits for a token (msal keeps each token it gets, *)
(* in the client that asked for it).                                          *)
TokenBefore ==
  [health |-> {}, admin |-> {}, post |-> {}, custom |-> {}, warm |-> {1}, cold |-> {1, 3}]

VARIABLES
  loop,   \* the call inside msal, which blocks the loop, or NoCall
  free,   \* connections nobody holds
  call,   \* call[c]: where request c stands
  awake   \* history: ticks request c has seen with the loop running, to Patience + 1

vars == <<loop, free, call, awake>>

(* The longest any call should take while the loop runs. *)
Patience == 2 * PoolTimeout + 4 * RequestTimeout

Call ==
       [pc : {"new"}]
  \cup [pc : {"arrived", "database"}, kind : Kinds, tenant : Tenants, visit : 1..2]
  \cup [pc : {"queued"}, kind : Kinds, tenant : Tenants, visit : 1..2, waited : 0..PoolTimeout]
  \cup [pc : {"token"}, kind : Kinds, tenant : Tenants, n : 1..4]
  \cup [pc : {"request"}, kind : Kinds, tenant : Tenants, n : 1..4, quiet : 0..RequestTimeout]
  \cup [pc : {"answered"}, kind : Kinds, tenant : Tenants, answer : {"done", "refused"}]

LoopTypeOK == /\ loop \in Calls \cup {NoCall}
              /\ free \in 0..PoolSize
              /\ call \in [Calls -> Call]
              /\ awake \in [Calls -> 0..Patience + 1]

LoopInit == /\ loop = NoCall
            /\ free = PoolSize
            /\ call = [c \in Calls |-> [pc |-> "new"]]
            /\ awake = [c \in Calls |-> 0]

-----------------------------------------------------------------------------
Holds(c) == call[c].pc \in {"database", "token", "request"}

Goto(c, r) == call' = [call EXCEPT ![c] = r]

(* Request c, about to take its n-th connection, or with it at the database. *)
At(c, pc, n) == [pc |-> pc, kind |-> call[c].kind, tenant |-> call[c].tenant, visit |-> n]

(* Mutant: a session that is closed early by an error keeps its connection. *)
AnswerKeeping(c, answer) ==
  /\ Goto(c, [pc |-> "answered", kind |-> call[c].kind, tenant |-> call[c].tenant,
              answer |-> answer])
  /\ free' = IF call[c].pc = "database" THEN free + 1 ELSE free

(* Mutant: every answer returns a connection. *)
AnswerReleasing(c, answer) ==
  /\ Goto(c, [pc |-> "answered", kind |-> call[c].kind, tenant |-> call[c].tenant,
              answer |-> answer])
  /\ free' = free + 1

(* The session, if there is one, closes before the answer is sent. *)
Answer(c, answer) ==
  /\ Goto(c, [pc |-> "answered", kind |-> call[c].kind, tenant |-> call[c].tenant,
              answer |-> answer])
  /\ free' = IF Holds(c) THEN free + 1 ELSE free

(* The handler goes on, without a pause, to its n-th request. *)
Enter(c, n) ==
  IF n \in TokenBefore[call[c].kind]
  THEN /\ loop' = c
       /\ Goto(c, [pc |-> "token", kind |-> call[c].kind, tenant |-> call[c].tenant, n |-> n])
  ELSE /\ loop' = NoCall
       /\ Goto(c, [pc |-> "request", kind |-> call[c].kind, tenant |-> call[c].tenant,
                   n |-> n, quiet |-> 0])

(* The handler ends, or makes its n-th request if it has as many to make. *)
GoOn(c, n) == \/ Answer(c, "done") /\ loop' = NoCall
              \/ n <= Requests[call[c].kind] /\ Enter(c, n) /\ UNCHANGED free

-----------------------------------------------------------------------------
Arrive(c, k, t) ==
  /\ call[c].pc = "new"
  /\ Goto(c, [pc |-> "arrived", kind |-> k, tenant |-> t, visit |-> 1])
  /\ UNCHANGED <<loop, free, awake>>

(* health returns without a session. *)
Health(c) ==
  /\ loop = NoCall
  /\ call[c].pc = "arrived" /\ call[c].kind = "health"
  /\ Answer(c, "done")
  /\ UNCHANGED <<loop, awake>>

(* A session's first statement, and refresh() after a commit, takes a connection ... *)
Checkout(c) ==
  /\ loop = NoCall
  /\ call[c].pc \in {"arrived", "queued"} /\ call[c].kind # "health"
  /\ free > 0
  /\ free' = free - 1
  /\ Goto(c, At(c, "database", call[c].visit))
  /\ UNCHANGED <<loop, awake>>

(* ... or, if there is none, waits for one. *)
Queue(c) ==
  /\ loop = NoCall
  /\ call[c].pc = "arrived" /\ call[c].kind # "health"
  /\ free = 0
  /\ Goto(c, [pc |-> "queued", kind |-> call[c].kind, tenant |-> call[c].tenant,
              visit |-> call[c].visit, waited |-> 0])
  /\ UNCHANGED <<loop, free, awake>>

(* Mutant: a checkout waits for ever. *)
PoolTimesOutNever(c) == FALSE /\ UNCHANGED <<loop, free, call, awake, c>>

(* sqlalchemy.exc.TimeoutError, which no handler catches: HTTP 500. *)
PoolTimesOut(c) ==
  /\ loop = NoCall
  /\ call[c].pc = "queued" /\ call[c].waited = PoolTimeout
  /\ Answer(c, "refused")
  /\ UNCHANGED <<loop, awake>>

(* commit() returns the connection of a POST; its refresh() needs another.  If *)
(* that one does not come the POST is refused, although it has committed.      *)
CommitReturns(c) ==
  /\ loop = NoCall
  /\ call[c].pc = "database" /\ call[c].visit < Checkouts[call[c].kind]
  /\ Goto(c, At(c, "arrived", call[c].visit + 1))
  /\ free' = free + 1
  /\ UNCHANGED <<loop, awake>>

(* The statements are answered, well or badly: see CredentialStore. *)
DatabaseAnswers(c) ==
  /\ loop = NoCall
  /\ call[c].pc = "database"
  /\ GoOn(c, 1)
  /\ UNCHANGED awake

(* msal returns: a token, or an error the tool answers. *)
TokenReturns(c) ==
  /\ loop = c
  /\ \/ /\ Goto(c, [pc |-> "request", kind |-> call[c].kind, tenant |-> call[c].tenant,
                    n |-> call[c].n, quiet |-> 0])
        /\ UNCHANGED free
     \/ Answer(c, "done")
  /\ loop' = NoCall
  /\ UNCHANGED awake

(* The reply is complete, or the connection broke: see ToolCalls. *)
Replies(c) ==
  /\ loop = NoCall
  /\ call[c].pc = "request"
  /\ GoOn(c, call[c].n + 1)
  /\ UNCHANGED awake

(* A part of the reply: httpx counts its timeout anew for every read. *)
Drips(c) ==
  /\ loop = NoCall
  /\ call[c].pc = "request" /\ call[c].tenant \in Dripping
  /\ Goto(c, [call[c] EXCEPT !.quiet = 0])
  /\ UNCHANGED <<loop, free, awake>>

(* httpx.TimeoutException, which is an HTTPError. *)
RequestTimesOut(c) ==
  /\ loop = NoCall
  /\ call[c].pc = "request" /\ call[c].quiet = RequestTimeout
  /\ Answer(c, "done")
  /\ UNCHANGED <<loop, awake>>

-----------------------------------------------------------------------------
(* Time.  Handlers take none, nor does the database; backends of a tenant    *)
(* that is not Silent have replied by ReplyTime.  A timer fires as soon as    *)
(* the loop runs once it is due.                                             *)
Later(n, limit) == IF n < limit THEN n + 1 ELSE n

(* Mutant: the client was made without a timeout. *)
DuePoolOnly(c) == call[c].pc = "queued" /\ call[c].waited = PoolTimeout

Due(c) == \/ call[c].pc = "queued" /\ call[c].waited = PoolTimeout
          \/ call[c].pc = "request" /\ call[c].quiet = RequestTimeout

Ready(c) == \/ call[c].pc \in {"arrived", "database"}
            \/ call[c].pc = "queued" /\ free > 0
            \/ /\ call[c].pc = "request" /\ call[c].tenant \notin Silent
               /\ call[c].quiet >= ReplyTime

Pending(c) == call[c].pc \in {"arrived", "queued", "database", "token", "request"}

Aged(r) == CASE r.pc = "queued"  -> [r EXCEPT !.waited = Later(@, PoolTimeout)]
             [] r.pc = "request" -> [r EXCEPT !.quiet = Later(@, RequestTimeout)]
             [] OTHER -> r

Tick ==
  /\ \/ /\ loop = NoCall
        /\ \A c \in Calls : ~Due(c) /\ ~Ready(c)
        /\ awake' = [c \in Calls |-> IF Pending(c) THEN Later(awake[c], Patience + 1)
                                                   ELSE awake[c]]
     \/ /\ loop # NoCall
        /\ call[loop].tenant \in SlowLogin
        /\ UNCHANGED awake
  /\ call' = [c \in Calls |-> Aged(call[c])]
  /\ UNCHANGED <<loop, free>>

(* What the process does by itself: run its handlers and fire its timers. *)
Handler(c) == \/ Health(c) \/ Checkout(c) \/ Queue(c) \/ PoolTimesOut(c)
              \/ CommitReturns(c) \/ DatabaseAnswers(c) \/ RequestTimesOut(c)

LoopNext == \/ Tick
            \/ \E c \in Calls :
                 \/ \E t \in Tenants : \E k \in Traffic[t] : Arrive(c, k, t)
                 \/ Handler(c) \/ TokenReturns(c) \/ Replies(c) \/ Drips(c)

LoopSpec == LoopInit /\ [][LoopNext]_vars

(* The loop runs, time passes, msal returns in the end, and the backends of   *)
(* a tenant that is not Silent reply.  Nothing makes a Silent one reply.      *)
Fairness == /\ WF_vars(Tick)
            /\ \A c \in Calls : /\ WF_vars(Handler(c))
                                /\ WF_vars(TokenReturns(c))
                                /\ WF_vars(Replies(c) /\ call[c].tenant \notin Silent)

FairLoopSpec == LoopSpec /\ Fairness

-----------------------------------------------------------------------------
(* No path loses or invents a connection, whether it ends with an answer, a  *)
(* timeout or an error before, during or after a request: those nobody holds *)
(* and those held by a call in progress are always the whole pool.           *)
ConnectionsAccounted == free + Cardinality({c \in Calls : Holds(c)}) = PoolSize

(* Whatever other tenants' calls and backends do, a call is over within the   *)
(* pool's timeout for each connection it takes and that of each of its own    *)
(* requests, not counting the time the loop was blocked; only a backend that  *)
(* sends its reply bit by bit can prolong its own tenant's calls, for httpx's  *)
(* timeout is not one of the whole request.  An operator's POST may so wait    *)
(* twice as long as a GET, and fail after it has committed.                   *)
LatencyBounded ==
  \A c \in Calls : call[c].pc # "new" /\ call[c].tenant \notin Dripping
     => awake[c] <= Checkouts[call[c].kind] * PoolTimeout + Requests[call[c].kind] * RequestTimeout

(* ... and every such call is answered, if only with an error: a tenant's     *)
(* backend that holds connections for ever cannot keep others waiting so.     *)
EveryCallIsAnswered ==
  \A c \in Calls : call[c].pc = "arrived" /\ call[c].tenant \notin Dripping
     ~> call[c].pc = "answered"

-----------------------------------------------------------------------------
(* What the documents say, and the code does not keep.                       *)

(* "a vault outage degrades only the tenant being called rather than the     *)
(* whole service" (crm_resolver.py): no other tenant's call fails for it.     *)
OutageIsLocal ==
  \A c \in Calls : call[c].pc = "answered" /\ call[c].answer = "refused"
     => call[c].tenant \in Silent
=============================================================================
