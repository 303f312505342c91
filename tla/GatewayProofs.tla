--------------------------- MODULE GatewayProofs ---------------------------
(***************************************************************************)
(* What holds of the gateway for every list of sub-apps whose prefixes do    *)
(* not shadow one another, every number of requests and every log context.   *)
(***************************************************************************)
EXTENDS Gateway, SequenceTheorems, TLAPS

-----------------------------------------------------------------------------
(* The tag of a path is a sub-app or the gateway. *)
LEMMA ServiceExists ==
  ASSUME NEW path \in Paths
  PROVE  ServiceForPath(path) \in Services
BY DEF ServiceForPath, Services, Subs

(* Binding and unbinding keep a context well formed. *)
LEMMA BoundContext ==
  ASSUME NEW ctx \in Context, NEW d \in Contexts
  PROVE  bind_contextvars(ctx, d) \in Context
<1>1. \A k \in DOMAIN d : d[k] \in Values
  BY DEF Values
<1> QED BY <1>1 DEF bind_contextvars, Context

LEMMA UnboundContext ==
  ASSUME NEW ctx \in Context, NEW keys
  PROVE  unbind_contextvars(ctx, keys) \in Context
BY DEF unbind_contextvars, Context

(* The context of a request at call_next. *)
LEMMA ServiceContext ==
  ASSUME NEW path \in Paths,
         NEW ctx, ctx = bind_contextvars(Empty, [service |-> ServiceForPath(path)])
  PROVE  ctx \in Context /\ ctx["service"] = ServiceForPath(path)
<1>1. ServiceForPath(path) \in Values
  BY ServiceExists DEF Values
<1> QED BY <1>1 DEF bind_contextvars, Empty, Context

(* A line always has a service. *)
LEMMA TagIsAValue ==
  ASSUME NEW ctx \in Context
  PROVE  ServiceTag(ctx) \in Values
BY DEF ServiceTag, Context, Values, Services

-----------------------------------------------------------------------------
(* A step of the lifespan, and one of a request, keep the state well formed. *)
LEMMA LifespanTyped ==
  ASSUME GatewayTypeOK, Lifespan
  PROVE  GatewayTypeOK'
<1> USE DEF GatewayTypeOK
<1>1. CASE Configure \/ Serve \/ Shutdown \/ Unwound
  BY <1>1 DEF Configure, Serve, Shutdown, Unwound
<1>2. CASE Restart
  BY <1>2, EmptySeq DEF Restart
<1>3. CASE SubDown
  <2>1. SubSeq(stack, 1, Len(stack) - 1) \in Seq(Subs)
    BY <1>3, SubSeqProperties DEF SubDown
  <2> QED BY <1>3, <2>1 DEF SubDown
<1>4. ASSUME NEW s \in Subs, SubUp(s) \/ SubFails(s) PROVE GatewayTypeOK'
  BY <1>4 DEF SubUp, SubFails
<1> QED BY <1>1, <1>2, <1>3, <1>4 DEF Lifespan

LEMMA RequestTyped ==
  ASSUME GatewayTypeOK, NEW r \in Requests, RequestStep(r)
  PROVE  GatewayTypeOK'
<1> USE DEF GatewayTypeOK
<1>0. req[r] \in Request
  OBVIOUS
<1>1. ASSUME NEW path \in Paths, BindService(r, path) PROVE GatewayTypeOK'
  <2>1. PICK ctx : ctx = bind_contextvars(Empty, [service |-> ServiceForPath(path)])
    OBVIOUS
  <2>2. ctx \in Context
    BY <2>1, ServiceContext
  <2>3. <<>> \in Seq(Contexts)
    BY EmptySeq
  <2>4. [pc |-> "inside", path |-> path, outer |-> ctx, inner |-> ctx,
         blocks |-> <<>>] \in Request
    BY <2>2, <2>3 DEF Request
  <2> QED BY <1>1, <2>1, <2>4 DEF BindService
<1>2. ASSUME NEW d \in Contexts, EnterContext(r, d) PROVE GatewayTypeOK'
  <2>1. req[r] \in [pc : {"inside"}, path : Paths, outer : Context, inner : Context,
                    blocks : Seq(Contexts)]
    BY <1>0, <1>2 DEF EnterContext, Request
  <2>2. bind_contextvars(req[r].inner, d) \in Context
    BY <2>1, BoundContext
  <2>3. Append(req[r].blocks, d) \in Seq(Contexts)
    BY <2>1
  <2>5. [req[r] EXCEPT !.inner = bind_contextvars(req[r].inner, d),
                       !.blocks = Append(req[r].blocks, d)] \in Request
    BY <2>1, <2>2, <2>3 DEF Request
  <2> QED BY <1>2, <2>5 DEF EnterContext
<1>3. CASE ExitContext(r)
  <2>1. /\ req[r] \in [pc : {"inside"}, path : Paths, outer : Context, inner : Context,
                       blocks : Seq(Contexts)]
        /\ req[r].blocks # <<>>
    BY <1>0, <1>3 DEF ExitContext, Request
  <2>2. PICK blocks \in Seq(Contexts) : blocks = req[r].blocks
    BY <2>1
  <2>3. blocks[Len(blocks)] \in Contexts /\ SubSeq(blocks, 1, Len(blocks) - 1) \in Seq(Contexts)
    BY <2>1, <2>2, SubSeqProperties
  <2>4. PICK keys : keys = DOMAIN blocks[Len(blocks)]
    OBVIOUS
  <2>5. keys \subseteq Keys
    BY <2>3, <2>4, ContextsAssumption
  <2>6. unbind_contextvars(req[r].inner, keys) \in Context
    BY <2>1, UnboundContext
  <2>7. [req[r] EXCEPT !.inner = unbind_contextvars(req[r].inner, keys),
                       !.blocks = SubSeq(blocks, 1, Len(blocks) - 1)] \in Request
    BY <2>1, <2>3, <2>5, <2>6 DEF Request
  <2> QED BY <1>3, <2>2, <2>4, <2>7 DEF ExitContext
<1>4. CASE AppLogs(r)
  <2>1. req[r].path \in Paths /\ req[r].inner \in Context
    BY <1>0, <1>4 DEF AppLogs, Request
  <2>2. ServiceTag(req[r].inner) \in Values
    BY <2>1, TagIsAValue
  <2> QED BY <1>4, <2>1, <2>2 DEF AppLogs
<1>5. CASE Leave(r)
  BY <1>0, <1>5 DEF Leave, Request
<1>6. CASE UnbindService(r)
  <2>1. req[r] \in [pc : {"left"}, path : Paths, outer : Context]
    BY <1>0, <1>6 DEF UnbindService, Request
  <2>2. unbind_contextvars(req[r].outer, {"service"}) \in Context
    BY <2>1, UnboundContext
  <2>3. [pc |-> "returned", path |-> req[r].path,
         outer |-> unbind_contextvars(req[r].outer, {"service"})] \in Request
    BY <2>1, <2>2 DEF Request
  <2> QED BY <1>6, <2>3 DEF UnbindService
<1>7. CASE ServerLogs(r)
  <2>1. req[r].path \in Paths /\ req[r].outer \in Context
    BY <1>0, <1>7 DEF ServerLogs, Request
  <2>2. ServiceTag(req[r].outer) \in Values
    BY <2>1, TagIsAValue
  <2> QED BY <1>7, <2>1, <2>2 DEF ServerLogs, Request
<1> QED BY <1>1, <1>2, <1>3, <1>4, <1>5, <1>6, <1>7 DEF RequestStep

(* Every reachable state of the gateway is well formed: no line lacks a       *)
(* service, whatever is bound and unbound.                                     *)
THEOREM GatewayTypeCorrect == GatewaySpec => []GatewayTypeOK
<1>1. GatewayInit => GatewayTypeOK
  BY EmptySeq DEF GatewayInit, GatewayTypeOK, Request
<1>2. GatewayTypeOK /\ [GatewayNext]_vars => GatewayTypeOK'
  <2>1. GatewayTypeOK /\ UNCHANGED vars => GatewayTypeOK'
    BY DEF GatewayTypeOK, vars
  <2> QED BY <2>1, LifespanTyped, RequestTyped DEF GatewayNext
<1> QED BY <1>1, <1>2, PTL DEF GatewaySpec

-----------------------------------------------------------------------------
(* While the app handles a request, the context of its task has the tag of    *)
(* the request's path: log_context never touches it.                           *)
Tagged(r) == req[r].pc = "inside" => req[r].inner["service"] = ServiceForPath(req[r].path)

LEMMA BindKeepsTag ==
  ASSUME NEW ctx \in Context, NEW d \in Contexts
  PROVE  bind_contextvars(ctx, d)["service"] = ctx["service"]
BY ContextsAssumption DEF bind_contextvars, Context

LEMMA UnbindKeepsTag ==
  ASSUME NEW ctx \in Context, NEW keys \in SUBSET Keys
  PROVE  unbind_contextvars(ctx, keys)["service"] = ctx["service"]
BY ContextsAssumption DEF unbind_contextvars, Context

(* What a request's app holds is as its type says. *)
LEMMA InsideTyped ==
  ASSUME GatewayTypeOK, NEW r \in Requests, req[r].pc = "inside"
  PROVE  req[r] \in [pc : {"inside"}, path : Paths, outer : Context, inner : Context,
                     blocks : Seq(Contexts)]
BY DEF GatewayTypeOK, Request

(* The innermost block of a request, its keys, and the blocks without it. *)
LEMMA Innermost ==
  ASSUME NEW blocks \in Seq(Contexts), blocks # <<>>
  PROVE  LET n == Len(blocks)  rest == SubSeq(blocks, 1, n - 1)  IN
         /\ n \in Nat \ {0} /\ blocks[n] \in Contexts /\ DOMAIN blocks[n] \in SUBSET Keys
         /\ rest \in Seq(Contexts) /\ Len(rest) = n - 1
         /\ \A i \in 1..(n - 1) : rest[i] = blocks[i]
<1>1. Len(blocks) \in Nat \ {0} /\ blocks[Len(blocks)] \in Contexts
  OBVIOUS
<1>2. DOMAIN blocks[Len(blocks)] \in SUBSET Keys
  BY <1>1, ContextsAssumption
<1>3. \A i \in 1..(Len(blocks) - 1) : blocks[i] \in Contexts
  OBVIOUS
<1>4. /\ SubSeq(blocks, 1, Len(blocks) - 1) \in Seq(Contexts)
      /\ Len(SubSeq(blocks, 1, Len(blocks) - 1)) = Len(blocks) - 1
      /\ \A i \in 1..(Len(blocks) - 1) : SubSeq(blocks, 1, Len(blocks) - 1)[i] = blocks[i]
  <2> DEFINE n == Len(blocks) - 1
  <2>1. n \in Nat
    BY <1>1
  <2> HIDE DEF n
  <2>2. /\ SubSeq(blocks, 1, n) \in Seq(Contexts)
        /\ Len(SubSeq(blocks, 1, n)) = IF 1 <= n THEN n - 1 + 1 ELSE 0
        /\ \A i \in 1..(n - 1 + 1) : SubSeq(blocks, 1, n)[i] = blocks[1 + i - 1]
    BY <1>3, <2>1, SubSeqProperties DEF n
  <2>3. /\ n - 1 + 1 = n
        /\ \A i \in 1..n : 1 + i - 1 = i
        /\ (IF 1 <= n THEN n - 1 + 1 ELSE 0) = n
    BY <2>1
  <2> QED BY <2>2, <2>3 DEF n
<1> QED BY <1>1, <1>2, <1>4

(* A step of a request keeps its tag; one of another leaves it alone. *)
LEMMA TagKept ==
  ASSUME GatewayTypeOK, NEW r \in Requests, Tagged(r), RequestStep(r)
  PROVE  Tagged(r)'
<1> USE DEF GatewayTypeOK
<1>1. ASSUME NEW path \in Paths, BindService(r, path) PROVE Tagged(r)'
  <2>1. PICK ctx : ctx = bind_contextvars(Empty, [service |-> ServiceForPath(path)])
    OBVIOUS
  <2>2. ctx["service"] = ServiceForPath(path)
    BY <2>1, ServiceContext
  <2>3. req'[r] = [pc |-> "inside", path |-> path, outer |-> ctx, inner |-> ctx,
                   blocks |-> <<>>]
    BY <1>1, <2>1 DEF BindService
  <2> QED BY <2>2, <2>3 DEF Tagged
<1>2. ASSUME NEW d \in Contexts, EnterContext(r, d) PROVE Tagged(r)'
  <2>1. req[r] \in [pc : {"inside"}, path : Paths, outer : Context, inner : Context,
                    blocks : Seq(Contexts)]
    BY <1>2, InsideTyped DEF EnterContext
  <2>2. /\ req'[r].inner = bind_contextvars(req[r].inner, d)
        /\ req'[r].path = req[r].path
    BY <1>2, <2>1 DEF EnterContext
  <2> QED BY <1>2, <2>1, <2>2, BindKeepsTag DEF Tagged, EnterContext
<1>3. CASE ExitContext(r)
  <2>1. req[r] \in [pc : {"inside"}, path : Paths, outer : Context, inner : Context,
                    blocks : Seq(Contexts)]
    BY <1>3, InsideTyped DEF ExitContext
  <2>2. PICK keys \in SUBSET Keys : keys = DOMAIN req[r].blocks[Len(req[r].blocks)]
    BY <1>3, <2>1, Innermost DEF ExitContext
  <2>3. /\ req'[r].inner = unbind_contextvars(req[r].inner, keys)
        /\ req'[r].path = req[r].path
    BY <1>3, <2>1, <2>2 DEF ExitContext
  <2> QED BY <1>3, <2>1, <2>3, UnbindKeepsTag DEF Tagged, ExitContext
<1>4. CASE AppLogs(r)
  BY <1>4 DEF AppLogs, Tagged
<1>5. CASE Leave(r) \/ UnbindService(r) \/ ServerLogs(r)
  BY <1>5 DEF Leave, UnbindService, ServerLogs, Tagged
<1> QED BY <1>1, <1>2, <1>3, <1>4, <1>5 DEF RequestStep

LEMMA OtherRequests ==
  ASSUME GatewayTypeOK, NEW r \in Requests, NEW q \in Requests, q # r, RequestStep(q)
  PROVE  req'[r] = req[r]
BY DEF GatewayTypeOK, RequestStep, BindService, EnterContext, ExitContext, AppLogs, Leave,
       UnbindService, ServerLogs

LEMMA LifespanLeavesRequests ==
  ASSUME Lifespan
  PROVE  req' = req /\ line' = line
BY DEF Lifespan, Configure, Serve, Shutdown, SubDown, Unwound, Restart, SubUp, SubFails

(* What a sub-app logs for a request carries the sub-app's name, whatever      *)
(* other requests do meanwhile.                                                 *)
THEOREM LinesCarryTheirService == GatewaySpec => []LinesAreTagged
<1> DEFINE Inv == LinesAreTagged /\ \A r \in Requests : Tagged(r)
<1>1. GatewayInit => Inv
  BY DEF GatewayInit, LinesAreTagged, Tagged
<1>2. GatewayTypeOK /\ Inv /\ [GatewayNext]_vars => Inv'
  <2> SUFFICES ASSUME GatewayTypeOK, Inv, [GatewayNext]_vars PROVE Inv'
    OBVIOUS
  <2>1. CASE UNCHANGED vars
    BY <2>1 DEF vars, LinesAreTagged, Tagged
  <2>2. CASE Lifespan
    BY <2>2, LifespanLeavesRequests DEF LinesAreTagged, Tagged
  <2>3. ASSUME NEW q \in Requests, RequestStep(q) PROVE Inv'
    <3>1. ASSUME NEW r \in Requests PROVE Tagged(r)'
      <4>1. CASE r = q
        BY <2>3, <4>1, TagKept
      <4>2. CASE r # q
        BY <2>3, <4>2, OtherRequests DEF Tagged
      <4> QED BY <4>1, <4>2
    <3>2. CASE AppLogs(q)
      <4>1. req[q].path \in Paths /\ req[q].inner["service"] = ServiceForPath(req[q].path)
        BY <3>2, InsideTyped DEF AppLogs, Tagged
      <4>2. line'.path = req[q].path /\ line'.service = ServiceTag(req[q].inner)
        BY <3>2 DEF AppLogs
      <4>3. ServiceTag(req[q].inner) = ServiceForPath(req[q].path)
        BY <4>1, ServiceExists, ContextsAssumption DEF ServiceTag
      <4>4. Mounted[req[q].path] # GATEWAY_SERVICE
              => ServiceForPath(req[q].path) = Mounted[req[q].path]
        BY <4>1, SubAppsAssumption
      <4>5. Mounted[line'.path] # GATEWAY_SERVICE => line'.service = Mounted[line'.path]
        BY <4>2, <4>3, <4>4
      <4>6. LinesAreTagged'
        BY <4>5 DEF LinesAreTagged
      <4> QED BY <3>1, <4>6
    <3>3. CASE ~AppLogs(q)
      <4>1. line' = line \/ line'.by = "server"
        <5>1. ASSUME NEW path \in Paths, BindService(q, path) PROVE line' = line
          BY <5>1 DEF BindService
        <5>2. ASSUME NEW d \in Contexts, EnterContext(q, d) PROVE line' = line
          BY <5>2 DEF EnterContext
        <5>3. ExitContext(q) \/ Leave(q) \/ UnbindService(q) => line' = line
          BY DEF ExitContext, Leave, UnbindService
        <5>4. ServerLogs(q) => line'.by = "server"
          BY DEF ServerLogs
        <5> QED BY <2>3, <3>3, <5>1, <5>2, <5>3, <5>4 DEF RequestStep
      <4> QED BY <3>1, <4>1 DEF LinesAreTagged
    <3> QED BY <3>2, <3>3
  <2> QED BY <2>1, <2>2, <2>3 DEF GatewayNext
<1>3. Inv => LinesAreTagged
  OBVIOUS
<1> QED BY <1>1, <1>2, <1>3, GatewayTypeCorrect, PTL DEF GatewaySpec

-----------------------------------------------------------------------------
(* What a context has of the blocks is what the innermost that binds it gave.  *)
Truthful(blocks, ctx) ==
  \A k \in Keys : ctx[k] # None =>
    \E i \in 1..Len(blocks) : /\ k \in DOMAIN blocks[i] /\ ctx[k] = blocks[i][k]
                              /\ \A j \in (i + 1)..Len(blocks) : k \notin DOMAIN blocks[j]

(* A block entered shadows what its keys had, and leaves the others alone. *)
LEMMA EnteredIsTruthful ==
  ASSUME NEW blocks \in Seq(Contexts), NEW ctx \in Context, NEW d \in Contexts,
         Truthful(blocks, ctx)
  PROVE  Truthful(Append(blocks, d), bind_contextvars(ctx, d))
<1> DEFINE n == Len(blocks)
           longer == Append(blocks, d)
           bound == bind_contextvars(ctx, d)
<1>1. /\ n \in Nat /\ Len(longer) = n + 1 /\ longer[n + 1] = d
      /\ \A i \in 1..n : longer[i] = blocks[i]
  OBVIOUS
<1>2. \A k \in Keys : bound[k] = IF k \in DOMAIN d THEN d[k] ELSE ctx[k]
  BY DEF bind_contextvars, Context
<1> HIDE DEF n, longer, bound
<1> SUFFICES ASSUME NEW k \in Keys, bound[k] # None
             PROVE  \E i \in 1..(n + 1) :
                      /\ k \in DOMAIN longer[i] /\ bound[k] = longer[i][k]
                      /\ \A j \in (i + 1)..(n + 1) : k \notin DOMAIN longer[j]
  BY <1>1 DEF Truthful, longer, bound
<1>3. CASE k \in DOMAIN d
  <2>1. n + 1 \in 1..(n + 1) /\ \A j \in (n + 1 + 1)..(n + 1) : FALSE
    BY <1>1
  <2> QED BY <1>1, <1>2, <1>3, <2>1
<1>4. CASE k \notin DOMAIN d
  <2>1. PICK i \in 1..n : /\ k \in DOMAIN blocks[i] /\ ctx[k] = blocks[i][k]
                          /\ \A j \in (i + 1)..n : k \notin DOMAIN blocks[j]
    BY <1>2, <1>4 DEF Truthful, n
  <2>2. i \in 1..(n + 1) /\ \A j \in (i + 1)..(n + 1) : j = n + 1 \/ (j \in (i + 1)..n /\ j \in 1..n)
    BY <1>1
  <2>3. \A j \in (i + 1)..(n + 1) : k \notin DOMAIN longer[j]
    BY <1>1, <1>4, <2>1, <2>2
  <2> QED BY <1>1, <1>2, <1>4, <2>1, <2>2, <2>3
<1> QED BY <1>3, <1>4

(* A block left takes its keys with it: what remains was not the block's. *)
LEMMA LeftIsTruthful ==
  ASSUME NEW blocks \in Seq(Contexts), blocks # <<>>, NEW ctx \in Context,
         Truthful(blocks, ctx)
  PROVE  LET n == Len(blocks)  IN
         Truthful(SubSeq(blocks, 1, n - 1), unbind_contextvars(ctx, DOMAIN blocks[n]))
<1> DEFINE n == Len(blocks)
           rest == SubSeq(blocks, 1, n - 1)
           left == unbind_contextvars(ctx, DOMAIN blocks[n])
<1>1. /\ n \in Nat \ {0} /\ Len(rest) = n - 1
      /\ \A i \in 1..(n - 1) : rest[i] = blocks[i]
  BY Innermost
<1>2. \A k \in Keys : left[k] = IF k \in DOMAIN blocks[n] THEN None ELSE ctx[k]
  BY DEF unbind_contextvars, Context
<1> HIDE DEF rest, left
<1> SUFFICES ASSUME NEW k \in Keys, left[k] # None
             PROVE  \E i \in 1..(n - 1) :
                      /\ k \in DOMAIN rest[i] /\ left[k] = rest[i][k]
                      /\ \A j \in (i + 1)..(n - 1) : k \notin DOMAIN rest[j]
  BY <1>1 DEF Truthful, rest, left
<1> HIDE DEF n
<1>3. k \notin DOMAIN blocks[n] /\ left[k] = ctx[k]
  BY <1>2
<1>4. PICK i \in 1..n : /\ k \in DOMAIN blocks[i] /\ ctx[k] = blocks[i][k]
                        /\ \A j \in (i + 1)..n : k \notin DOMAIN blocks[j]
  BY <1>3 DEF Truthful, n
<1>5. i \in 1..(n - 1)
  BY <1>1, <1>3, <1>4
<1>6. \A j \in (i + 1)..(n - 1) : j \in (i + 1)..n /\ j \in 1..(n - 1)
  BY <1>1, <1>5
<1> QED BY <1>1, <1>3, <1>4, <1>5, <1>6

LEMMA TruthKept ==
  ASSUME GatewayTypeOK, NEW r \in Requests, RequestStep(r),
         req[r].pc = "inside" => Truthful(req[r].blocks, req[r].inner)
  PROVE  req'[r].pc = "inside" => Truthful(req'[r].blocks, req'[r].inner)
<1> USE DEF GatewayTypeOK
<1>1. ASSUME NEW path \in Paths, BindService(r, path)
      PROVE  Truthful(req'[r].blocks, req'[r].inner)
  <2>1. PICK ctx : ctx = bind_contextvars(Empty, [service |-> ServiceForPath(path)])
    OBVIOUS
  <2>2. \A k \in Keys : ctx[k] = None
    BY <2>1, ContextsAssumption DEF bind_contextvars, Empty
  <2>3. req'[r].inner = ctx
    BY <1>1, <2>1 DEF BindService
  <2> QED BY <2>2, <2>3 DEF Truthful
<1>2. ASSUME NEW d \in Contexts, EnterContext(r, d)
      PROVE  Truthful(req'[r].blocks, req'[r].inner)
  <2>1. req[r] \in [pc : {"inside"}, path : Paths, outer : Context, inner : Context,
                    blocks : Seq(Contexts)]
    BY <1>2, InsideTyped DEF EnterContext
  <2>2. /\ req'[r].inner = bind_contextvars(req[r].inner, d)
        /\ req'[r].blocks = Append(req[r].blocks, d)
    BY <1>2, <2>1 DEF EnterContext
  <2> QED BY <2>1, <2>2, EnteredIsTruthful
<1>3. CASE ExitContext(r)
  <2>1. req[r] \in [pc : {"inside"}, path : Paths, outer : Context, inner : Context,
                    blocks : Seq(Contexts)]
    BY <1>3, InsideTyped DEF ExitContext
  <2>2. PICK blocks : blocks = req[r].blocks
    OBVIOUS
  <2>3. /\ req'[r].inner = unbind_contextvars(req[r].inner, DOMAIN blocks[Len(blocks)])
        /\ req'[r].blocks = SubSeq(blocks, 1, Len(blocks) - 1)
    BY <1>3, <2>1, <2>2 DEF ExitContext
  <2>4. blocks \in Seq(Contexts) /\ blocks # <<>>
    BY <1>3, <2>1, <2>2 DEF ExitContext
  <2>5. Truthful(blocks, req[r].inner) /\ req[r].inner \in Context
    BY <2>1, <2>2
  <2> QED BY <2>3, <2>4, <2>5, LeftIsTruthful
<1>4. CASE AppLogs(r)
  BY <1>4 DEF AppLogs
<1>5. CASE Leave(r) \/ UnbindService(r) \/ ServerLogs(r)
  BY <1>5 DEF Leave, UnbindService, ServerLogs
<1> QED BY <1>1, <1>2, <1>3, <1>4, <1>5 DEF RequestStep

(* However deep a request nests its blocks, whatever keys they share and       *)
(* however requests interleave, a line has of a key the value of the innermost *)
(* open block that binds it, or nothing.                                        *)
THEOREM BlocksTellTheTruth == GatewaySpec => []BlocksNeverMislead
<1> DEFINE Inv == \A r \in Requests :
                    req[r].pc = "inside" => Truthful(req[r].blocks, req[r].inner)
<1>1. GatewayInit => Inv
  BY DEF GatewayInit
<1>2. GatewayTypeOK /\ Inv /\ [GatewayNext]_vars => Inv'
  <2> SUFFICES ASSUME GatewayTypeOK, Inv, [GatewayNext]_vars PROVE Inv'
    OBVIOUS
  <2>1. CASE UNCHANGED vars \/ Lifespan
    <3>1. req' = req
      BY <2>1, LifespanLeavesRequests DEF vars
    <3> QED BY <3>1 DEF Truthful
  <2>2. ASSUME NEW q \in Requests, RequestStep(q), NEW r \in Requests
        PROVE  req'[r].pc = "inside" => Truthful(req'[r].blocks, req'[r].inner)
    <3>1. CASE r = q
      BY <2>2, <3>1, TruthKept
    <3>2. CASE r # q
      BY <2>2, <3>2, OtherRequests
    <3> QED BY <3>1, <3>2
  <2> QED BY <2>1, <2>2 DEF GatewayNext
<1>3. Inv => BlocksNeverMislead
  BY DEF BlocksNeverMislead, Truthful
<1> QED BY <1>1, <1>2, <1>3, GatewayTypeCorrect, PTL DEF GatewaySpec

-----------------------------------------------------------------------------
(* The lifespans: what is on the stack is up, once, and nothing else is.      *)
OnStack == /\ \A s \in Subs : sub[s] = "up" <=> \E i \in 1..Len(stack) : stack[i] = s
           /\ \A i, j \in 1..Len(stack) : stack[i] = stack[j] => i = j

LifeInv ==
  /\ OnStack
  /\ phase = "serving" => \A s \in Subs : sub[s] = "up"
  /\ phase = "down" => stack = <<>> /\ \A s \in Subs : sub[s] = "down"
  /\ phase \in {"unwinding", "ended"} /\ (\E s \in Subs : sub[s] = "starting")
       => \E s \in Subs : sub[s] = "failed"
  /\ phase = "ended" /\ stack # <<>> => \E s \in Subs : sub[s] = "failed"
  /\ (\E r \in Requests : req[r].pc # "idle") => phase = "serving"

(* A request takes no part in the lifespan, and begins only while it serves. *)
LEMMA RequestsServed ==
  ASSUME GatewayTypeOK, LifeInv, NEW r \in Requests, RequestStep(r)
  PROVE  UNCHANGED <<phase, sub, stack>> /\ phase = "serving"
<1>1. UNCHANGED <<phase, sub, stack>>
  BY DEF RequestStep, BindService, EnterContext, ExitContext, AppLogs, Leave, UnbindService,
         ServerLogs
<1>2. phase = "serving" \/ req[r].pc # "idle"
  BY DEF RequestStep, BindService, EnterContext, ExitContext, AppLogs, Leave, UnbindService,
         ServerLogs
<1> QED BY <1>1, <1>2 DEF LifeInv

(* A sub-app that comes up is pushed, one that is stopped is popped. *)
LEMMA Pushed ==
  ASSUME GatewayTypeOK, LifeInv, NEW s \in Subs, SubUp(s)
  PROVE  LifeInv'
<1>1. /\ sub[s] = "starting" /\ sub' = [sub EXCEPT ![s] = "up"] /\ stack' = Append(stack, s)
      /\ phase' = phase /\ req' = req
  BY DEF SubUp
<1>2. /\ stack \in Seq(Subs) /\ Len(stack) \in Nat /\ Len(stack') = Len(stack) + 1
      /\ stack'[Len(stack) + 1] = s /\ \A i \in 1..Len(stack) : stack'[i] = stack[i]
  BY <1>1 DEF GatewayTypeOK
<1>3. \A i \in 1..Len(stack) : stack[i] # s
  BY <1>1 DEF LifeInv, OnStack
<1>4. \A i \in 1..Len(stack') : i \in 1..Len(stack) \/ i = Len(stack) + 1
  BY <1>2
<1>5. Len(stack) + 1 \in 1..Len(stack') /\ 1..Len(stack) \subseteq 1..Len(stack')
  BY <1>2
<1>6. sub'[s] = "up" /\ \A t \in Subs \ {s} : sub'[t] = sub[t]
  BY <1>1 DEF GatewayTypeOK
<1>7. OnStack'
  BY <1>2, <1>3, <1>4, <1>5, <1>6 DEF OnStack, LifeInv
<1>8. phase # "down" /\ phase # "serving"
  BY <1>1 DEF LifeInv
<1>9. \A t \in Subs : sub[t] = "failed" => sub'[t] = "failed"
  BY <1>1, <1>6
<1>10. \A t \in Subs : sub'[t] = "starting" => sub[t] = "starting"
  BY <1>6
<1> QED BY <1>1, <1>7, <1>8, <1>9, <1>10 DEF LifeInv

LEMMA Popped ==
  ASSUME GatewayTypeOK, LifeInv, SubDown
  PROVE  LifeInv'
<1> DEFINE n == Len(stack)
           last == stack[n]
<1>1. /\ phase = "unwinding" /\ stack # <<>> /\ sub' = [sub EXCEPT ![last] = "down"]
      /\ stack' = SubSeq(stack, 1, n - 1) /\ phase' = phase /\ req' = req
  BY DEF SubDown
<1>2. n \in Nat \ {0} /\ last \in Subs /\ stack \in Seq(Subs)
  BY <1>1 DEF GatewayTypeOK
<1>3. Len(stack') = n - 1 /\ \A i \in 1..(n - 1) : stack'[i] = stack[i]
  <2> DEFINE m == n - 1
  <2>1. m \in Nat /\ \A i \in 1..m : stack[i] \in Subs
    BY <1>2
  <2>2. /\ Len(SubSeq(stack, 1, m)) = IF 1 <= m THEN m - 1 + 1 ELSE 0
        /\ \A i \in 1..(m - 1 + 1) : SubSeq(stack, 1, m)[i] = stack[1 + i - 1]
    <3> HIDE DEF m
    <3> QED BY <2>1, SubSeqProperties
  <2>3. /\ m - 1 + 1 = m
        /\ \A i \in 1..m : 1 + i - 1 = i
        /\ (IF 1 <= m THEN m - 1 + 1 ELSE 0) = m
    <3> HIDE DEF m
    <3> QED BY <2>1
  <2> QED BY <1>1, <2>2, <2>3
<1>4. sub'[last] = "down" /\ \A t \in Subs \ {last} : sub'[t] = sub[t]
  BY <1>1, <1>2 DEF GatewayTypeOK
<1>5. sub[last] = "up"
  BY <1>2 DEF LifeInv, OnStack
<1>6. \A i \in 1..(n - 1) : stack[i] # last
  BY <1>2 DEF LifeInv, OnStack
<1>7. \A i \in 1..n : i \in 1..(n - 1) \/ stack[i] = last
  BY <1>2
<1>8. 1..(n - 1) \subseteq 1..n
  BY <1>2
<1> HIDE DEF n, last
<1>9. OnStack'
  BY <1>3, <1>4, <1>6, <1>7, <1>8 DEF OnStack, LifeInv, n
<1>10. \A t \in Subs : sub[t] = "failed" => sub'[t] = "failed"
  BY <1>4, <1>5
<1>11. \A t \in Subs : sub'[t] = "starting" => sub[t] = "starting"
  BY <1>4
<1> QED BY <1>1, <1>9, <1>10, <1>11 DEF LifeInv

(* The lifespan keeps the invariant: a sub-app that is still starting when     *)
(* the gateway does not start any more has seen another one fail.              *)
LEMMA LifeKept ==
  ASSUME GatewayTypeOK, LifeInv, Lifespan
  PROVE  LifeInv'
<1>1. CASE Configure
  <2>1. stack = <<>> /\ stack' = stack /\ phase' = "starting" /\ req' = req
    BY <1>1 DEF Configure, LifeInv
  <2>2. \A s \in Subs : sub'[s] = "starting"
    BY <1>1 DEF Configure
  <2>3. \A r \in Requests : req[r].pc = "idle"
    BY <1>1 DEF Configure, LifeInv
  <2>4. OnStack'
    BY <2>1, <2>2 DEF OnStack
  <2> QED BY <2>1, <2>3, <2>4 DEF LifeInv
<1>2. CASE Serve
  BY <1>2 DEF Serve, LifeInv, OnStack
<1>3. CASE Shutdown
  BY <1>3 DEF Shutdown, LifeInv, OnStack
<1>4. CASE SubDown
  BY <1>4, Popped
<1>5. CASE Unwound
  BY <1>5 DEF Unwound, LifeInv, OnStack
<1>6. CASE Restart
  <2>1. stack' = <<>> /\ phase' = "down" /\ \A s \in Subs : sub'[s] = "down"
    BY <1>6 DEF Restart
  <2>2. \A r \in Requests : req'[r].pc = "idle"
    BY <1>6 DEF Restart, LifeInv
  <2>3. OnStack'
    BY <2>1 DEF OnStack
  <2> QED BY <2>1, <2>2, <2>3 DEF LifeInv
<1>7. ASSUME NEW s \in Subs, SubUp(s) PROVE LifeInv'
  BY <1>7, Pushed
<1>8. ASSUME NEW s \in Subs, SubFails(s) PROVE LifeInv'
  <2>1. sub'[s] = "failed" /\ \A t \in Subs \ {s} : sub'[t] = sub[t]
    BY <1>8 DEF SubFails, GatewayTypeOK
  <2>2. sub[s] = "starting" /\ stack' = stack /\ req' = req
    BY <1>8 DEF SubFails
  <2>3. phase # "down" /\ phase # "serving"
    BY <2>2 DEF LifeInv
  <2>4. phase' \in {phase, "unwinding"} /\ (phase' = "unwinding" \/ phase' = phase)
    BY <1>8 DEF SubFails
  <2>5. \A r \in Requests : req'[r].pc = "idle"
    BY <2>2, <2>3 DEF LifeInv
  <2>6. OnStack'
    BY <2>1, <2>2 DEF OnStack, LifeInv
  <2> QED BY <2>1, <2>2, <2>3, <2>4, <2>5, <2>6 DEF LifeInv
<1> QED BY <1>1, <1>2, <1>3, <1>4, <1>5, <1>6, <1>7, <1>8 DEF Lifespan

LEMMA LifespanInvariant == GatewaySpec => []LifeInv
<1>1. GatewayInit => LifeInv
  BY DEF GatewayInit, LifeInv, OnStack
<1>2. GatewayTypeOK /\ LifeInv /\ [GatewayNext]_vars => LifeInv'
  <2> SUFFICES ASSUME GatewayTypeOK, LifeInv, [GatewayNext]_vars PROVE LifeInv'
    OBVIOUS
  <2>1. CASE UNCHANGED vars
    BY <2>1 DEF vars, LifeInv, OnStack
  <2>2. ASSUME NEW r \in Requests, RequestStep(r) PROVE LifeInv'
    BY <2>2, RequestsServed DEF LifeInv, OnStack
  <2> QED BY <2>1, <2>2, LifeKept DEF GatewayNext
<1> QED BY <1>1, <1>2, GatewayTypeCorrect, PTL DEF GatewaySpec

(* Requests are handled only while every sub-app is up. *)
THEOREM RequestsFindSubAppsUp == GatewaySpec => []ServedWhenUp
<1>1. LifeInv => ServedWhenUp
  BY DEF LifeInv, ServedWhenUp
<1> QED BY <1>1, LifespanInvariant, PTL

(* What came up has one exit on the stack until it is stopped, and only a      *)
(* failed start can leave a sub-app up.                                         *)
THEOREM StartedIsStopped == GatewaySpec => []UpIsStopped
<1>1. LifeInv => UpIsStopped
  BY DEF LifeInv, UpIsStopped, OnStack
<1> QED BY <1>1, LifespanInvariant, PTL
=============================================================================
