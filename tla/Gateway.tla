------------------------------ MODULE Gateway ------------------------------
(***************************************************************************)
(* gateway.py: the sub-apps started and stopped together, and the service    *)
(* tag of the lines that requests log, through the bindings of               *)
(* duta_mcp_shared.observability.                                            *)
(*                                                                         *)
(* A request runs in a task of its own with a context of its own;            *)
(* call_next runs the app in another task, whose context is a copy.          *)
(***************************************************************************)
EXTENDS Naturals, Sequences

CONSTANTS SUB_APPS,   \* the names of the mounted sub-apps, in order
          Paths,      \* paths of requests
          StartsWith, \* StartsWith[p]: the sub-apps whose path_prefix begins p
          Mounted,    \* Mounted[p]: the sub-app p is routed to, or GATEWAY_SERVICE
          Requests,   \* requests in flight at a time
          Keys,       \* what log_context blocks bind
          Contexts,   \* the dicts given to log_context: functions from some keys to values
          MaxDepth,   \* bound: log_context blocks nested in one request
          None        \* not bound

GATEWAY_SERVICE == "duta-mcp-host"
Subs == {SUB_APPS[i] : i \in 1..Len(SUB_APPS)}
Services == Subs \cup {GATEWAY_SERVICE}

(* The first sub-app whose prefix begins the path. *)
ServiceForPath(path) ==
  LET Begins(i) == SUB_APPS[i] \in StartsWith[path]
      First(i) == Begins(i) /\ \A j \in 1..(i - 1) : ~Begins(j)
  IN  IF \E i \in 1..Len(SUB_APPS) : First(i)
      THEN SUB_APPS[CHOOSE i \in 1..Len(SUB_APPS) : First(i)]
      ELSE GATEWAY_SERVICE

(* The prefix test knows no "/": no sub-app's prefix begins the paths of one *)
(* listed after it.  Nothing checks this; with one sub-app it holds.          *)
ASSUME SubAppsAssumption ==
  /\ SUB_APPS \in Seq(Services \ {GATEWAY_SERVICE})
  /\ StartsWith \in [Paths -> SUBSET Subs] /\ Mounted \in [Paths -> Services]
  /\ \A p \in Paths : Mounted[p] # GATEWAY_SERVICE => ServiceForPath(p) = Mounted[p]
ASSUME ContextsAssumption ==
  /\ "service" \notin Keys /\ None \notin Services
  /\ MaxDepth \in Nat
  /\ \A d \in Contexts : DOMAIN d \subseteq Keys

VARIABLES phase,  \* the gateway's lifespan
          sub,    \* sub[s]: the lifespan of sub-app s
          stack,  \* the exits pushed on the AsyncExitStack
          req,    \* req[r]: where the tasks of request r stand
          line    \* the line logged last, and who logged it

vars == <<phase, sub, stack, req, line>>

Values == Services \cup UNION {{d[k] : k \in DOMAIN d} : d \in Contexts}
Context == [Keys \cup {"service"} -> Values \cup {None}]

Request ==
       [pc : {"idle"}]
  \cup [pc : {"inside"}, path : Paths, outer : Context, inner : Context,
        blocks : Seq(Contexts)]
  \cup [pc : {"left"}, path : Paths, outer : Context]
  \cup [pc : {"returned"}, path : Paths, outer : Context]

GatewayTypeOK ==
  /\ phase \in {"down", "starting", "serving", "unwinding", "ended"}
  /\ sub \in [Subs -> {"down", "starting", "up", "failed"}]
  /\ stack \in Seq(Subs)
  /\ req \in [Requests -> Request]
  /\ line \in [by : {"app", "server"}, path : Paths, service : Values] \cup {None}

GatewayInit == /\ phase = "down"
               /\ sub = [s \in Subs |-> "down"]
               /\ stack = <<>>
               /\ req = [r \in Requests |-> [pc |-> "idle"]]
               /\ line = None

-----------------------------------------------------------------------------
(* The lifespan. *)

(* The log pipeline is configured, then every sub-app starts. *)
Configure == /\ phase = "down"
             /\ phase' = "starting"
             /\ sub' = [s \in Subs |-> "starting"]
             /\ UNCHANGED <<stack, req, line>>

(* Mutant: the exit is not pushed once another sub-app has failed. *)
SubUpUnpushed(s) == /\ sub[s] = "starting"
                    /\ sub' = [sub EXCEPT ![s] = "up"]
                    /\ stack' = IF phase = "starting" THEN Append(stack, s) ELSE stack
                    /\ UNCHANGED <<phase, req, line>>

(* A sub-app comes up; enter_async_context pushes its exit, also on a stack  *)
(* that is being unwound or is empty for good.                                *)
SubUp(s) == /\ sub[s] = "starting"
            /\ sub' = [sub EXCEPT ![s] = "up"]
            /\ stack' = Append(stack, s)
            /\ UNCHANGED <<phase, req, line>>

(* A sub-app fails to start: gather raises and the stack unwinds, while the  *)
(* other sub-apps go on starting.                                             *)
SubFails(s) == /\ sub[s] = "starting"
               /\ sub' = [sub EXCEPT ![s] = "failed"]
               /\ phase' = IF phase = "starting" THEN "unwinding" ELSE phase
               /\ UNCHANGED <<stack, req, line>>

(* Mutant: the first sub-app to come up is enough. *)
ServeFirst == /\ phase = "starting" /\ \E s \in Subs : sub[s] = "up"
              /\ phase' = "serving"
              /\ UNCHANGED <<sub, stack, req, line>>

Serve == /\ phase = "starting" /\ \A s \in Subs : sub[s] = "up"
         /\ phase' = "serving"
         /\ UNCHANGED <<sub, stack, req, line>>

(* uvicorn stops: it ends the lifespan when the requests are answered. *)
Shutdown == /\ phase = "serving" /\ \A r \in Requests : req[r].pc = "idle"
            /\ phase' = "unwinding"
            /\ UNCHANGED <<sub, stack, req, line>>

(* The sub-app that came up last of those still up is stopped. *)
SubDown == /\ phase = "unwinding" /\ stack # <<>>
           /\ sub' = [sub EXCEPT ![stack[Len(stack)]] = "down"]
           /\ stack' = SubSeq(stack, 1, Len(stack) - 1)
           /\ UNCHANGED <<phase, req, line>>

Unwound == /\ phase = "unwinding" /\ stack = <<>>
           /\ phase' = "ended"
           /\ UNCHANGED <<sub, stack, req, line>>

(* The process ends, with whatever is still starting or up, and is started again. *)
Restart == /\ phase = "ended"
           /\ phase' = "down"
           /\ sub' = [s \in Subs |-> "down"]
           /\ stack' = <<>>
           /\ UNCHANGED <<req, line>>

-----------------------------------------------------------------------------
(* The context of a task. *)
Empty == [k \in Keys \cup {"service"} |-> None]
bind_contextvars(ctx, d) == [k \in DOMAIN ctx |-> IF k \in DOMAIN d THEN d[k] ELSE ctx[k]]
unbind_contextvars(ctx, keys) == [k \in DOMAIN ctx |-> IF k \in keys THEN None ELSE ctx[k]]

(* Mutant: no default service. *)
ServiceTagBare(ctx) == ctx["service"]

(* What merge_contextvars and then _add_service_context put in a line. *)
ServiceTag(ctx) == IF ctx["service"] = None THEN GATEWAY_SERVICE ELSE ctx["service"]

(* Mutant: the service is bound for every task, not only the request's own. *)
BindServiceEverywhere(r, path) ==
  LET ctx == bind_contextvars(Empty, [service |-> ServiceForPath(path)])  IN
  /\ phase = "serving" /\ req[r].pc = "idle"
  /\ req' = [q \in Requests |->
               IF q = r THEN [pc |-> "inside", path |-> path, outer |-> ctx, inner |-> ctx,
                              blocks |-> <<>>]
               ELSE IF req[q].pc = "inside" THEN [req[q] EXCEPT !.inner.service = ctx["service"]]
               ELSE req[q]]
  /\ UNCHANGED <<phase, sub, stack, line>>

(* bind_service_context up to call_next, which copies the context. *)
BindService(r, path) ==
  LET ctx == bind_contextvars(Empty, [service |-> ServiceForPath(path)])  IN
  /\ phase = "serving" /\ req[r].pc = "idle"
  /\ req' = [req EXCEPT ![r] = [pc |-> "inside", path |-> path, outer |-> ctx, inner |-> ctx,
                                blocks |-> <<>>]]
  /\ UNCHANGED <<phase, sub, stack, line>>

(* The app opens and closes log_context blocks. *)
EnterContext(r, d) ==
  /\ req[r].pc = "inside" /\ Len(req[r].blocks) < MaxDepth
  /\ LET q == req[r]  IN
     req' = [req EXCEPT ![r] = [q EXCEPT !.inner = bind_contextvars(q.inner, d),
                                         !.blocks = Append(q.blocks, d)]]
  /\ UNCHANGED <<phase, sub, stack, line>>

(* Mutant: a block that an exception leaves keeps its keys bound (no finally). *)
ExitContextKeeping(r) ==
  /\ req[r].pc = "inside" /\ req[r].blocks # <<>>
  /\ LET q == req[r]  IN
     req' = [req EXCEPT ![r] = [q EXCEPT !.blocks = SubSeq(q.blocks, 1, Len(q.blocks) - 1)]]
  /\ UNCHANGED <<phase, sub, stack, line>>

(* The exit unbinds the block's keys, also those that an outer block bound. *)
ExitContext(r) ==
  /\ req[r].pc = "inside" /\ req[r].blocks # <<>>
  /\ LET q == req[r]  keys == DOMAIN q.blocks[Len(q.blocks)]  IN
     req' = [req EXCEPT ![r] = [q EXCEPT !.inner = unbind_contextvars(q.inner, keys),
                                         !.blocks = SubSeq(q.blocks, 1, Len(q.blocks) - 1)]]
  /\ UNCHANGED <<phase, sub, stack, line>>

AppLogs(r) ==
  /\ req[r].pc = "inside"
  /\ line' = [by |-> "app", path |-> req[r].path, service |-> ServiceTag(req[r].inner)]
  /\ UNCHANGED <<phase, sub, stack, req>>

(* The app begins its response, or raises. *)
Leave(r) ==
  /\ req[r].pc = "inside" /\ req[r].blocks = <<>>
  /\ req' = [req EXCEPT ![r] = [pc |-> "left", path |-> req[r].path, outer |-> req[r].outer]]
  /\ UNCHANGED <<phase, sub, stack, line>>

(* call_next returns or raises in the request's own task: unbind. *)
UnbindService(r) ==
  /\ req[r].pc = "left"
  /\ LET q == req[r]  IN
     req' = [req EXCEPT ![r] = [pc |-> "returned", path |-> q.path,
                                outer |-> unbind_contextvars(q.outer, {"service"})]]
  /\ UNCHANGED <<phase, sub, stack, line>>

(* Only now is the response sent: uvicorn logs the access, and the traceback  *)
(* of what the app raised.                                                    *)
ServerLogs(r) ==
  /\ req[r].pc = "returned"
  /\ line' = [by |-> "server", path |-> req[r].path, service |-> ServiceTag(req[r].outer)]
  /\ req' = [req EXCEPT ![r] = [pc |-> "idle"]]
  /\ UNCHANGED <<phase, sub, stack>>

-----------------------------------------------------------------------------
Lifespan == \/ Configure \/ Serve \/ Shutdown \/ SubDown \/ Unwound \/ Restart
            \/ \E s \in Subs : SubUp(s) \/ SubFails(s)

RequestStep(r) == \/ \E path \in Paths : BindService(r, path)
                  \/ \E d \in Contexts : EnterContext(r, d)
                  \/ ExitContext(r) \/ AppLogs(r) \/ Leave(r) \/ UnbindService(r) \/ ServerLogs(r)

GatewayNext == Lifespan \/ \E r \in Requests : RequestStep(r)

GatewaySpec == GatewayInit /\ [][GatewayNext]_vars

-----------------------------------------------------------------------------
(* However requests of several sub-apps interleave, and whatever blocks are   *)
(* open, a line that a sub-app logs for a request carries its name.           *)
LinesAreTagged ==
  line # None /\ line.by = "app" /\ Mounted[line.path] # GATEWAY_SERVICE
    => line.service = Mounted[line.path]

(* What log_context adds to a line is true of the line: a key has the value    *)
(* that the innermost open block of this request that binds it gave it, or is  *)
(* not there at all; never that of a block which has been left, is shadowed or *)
(* is another request's, and outside all blocks there is none.  (A key may be  *)
(* missing: an outer block loses those an inner one binds too, see ExitContext.) *)
BlocksNeverMislead ==
  \A r \in Requests : req[r].pc = "inside" =>
    LET blocks == req[r].blocks  IN
    \A k \in Keys : req[r].inner[k] # None =>
      \E i \in 1..Len(blocks) : /\ k \in DOMAIN blocks[i] /\ req[r].inner[k] = blocks[i][k]
                                /\ \A j \in (i + 1)..Len(blocks) : k \notin DOMAIN blocks[j]

(* A request is handled only between the start of the last sub-app and the    *)
(* stop of the first.                                                         *)
ServedWhenUp == (\E r \in Requests : req[r].pc # "idle") => \A s \in Subs : sub[s] = "up"

(* Whatever is up will be stopped, once: its exit is on the stack.  So only a *)
(* sub-app that came up after the end of the unwinding that another's failure *)
(* began is left up.                                                          *)
UpIsStopped ==
  /\ \A s \in Subs : sub[s] = "up" <=> \E i \in 1..Len(stack) : stack[i] = s
  /\ \A i, j \in 1..Len(stack) : stack[i] = stack[j] => i = j
  /\ phase = "ended" /\ stack # <<>> => \E s \in Subs : sub[s] = "failed"
=============================================================================
