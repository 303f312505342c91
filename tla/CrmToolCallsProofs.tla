------------------------- MODULE CrmToolCallsProofs -------------------------
(***************************************************************************)
(* What holds of the CRM tool calls from end to end, for every number of    *)
(* tenants, calls, requests and organisations: every behaviour is one of     *)
(* ToolCalls, so that what ToolCallsProofs proves holds here as well, and    *)
(* each call goes by one posted configuration.                               *)
(***************************************************************************)
EXTENDS CrmToolCalls, CrmResolverProofs

(* ToolCallsProofs, read of the handlers and of what ToolCalls sees.         *)
HandlersP == INSTANCE ToolCallsProofs
               WITH call <- handler, config <- Config, Columns <- CaseColumns
ToolsP    == INSTANCE ToolCallsProofs
               WITH call <- Progress, config <- Config, Columns <- CaseColumns

(* The assumptions ToolCalls makes of its constants hold of what it is given. *)
LEMMA ToolAssumptions ==
  /\ None \notin HandlersP!Registration \cup Accounts
  /\ None \notin ToolsP!Registration \cup Accounts
  /\ /\ {"title", "description", HandlersP!Bind} \subseteq CaseColumns
     /\ \A map \in FieldMaps : \A key \in DOMAIN map : map[key] \in CaseColumns
     /\ None \notin HandlersP!Texts
  /\ /\ {"title", "description", ToolsP!Bind} \subseteq CaseColumns
     /\ \A map \in FieldMaps : \A key \in DOMAIN map : map[key] \in CaseColumns
     /\ None \notin ToolsP!Texts
BY NoneIsNoClient, CaseColumnsAssumption
   DEF Handlers!Registration, HandlersP!Registration, ToolsP!Registration, Handlers!Bind,
       HandlersP!Bind, ToolsP!Bind, Handlers!Texts, HandlersP!Texts, ToolsP!Texts

(* The two readings of a definition of ToolCalls, through its own module and   *)
(* through that of its proofs, are the same.                                   *)
LEMMA SameTypes == Handlers!TypeOK <=> HandlersP!TypeOK
BY DEF Handlers!TypeOK, HandlersP!TypeOK, Handlers!Call, HandlersP!Call, Handlers!Looked,
       HandlersP!Looked, Handlers!Effect, HandlersP!Effect, Handlers!Registration,
       HandlersP!Registration, Handlers!Served, HandlersP!Served, Handlers!Tools, HandlersP!Tools,
       Handlers!CrmTools, HandlersP!CrmTools, Handlers!CustomTools, HandlersP!CustomTools,
       Handlers!Answers, HandlersP!Answers, Handlers!ToolAnswers, HandlersP!ToolAnswers,
       Handlers!Texts, HandlersP!Texts, Handlers!Body, HandlersP!Body

LEMMA SameSteps ==
  ASSUME NEW c PROVE Handlers!CallStep(c) <=> HandlersP!CallStep(c)
BY DEF Handlers!CallStep, HandlersP!CallStep, Handlers!Serve, HandlersP!Serve, Handlers!Start,
       HandlersP!Start, Handlers!NotConfigured, HandlersP!NotConfigured, Handlers!StoreFails,
       HandlersP!StoreFails, Handlers!DecryptFails, HandlersP!DecryptFails, Handlers!ReadConfig,
       HandlersP!ReadConfig, Handlers!VaultFails, HandlersP!VaultFails, Handlers!Connect,
       HandlersP!Connect, Handlers!LookupReached, HandlersP!LookupReached, Handlers!LookupFails,
       HandlersP!LookupFails, Handlers!NoMatch, HandlersP!NoMatch, Handlers!Match, HandlersP!Match,
       Handlers!RequestReached, HandlersP!RequestReached, Handlers!RequestAnswered,
       HandlersP!RequestAnswered, Handlers!Goto, HandlersP!Goto, Handlers!Answer, HandlersP!Answer,
       Handlers!Served, HandlersP!Served, Handlers!Method, HandlersP!Method, Handlers!Raises,
       HandlersP!Raises, Handlers!Leaks, HandlersP!Leaks, Handlers!Declines, HandlersP!Declines,
       Handlers!Blank, HandlersP!Blank, Handlers!Unsent, HandlersP!Unsent,
       Handlers!Fruitless, HandlersP!Fruitless, Handlers!Replies, HandlersP!Replies, Handlers!Asked,
       HandlersP!Asked, Handlers!CrmTools, HandlersP!CrmTools, Handlers!CustomTools,
       HandlersP!CustomTools, Handlers!Tools, HandlersP!Tools, Handlers!Effectful,
       HandlersP!Effectful, Handlers!Texts, HandlersP!Texts, Handlers!Bind, HandlersP!Bind,
       Handlers!DEFAULT_INCIDENT_MAP, HandlersP!DEFAULT_INCIDENT_MAP, Handlers!Column,
       HandlersP!Column, Handlers!IncidentBody, HandlersP!IncidentBody

-----------------------------------------------------------------------------
(* The calls' own steps leave the table, the cache and the vaults alone, or   *)
(* are steps of the resolver.                                                 *)
LEMMA StepOfResolver == [CrmNext]_allVars => [ResolverNext]_vars
BY PostsAssumption
   DEF CrmNext, allVars, CrmCallStep, Start, SelectFails, NoCredentials, Resolve, ResolveFails,
       Connected, UseConnector, Around, CustomerMoves, Crash, ResolverNext, CallStep

(* Every behaviour is one of the resolver: what CrmResolverProofs proves holds *)
(* here.                                                                       *)
LEMMA CrmIsAResolver == CrmSpec => ResolverSpec
BY StepOfResolver, PTL DEF CrmSpec, CrmInit, ResolverSpec

(* With one operator at a time it is one of the serial store. *)
LEMMA SerialCrmIsASerialStore == SerialCrmSpec => CrmSpec /\ SerialSpec
<1>1. [CrmNext /\ OneUpsertPerTenant']_allVars
        => [CrmNext]_allVars /\ [Next /\ OneUpsertPerTenant']_storeVars
  <2>1. UNCHANGED allVars => UNCHANGED storeVars
    BY DEF allVars, vars, storeVars
  <2>2. CrmNext => Next \/ UNCHANGED storeVars
    BY StepOfResolver, StepOfStore
  <2> QED BY <2>1, <2>2
<1>2. CrmInit => Init
  BY DEF CrmInit, ResolverInit
<1> QED BY <1>1, <1>2, PTL DEF SerialCrmSpec, CrmSpec, SerialSpec

-----------------------------------------------------------------------------
(* What a row says of a connector is a registration ToolCalls knows: column    *)
(* by column it was posted for the tenant.                                     *)
LEMMA RowClient ==
  ASSUME ColumnsWerePosted, NEW t \in Tenants, row[t] # NoRow
  PROVE  Client(row[t]) \in Handlers!Registration
<1>1. PICK a \in Bodies[t] : row[t]["org"] = a["org"]
  BY ResolverAssumption DEF ColumnsWerePosted
<1>2. PICK b \in Bodies[t] : row[t]["field_map"] = b["field_map"]
  BY ClientAssumption DEF ColumnsWerePosted
<1>3. a["org"] \in Servers /\ b["field_map"] \in FieldMaps
  BY ClientAssumption DEF Client, Handlers!Registration
<1> QED BY <1>1, <1>2, <1>3 DEF Client, Handlers!Registration

(* So what ToolCalls sees as configuration is one. *)
LEMMA ConfigTyped ==
  ColumnsWerePosted => Config \in [Tenants -> Handlers!Registration \cup {None}]
BY RowClient DEF Config

-----------------------------------------------------------------------------
(* How the two halves of a call stand to each other.  The resolver runs only  *)
(* while the handler awaits it, for the tenant of the POST; the connector a    *)
(* handler uses is that of the row its own SELECT read; and before it uses it  *)
(* nothing has been read or done at an organisation.                          *)
Fetching == {"row", "get_id", "get_secret", "landing"}
Using    == {"lookup", "found", "acting", "acted"}

Coupled(c) ==
  /\ handler[c].pc \in {"new", "resolving"} \cup Using \cup {"answered"}
  /\ handler[c].pc = "new" => call[c].pc = "idle"
  /\ handler[c].pc = "resolving" => /\ call[c].pc \in Fetching \cup {"idle"}
                                    /\ handler[c].tenant = Posts[c].tenant
  /\ handler[c].pc \in {"resolving"} \cup Using => handler[c].tool = Posts[c].tool
  /\ handler[c].pc \in Using => /\ call[c].pc = "connected"
                                /\ handler[c].client = Client(call[c].kv)
  /\ call[c].pc \in Fetching \cup {"connected"} => /\ call[c].tenant = Posts[c].tenant
                                                  /\ Client(call[c].kv) \in Handlers!Registration

CallsCoupled == \A c \in Calls : Coupled(c)

(* A step of the resolver for one call is about no other. *)
LEMMA OneCallMoves ==
  ASSUME NEW c \in Calls, CallStep(c)
  PROVE  call' = [call EXCEPT ![c] = call'[c]]
BY DEF CallStep, ReadRow, Hit, Miss, VaultAnswersId, VaultAnswersSecret, VaultFails, Land, Advance

(* A step of a call changes nothing of another. *)
LEMMA OneHandlerMoves ==
  ASSUME NEW c \in Calls, CrmCallStep(c), ResolverTypeOK, Handlers!TypeOK,
         NEW d \in Calls, d # c
  PROVE  /\ handler'[d] = handler[d] /\ call'[d] = call[d]
         /\ read'[d] = read[d] /\ done'[d] = done[d]
<1>1. call'[d] = call[d]
  <2>1. CallStep(c) \/ UNCHANGED vars
    BY PostsAssumption
       DEF CrmCallStep, Start, SelectFails, NoCredentials, Resolve, ResolveFails, Connected,
           UseConnector, CallStep
  <2> QED BY <2>1, OneCallMoves DEF vars, ResolverTypeOK
<1>2. handler'[d] = handler[d] /\ read'[d] = read[d] /\ done'[d] = done[d]
  BY DEF CrmCallStep, Start, SelectFails, NoCredentials, Resolve, ResolveFails, Connected,
         Connector, UseConnector, toolVars, Handlers!TypeOK, Handlers!Goto, Handlers!Answer,
         Handlers!Start, Handlers!StoreFails, Handlers!DecryptFails, Handlers!NotConfigured,
         Handlers!LookupReached, Handlers!Match, Handlers!RequestReached, Handlers!LookupFails,
         Handlers!NoMatch, Handlers!RequestAnswered
<1> QED BY <1>1, <1>2

(* The handlers' own steps are steps ToolCallsProofs has typed. *)
LEMMA HandlerStepTyped ==
  ASSUME Handlers!TypeOK, NEW c \in Calls, Handlers!CallStep(c)
  PROVE  Handlers!TypeOK'
<1>1. HandlersP!TypeOK /\ HandlersP!CallStep(c)
  BY SameTypes, SameSteps
<1>2. HandlersP!TypeOK'
  BY <1>1, ToolAssumptions, HandlersP!CallTyped
<1> QED BY <1>2, SameTypes, PTL

(* Types and coupling survive each step of a call: *)
LEMMA CallKeepsCoupling ==
  ASSUME ResolverTypeOK, ColumnsWerePosted, Handlers!TypeOK, CallsCoupled,
         NEW c \in Calls, CrmCallStep(c)
  PROVE  Handlers!TypeOK' /\ Coupled(c)'
<1> DEFINE t == Posts[c].tenant  tool == Posts[c].tool
<1>0. /\ t \in Tenants /\ tool \in Handlers!CrmTools /\ tool \in Handlers!Tools
      /\ Posts[c].given \in SUBSET Handlers!Texts
      /\ Coupled(c)
  BY PostsAssumption DEF Handlers!Tools, CallsCoupled
<1>1. CASE Start(c)
  <2>1. Handlers!CallStep(c)
    BY <1>0, <1>1 DEF Start, Handlers!CallStep
  <2>2. call' = call /\ handler'[c] = [pc |-> "resolving", tool |-> tool, tenant |-> t]
        /\ handler[c].pc = "new"
    BY <1>1 DEF Start, vars, Handlers!Start, Handlers!Goto, Handlers!TypeOK
  <2> QED BY <1>0, <2>1, <2>2, HandlerStepTyped DEF Coupled, Using, Fetching
<1>2. CASE SelectFails(c)
  <2>1. Handlers!CallStep(c)
    BY <1>2 DEF SelectFails, Handlers!CallStep
  <2>2. call' = call /\ handler'[c].pc = "answered" /\ call[c].pc = "idle"
    BY <1>2 DEF SelectFails, vars, Handlers!StoreFails, Handlers!DecryptFails, Handlers!Answer,
                Handlers!Goto, Handlers!TypeOK
  <2> QED BY <1>0, <2>1, <2>2, HandlerStepTyped DEF Coupled, Using, Fetching
<1>3. CASE NoCredentials(c)
  <2>1. Handlers!CallStep(c)
    BY <1>3 DEF NoCredentials, Handlers!CallStep
  <2>2. row[t] = NoRow
    <3>1. handler[c].pc = "resolving" /\ Config[handler[c].tenant] = None
      BY <1>3 DEF NoCredentials, Handlers!NotConfigured
    <3> QED BY <1>0, <3>1, RowClient, NoneIsNoClient DEF Config, Coupled
  <2>3. call'[c] = [pc |-> "not_configured"] /\ handler'[c].pc = "answered"
    BY <1>3, <2>2 DEF NoCredentials, ReadRow, Advance, ResolverTypeOK, Handlers!NotConfigured,
                Handlers!Answer, Handlers!Goto, Handlers!TypeOK
  <2> QED BY <1>0, <2>1, <2>3, HandlerStepTyped DEF Coupled, Using, Fetching
<1>4. CASE Resolve(c)
  <2>1. UNCHANGED <<toolVars, row>> /\ handler[c].pc = "resolving"
    BY <1>4 DEF Resolve, ReadRow, Miss, VaultAnswersId, VaultAnswersSecret
  <2>2. Handlers!TypeOK'
    BY <2>1 DEF Handlers!TypeOK, toolVars, Config
  <2>3. CASE ReadRow(c, t) /\ call'[c].pc = "row"
    <3>1. call'[c] = [pc |-> "row", tenant |-> t, kv |-> row[t]] /\ row[t] # NoRow
      BY <2>3 DEF ReadRow, Advance, ResolverTypeOK
    <3> QED BY <1>0, <2>1, <2>2, <3>1, RowClient DEF Coupled, Using, Fetching, toolVars
  <2>4. CASE Miss(c) \/ VaultAnswersId(c) \/ VaultAnswersSecret(c)
    <3>1. /\ call[c].pc \in Fetching /\ call'[c].pc \in Fetching
          /\ call'[c].tenant = call[c].tenant /\ call'[c].kv = call[c].kv
      BY <2>4 DEF Miss, VaultAnswersId, VaultAnswersSecret, Advance, ResolverTypeOK, Fetching
    <3> QED BY <1>0, <2>1, <2>2, <3>1 DEF Coupled, Using, Fetching, toolVars
  <2> QED BY <1>4, <2>3, <2>4 DEF Resolve
<1>5. ASSUME NEW reply, ResolveFails(c, reply) PROVE Handlers!TypeOK' /\ Coupled(c)'
  <2>1. /\ UNCHANGED <<row, match, read, done>> /\ handler[c].pc = "resolving"
        /\ call'[c] = [pc |-> "unavailable"]
    BY <1>5 DEF ResolveFails, VaultFails, Advance, ResolverTypeOK
  <2>2. PICK answer \in {"unavailable", "http500"} :
          handler' = [handler EXCEPT ![c] = [pc |-> "answered", tool |-> tool, answer |-> answer]]
    BY <1>0, <1>5, <2>1 DEF ResolveFails, Handlers!Answer, Handlers!Goto, Coupled
  <2>3. [pc |-> "answered", tool |-> tool, answer |-> answer] \in Handlers!Call
    BY <1>0 DEF Handlers!Call, Handlers!Answers, Handlers!ToolAnswers
  <2> QED BY <2>1, <2>2, <2>3 DEF Handlers!TypeOK, Config, Coupled, Using, Fetching
<1>6. CASE Connected(c)
  <2>1. UNCHANGED <<row, match, read, done>> /\ handler[c].pc = "resolving"
    BY <1>6 DEF Connected, Hit, Land
  <2>2. /\ call[c].pc \in Fetching /\ call'[c].pc = "connected"
        /\ call'[c].tenant = call[c].tenant /\ call'[c].kv = call[c].kv
    <3>1. CASE Hit(c)
      BY <3>1 DEF Hit, Advance, ResolverTypeOK, Fetching
    <3>2. CASE Land(c)
      BY <3>2 DEF Land, Advance, ResolverTypeOK, Fetching, Call
    <3> QED BY <1>6, <3>1, <3>2 DEF Connected
  <2>3. handler' = [handler EXCEPT ![c] = [pc |-> "lookup", tool |-> tool,
                                           client |-> Client(call[c].kv)]]
    BY <1>0, <1>6, <2>1 DEF Connected, Connector, Handlers!Goto, Coupled
  <2>4. [pc |-> "lookup", tool |-> tool, client |-> Client(call[c].kv)] \in Handlers!Call
    BY <1>0, <2>2 DEF Handlers!Call, Coupled
  <2>5. Handlers!TypeOK'
    BY <2>1, <2>3, <2>4 DEF Handlers!TypeOK, Config
  <2>6. Coupled(c)'
    BY <1>0, <2>2, <2>3 DEF Coupled, Using, Fetching, Handlers!TypeOK
  <2> QED BY <2>5, <2>6
<1>7. CASE UseConnector(c)
  <2>1. Handlers!CallStep(c)
    BY <1>0, <1>7 DEF UseConnector, Handlers!CallStep
  <2>2. /\ call' = call /\ handler[c].pc \in Using
        /\ \/ handler'[c].pc = "answered"
           \/ /\ handler'[c].pc \in Using /\ handler'[c].tool = handler[c].tool
              /\ handler'[c].client = handler[c].client
    <3> USE DEF Using, Handlers!Answer, Handlers!Goto, Handlers!TypeOK
    <3>1. CASE Handlers!LookupReached(c)
      BY <1>7, <3>1 DEF UseConnector, vars, Handlers!LookupReached
    <3>2. CASE Handlers!Match(c)
      <4>1. handler[c] \in [pc : {"found"}, tool : Handlers!CrmTools,
                            client : Handlers!Registration, account : Accounts \cup {None}]
        BY <3>2 DEF Handlers!Match, Handlers!Call
      <4>2. handler'[c] \in {[handler[c] EXCEPT !.pc = "acting"],
                            [pc |-> "answered", tool |-> handler[c].tool, answer |-> "verified"]}
        BY <3>2 DEF Handlers!Match
      <4> QED BY <1>7, <4>1, <4>2 DEF UseConnector, vars
    <3>3. CASE Handlers!RequestReached(c, Posts[c].given)
      <4>1. handler[c] \in [pc : {"acting"}, tool : Handlers!Tools,
                            client : Handlers!Registration, account : Accounts \cup {None}]
        BY <3>3 DEF Handlers!RequestReached, Handlers!Call
      <4>2. handler'[c] = [handler[c] EXCEPT !.pc = "acted"]
        BY <3>3 DEF Handlers!RequestReached
      <4> QED BY <1>7, <4>1, <4>2 DEF UseConnector, vars
    <3>4. ASSUME NEW reply, \/ Handlers!LookupFails(c, reply)
                            \/ Handlers!NoMatch(c, reply)
                            \/ Handlers!RequestAnswered(c, reply)
          PROVE  handler'[c].pc = "answered" /\ handler[c].pc \in Using
      BY <3>4 DEF Handlers!LookupFails, Handlers!NoMatch, Handlers!RequestAnswered
    <3> QED BY <1>7, <3>1, <3>2, <3>3, <3>4 DEF UseConnector, vars
  <2> QED BY <1>0, <2>1, <2>2, HandlerStepTyped DEF Coupled, Using, Fetching
<1> QED BY <1>1, <1>2, <1>3, <1>4, <1>5, <1>6, <1>7 DEF CrmCallStep

(* ... and every other step. *)
LEMMA RestKeepsCoupling ==
  ASSUME ResolverTypeOK, ColumnsWerePosted', Handlers!TypeOK, CallsCoupled,
         [CrmNext]_allVars, ~ \E c \in Calls : CrmCallStep(c)
  PROVE  (Handlers!TypeOK /\ CallsCoupled)'
<1>0. (Config \in [Tenants -> Handlers!Registration \cup {None}])'
  BY ConfigTyped, PTL
<1>1. ASSUME UNCHANGED <<call, handler, read, done>>, match' \in [Servers -> Accounts \cup {None}]
      PROVE  (Handlers!TypeOK /\ CallsCoupled)'
  BY <1>0, <1>1 DEF Handlers!TypeOK, CallsCoupled, Coupled
<1>2. CASE UNCHANGED allVars
  BY <1>1, <1>2 DEF allVars, vars, toolVars, Handlers!TypeOK
<1>3. CASE Around
  <2>1. UNCHANGED call
    BY <1>3 DEF Around, AdminStep, AdminBegin, AdminCommit, AdminRespond, AdminLost, RotateVault,
                Tick
  <2> QED BY <1>1, <1>3, <2>1 DEF Around, toolVars, Handlers!TypeOK
<1>4. ASSUME NEW s \in Servers, NEW g \in Accounts \cup {None}, CustomerMoves(s, g)
      PROVE  (Handlers!TypeOK /\ CallsCoupled)'
  BY <1>1, <1>4 DEF CustomerMoves, vars, Handlers!Relink, Handlers!TypeOK
<1>5. CASE Crash
  <2>1. \A c \in Calls : call'[c] = [pc |-> "idle"]
    BY <1>5 DEF Crash, RestartProcess
  <2>2. /\ handler' = [c \in Calls |->
              IF handler[c].pc \in Handlers!Running
              THEN [pc |-> "answered", tool |-> handler[c].tool, answer |-> "cut"] ELSE handler[c]]
        /\ UNCHANGED <<match, read, done>>
    BY <1>5 DEF Crash, Handlers!Restart
  <2>3. ASSUME NEW c \in Calls PROVE handler'[c] \in Handlers!Call /\ Coupled(c)'
    <3>1. Coupled(c) /\ handler[c] \in Handlers!Call
      BY DEF CallsCoupled, Handlers!TypeOK
    <3>2. CASE handler[c].pc \in Handlers!Running
      <4>1. handler[c].tool \in Handlers!Tools
        BY <3>1, <3>2 DEF Handlers!Call, Handlers!Running, Handlers!Tools
      <4> QED BY <2>1, <2>2, <3>2, <4>1 DEF Handlers!Call, Handlers!Answers, Coupled, Using,
                                            Fetching
    <3>3. CASE handler[c].pc \notin Handlers!Running
      BY <2>1, <2>2, <3>1, <3>3 DEF Coupled, Handlers!Running, Using, Fetching
    <3> QED BY <3>2, <3>3
  <2> QED BY <1>0, <2>2, <2>3 DEF Handlers!TypeOK, CallsCoupled
<1> QED BY <1>2, <1>3, <1>4, <1>5 DEF CrmNext

(* The handlers are well formed and coupled to the resolver's calls. *)
LEMMA Coupling ==
  CrmSpec => [](ResolverTypeOK /\ ColumnsWerePosted /\ Handlers!TypeOK /\ CallsCoupled)
<1>1. CrmSpec => [](ResolverTypeOK /\ ColumnsWerePosted)
  BY CrmIsAResolver, ResolverTypeCorrect, ResolverIsAStore, ProvenanceOfColumns, PTL
<1>2. CrmInit => Handlers!TypeOK /\ CallsCoupled
  <2>1. CrmInit => Config \in [Tenants -> Handlers!Registration \cup {None}]
    BY DEF CrmInit, ResolverInit, Init, Config
  <2> QED BY <2>1 DEF CrmInit, ResolverInit, Handlers!TypeOK, Handlers!Call, CallsCoupled, Coupled,
                      Using, Fetching
<1>3. /\ ResolverTypeOK /\ ColumnsWerePosted /\ ColumnsWerePosted' /\ Handlers!TypeOK
      /\ CallsCoupled /\ [CrmNext]_allVars
      => (Handlers!TypeOK /\ CallsCoupled)'
  <2> SUFFICES ASSUME ResolverTypeOK, ColumnsWerePosted, ColumnsWerePosted', Handlers!TypeOK,
                      CallsCoupled, [CrmNext]_allVars
               PROVE  (Handlers!TypeOK /\ CallsCoupled)'
    OBVIOUS
  <2>1. ASSUME NEW c \in Calls, CrmCallStep(c) PROVE Handlers!TypeOK' /\ CallsCoupled'
    <3>1. Handlers!TypeOK' /\ Coupled(c)'
      BY <2>1, CallKeepsCoupling
    <3>2. ASSUME NEW d \in Calls, d # c PROVE Coupled(d)'
      <4>1. handler'[d] = handler[d] /\ call'[d] = call[d]
        BY <2>1, <3>2, OneHandlerMoves
      <4> QED BY <4>1 DEF CallsCoupled, Coupled
    <3> QED BY <3>1, <3>2 DEF CallsCoupled
  <2> QED BY <2>1, RestKeepsCoupling
<1> QED BY <1>1, <1>2, <1>3, PTL DEF CrmSpec

-----------------------------------------------------------------------------
(* The refinement of ToolCalls.  A call whose handler is not awaiting the     *)
(* resolver looks as its handler does.                                        *)
LEMMA ProgressOf ==
  ASSUME NEW c \in Calls
  PROVE  /\ ~Resolving(c) => Progress[c] = handler[c]
         /\ ~Resolving(c)' => Progress'[c] = handler'[c]
         /\ Resolving(c) => Progress[c] = [pc |-> "vault", tool |-> handler[c].tool,
                                           client |-> Client(call[c].kv)]
         /\ Resolving(c)' => Progress'[c] = [pc |-> "vault", tool |-> handler'[c].tool,
                                             client |-> Client(call'[c].kv)]
BY DEF Progress, Resolving

(* A step of one call shows in the progress of that call only. *)
LEMMA OneProgressMoves ==
  ASSUME ResolverTypeOK, Handlers!TypeOK, NEW c \in Calls, CrmCallStep(c), NEW r,
         Progress'[c] = r
  PROVE  Tools!Goto(c, r)
<1>1. \A d \in Calls : d # c => Progress'[d] = Progress[d]
  BY OneHandlerMoves DEF Progress, Resolving
<1> QED BY <1>1 DEF Progress, Tools!Goto

(* What leaves the rows alone leaves alone what is registered. *)
LEMMA ConfigKept == row' = row => Config' = Config
BY DEF Config

(* A step of a call is one of ToolCalls, or does not show there. *)
LEMMA CallStepRefines ==
  ASSUME ResolverTypeOK, ColumnsWerePosted, Handlers!TypeOK, CallsCoupled,
         NEW c \in Calls, CrmCallStep(c)
  PROVE  Tools!CallStep(c) \/ UNCHANGED Tools!vars
<1> DEFINE t == Posts[c].tenant  tool == Posts[c].tool
<1>0. /\ t \in Tenants /\ tool \in Handlers!CrmTools
      /\ Posts[c].given \in SUBSET Handlers!Texts
      /\ Coupled(c)
  BY PostsAssumption DEF CallsCoupled
<1>1. tool \in Tools!CrmTools /\ tool \in Tools!Tools /\ Posts[c].given \in SUBSET Tools!Texts
  BY <1>0 DEF Tools!CrmTools, Handlers!CrmTools, Tools!Tools, Tools!Texts, Handlers!Texts
<1>2. row' = row /\ Config' = Config
  <2>1. row' = row
    BY DEF CrmCallStep, Start, SelectFails, NoCredentials, Resolve, ResolveFails, Connected,
           UseConnector, vars, ReadRow, Miss, VaultAnswersId, VaultAnswersSecret, VaultFails, Hit,
           Land
  <2> QED BY <2>1, ConfigKept
<1>3. CASE Start(c)
  <2>1. /\ handler[c].pc = "new" /\ UNCHANGED <<match, read, done>>
        /\ handler'[c] = [pc |-> "resolving", tool |-> tool, tenant |-> t]
        /\ call'[c].pc = "idle"
    BY <1>0, <1>3 DEF Start, vars, Handlers!Start, Handlers!Goto, Handlers!TypeOK, Coupled
  <2>2. ~Resolving(c) /\ ~Resolving(c)'
    BY <2>1 DEF Resolving
  <2>3. Tools!Start(c, tool, t)
    BY <1>2, <2>1, <2>2, ProgressOf, OneProgressMoves DEF Tools!Start
  <2> QED BY <1>0, <1>1, <2>3 DEF Tools!CallStep
<1>4. CASE SelectFails(c)
  <2>1. PICK answer \in {"store_failed", "undecryptable"} :
          /\ handler[c].pc = "resolving" /\ UNCHANGED <<match, read, done>>
          /\ call[c].pc = "idle"
          /\ answer = "undecryptable" => Config[handler[c].tenant] # None
          /\ handler'[c] = [pc |-> "answered", tool |-> handler[c].tool, answer |-> answer]
    BY <1>4 DEF SelectFails, Handlers!StoreFails, Handlers!DecryptFails, Handlers!Answer,
                Handlers!Goto, Handlers!TypeOK
  <2>2. Progress[c] = handler[c] /\ Progress'[c] = handler'[c]
    <3>1. ~Resolving(c) /\ ~Resolving(c)'
      BY <2>1 DEF Resolving
    <3> QED BY <3>1, ProgressOf
  <2>3. Tools!Answer(c, answer)
    BY <2>1, <2>2, OneProgressMoves DEF Tools!Answer
  <2> QED BY <1>2, <2>1, <2>2, <2>3 DEF Tools!StoreFails, Tools!DecryptFails, Tools!CallStep
<1>5. CASE NoCredentials(c)
  <2>1. /\ handler[c].pc = "resolving" /\ UNCHANGED <<match, read, done>>
        /\ Config[handler[c].tenant] = None
        /\ handler'[c] = [pc |-> "answered", tool |-> handler[c].tool, answer |-> "not_configured"]
    BY <1>5 DEF NoCredentials, Handlers!NotConfigured, Handlers!Answer, Handlers!Goto,
                Handlers!TypeOK
  <2>2. call[c].pc = "idle"
    BY <1>0, <1>5, <2>1 DEF NoCredentials, ReadRow, Ended, Coupled, Fetching
  <2>3. Progress[c] = handler[c] /\ Progress'[c] = handler'[c]
    <3>1. ~Resolving(c) /\ ~Resolving(c)'
      BY <2>1, <2>2 DEF Resolving
    <3> QED BY <3>1, ProgressOf
  <2>4. Tools!Answer(c, "not_configured")
    BY <2>1, <2>3, OneProgressMoves DEF Tools!Answer
  <2> QED BY <1>2, <2>1, <2>3, <2>4 DEF Tools!NotConfigured, Tools!CallStep
<1>6. CASE Resolve(c)
  <2>1. UNCHANGED <<match, handler, read, done>> /\ handler[c].pc = "resolving"
    BY <1>6 DEF Resolve, toolVars
  <2>2. CASE call[c].pc = "idle" /\ ReadRow(c, t) /\ call'[c].pc = "row"
    <3>1. call'[c] = [pc |-> "row", tenant |-> t, kv |-> row[t]] /\ row[t] # NoRow
      BY <2>2 DEF ReadRow, Advance, ResolverTypeOK
    <3>2. Config[t] = Client(row[t]) /\ Config[t] # None
      BY <1>0, <3>1, RowClient, NoneIsNoClient DEF Config
    <3>3. ~Resolving(c) /\ Resolving(c)'
      BY <2>1, <2>2 DEF Resolving
    <3>4. Progress[c] = handler[c] /\ handler[c].tenant = t /\ handler[c].tool = tool
      BY <1>0, <2>1, <3>3, ProgressOf DEF Coupled
    <3>5. handler'[c].tool = tool /\ call'[c].kv = row[t]
      BY <2>1, <3>1, <3>4
    <3>6. Progress'[c] = [pc |-> "vault", tool |-> handler'[c].tool, client |-> Client(call'[c].kv)]
      BY <3>3, ProgressOf
    <3>7. Tools!Goto(c, [pc |-> "vault", tool |-> tool, client |-> Config[t]])
      BY <3>2, <3>5, <3>6, OneProgressMoves
    <3> QED BY <1>1, <1>2, <2>1, <3>2, <3>4, <3>7 DEF Tools!ReadConfig, Tools!CallStep
  <2>3. CASE Miss(c) \/ VaultAnswersId(c) \/ VaultAnswersSecret(c)
    <3>1. call[c].pc # "idle" /\ call'[c].pc # "idle" /\ call'[c].kv = call[c].kv
      BY <2>3 DEF Miss, VaultAnswersId, VaultAnswersSecret, Advance, ResolverTypeOK
    <3>2. Resolving(c) /\ Resolving(c)'
      BY <2>1, <3>1 DEF Resolving
    <3>3. Progress'[c] = Progress[c]
      BY <2>1, <3>1, <3>2, ProgressOf
    <3>4. Progress' = Progress
      BY <3>3, OneProgressMoves DEF Progress, Tools!Goto
    <3> QED BY <1>2, <2>1, <3>4 DEF Tools!vars
  <2> QED BY <1>6, <2>2, <2>3 DEF Resolve
<1>7. ASSUME NEW reply \in Handlers!Replies \cup {"no_token"}, ResolveFails(c, reply)
      PROVE  Tools!CallStep(c)
  <2>1. /\ UNCHANGED <<match, read, done>> /\ handler[c].pc = "resolving"
        /\ call[c].pc # "idle" /\ handler[c].tool = tool
    BY <1>0, <1>7 DEF ResolveFails, VaultFails, Coupled
  <2>2. PICK answer \in {"unavailable", "http500"} :
          /\ handler'[c] = [pc |-> "answered", tool |-> tool, answer |-> answer]
          /\ IF answer = "unavailable" THEN reply \in Handlers!Raises("vault")
                                       ELSE reply \in Handlers!Leaks("vault")
    BY <1>7, <2>1 DEF ResolveFails, Handlers!Answer, Handlers!Goto, Handlers!TypeOK
  <2>3. Progress[c].pc = "vault" /\ Progress[c].tool = tool /\ Progress'[c] = handler'[c]
    <3>1. Resolving(c) /\ ~Resolving(c)'
      BY <2>1, <2>2 DEF Resolving
    <3>2. /\ Progress[c] = [pc |-> "vault", tool |-> handler[c].tool, client |-> Client(call[c].kv)]
          /\ Progress'[c] = handler'[c]
      BY <3>1, ProgressOf
    <3> QED BY <2>1, <3>2
  <2>4. Tools!Answer(c, answer)
    BY <1>7, <2>2, <2>3, OneProgressMoves DEF Tools!Answer, CrmCallStep
  <2>5. /\ reply \in Tools!Replies \cup {"no_token", "no_guid"}
        /\ IF answer = "unavailable" THEN reply \in Tools!Raises("vault")
                                     ELSE reply \in Tools!Leaks("vault")
    BY <1>7, <2>2 DEF Handlers!Raises, Tools!Raises, Handlers!Leaks, Tools!Leaks, Handlers!Replies,
                      Tools!Replies
  <2>6. Tools!VaultFails(c, reply)
    BY <1>2, <2>1, <2>2, <2>3, <2>4, <2>5 DEF Tools!VaultFails
  <2> QED BY <2>5, <2>6 DEF Tools!CallStep
<1>8. CASE Connected(c)
  <2>1. /\ UNCHANGED <<match, read, done>> /\ handler[c].pc = "resolving"
        /\ call[c].pc # "idle" /\ handler[c].tool = tool
        /\ handler'[c] = [pc |-> "lookup", tool |-> tool, client |-> Client(call[c].kv)]
    BY <1>0, <1>8 DEF Connected, Hit, Land, Connector, Handlers!Goto, Handlers!TypeOK, Coupled
  <2>2. Resolving(c) /\ ~Resolving(c)'
    BY <2>1 DEF Resolving
  <2>3. Tools!Goto(c, [pc |-> "lookup", tool |-> tool, client |-> Client(call[c].kv)])
    BY <2>1, <2>2, ProgressOf, OneProgressMoves
  <2>4. Progress[c] = [pc |-> "vault", tool |-> tool, client |-> Client(call[c].kv)]
    BY <2>1, <2>2, ProgressOf
  <2>5. Tools!Connect(c)
    BY <1>2, <2>1, <2>3, <2>4 DEF Tools!Connect
  <2> QED BY <2>5 DEF Tools!CallStep
<1>9. CASE UseConnector(c)
  <2>1. handler[c].pc \in Using /\ handler[c].tool = tool /\ call' = call
    BY <1>0, <1>9 DEF UseConnector, vars, Coupled, Using, Handlers!LookupReached, Handlers!Match,
       Handlers!RequestReached, Handlers!LookupFails, Handlers!NoMatch, Handlers!RequestAnswered
  <2>2. Progress[c] = handler[c]
    BY <2>1, ProgressOf DEF Using, Resolving
  <2>3. ASSUME NEW r, Handlers!Goto(c, r), r.pc # "resolving" PROVE Tools!Goto(c, r)
    <3>1. handler'[c] = r
      BY <2>3 DEF Handlers!Goto, Handlers!TypeOK
    <3>2. ~Resolving(c)'
      BY <2>3, <3>1 DEF Resolving
    <3> QED BY <3>1, <3>2, ProgressOf, OneProgressMoves
  <2>4. ASSUME NEW answer, Handlers!Answer(c, answer) PROVE Tools!Answer(c, answer)
    BY <2>2, <2>3, <2>4 DEF Handlers!Answer, Tools!Answer
  <2>5. CASE Handlers!LookupReached(c)
    BY <1>2, <2>2, <2>3, <2>5 DEF Handlers!LookupReached, Tools!LookupReached, Tools!CallStep
  <2>6. CASE Handlers!Match(c)
    <3>1. handler[c] \in [pc : {"found"}, tool : Handlers!CrmTools,
                          client : Handlers!Registration, account : Accounts \cup {None}]
      BY <2>6 DEF Handlers!Match, Handlers!TypeOK, Handlers!Call
    <3>2. [handler[c] EXCEPT !.pc = "acting"].pc = "acting"
      BY <3>1
    <3> QED BY <1>2, <2>2, <2>3, <2>4, <2>6, <3>2 DEF Handlers!Match, Tools!Match, Tools!CallStep
  <2>7. CASE Handlers!RequestReached(c, Posts[c].given)
    <3>1. handler[c] \in [pc : {"acting"}, tool : Handlers!Tools,
                          client : Handlers!Registration, account : Accounts \cup {None}]
      BY <2>7 DEF Handlers!RequestReached, Handlers!TypeOK, Handlers!Call
    <3>2. [handler[c] EXCEPT !.pc = "acted"].pc = "acted"
      BY <3>1
    <3>3. Tools!Goto(c, [Progress[c] EXCEPT !.pc = "acted"])
      BY <2>2, <2>3, <2>7, <3>2 DEF Handlers!RequestReached
    <3>4. Handlers!Asked(c, Posts[c].given) = Tools!Asked(c, Posts[c].given)
      BY <2>2 DEF Handlers!Asked, Tools!Asked, Handlers!IncidentBody, Tools!IncidentBody,
         Handlers!Column, Tools!Column, Handlers!DEFAULT_INCIDENT_MAP, Tools!DEFAULT_INCIDENT_MAP,
         Handlers!Bind, Tools!Bind
    <3>5. Tools!RequestReached(c, Posts[c].given)
      BY <1>2, <2>2, <2>7, <3>3, <3>4 DEF Handlers!RequestReached, Tools!RequestReached,
         Handlers!Effectful, Tools!Effectful
    <3> QED BY <1>1, <3>5 DEF Tools!CallStep
  <2>8. ASSUME NEW reply \in Handlers!Replies \cup {"no_token", "no_guid"},
               \/ Handlers!LookupFails(c, reply)
               \/ Handlers!NoMatch(c, reply)
               \/ Handlers!RequestAnswered(c, reply)
        PROVE  Tools!CallStep(c)
    <3> USE DEF Handlers!Raises, Tools!Raises, Handlers!Leaks, Tools!Leaks, Handlers!Replies,
                Tools!Replies
    <3>1. reply \in Tools!Replies \cup {"no_token", "no_guid"}
      BY <2>8
    <3>2. CASE Handlers!LookupFails(c, reply)
      <4>1. Tools!LookupFails(c, reply)
        BY <1>2, <2>2, <2>4, <3>2 DEF Handlers!LookupFails, Tools!LookupFails, Handlers!Unsent,
           Tools!Unsent, Handlers!CrmTools, Tools!CrmTools
      <4> QED BY <3>1, <4>1 DEF Tools!CallStep
    <3>3. CASE Handlers!NoMatch(c, reply)
      <4>1. Tools!NoMatch(c, reply)
        BY <1>2, <2>2, <2>4, <3>3 DEF Handlers!NoMatch, Tools!NoMatch
      <4> QED BY <3>1, <4>1 DEF Tools!CallStep
    <3>4. CASE Handlers!RequestAnswered(c, reply)
      <4>1. Tools!RequestAnswered(c, reply)
        BY <1>2, <2>2, <2>4, <3>4 DEF Handlers!RequestAnswered, Tools!RequestAnswered,
           Handlers!Fruitless, Tools!Fruitless, Handlers!Unsent, Tools!Unsent, Handlers!CrmTools,
           Tools!CrmTools, Handlers!Method, Tools!Method, Handlers!Declines, Tools!Declines,
           Handlers!Blank, Tools!Blank
      <4> QED BY <3>1, <4>1 DEF Tools!CallStep
    <3> QED BY <2>8, <3>2, <3>3, <3>4
  <2>9. \/ Handlers!LookupReached(c) \/ Handlers!Match(c)
        \/ Handlers!RequestReached(c, Posts[c].given)
        \/ \E reply \in Handlers!Replies \cup {"no_token", "no_guid"} :
             \/ Handlers!LookupFails(c, reply)
             \/ Handlers!NoMatch(c, reply)
             \/ Handlers!RequestAnswered(c, reply)
    BY <1>9 DEF UseConnector
  <2> QED BY <2>5, <2>6, <2>7, <2>8, <2>9
<1> QED BY <1>3, <1>4, <1>5, <1>6, <1>7, <1>8, <1>9 DEF CrmCallStep

(* An admin request that changes a row registers something else for one      *)
(* tenant; all else that happens around the calls does not show.             *)
LEMMA AroundRefines ==
  ASSUME ResolverTypeOK, ColumnsWerePosted', Around
  PROVE  Tools!Next \/ UNCHANGED Tools!vars
<1>1. UNCHANGED <<call, match, handler, read, done>>
  BY DEF Around, toolVars, AdminStep, AdminBegin, AdminCommit, AdminRespond, AdminLost, RotateVault,
         Tick
<1>2. Progress' = Progress
  BY <1>1 DEF Progress, Resolving
<1>3. CASE row' = row
  BY <1>1, <1>2, <1>3, ConfigKept DEF Tools!vars
<1>4. CASE row' # row
  <2>1. PICK a \in Requests : UpsertCommit(a) \/ DeleteRow(a)
    BY <1>4 DEF Around, AdminStep, AdminBegin, AdminCommit, AdminRespond, AdminLost, RotateVault,
                Tick, Reject, FailBefore, UpsertConflict, UpsertRefresh, Get, DeleteStart,
                UpsertLoad, UpsertRespond, DeleteRespond, FailAfter, RefreshGone, Drop
  <2> DEFINE t == req[a].tenant
  <2>2. t \in Tenants /\ row' = [row EXCEPT ![t] = row'[t]]
    BY <2>1 DEF UpsertCommit, DeleteRow, ResolverTypeOK, TypeOK, Request
  <2>3. Config' = [Config EXCEPT ![t] = Config'[t]]
    <3>1. \A u \in Tenants : u # t => row'[u] = row[u]
      BY <2>2 DEF ResolverTypeOK, TypeOK
    <3>2. \A u \in Tenants : u # t => Config'[u] = Config[u]
      BY <3>1 DEF Config
    <3>3. DOMAIN Config' = Tenants /\ Config' = [u \in Tenants |-> Config'[u]]
          /\ Config = [u \in Tenants |-> Config[u]]
      BY DEF Config
    <3> QED BY <3>2, <3>3
  <2>4. (Config \in [Tenants -> Handlers!Registration \cup {None}])'
    BY ConfigTyped, PTL
  <2>5. Config'[t] \in Tools!Registration \cup {None}
    BY <2>2, <2>4 DEF Handlers!Registration, Tools!Registration
  <2>6. Tools!Reconfigure(t, Config'[t])
    BY <1>1, <1>2, <2>3 DEF Tools!Reconfigure
  <2> QED BY <2>2, <2>5, <2>6 DEF Tools!Next
<1> QED BY <1>3, <1>4

(* A crash cuts the calls that ToolCalls sees running, and those only. *)
LEMMA CrashRefines ==
  ASSUME Handlers!TypeOK, CallsCoupled, Crash
  PROVE  Tools!Restart
<1>1. /\ row' = row /\ UNCHANGED <<match, read, done>>
      /\ \A c \in Calls : call'[c].pc = "idle"
      /\ handler' = [c \in Calls |->
           IF handler[c].pc \in Handlers!Running
           THEN [pc |-> "answered", tool |-> handler[c].tool, answer |-> "cut"] ELSE handler[c]]
  BY DEF Crash, RestartProcess, Restart, Handlers!Restart
<1>2. ASSUME NEW c \in Calls
      PROVE  Progress'[c] = IF Progress[c].pc \in Tools!Running
                            THEN [pc |-> "answered", tool |-> Progress[c].tool, answer |-> "cut"]
                            ELSE Progress[c]
  <2>1. Progress'[c] = handler'[c]
    <3>1. ~Resolving(c)'
      BY <1>1 DEF Resolving
    <3> QED BY <3>1, ProgressOf
  <2>2. CASE Resolving(c)
    <3>1. Progress[c] = [pc |-> "vault", tool |-> handler[c].tool, client |-> Client(call[c].kv)]
      BY <2>2, ProgressOf
    <3>2. Progress[c].pc \in Tools!Running /\ Progress[c].tool = handler[c].tool
      BY <3>1 DEF Tools!Running
    <3>3. handler[c].pc \in Handlers!Running
      BY <2>2 DEF Resolving, Handlers!Running
    <3> QED BY <1>1, <2>1, <3>2, <3>3
  <2>3. CASE ~Resolving(c)
    <3>1. Progress[c] = handler[c]
      BY <2>3, ProgressOf
    <3>2. handler[c].pc \in Handlers!Running <=> handler[c].pc \in Tools!Running
      BY DEF Handlers!Running, Tools!Running
    <3> QED BY <1>1, <2>1, <3>1, <3>2
  <2> QED BY <2>2, <2>3
<1> QED BY <1>1, <1>2, ConfigKept DEF Tools!Restart, Progress

(* The whole of it implements ToolCalls: row, cache, vaults and operators are, *)
(* to a caller, one configuration read at one instant.                         *)
THEOREM CallsImplementTools == CrmSpec => ImplementsToolCalls
<1>1. CrmInit => Tools!Init
  BY DEF CrmInit, ResolverInit, Init, Tools!Init, Config, Progress, Resolving
<1>2. /\ ResolverTypeOK /\ ColumnsWerePosted /\ ColumnsWerePosted' /\ Handlers!TypeOK
      /\ CallsCoupled /\ [CrmNext]_allVars
      => [Tools!Next]_Tools!vars
  <2> SUFFICES ASSUME ResolverTypeOK, ColumnsWerePosted, ColumnsWerePosted', Handlers!TypeOK,
                      CallsCoupled, [CrmNext]_allVars
               PROVE  Tools!Next \/ UNCHANGED Tools!vars
    OBVIOUS
  <2>1. CASE UNCHANGED allVars
    <3>1. Config' = Config /\ Progress' = Progress
      BY <2>1 DEF allVars, vars, toolVars, Config, Progress, Resolving
    <3> QED BY <2>1, <3>1 DEF allVars, toolVars, Tools!vars
  <2>2. ASSUME NEW c \in Calls, CrmCallStep(c) PROVE Tools!Next \/ UNCHANGED Tools!vars
    BY <2>2, CallStepRefines DEF Tools!Next
  <2>3. CASE Around
    BY <2>3, AroundRefines
  <2>4. ASSUME NEW s \in Servers, NEW g \in Accounts \cup {None}, CustomerMoves(s, g)
        PROVE  Tools!Next
    <3>1. Progress' = Progress /\ Config' = Config
      BY <2>4 DEF CustomerMoves, Handlers!Relink, vars, Progress, Resolving, Config
    <3>2. Tools!Relink(s, g)
      BY <2>4, <3>1 DEF CustomerMoves, Handlers!Relink, Tools!Relink, vars
    <3> QED BY <3>2 DEF Tools!Next
  <2>5. CASE Crash
    BY <2>5, CrashRefines DEF Tools!Next
  <2> QED BY <2>1, <2>2, <2>3, <2>4, <2>5 DEF CrmNext
<1> QED BY <1>1, <1>2, Coupling, PTL DEF CrmSpec, ImplementsToolCalls, Tools!Spec

-----------------------------------------------------------------------------
(* ToolCalls and its proofs speak of the same specification and promises. *)
LEMMA SameSpec == Tools!Spec <=> ToolsP!Spec
BY DEF Tools!Spec, ToolsP!Spec, Tools!Init, ToolsP!Init, Tools!Next, ToolsP!Next, Tools!vars,
       ToolsP!vars, Tools!CallStep, ToolsP!CallStep, Tools!Serve, ToolsP!Serve, Tools!Start,
       ToolsP!Start, Tools!NotConfigured, ToolsP!NotConfigured, Tools!StoreFails,
       ToolsP!StoreFails, Tools!DecryptFails, ToolsP!DecryptFails, Tools!ReadConfig,
       ToolsP!ReadConfig, Tools!VaultFails, ToolsP!VaultFails, Tools!Connect, ToolsP!Connect,
       Tools!LookupReached, ToolsP!LookupReached, Tools!LookupFails, ToolsP!LookupFails,
       Tools!NoMatch, ToolsP!NoMatch, Tools!Match, ToolsP!Match, Tools!RequestReached,
       ToolsP!RequestReached, Tools!RequestAnswered, ToolsP!RequestAnswered, Tools!Reconfigure,
       ToolsP!Reconfigure, Tools!Relink, ToolsP!Relink, Tools!Restart, ToolsP!Restart, Tools!Goto,
       ToolsP!Goto, Tools!Answer, ToolsP!Answer, Tools!Running, ToolsP!Running, Tools!Served,
       ToolsP!Served, Tools!Method, ToolsP!Method, Tools!Raises, ToolsP!Raises, Tools!Leaks,
       ToolsP!Leaks, Tools!Declines, ToolsP!Declines, Tools!Blank, ToolsP!Blank, Tools!Unsent,
       ToolsP!Unsent, Tools!Fruitless, ToolsP!Fruitless, Tools!Replies,
       ToolsP!Replies, Tools!Asked, ToolsP!Asked, Tools!CrmTools, ToolsP!CrmTools,
       Tools!CustomTools, ToolsP!CustomTools, Tools!Tools, ToolsP!Tools, Tools!Effectful,
       ToolsP!Effectful, Tools!Registration, ToolsP!Registration, Tools!Texts, ToolsP!Texts,
       Tools!Bind, ToolsP!Bind, Tools!DEFAULT_INCIDENT_MAP, ToolsP!DEFAULT_INCIDENT_MAP,
       Tools!Column, ToolsP!Column, Tools!IncidentBody, ToolsP!IncidentBody

LEMMA SamePromises ==
  /\ Tools!CaseForVerifiedAccount <=> ToolsP!CaseForVerifiedAccount
  /\ Tools!TextsReachTheCase <=> ToolsP!TextsReachTheCase
  /\ Tools!AtMostOneEffect <=> ToolsP!AtMostOneEffect
  /\ Tools!AnswerMatchesEffect <=> ToolsP!AnswerMatchesEffect
BY DEF Tools!CaseForVerifiedAccount, ToolsP!CaseForVerifiedAccount, Tools!TextsReachTheCase,
       ToolsP!TextsReachTheCase, Tools!AtMostOneEffect, ToolsP!AtMostOneEffect,
       Tools!AnswerMatchesEffect, ToolsP!AnswerMatchesEffect, Tools!Answered, ToolsP!Answered,
       Tools!Effectful,
       ToolsP!Effectful, Tools!Bind, ToolsP!Bind, Tools!Texts, ToolsP!Texts, Tools!Column,
       ToolsP!Column, Tools!DEFAULT_INCIDENT_MAP, ToolsP!DEFAULT_INCIDENT_MAP

(* What ToolCalls promises its callers it promises over the real resolver: a  *)
(* case only for the account this call's lookup verified, with the customer's  *)
(* texts in it, at most one, and an answer that tells what was done.           *)
THEOREM CallsKeepTheirPromises ==
  CrmSpec => [](/\ Tools!CaseForVerifiedAccount /\ Tools!TextsReachTheCase
                /\ Tools!AtMostOneEffect /\ Tools!AnswerMatchesEffect)
<1>1. CrmSpec => ToolsP!Spec
  BY CallsImplementTools, SameSpec DEF ImplementsToolCalls
<1>2. ToolsP!Spec => []ToolsP!CaseForVerifiedAccount
  BY ToolAssumptions, ToolsP!CasesAreForVerifiedAccounts
<1>3. ToolsP!Spec => []ToolsP!TextsReachTheCase
  BY ToolAssumptions, ToolsP!NoTextIsLost
<1>4. ToolsP!Spec => []ToolsP!AtMostOneEffect
  BY ToolAssumptions, ToolsP!CallsActAtMostOnce
<1>5. ToolsP!Spec => []ToolsP!AnswerMatchesEffect
  BY ToolAssumptions, ToolsP!AnswersAreHonest
<1> QED BY <1>1, <1>2, <1>3, <1>4, <1>5, SamePromises, PTL

-----------------------------------------------------------------------------
(* One configuration per call.  What call c has read and opened agrees with   *)
(* body b; ...                                                                *)
Of(c, b) ==
  /\ read[c] # None => read[c].server = b["org"]
  /\ \A i \in 1..Len(done[c]) : done[c][i].server = b["org"] /\ done[c][i].map = b["field_map"]

(* ... with the one its SELECT found, from the moment it has a connector; and *)
(* as long as the call is calm its connector is still there to compare with.   *)
GoesBy(c) ==
  /\ handler[c].pc \in {"new", "resolving"} => read[c] = None /\ done[c] = <<>>
  /\ call[c].pc \in Fetching \cup {"connected"} => call[c].kv \in Bodies[Posts[c].tenant]
  /\ handler[c].pc \in Using => Of(c, call[c].kv)
  /\ read[c] # None \/ done[c] # <<>> =>
       \E b \in Bodies[Posts[c].tenant] :
          Of(c, b) /\ (c \in calm => call[c].pc = "connected" /\ call[c].kv = b)

(* A call that is given a connector, or answered without one, has done nothing. *)
LEMMA NothingDoneYet ==
  ASSUME NEW c \in Calls, read'[c] = None, done'[c] = <<>>,
         (call[c].pc \in Fetching \cup {"connected"} => call[c].kv \in Bodies[Posts[c].tenant])'
  PROVE  GoesBy(c)'
BY DEF GoesBy, Of

(* A step with the connector agrees with the row it was built from. *)
LEMMA UseGoesBy ==
  ASSUME ResolverTypeOK, Handlers!TypeOK, CallsCoupled, NEW c \in Calls, GoesBy(c), UseConnector(c)
  PROVE  GoesBy(c)'
<1> DEFINE kv == call[c].kv
<1>1. /\ Coupled(c) /\ handler[c].pc \in Using /\ call' = call /\ calm' = calm
      /\ handler'[c].pc \notin {"new", "resolving"}
  <2>1. Coupled(c) /\ call' = call /\ calm' = calm
    BY DEF UseConnector, vars, CallsCoupled
  <2>2. handler[c].pc \in Using
    BY DEF UseConnector, Using, Handlers!LookupReached, Handlers!Match, Handlers!RequestReached,
           Handlers!LookupFails, Handlers!NoMatch, Handlers!RequestAnswered
  <2>3. handler'[c].pc \notin {"new", "resolving"}
    <3> USE DEF Handlers!TypeOK, Handlers!Goto, Handlers!Answer
    <3>1. CASE Handlers!Match(c)
      <4>1. handler[c] \in [pc : {"found"}, tool : Handlers!CrmTools,
                            client : Handlers!Registration, account : Accounts \cup {None}]
        BY <3>1 DEF Handlers!Match, Handlers!Call
      <4> QED BY <3>1, <4>1 DEF Handlers!Match
    <3>2. CASE Handlers!RequestReached(c, Posts[c].given)
      <4>1. handler[c] \in [pc : {"acting"}, tool : Handlers!Tools,
                            client : Handlers!Registration, account : Accounts \cup {None}]
        BY <3>2 DEF Handlers!RequestReached, Handlers!Call
      <4> QED BY <3>2, <4>1 DEF Handlers!RequestReached
    <3>3. CASE ~Handlers!Match(c) /\ ~Handlers!RequestReached(c, Posts[c].given)
      BY <3>3 DEF UseConnector, Handlers!LookupReached, Handlers!LookupFails, Handlers!NoMatch,
                  Handlers!RequestAnswered
    <3> QED BY <3>1, <3>2, <3>3
  <2> QED BY <2>1, <2>2, <2>3
<1>2. /\ kv \in Bodies[Posts[c].tenant] /\ Of(c, kv) /\ call[c].pc = "connected"
      /\ handler[c].client.server = kv["org"] /\ handler[c].client.map = kv["field_map"]
  BY <1>1 DEF GoesBy, Coupled, Client
<1>3. Of(c, kv)'
  <2>1. CASE Handlers!LookupReached(c)
    <3>1. /\ read'[c] = [server |-> kv["org"], account |-> match[kv["org"]]]
          /\ done' = done
      BY <1>2, <2>1 DEF Handlers!LookupReached, Handlers!TypeOK
    <3> QED BY <1>1, <1>2, <3>1 DEF Of
  <2>2. CASE Handlers!RequestReached(c, Posts[c].given)
    <3> DEFINE e == Handlers!Asked(c, Posts[c].given)
    <3>1. read' = read /\ done'[c] \in {done[c], Append(done[c], e)}
          /\ (done'[c] # done[c] => handler[c].tool \in Handlers!Effectful)
      BY <2>2 DEF Handlers!RequestReached, Handlers!TypeOK
    <3>2. handler[c].tool \in Handlers!Effectful => handler[c].tool = "create_support_case"
      BY <1>1, PostsAssumption DEF Coupled, Handlers!Effectful, Handlers!CrmTools
    <3>3. handler[c].tool = "create_support_case"
            => e.server = kv["org"] /\ e.map = kv["field_map"]
      BY <1>2 DEF Handlers!Asked
    <3>4. done[c] \in Seq(Handlers!Effect)
      BY DEF Handlers!TypeOK
    <3>5. CASE done'[c] = done[c]
      BY <1>1, <1>2, <3>1, <3>5 DEF Of
    <3>6. CASE done'[c] # done[c]
      <4>1. done'[c] = Append(done[c], e) /\ e.server = kv["org"] /\ e.map = kv["field_map"]
        BY <3>1, <3>2, <3>3, <3>6
      <4> HIDE DEF e
      <4>2. ASSUME NEW i \in 1..Len(done'[c])
            PROVE  done'[c][i].server = kv["org"] /\ done'[c][i].map = kv["field_map"]
        <5>1. CASE i = Len(done[c]) + 1
          BY <3>4, <4>1, <5>1
        <5>2. CASE i # Len(done[c]) + 1
          <6>1. i \in 1..Len(done[c]) /\ done'[c][i] = done[c][i]
            BY <3>4, <4>1, <5>2
          <6> QED BY <1>2, <6>1 DEF Of
        <5> QED BY <5>1, <5>2
      <4> QED BY <1>1, <1>2, <3>1, <4>2 DEF Of
    <3> QED BY <3>5, <3>6
  <2>3. CASE ~Handlers!LookupReached(c) /\ ~Handlers!RequestReached(c, Posts[c].given)
    <3>1. read' = read /\ done' = done
      BY <2>3 DEF UseConnector, Handlers!Match, Handlers!LookupFails, Handlers!NoMatch,
                  Handlers!RequestAnswered
    <3> QED BY <1>1, <1>2, <3>1 DEF Of
  <2> QED BY <2>1, <2>2, <2>3
<1> QED BY <1>1, <1>2, <1>3 DEF GoesBy

(* Every step of a call keeps it by its configuration: what the SELECT finds is *)
(* a whole body when no two POSTs for the tenant overlap. *)
LEMMA CallGoesBy ==
  ASSUME ResolverTypeOK, RowIsAPostedBody, Handlers!TypeOK, CallsCoupled,
         NEW c \in Calls, GoesBy(c), CrmCallStep(c)
  PROVE  GoesBy(c)'
<1>0. Coupled(c) /\ Posts[c].tenant \in Tenants
  BY PostsAssumption DEF CallsCoupled
<1>1. CASE UseConnector(c)
  BY <1>1, UseGoesBy
<1>2. CASE ~UseConnector(c)
  <2>1. read' = read /\ done' = done /\ handler[c].pc \in {"new", "resolving"}
    BY <1>2 DEF CrmCallStep, Start, SelectFails, NoCredentials, Resolve, ResolveFails, Connected,
       toolVars, Handlers!Start, Handlers!StoreFails, Handlers!DecryptFails, Handlers!NotConfigured
  <2>2. read'[c] = None /\ done'[c] = <<>>
    BY <2>1 DEF GoesBy
  <2>3. (call[c].pc \in Fetching \cup {"connected"} => call[c].kv \in Bodies[Posts[c].tenant])'
    <3>1. ASSUME call'[c].pc \in Fetching \cup {"connected"}
          PROVE  call'[c].kv \in Bodies[Posts[c].tenant]
      <4>1. CASE ReadRow(c, Posts[c].tenant)
        <5>1. call'[c].kv = row[Posts[c].tenant] /\ row[Posts[c].tenant] # NoRow
          BY <3>1, <4>1 DEF ReadRow, Advance, ResolverTypeOK, Fetching
        <5> QED BY <1>0, <5>1 DEF RowIsAPostedBody
      <4>2. CASE Miss(c) \/ VaultAnswersId(c) \/ VaultAnswersSecret(c) \/ Hit(c) \/ Land(c)
        <5>1. call[c].pc \in Fetching /\ call'[c].kv = call[c].kv
          <6>1. CASE Land(c)
            BY <6>1 DEF Land, Advance, ResolverTypeOK, Call, Fetching
          <6>2. CASE ~Land(c)
            BY <4>2, <6>2 DEF Miss, VaultAnswersId, VaultAnswersSecret, Hit, Advance,
               ResolverTypeOK, Fetching
          <6> QED BY <6>1, <6>2
        <5> QED BY <5>1 DEF GoesBy
      <4>3. CASE VaultFails(c)
        BY <3>1, <4>3 DEF VaultFails, Advance, ResolverTypeOK, Fetching
      <4>4. CASE UNCHANGED vars
        BY <3>1, <4>4 DEF vars, GoesBy
      <4> QED BY <1>2, <4>1, <4>2, <4>3, <4>4
           DEF CrmCallStep, Start, SelectFails, NoCredentials, Resolve, ResolveFails, Connected
    <3> QED BY <3>1
  <2> QED BY <2>2, <2>3, NothingDoneYet
<1> QED BY <1>1, <1>2

(* A step changes no other call's account with its configuration: at most a    *)
(* change of the row ends its calm.                                            *)
LEMMA OthersGoBy ==
  ASSUME ResolverTypeOK, Handlers!TypeOK, CallsCoupled, NEW c \in Calls, GoesBy(c),
         [CrmNext]_allVars, ~CrmCallStep(c)
  PROVE  GoesBy(c)'
<1>1. ASSUME UNCHANGED <<handler, call, read, done>>, c \in calm' => c \in calm PROVE GoesBy(c)'
  BY <1>1 DEF GoesBy, Of
<1>2. CASE UNCHANGED allVars
  BY <1>1, <1>2 DEF allVars, vars, toolVars
<1>3. ASSUME NEW d \in Calls, d # c, CrmCallStep(d) PROVE GoesBy(c)'
  <2>1. /\ handler'[c] = handler[c] /\ call'[c] = call[c]
        /\ read'[c] = read[c] /\ done'[c] = done[c]
    BY <1>3, OneHandlerMoves
  <2>2. c \in calm' => c \in calm
    BY <1>3 DEF CrmCallStep, Start, SelectFails, NoCredentials, Resolve, ResolveFails, Connected,
       UseConnector, vars, ReadRow, Miss, VaultAnswersId, VaultAnswersSecret, VaultFails, Hit, Land
  <2> QED BY <2>1, <2>2 DEF GoesBy, Of
<1>4. CASE Around
  <2>1. call' = call /\ calm' \subseteq calm
    BY <1>4 DEF Around, AdminStep, AdminBegin, AdminCommit, AdminRespond, AdminLost, RotateVault,
                Tick
  <2> QED BY <1>1, <1>4, <2>1 DEF Around, toolVars
<1>5. CASE \E s \in Servers, g \in Accounts \cup {None} : CustomerMoves(s, g)
  BY <1>1, <1>5 DEF CustomerMoves, vars, Handlers!Relink
<1>6. CASE Crash
  <2>1. /\ read' = read /\ done' = done /\ calm' = {} /\ call'[c].pc = "idle"
        /\ handler'[c].pc \in {"answered", handler[c].pc}
        /\ handler'[c].pc \notin Using
    BY <1>6 DEF Crash, RestartProcess, Handlers!Restart, Handlers!Running, Using
  <2> QED BY <2>1 DEF GoesBy, Of, Fetching
<1> QED BY <1>2, <1>3, <1>4, <1>5, <1>6 DEF CrmNext

(* A call of a tenant that is posted one body at a time goes by one of them:   *)
(* organisation, field_map and, if it is calm, registration.                   *)
THEOREM CallsGoByOneConfiguration == SerialCrmSpec => []OneConfigurationPerCall
<1>1. SerialCrmSpec =>
        [](ResolverTypeOK /\ Handlers!TypeOK /\ CallsCoupled /\ RowIsAPostedBody
           /\ CalmCallIsCoherent)
  BY SerialCrmIsASerialStore, Coupling, CrmIsAResolver, CalmCallsAreCoherent, RowsAreWhole, PTL
<1>2. CrmInit => \A c \in Calls : GoesBy(c)
  BY DEF CrmInit, ResolverInit, GoesBy, Fetching, Using
<1>3. /\ ResolverTypeOK /\ RowIsAPostedBody /\ Handlers!TypeOK /\ CallsCoupled
      /\ (\A c \in Calls : GoesBy(c)) /\ [CrmNext]_allVars
      => (\A c \in Calls : GoesBy(c))'
  BY CallGoesBy, OthersGoBy
<1>4. (\A c \in Calls : GoesBy(c)) /\ CalmCallIsCoherent /\ ResolverTypeOK
        => OneConfigurationPerCall
  BY DEF GoesBy, Of, CalmCallIsCoherent, ResolverTypeOK, OneConfigurationPerCall, Follows
<1> QED BY <1>1, <1>2, <1>3, <1>4, SerialCrmIsASerialStore, PTL DEF CrmSpec
=============================================================================
