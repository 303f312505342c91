---------------------------- MODULE CrmToolCalls ----------------------------
(***************************************************************************)
(* The CRM tool calls from end to end: the handlers of ToolCalls, whose      *)
(* connector now comes from CrmResolver, over the credentials table, the     *)
(* cache and the vaults, while operators change the rows.                    *)
(*                                                                         *)
(* get_connector returns a D365Connector built from two things read at two  *)
(* times: the organisation and the field_map of the row its SELECT found,    *)
(* and a registration from the cache or the vault.  Nothing of the row is    *)
(* read again after that.  What a handler does with the connector is         *)
(* ToolCalls; custom API calls have a table of their own and no resolver.    *)
(***************************************************************************)
EXTENDS CrmResolver, Sequences

CONSTANTS Servers,      \* Dataverse organisations (the values of column "org")
          CaseColumns,  \* columns of an incident
          FieldMaps,    \* the values of column "field_map"
          Accounts,     \* account GUIDs
          None,         \* no account, no configuration
          Posts         \* Posts[c]: call c's tool and tenant, and which texts it gives

VARIABLES match,    \* match[s]: the account the customer's data select at s (external)
          handler,  \* handler[c]: where the handler of call c stands
          read,     \* history: what call c's lookup selected, and where
          done      \* history: what call c did at the organisations

toolVars == <<match, handler, read, done>>
allVars == <<vars, toolVars>>

(* What get_connector takes from a row beside the vault. *)
Client(kv) == [server |-> kv["org"], map |-> kv["field_map"]]

(* What is registered for each tenant, as ToolCalls sees it.                 *)
Config == [t \in Tenants |-> IF row[t] = NoRow THEN None ELSE Client(row[t])]

(* A handler that awaits get_connector is past its SELECT once the resolver   *)
(* holds a row.                                                              *)
Resolving(c) == handler[c].pc = "resolving" /\ call[c].pc # "idle"

Progress == [c \in Calls |->
               IF Resolving(c)
               THEN [pc |-> "vault", tool |-> handler[c].tool, client |-> Client(call[c].kv)]
               ELSE handler[c]]

(* The handlers' own steps, and what all of it looks like from ToolCalls.     *)
Handlers == INSTANCE ToolCalls WITH call <- handler, config <- Config, Columns <- CaseColumns
Tools    == INSTANCE ToolCalls WITH call <- Progress, config <- Config, Columns <- CaseColumns

ASSUME PostsAssumption ==
  Posts \in [Calls -> [tool : Handlers!CrmTools, tenant : Tenants, given : SUBSET Handlers!Texts]]
ASSUME ClientAssumption ==
  /\ "field_map" \in Columns
  /\ \A t \in Tenants : \A b \in Bodies[t] : Client(b) \in Handlers!Registration
ASSUME NoneIsNoClient == None \notin Handlers!Registration \cup Accounts
ASSUME CaseColumnsAssumption ==
  /\ {"title", "description", Handlers!Bind} \subseteq CaseColumns
  /\ \A map \in FieldMaps : \A key \in DOMAIN map : map[key] \in CaseColumns
  /\ None \notin Handlers!Texts

CrmInit == /\ ResolverInit
           /\ match = [s \in Servers |-> None]
           /\ handler = [c \in Calls |-> [pc |-> "new"]]
           /\ read = [c \in Calls |-> None]
           /\ done = [c \in Calls |-> <<>>]

-----------------------------------------------------------------------------
(* A call, from its tool's first line to the connector ...                   *)
Start(c) == UNCHANGED vars /\ Handlers!Start(c, Posts[c].tool, Posts[c].tenant)

(* get_connector: the SELECT fails, or what it finds cannot be decrypted; ... *)
SelectFails(c) == /\ call[c].pc = "idle"
                  /\ UNCHANGED vars
                  /\ Handlers!StoreFails(c) \/ Handlers!DecryptFails(c)

(* ... or it finds no row, and the tool answers; ...                          *)
NoCredentials(c) == /\ ReadRow(c, Posts[c].tenant)
                    /\ Handlers!NotConfigured(c)

(* ... or it finds one, and the resolver goes on with it, ...                 *)
Resolve(c) == /\ handler[c].pc = "resolving"
              /\ \/ call[c].pc = "idle" /\ ReadRow(c, Posts[c].tenant) /\ call'[c].pc = "row"
                 \/ Miss(c) \/ VaultAnswersId(c) \/ VaultAnswersSecret(c)
              /\ UNCHANGED toolVars

(* ... to a vault that fails, ...                                             *)
ResolveFails(c, reply) ==
  /\ handler[c].pc = "resolving"
  /\ VaultFails(c)
  /\ \/ reply \in Handlers!Raises("vault") /\ Handlers!Answer(c, "unavailable")
     \/ reply \in Handlers!Leaks("vault") /\ Handlers!Answer(c, "http500")
  /\ UNCHANGED <<match, read, done>>

Connector(c, kv) == Handlers!Goto(c, [pc |-> "lookup", tool |-> handler[c].tool,
                                      client |-> Client(kv)])

(* Mutant: the connector is built from the row as it is when the fetch returns. *)
ConnectedFromNewRow(c) ==
  /\ handler[c].pc = "resolving"
  /\ Hit(c) \/ Land(c)
  /\ Connector(c, IF row[call[c].tenant] = NoRow THEN call[c].kv ELSE row[call[c].tenant])
  /\ UNCHANGED <<match, read, done>>

(* ... or to a connector, for the row that was read.                          *)
Connected(c) ==
  /\ handler[c].pc = "resolving"
  /\ Hit(c) \/ Land(c)
  /\ Connector(c, call[c].kv)
  /\ UNCHANGED <<match, read, done>>

(* ... and with it to the answer.                                             *)
UseConnector(c) ==
  /\ UNCHANGED vars
  /\ \/ Handlers!LookupReached(c) \/ Handlers!Match(c)
     \/ Handlers!RequestReached(c, Posts[c].given)
     \/ \E reply \in Handlers!Replies \cup {"no_token", "no_guid"} :
          \/ Handlers!LookupFails(c, reply)
          \/ Handlers!NoMatch(c, reply)
          \/ Handlers!RequestAnswered(c, reply)

CrmCallStep(c) == \/ Start(c) \/ SelectFails(c) \/ NoCredentials(c) \/ Resolve(c)
                  \/ \E reply \in Handlers!Replies \cup {"no_token"} : ResolveFails(c, reply)
                  \/ Connected(c) \/ UseConnector(c)

(* Operators, vaults and time do nothing to a handler directly.               *)
Around == /\ \/ \E a \in Requests : AdminStep(a)
             \/ \E v \in Vaults : RotateVault(v)
             \/ Tick
          /\ UNCHANGED toolVars

CustomerMoves(s, g) == UNCHANGED vars /\ Handlers!Relink(s, g)

(* One process: the calls die with the requests and the cache.                *)
Crash == RestartProcess /\ Handlers!Restart

CrmNext == \/ \E c \in Calls : CrmCallStep(c)
           \/ Around
           \/ \E s \in Servers, g \in Accounts \cup {None} : CustomerMoves(s, g)
           \/ Crash

CrmSpec == CrmInit /\ [][CrmNext]_allVars

(* One operator at a time, as in SerialSpec.                                  *)
SerialCrmSpec == CrmInit /\ [][CrmNext /\ OneUpsertPerTenant']_allVars

-----------------------------------------------------------------------------
(* From the outside a call goes by one configuration, read at one instant: a  *)
(* row that changes between the SELECT, the vault's two answers and the        *)
(* requests to D365 is as if it had changed before the call or after it.       *)
ImplementsToolCalls == Tools!Spec

(* Whatever a call reads or opens is in the organisation that one body posted  *)
(* for its tenant names, by that body's field_map; and if no change of the      *)
(* tenant's credentials overlapped the resolution, and the entry it met is not  *)
(* one a late fill or a failed admin request left (see CalmCallIsCoherent),     *)
(* with a registration from the vault of that same body: never one configuration's case under another's      *)
(* registration, though row, cache, vault and D365 are read at four times and   *)
(* operators post in between.                                                  *)
Follows(c, b) ==
  /\ read[c] # None => read[c].server = b["org"]
  /\ \A i \in 1..Len(done[c]) : done[c][i].server = b["org"] /\ done[c][i].map = b["field_map"]
  /\ c \in calm => call[c].reg.vault = b["vault"]

OneConfigurationPerCall ==
  \A c \in Calls : read[c] # None \/ done[c] # <<>> => \E b \in Bodies[Posts[c].tenant] : Follows(c, b)
=============================================================================
