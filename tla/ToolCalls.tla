----------------------------- MODULE ToolCalls -----------------------------
(***************************************************************************)
(* The POSTs of /{tenant_slug}, from the body to the answer: the router, and *)
(* the seven tools of app/tools over the two clients, D365Connector and      *)
(* CustomApiClient, against backends that act, then answer late, badly or    *)
(* not at all.                                                               *)
(*                                                                         *)
(* A CRM tool resolves its connector, looks the customer's account up, and  *)
(* if it is not verify_account makes one more request; a custom API tool    *)
(* makes one request.  No tool retries.  Every call is about one customer,  *)
(* whose account at a server is what its number and mobile select there.    *)
(***************************************************************************)
EXTENDS Tenancy, D365Incident, Naturals, Sequences

CONSTANTS Calls,     \* the POSTs, each made once
          Servers    \* Dataverse organisations and custom API hosts

(* What a tenant's credentials row says of where its calls go; for a custom  *)
(* API the map means nothing.                                                *)
Registration == [server : Servers, map : FieldMaps]

ASSUME NoneAssumption == None \notin Registration \cup Accounts

CrmTools    == {"verify_account", "create_support_case", "get_support_cases"}
CustomTools == {"check_fee_waiver_status", "check_recontract_eligibility", "reverse_fee",
                "request_password_reset"}
Tools       == CrmTools \cup CustomTools

(* The tools whose request changes something at the backend. *)
Effectful == {"create_support_case", "reverse_fee", "request_password_reset"}

VARIABLES config,  \* config[t]: what is registered for t, or None
          match,   \* match[s]: the account the customer's data select at s now (external)
          call,    \* call[c]: where the handler of call c stands
          read,    \* history: which server selected what for call c's lookup; None before it did
          done     \* history: what call c did at the backends, in order

vars == <<config, match, call, read, done>>

(* The dict a handler returns, where "result" reports what was asked for,     *)
(* "declined" that the backend would not do it, and "blank" neither: the keys *)
(* are there and hold null or an empty list.  Or ...                          *)
ToolAnswers == {"not_configured", "unavailable", "no_match", "verified", "result", "declined", "blank"}

(* ... the exception it lets through, an HTTP 500; or nothing, the process    *)
(* has died and the connection is cut.                                        *)
Answers == ToolAnswers \cup {"http500", "store_failed", "undecryptable", "cut"}

(* A body that is not a tools/call of a known tool with valid arguments, and  *)
(* what it gets.                                                              *)
Served == [not_json         |-> "rpc_error",        \* -32700
           not_an_object    |-> "rpc_error",        \* -32600
           unknown_method   |-> "rpc_error",        \* -32601
           initialize       |-> "rpc_result",
           initialized      |-> "accepted",
           tools_list       |-> "rpc_result",
           unknown_tool     |-> "is_error",
           wrong_arguments  |-> "is_error",
           params_no_object |-> "http500"]          \* params.get of a list, string or number

Looked == [server : Servers, account : Accounts \cup {None}]
Effect == [server : Servers, map : FieldMaps, given : SUBSET Texts, body : Body] \cup [server : Servers]

Call ==
       [pc : {"new"}]
  \cup [pc : {"served"}, body : DOMAIN Served]
  \cup [pc : {"resolving"}, tool : Tools, tenant : Tenants]
  \cup [pc : {"vault", "lookup"}, tool : CrmTools, client : Registration]
  \cup [pc : {"found"}, tool : CrmTools, client : Registration, account : Accounts \cup {None}]
  \cup [pc : {"acting", "acted"}, tool : Tools, client : Registration,
         account : Accounts \cup {None}]
  \cup [pc : {"answered"}, tool : Tools, answer : Answers]

TypeOK == /\ config \in [Tenants -> Registration \cup {None}]
          /\ match \in [Servers -> Accounts \cup {None}]
          /\ call \in [Calls -> Call]
          /\ read \in [Calls -> Looked \cup {None}]
          /\ done \in [Calls -> Seq(Effect)]

Init == /\ config = [t \in Tenants |-> None]
        /\ match = [s \in Servers |-> None]
        /\ call = [c \in Calls |-> [pc |-> "new"]]
        /\ read = [c \in Calls |-> None]
        /\ done = [c \in Calls |-> <<>>]

-----------------------------------------------------------------------------
(* What a reply makes a client method do.  A reply is "good", or one of:     *)
(*   no_token  msal could not get a token, nothing was sent                  *)
(*   lost      the request or its reply was lost (httpx.HTTPError, timeout)  *)
(*   refused   a status of 400 or more                                       *)
(*   decline   the body says that the request was not carried out: a Result  *)
(*             of reverse_fee that is no success, a Stack of a password reset *)
(*   not_json  the body does not parse                                       *)
(*   array, scalar   it parses, to an array or a string, or to a number,     *)
(*             boolean or null                                               *)
(*   keyless   an object without the key the method reads (for create_case,  *)
(*             a reply without OData-EntityId)                               *)
(*   no_guid   an account record without accountid                           *)
(* A status of 400 or more to a password reset is "refused" if its body has  *)
(* a Stack, else what its body is: that method reads the body first.         *)
Method(tool) ==
  IF tool \in {"create_support_case", "get_support_cases", "request_password_reset", "reverse_fee"}
  THEN tool ELSE "custom"

(* ConnectorError: the tool answers UNAVAILABLE_ERROR. *)
Raises(method) ==
  CASE method = "vault" -> {"no_token", "lost", "refused", "not_json", "keyless"}
    [] method = "lookup" -> {"no_token", "lost", "refused", "not_json", "no_guid"}
    [] method = "create_support_case" -> {"no_token", "lost", "refused", "keyless"}
    [] method = "get_support_cases" -> {"no_token", "lost", "refused", "not_json"}
    [] method = "request_password_reset" -> {"lost", "not_json", "array", "keyless"}
    [] OTHER -> {"lost", "refused", "not_json"}

(* Another exception, which nothing catches: HTTP 500. *)
Leaks(method) ==
  CASE method = "create_support_case" -> {}
    [] method = "request_password_reset" -> {"scalar"}
    [] OTHER -> {"array", "scalar"}

(* The backend's own "no" is relayed, and so is any Stack. *)
Declines(method) ==
  CASE method = "request_password_reset" -> {"refused", "decline"}
    [] method = "reverse_fee" -> {"decline"}
    [] OTHER -> {}

(* Mutant: a missing Result is taken for a success. *)
BlankNever(method) == {}

(* A missing key is relayed as null, or as an empty list. *)
Blank(method) ==
  IF method \in {"custom", "reverse_fee", "get_support_cases"} THEN {"keyless"} ELSE {}

(* Replies to a request that reached the backend and was carried out, to one   *)
(* that did not reach it, ...                                                  *)
Replies == {"good", "lost", "refused", "not_json", "array", "scalar", "keyless"}
Unsent(tool) == IF tool \in CrmTools THEN {"no_token", "lost", "refused"} ELSE {"lost", "refused"}

(* ... and to one that was not carried out, whether or not it got there: any  *)
(* but what this backend says of what it did, the OData-EntityId of a created  *)
(* case whatever the body, the SuccessCode of a reset, the Result of a         *)
(* reversal.  Those are taken to be true: the service has nothing else to go by. *)
Fruitless(tool) ==
  Unsent(tool) \cup
  CASE tool = "create_support_case" -> {"keyless"}
    [] tool \in {"reverse_fee", "request_password_reset"} -> (Replies \ {"good"}) \cup {"decline"}
    [] OTHER -> Replies \ {"good"}

-----------------------------------------------------------------------------
Goto(c, r) == call' = [call EXCEPT ![c] = r]
Answer(c, answer) == Goto(c, [pc |-> "answered", tool |-> call[c].tool, answer |-> answer])

(* mcp_endpoint, when no handler runs. *)
Serve(c, body) ==
  /\ call[c].pc = "new"
  /\ Goto(c, [pc |-> "served", body |-> body])
  /\ UNCHANGED <<config, match, read, done>>

Start(c, tool, t) ==
  /\ call[c].pc = "new"
  /\ Goto(c, [pc |-> "resolving", tool |-> tool, tenant |-> t])
  /\ UNCHANGED <<config, match, read, done>>

(* get_connector or get_credentials: no credentials, ... *)
NotConfigured(c) ==
  /\ call[c].pc = "resolving"
  /\ config[call[c].tenant] = None
  /\ Answer(c, "not_configured")
  /\ UNCHANGED <<config, match, read, done>>

(* ... a database error, which nothing catches (HTTP 500), ... *)
StoreFails(c) ==
  /\ call[c].pc = "resolving"
  /\ Answer(c, "store_failed")
  /\ UNCHANGED <<config, match, read, done>>

(* ... a stored secret that the configured key does not decrypt (HTTP 500), ... *)
DecryptFails(c) ==
  /\ call[c].pc = "resolving"
  /\ config[call[c].tenant] # None
  /\ Answer(c, "undecryptable")
  /\ UNCHANGED <<config, match, read, done>>

(* Mutant: "no credentials" is not tested. *)
ReadConfigUnchecked(c) ==
  /\ call[c].pc = "resolving"
  /\ Goto(c, [pc |-> "acting", tool |-> call[c].tool, client |-> config[call[c].tenant],
              account |-> None])
  /\ UNCHANGED <<config, match, read, done>>

(* ... or what is registered now, kept to the end of the call: a CRM tool     *)
(* goes on to the vault (or the cache: see CrmResolver), ...                  *)
ReadConfig(c) ==
  /\ call[c].pc = "resolving"
  /\ LET tool == call[c].tool  r == config[call[c].tenant]  IN
     /\ r # None
     /\ Goto(c, IF tool \in CrmTools
                THEN [pc |-> "vault", tool |-> tool, client |-> r]
                ELSE [pc |-> "acting", tool |-> tool, client |-> r, account |-> None])
  /\ UNCHANGED <<config, match, read, done>>

(* ... which cannot be read or answers with no object, ...                    *)
VaultFails(c, reply) ==
  /\ call[c].pc = "vault"
  /\ \/ reply \in Raises("vault") /\ Answer(c, "unavailable")
     \/ reply \in Leaks("vault") /\ Answer(c, "http500")
  /\ UNCHANGED <<config, match, read, done>>

(* ... or gives the registration for a connector.                             *)
Connect(c) ==
  /\ call[c].pc = "vault"
  /\ Goto(c, [pc |-> "lookup", tool |-> call[c].tool, client |-> call[c].client])
  /\ UNCHANGED <<config, match, read, done>>

(* D365 evaluates get_account_by_filter's query; its reply is on the way. *)
LookupReached(c) ==
  /\ call[c].pc = "lookup"
  /\ LET r == call[c].client  s == r.server  IN
     /\ Goto(c, [pc |-> "found", tool |-> call[c].tool, client |-> r, account |-> match[s]])
     /\ read' = [read EXCEPT ![c] = [server |-> s, account |-> match[s]]]
  /\ UNCHANGED <<config, match, done>>

LookupFails(c, reply) ==
  /\ \/ call[c].pc = "lookup" /\ reply \in Unsent(call[c].tool)
     \/ call[c].pc = "found" /\ reply \in Replies \cup {"no_guid"}
  /\ \/ reply \in Raises("lookup") /\ Answer(c, "unavailable")
     \/ reply \in Leaks("lookup") /\ Answer(c, "http500")
  /\ UNCHANGED <<config, match, read, done>>

(* No record, or a body without "value": the customer is told of a mismatch. *)
NoMatch(c, reply) ==
  /\ call[c].pc = "found"
  /\ reply = "keyless" \/ (reply = "good" /\ call[c].account = None)
  /\ Answer(c, "no_match")
  /\ UNCHANGED <<config, match, read, done>>

(* Mutant: the handler goes on without an account. *)
MatchAny(c) ==
  /\ call[c].pc = "found"
  /\ Goto(c, [call[c] EXCEPT !.pc = "acting"])
  /\ UNCHANGED <<config, match, read, done>>

(* The account is verified: answer, or go on with its GUID on this connector. *)
Match(c) ==
  /\ call[c].pc = "found"
  /\ call[c].account # None
  /\ IF call[c].tool = "verify_account" THEN Answer(c, "verified")
                                        ELSE Goto(c, [call[c] EXCEPT !.pc = "acting"])
  /\ UNCHANGED <<config, match, read, done>>

(* What an effectful request does; "given" are the texts that are not empty. *)
Asked(c, given) ==
  LET r == call[c].client  IN
  IF call[c].tool = "create_support_case"
  THEN [server |-> r.server, map |-> r.map, given |-> given,
        body |-> IncidentBody(r.map, given, call[c].account)]
  ELSE [server |-> r.server]

(* create_case, list_incidents_for_customer or the custom API method: the   *)
(* request reaches the backend, which carries it out.                        *)
RequestReached(c, given) ==
  /\ call[c].pc = "acting"
  /\ Goto(c, [call[c] EXCEPT !.pc = "acted"])
  /\ done' = IF call[c].tool \in Effectful
             THEN [done EXCEPT ![c] = Append(@, Asked(c, given))]
             ELSE done
  /\ UNCHANGED <<config, match, read>>

(* Mutant: a request whose reply was lost is sent again. *)
RequestRetried(c, reply) ==
  /\ call[c].pc = "acted"
  /\ IF reply = "lost" THEN Goto(c, [call[c] EXCEPT !.pc = "acting"]) ELSE Answer(c, "result")
  /\ UNCHANGED <<config, match, read, done>>

(* The reply, or its absence, decides the answer. *)
RequestAnswered(c, reply) ==
  /\ \/ call[c].pc = "acting" /\ reply \in Fruitless(call[c].tool)
     \/ call[c].pc = "acted" /\ reply \in Replies
  /\ LET m == Method(call[c].tool)  IN
     \/ reply \in Raises(m) /\ Answer(c, "unavailable")
     \/ reply \in Leaks(m) /\ Answer(c, "http500")
     \/ reply \in Declines(m) /\ Answer(c, "declined")
     \/ reply \in Blank(m) /\ Answer(c, "blank")
     \/ reply \notin Raises(m) \cup Leaks(m) \cup Declines(m) \cup Blank(m) /\ Answer(c, "result")
  /\ UNCHANGED <<config, match, read, done>>

(* Meanwhile an operator registers, changes or removes the tenant's row, ... *)
Reconfigure(t, r) == /\ config' = [config EXCEPT ![t] = r]
                     /\ UNCHANGED <<match, call, read, done>>

(* ... and the customer's data change in D365. *)
Relink(s, g) == /\ match' = [match EXCEPT ![s] = g]
                /\ UNCHANGED <<config, call, read, done>>

(* The process dies, with the calls it runs; what a backend has been sent and *)
(* will still do is what RequestReached did before.                           *)
Running == {"resolving", "vault", "lookup", "found", "acting", "acted"}

Restart ==
  /\ call' = [c \in Calls |->
                IF call[c].pc \in Running
                THEN [pc |-> "answered", tool |-> call[c].tool, answer |-> "cut"] ELSE call[c]]
  /\ UNCHANGED <<config, match, read, done>>

CallStep(c) ==
  \/ \E body \in DOMAIN Served : Serve(c, body)
  \/ \E tool \in Tools, t \in Tenants : Start(c, tool, t)
  \/ NotConfigured(c) \/ StoreFails(c) \/ DecryptFails(c) \/ ReadConfig(c) \/ Connect(c)
  \/ LookupReached(c) \/ Match(c)
  \/ \E given \in SUBSET Texts : RequestReached(c, given)
  \/ \E reply \in Replies \cup {"no_token", "no_guid", "decline"} :
       VaultFails(c, reply) \/ LookupFails(c, reply) \/ NoMatch(c, reply) \/ RequestAnswered(c, reply)

Next == \/ \E c \in Calls : CallStep(c)
        \/ \E t \in Tenants, r \in Registration \cup {None} : Reconfigure(t, r)
        \/ \E s \in Servers, g \in Accounts \cup {None} : Relink(s, g)
        \/ Restart

Spec == Init /\ [][Next]_vars

-----------------------------------------------------------------------------
Answered(c, answers) == call[c].pc = "answered" /\ call[c].answer \in answers

(* A support case is opened only for the account that D365 itself selected   *)
(* for this call's number and mobile, in the organisation that selected it:   *)
(* although the tenant may be moved to another one and the customer's data    *)
(* change between lookup and POST, and whatever columns its field_map names.  *)
CaseForVerifiedAccount ==
  \A c \in Calls : \A i \in 1..Len(done[c]) :
     call[c].tool = "create_support_case" =>
       /\ read[c].account # None
       /\ done[c][i].server = read[c].server
       /\ done[c][i].body[Bind] = read[c].account

(* What the customer said is in the case, whatever part of the columns the    *)
(* field_map overrides by the code's own keys.  A text is lost only if its     *)
(* column is the account's, or a title's is that of a description too: be it   *)
(* one text's by override and the other's by default.  (A map with the         *)
(* documented key "title" is the subject of OverridesApply.)                   *)
TextsReachTheCase ==
  \A c \in Calls : \A i \in 1..Len(done[c]) :
     call[c].tool = "create_support_case" /\ "title" \notin DOMAIN done[c][i].map =>
       LET case == done[c][i]  IN
       \A text \in case.given :
          \/ \E col \in Columns : case.body[col] = text
          \/ Column(case.map, text) = Bind
          \/ /\ text = "subject" /\ "description" \in case.given
             /\ Column(case.map, "subject") = Column(case.map, "description")

(* However replies are lost, one call opens at most one case, reverses fees  *)
(* at most once and sends at most one mail: no tool repeats a request whose   *)
(* reply it did not get.                                                      *)
AtMostOneEffect == \A c \in Calls : Len(done[c]) <= 1

(* What the chatbot is told agrees with what was done.  An answer that reports *)
(* a case, a reversal or a mail has one behind it, although backends may       *)
(* answer 200 and do nothing; a fee reversal reported as declined did not      *)
(* happen; and a customer who is refused (not configured, not verified, a      *)
(* malformed request) had nothing done.  An error, a blank answer (isError is  *)
(* not set: "result": null) and the relayed Stack of a password reset say      *)
(* nothing either way.                                                         *)
AnswerMatchesEffect ==
  \A c \in Calls :
     /\ Answered(c, {"result"}) /\ call[c].tool \in Effectful => Len(done[c]) = 1
     /\ Answered(c, {"declined"}) /\ call[c].tool = "reverse_fee" => done[c] = <<>>
     /\ Answered(c, {"not_configured", "no_match", "verified", "store_failed", "undecryptable"})
          => done[c] = <<>>
     /\ call[c].pc = "served" => done[c] = <<>>

-----------------------------------------------------------------------------
(* What the documents say, and the code does not keep.                       *)

(* Where an operator who follows D365CredentialsIn's description of field_map, *)
(* {"title": "<column>", "description": "<column>"}, expects a text to be.     *)
DocumentedKey(text) == IF text = "subject" THEN "title" ELSE text

Documented(map, text) ==
  IF DocumentedKey(text) \in DOMAIN map THEN map[DocumentedKey(text)] ELSE DEFAULT_INCIDENT_MAP[text]

(* "Overrides the D365 incident columns create_support_case writes to": each  *)
(* text of a case is in the column the tenant's field_map gives it by the      *)
(* documented keys, unless that is the account's or both texts have the same.  *)
OverridesApply ==
  \A c \in Calls : \A i \in 1..Len(done[c]) :
     call[c].tool = "create_support_case" =>
       LET case == done[c][i]  IN
       \A text \in case.given :
          \/ case.body[Documented(case.map, text)] = text
          \/ Documented(case.map, text) = Bind
          \/ \E other \in case.given \ {text} : Documented(case.map, other) = Documented(case.map, text)
=============================================================================
