-------------------------- MODULE CredentialStore --------------------------
(***************************************************************************)
(* A credential table and the admin requests on it: the POST, GET and      *)
(* DELETE handlers of app/protocol/admin_router.py over CredentialStore    *)
(* (app/store/credentials.py), down to what the SQLAlchemy session sends   *)
(* to PostgreSQL and the awaits at which other requests run.               *)
(*                                                                         *)
(* An upsert is a read-modify-write: it loads the row, assigns every       *)
(* column of the loaded object, and commits.  The session writes the       *)
(* columns whose value differs from the LOADED one, and those only.  The   *)
(* secret is always among them, its ciphertext being salted.               *)
(*                                                                         *)
(* The custom API credentials have a table and three handlers of the same  *)
(* shape (app/store/custom_api_credentials.py); Columns tells them apart.  *)
(***************************************************************************)
EXTENDS Tenancy

CONSTANTS Columns,       \* the columns a posted body fills
          SecretColumn,  \* the encrypted one
          Values,        \* what a column may hold
          Bodies,        \* Bodies[t]: the bodies posted for tenant t
          Requests,      \* the admin requests, each made once
          NoRow          \* the table has no row for the tenant

Body == [Columns -> Values]

ASSUME SecretAssumption == SecretColumn \in Columns
ASSUME BodiesAssumption == Bodies \in [Tenants -> SUBSET Body]
ASSUME NoRowAssumption  == NoRow \notin Body

VARIABLES row,  \* row[t]: the committed row of tenant t, or NoRow
          req   \* req[a]: where request a stands; its locals while it runs

storeVars == <<row, req>>

Row == Body \cup {NoRow}

Request ==
       [pc : {"idle", "rejected", "notfound", "failed"}]
  \cup [pc : {"ok"}, shown : Row]                                  \* answered
  \cup [pc : {"loaded"}, tenant : Tenants, body : Body, base : Row]  \* session.get done
  \cup [pc : {"committed"}, tenant : Tenants, body : Body]           \* refresh() pending
  \cup [pc : {"refreshed"}, tenant : Tenants, body : Body, view : Body]
  \cup [pc : {"deleting", "deleted", "missing"}, tenant : Tenants]

TypeOK == /\ row \in [Tenants -> Row]
          /\ req \in [Requests -> Request]

Running == {"loaded", "committed", "refreshed", "deleting", "deleted", "missing"}

Init == /\ row = [t \in Tenants |-> NoRow]
        /\ req = [a \in Requests |-> [pc |-> "idle"]]

Move(a, r) == req' = [req EXCEPT ![a] = r]
Drop(a, answer) == Move(a, [pc |-> answer]) /\ UNCHANGED row

(* _require_admin_key: a missing or wrong key is a 401, before any session. *)
Reject(a) == req[a].pc = "idle" /\ Drop(a, "rejected")

Get(a, t) ==
  /\ req[a].pc = "idle"
  /\ \/ row[t] # NoRow /\ Move(a, [pc |-> "ok", shown |-> row[t]])
     \/ row[t] = NoRow /\ Move(a, [pc |-> "notfound"])
  /\ UNCHANGED row

(* Mutant: the row is not looked up first, every POST inserts. *)
UpsertLoadBlind(a, t, b) ==
  /\ req[a].pc = "idle"
  /\ Move(a, [pc |-> "loaded", tenant |-> t, body |-> b, base |-> NoRow])
  /\ UNCHANGED row

(* CredentialStore.upsert: session.get, before anything is assigned. *)
UpsertLoad(a, t, b) ==
  /\ req[a].pc = "idle"
  /\ Move(a, [pc |-> "loaded", tenant |-> t, body |-> b, base |-> row[t]])
  /\ UNCHANGED row

(* Mutant: the session does not see that a salted ciphertext changed. *)
DirtyButSecret(body, base) == {c \in Columns : body[c] # base[c]} \ {SecretColumn}

(* The UPDATE of the flush: the columns that differ from the loaded row. *)
Dirty(body, base) == {SecretColumn} \cup {c \in Columns : body[c] # base[c]}

Merged(old, body, base) ==
  [c \in Columns |-> IF c \in Dirty(body, base) THEN body[c] ELSE old[c]]

(* commit(): an INSERT if no row was loaded, else an UPDATE by primary key. *)
UpsertCommit(a) ==
  /\ req[a].pc = "loaded"
  /\ LET t == req[a].tenant  body == req[a].body  base == req[a].base  IN
     /\ \/ base = NoRow /\ row[t] = NoRow
           /\ row' = [row EXCEPT ![t] = body]
        \/ base # NoRow /\ row[t] # NoRow
           /\ row' = [row EXCEPT ![t] = Merged(row[t], body, base)]
     /\ Move(a, [pc |-> "committed", tenant |-> t, body |-> body])

(* The INSERT meets a row (IntegrityError) or the UPDATE meets none          *)
(* (StaleDataError): the handler raises, the session rolls back, a 500.      *)
UpsertConflict(a) ==
  /\ req[a].pc = "loaded"
  /\ (req[a].base = NoRow) # (row[req[a].tenant] = NoRow)
  /\ Drop(a, "failed")

(* Mutant: a row that is gone is read back as none. *)
UpsertRefreshUnchecked(a) ==
  /\ req[a].pc = "committed"
  /\ Move(a, [pc |-> "refreshed", tenant |-> req[a].tenant, body |-> req[a].body,
              view |-> row[req[a].tenant]])
  /\ UNCHANGED row

(* refresh() reads the row back; get_redacted then shows the session's copy. *)
UpsertRefresh(a) ==
  /\ req[a].pc = "committed"
  /\ row[req[a].tenant] # NoRow
  /\ Move(a, [pc |-> "refreshed", tenant |-> req[a].tenant, body |-> req[a].body,
              view |-> row[req[a].tenant]])
  /\ UNCHANGED row

(* The row was deleted since the commit: refresh() raises, a 500. *)
RefreshGone(a) ==
  /\ req[a].pc = "committed"
  /\ row[req[a].tenant] = NoRow
  /\ Drop(a, "failed")

UpsertRespond(a) ==
  /\ req[a].pc = "refreshed"
  /\ Move(a, [pc |-> "ok", shown |-> req[a].view])
  /\ UNCHANGED row

DeleteStart(a, t) ==
  /\ req[a].pc = "idle"
  /\ Move(a, [pc |-> "deleting", tenant |-> t])
  /\ UNCHANGED row

(* Mutant: rowcount is ignored, every DELETE answers 204. *)
DeleteRowUncounted(a) ==
  /\ req[a].pc = "deleting"
  /\ row' = [row EXCEPT ![req[a].tenant] = NoRow]
  /\ Move(a, [pc |-> "deleted", tenant |-> req[a].tenant])

(* execute(delete) and its commit; rowcount says whether there was a row. *)
DeleteRow(a) ==
  /\ req[a].pc = "deleting"
  /\ LET t == req[a].tenant  IN
     /\ row' = [row EXCEPT ![t] = NoRow]
     /\ Move(a, [pc |-> IF row[t] # NoRow THEN "deleted" ELSE "missing", tenant |-> t])

DeleteRespond(a) ==
  /\ req[a].pc \in {"deleted", "missing"}
  /\ Move(a, IF req[a].pc = "deleted" THEN [pc |-> "ok", shown |-> NoRow]
                                      ELSE [pc |-> "notfound"])
  /\ UNCHANGED row

(* A database error before a commit took effect: rolled back, a 500. *)
FailBefore(a) == req[a].pc \in {"idle", "loaded", "deleting"} /\ Drop(a, "failed")

(* One after it: the commit's acknowledgement is lost, or refresh() fails. *)
FailAfter(a) == req[a].pc \in {"committed", "deleted", "missing"} /\ Drop(a, "failed")

(* The one process dies and comes back: the table survives, no request does. *)
Restart == /\ req' = [a \in Requests |-> IF req[a].pc \in Running
                                         THEN [pc |-> "failed"] ELSE req[a]]
           /\ UNCHANGED row

Step(a) == \/ Reject(a)
           \/ \E t \in Tenants : \/ Get(a, t) \/ DeleteStart(a, t)
                                 \/ \E b \in Bodies[t] : UpsertLoad(a, t, b)
           \/ UpsertCommit(a) \/ UpsertConflict(a)
           \/ UpsertRefresh(a) \/ RefreshGone(a) \/ UpsertRespond(a)
           \/ DeleteRow(a) \/ DeleteRespond(a)
           \/ FailBefore(a) \/ FailAfter(a)

Next == (\E a \in Requests : Step(a)) \/ Restart

Spec == Init /\ [][Next]_storeVars

-----------------------------------------------------------------------------
(* One operator at a time: no two POSTs for one tenant overlap.  DELETEs,    *)
(* GETs and the POSTs of other tenants still run between their steps.        *)
Upserting(a) == req[a].pc \in {"loaded", "committed", "refreshed"}

OneUpsertPerTenant ==
  \A a, b \in Requests :
     Upserting(a) /\ Upserting(b) /\ req[a].tenant = req[b].tenant => a = b

SerialSpec == Init /\ [][Next /\ OneUpsertPerTenant']_storeVars

(* A stored row is a body somebody posted for that tenant, every column of   *)
(* one and the same POST (README: "re-posting replaces the previous values"). *)
(* The code writes the changed columns of a row loaded earlier.               *)
RowIsAPostedBody == \A t \in Tenants : row[t] \in Bodies[t] \cup {NoRow}

(* Under one operator no request works on a stale copy: what a POST loaded   *)
(* or wrote is still the row when it writes or echoes it, unless a DELETE    *)
(* took the row meanwhile.  This is what makes writing only the changed      *)
(* columns the same as replacing the row.                                    *)
NoStaleCopy ==
  \A a \in Requests :
     /\ req[a].pc = "loaded"    => row[req[a].tenant] \in {req[a].base, NoRow}
     /\ req[a].pc = "committed" => row[req[a].tenant] \in {req[a].body, NoRow}
     /\ req[a].pc = "refreshed" => req[a].view = req[a].body

(* The store implements the directory: the row is the record, a request is   *)
(* applied by its commit and answered with what it did.                       *)
DirectoryOp(r) ==
  CASE r.pc = "idle"      -> [stage |-> "new"]
    [] r.pc = "loaded"    -> [stage |-> "called", tenant |-> r.tenant, want |-> r.body]
    [] r.pc = "deleting"  -> [stage |-> "called", tenant |-> r.tenant, want |-> NoRow]
    [] r.pc = "committed" -> [stage |-> "applied", answer |-> [pc |-> "ok", shown |-> r.body]]
    [] r.pc = "refreshed" -> [stage |-> "applied", answer |-> [pc |-> "ok", shown |-> r.view]]
    [] r.pc = "deleted"   -> [stage |-> "applied", answer |-> [pc |-> "ok", shown |-> NoRow]]
    [] r.pc = "missing"   -> [stage |-> "applied", answer |-> [pc |-> "notfound"]]
    [] OTHER              -> [stage |-> "answered", answer |-> r]

op == [a \in Requests |-> DirectoryOp(req[a])]

Directory == INSTANCE CredentialDirectory WITH dir <- row

ImplementsDirectory == Directory!DirectorySpec
=============================================================================
