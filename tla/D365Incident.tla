---------------------------- MODULE D365Incident ----------------------------
(***************************************************************************)
(* The body of the POST that opens a case (D365Connector._incident_body):    *)
(* the customer's two texts, each in the column the tenant's field_map or    *)
(* the default names, and the account the case is for.                       *)
(***************************************************************************)
CONSTANTS Columns,   \* columns of an incident
          FieldMaps, \* the field_maps tenants register: functions from some keys to columns
          Accounts,  \* account GUIDs
          None       \* a column the body does not set

Texts == {"subject", "description"}
DEFAULT_INCIDENT_MAP == [subject |-> "title", description |-> "description"]
Bind == "customerid_account@odata.bind"

ASSUME ColumnsAssumption ==
  /\ {"title", "description", Bind} \subseteq Columns
  /\ \A map \in FieldMaps : \A key \in DOMAIN map : map[key] \in Columns
  /\ None \notin Texts

Body == [Columns -> Texts \cup Accounts \cup {None}]

(* The column of a text; a key of the map that is no text's is never read.   *)
Column(map, text) == IF text \in DOMAIN map THEN map[text] ELSE DEFAULT_INCIDENT_MAP[text]

(* Mutant: a field_map takes the place of the default instead of overriding it. *)
IncidentBodyReplaced(map, given, account) ==
  [col \in Columns |->
     IF col = Bind THEN account
     ELSE IF \E text \in given \cap DOMAIN map : map[text] = col
          THEN CHOOSE text \in given \cap DOMAIN map : map[text] = col
     ELSE None]

(* Mutant: the account is written first, under the mapped columns. *)
IncidentBodyBindFirst(map, given, account) ==
  [col \in Columns |->
     IF \E text \in given : Column(map, text) = col
     THEN CHOOSE text \in given : Column(map, text) = col
     ELSE IF col = Bind THEN account ELSE None]

(* Later writes win: subject, then description, then the account.  An empty   *)
(* text is not given.                                                         *)
IncidentBody(map, given, account) ==
  [col \in Columns |->
     IF col = Bind THEN account
     ELSE IF "description" \in given /\ Column(map, "description") = col THEN "description"
     ELSE IF "subject" \in given /\ Column(map, "subject") = col THEN "subject"
     ELSE None]
=============================================================================
