----------------------- MODULE CredentialStoreProofs -----------------------
(***************************************************************************)
(* What holds of the credential store for every set of tenants, columns,   *)
(* bodies and requests.                                                    *)
(***************************************************************************)
EXTENDS CredentialStore, TLAPS

-----------------------------------------------------------------------------
(* Merging into the row that was loaded replaces it: the columns left alone  *)
(* already have the posted value.                                            *)
LEMMA MergeIntoLoaded ==
  ASSUME NEW body \in Body, NEW base \in Body
  PROVE  Merged(base, body, base) = body
BY SecretAssumption DEF Merged, Dirty, Body

(* Any merge of two bodies fills every column. *)
LEMMA MergeIsABody ==
  ASSUME NEW old \in Body, NEW body \in Body, NEW base \in Body
  PROVE  Merged(old, body, base) \in Body
BY DEF Merged, Body

(* No step of a handler leaves a malformed row or request. *)
LEMMA TypeStep == TypeOK /\ [Next]_storeVars => TypeOK'
<1> SUFFICES ASSUME TypeOK, [Next]_storeVars PROVE TypeOK'
  OBVIOUS
<1>1. CASE UNCHANGED storeVars
  BY <1>1 DEF TypeOK, storeVars
<1>2. CASE Restart
  BY <1>2 DEF TypeOK, Restart, Request, Running
<1>3. CASE \E a \in Requests : Step(a)
  <2> PICK a \in Requests : Step(a)
    BY <1>3
  <2> USE DEF TypeOK, Move, Drop
  <2>1. CASE Reject(a) \/ FailBefore(a) \/ FailAfter(a) \/ UpsertConflict(a) \/ RefreshGone(a)
    BY <2>1 DEF Reject, FailBefore, FailAfter, UpsertConflict, RefreshGone, Request
  <2>2. CASE \E t \in Tenants : Get(a, t)
    BY <2>2 DEF Get, Request
  <2>3. CASE \E t \in Tenants : DeleteStart(a, t)
    BY <2>3 DEF DeleteStart, Request
  <2>4. CASE \E t \in Tenants : \E b \in Bodies[t] : UpsertLoad(a, t, b)
    BY <2>4, BodiesAssumption DEF UpsertLoad, Request
  <2>5. CASE UpsertCommit(a)
    <3> DEFINE t == req[a].tenant  body == req[a].body  base == req[a].base
    <3>1. t \in Tenants /\ body \in Body /\ base \in Row
      BY <2>5 DEF UpsertCommit, Request
    <3>2. row' \in [Tenants -> Row]
      BY <2>5, <3>1, MergeIsABody DEF UpsertCommit, Row
    <3>3. req' \in [Requests -> Request]
      BY <2>5, <3>1 DEF UpsertCommit, Request
    <3> QED BY <3>2, <3>3
  <2>6. CASE UpsertRefresh(a)
    BY <2>6 DEF UpsertRefresh, Request, Row
  <2>7. CASE UpsertRespond(a)
    BY <2>7 DEF UpsertRespond, Request, Row
  <2>8. CASE DeleteRow(a)
    BY <2>8 DEF DeleteRow, Request, Row
  <2>9. CASE DeleteRespond(a)
    BY <2>9 DEF DeleteRespond, Request, Row
  <2> QED BY <2>1, <2>2, <2>3, <2>4, <2>5, <2>6, <2>7, <2>8, <2>9 DEF Step
<1> QED BY <1>1, <1>2, <1>3 DEF Next

(* Every state the handlers and the session reach is well formed: in        *)
(* particular a POST that answers shows a whole row, never none.            *)
THEOREM TypeCorrect == Spec => []TypeOK
<1>1. Init => TypeOK
  BY DEF Init, TypeOK, Row, Request
<1> QED BY <1>1, TypeStep, PTL DEF Spec

(* A step of a handler changes the state of its own request only. *)
LEMMA OneRequestMoves ==
  ASSUME TypeOK, NEW a \in Requests, Step(a)
  PROVE  req' = [req EXCEPT ![a] = req'[a]]
BY DEF TypeOK, Step, Reject, Get, UpsertLoad, UpsertCommit, UpsertConflict, UpsertRefresh,
       RefreshGone, UpsertRespond, DeleteStart, DeleteRow, DeleteRespond, FailBefore, FailAfter,
       Move, Drop

-----------------------------------------------------------------------------
(* What a POST is about to write was posted for the tenant it writes to. *)
BodiesInFlight ==
  \A a \in Requests : req[a].pc = "loaded" => req[a].body \in Bodies[req[a].tenant]

(* Each column of a stored row came from a body posted for that very tenant, *)
(* be the row a mixture of several (see RowIsAPostedBody): merging never     *)
(* mixes tenants.                                                            *)
ColumnsWerePosted ==
  \A t \in Tenants : row[t] # NoRow =>
     \A c \in Columns : \E b \in Bodies[t] : row[t][c] = b[c]

(* However requests overlap, each column of a stored row was posted for the *)
(* tenant whose row it is.                                                   *)
THEOREM ProvenanceOfColumns == Spec => []ColumnsWerePosted
<1> DEFINE Inv == TypeOK /\ BodiesInFlight /\ ColumnsWerePosted
<1>1. Init => BodiesInFlight /\ ColumnsWerePosted
  BY DEF Init, BodiesInFlight, ColumnsWerePosted
<1>2. TypeOK /\ BodiesInFlight /\ ColumnsWerePosted /\ [Next]_storeVars
        => BodiesInFlight' /\ ColumnsWerePosted'
  <2> SUFFICES ASSUME TypeOK, BodiesInFlight, ColumnsWerePosted, [Next]_storeVars
               PROVE  BodiesInFlight' /\ ColumnsWerePosted'
    OBVIOUS
  <2> USE DEF TypeOK
  <2>1. BodiesInFlight'
    <3>1. CASE UNCHANGED storeVars
      BY <3>1 DEF BodiesInFlight, storeVars
    <3>2. CASE Restart
      BY <3>2 DEF BodiesInFlight, Restart
    <3>3. CASE \E a \in Requests : Step(a)
      <4> PICK a \in Requests : Step(a)
        BY <3>3
      <4>1. CASE \E t \in Tenants : \E b \in Bodies[t] : UpsertLoad(a, t, b)
        BY <4>1 DEF BodiesInFlight, UpsertLoad, Move
      <4>2. CASE ~ \E t \in Tenants : \E b \in Bodies[t] : UpsertLoad(a, t, b)
        <5>1. req' = [req EXCEPT ![a] = req'[a]] /\ req'[a].pc # "loaded"
          BY <4>2 DEF TypeOK, Step, Reject, Get, UpsertCommit, UpsertConflict, UpsertRefresh, RefreshGone,
                UpsertRespond, DeleteStart, DeleteRow, DeleteRespond, FailBefore, FailAfter, Move, Drop
        <5> QED BY <5>1 DEF BodiesInFlight
      <4> QED BY <4>1, <4>2
    <3> QED BY <3>1, <3>2, <3>3 DEF Next
  <2>2. ColumnsWerePosted'
    <3>1. CASE UNCHANGED row
      BY <3>1 DEF ColumnsWerePosted
    <3>2. ASSUME NEW a \in Requests, DeleteRow(a) PROVE ColumnsWerePosted'
      BY <3>2 DEF ColumnsWerePosted, DeleteRow
    <3>3. ASSUME NEW a \in Requests, UpsertCommit(a) PROVE ColumnsWerePosted'
      <4> DEFINE t == req[a].tenant  body == req[a].body  base == req[a].base
      <4>1. t \in Tenants /\ body \in Bodies[t]
        BY <3>3 DEF UpsertCommit, Request, BodiesInFlight
      <4>2. row' = [row EXCEPT ![t] = row'[t]]
        BY <3>3, <4>1 DEF UpsertCommit
      <4>3. ASSUME NEW c \in Columns PROVE \E b \in Bodies[t] : row'[t][c] = b[c]
        <5>1. CASE row'[t] = body
          BY <5>1, <4>1
        <5>2. CASE row[t] # NoRow /\ row'[t] = Merged(row[t], body, base)
          BY <5>2, <4>1, <4>3 DEF Merged, ColumnsWerePosted
        <5> QED BY <5>1, <5>2, <3>3, <4>1 DEF UpsertCommit
      <4> QED BY <4>1, <4>2, <4>3 DEF ColumnsWerePosted
    <3> QED
      BY <3>1, <3>2, <3>3 DEF Next, storeVars, Step, Restart, Reject, Get, UpsertLoad, UpsertConflict,
         UpsertRefresh, RefreshGone, UpsertRespond, DeleteStart, DeleteRespond, FailBefore, FailAfter, Drop
  <2> QED BY <2>1, <2>2
<1> QED BY <1>1, <1>2, TypeCorrect, PTL DEF Spec

-----------------------------------------------------------------------------
(* The serial store.  The invariant: nobody works on a stale copy, every    *)
(* body in flight was posted for its tenant, and so are the stored rows.     *)
SerialInv == /\ TypeOK
             /\ OneUpsertPerTenant
             /\ NoStaleCopy
             /\ BodiesInFlight
             /\ RowIsAPostedBody

SerialNext == Next /\ OneUpsertPerTenant'

(* The empty table and idle requests satisfy the invariant. *)
LEMMA SerialInvInit == Init => SerialInv
BY DEF Init, SerialInv, TypeOK, Row, Request, OneUpsertPerTenant, Upserting, NoStaleCopy,
       BodiesInFlight, RowIsAPostedBody

(* Serial behaviours are behaviours of the store. *)
LEMMA SpecOfSerial == SerialSpec => Spec
<1>1. [SerialNext]_storeVars => [Next]_storeVars
  BY DEF SerialNext
<1> QED BY <1>1, PTL DEF SerialSpec, Spec, SerialNext

(* The commit of a POST whose copy is not stale stores exactly its body. *)
LEMMA CommitReplaces ==
  ASSUME SerialInv, NEW a \in Requests, UpsertCommit(a)
  PROVE  row' = [row EXCEPT ![req[a].tenant] = req[a].body]
<1>1. req[a].tenant \in Tenants /\ req[a].body \in Body /\ req[a].base \in Row
  BY DEF SerialInv, TypeOK, Request, UpsertCommit
<1>2. CASE req[a].base = NoRow
  BY <1>2 DEF UpsertCommit
<1>3. CASE req[a].base # NoRow
  <2>1. row[req[a].tenant] = req[a].base /\ req[a].base \in Body
    BY <1>1, <1>3 DEF UpsertCommit, SerialInv, NoStaleCopy, Row
  <2> QED BY <1>1, <1>3, <2>1, MergeIntoLoaded DEF UpsertCommit
<1> QED BY <1>2, <1>3

(* Every step with one POST per tenant at a time keeps it. *)
LEMMA SerialInvStep == SerialInv /\ [SerialNext]_storeVars => SerialInv'
<1> SUFFICES ASSUME SerialInv, [SerialNext]_storeVars PROVE SerialInv'
  OBVIOUS
<1> USE DEF SerialInv
<1>1. CASE UNCHANGED storeVars
  BY <1>1 DEF storeVars, TypeOK, OneUpsertPerTenant, Upserting, NoStaleCopy, BodiesInFlight,
              RowIsAPostedBody
<1>2. CASE Restart /\ OneUpsertPerTenant'
  <2>1. TypeOK'
    BY <1>2 DEF TypeOK, Restart, Request, Running
  <2>2. NoStaleCopy' /\ BodiesInFlight' /\ RowIsAPostedBody'
    BY <1>2 DEF Restart, Running, TypeOK, NoStaleCopy, BodiesInFlight, RowIsAPostedBody
  <2> QED BY <1>2, <2>1, <2>2
<1>3. ASSUME NEW a \in Requests, Step(a), OneUpsertPerTenant' PROVE SerialInv'
  <2> USE <1>3
  <2>1. TypeOK'
    BY TypeStep DEF Next
  <2>2. CASE UpsertCommit(a)
    <3> DEFINE t == req[a].tenant  body == req[a].body
    <3>1. row' = [row EXCEPT ![t] = body]
      BY <2>2, CommitReplaces
    <3>2. req' = [req EXCEPT ![a] = [pc |-> "committed", tenant |-> t, body |-> body]]
      BY <2>2 DEF UpsertCommit, Move
    <3>3. t \in Tenants /\ body \in Bodies[t] /\ Upserting(a)
      BY <2>2 DEF TypeOK, Request, UpsertCommit, BodiesInFlight, Upserting
    <3>4. NoStaleCopy'
      <4> SUFFICES ASSUME NEW b \in Requests
                   PROVE  /\ req'[b].pc = "loaded" => row'[req'[b].tenant] \in {req'[b].base, NoRow}
                          /\ req'[b].pc = "committed" => row'[req'[b].tenant] \in {req'[b].body, NoRow}
                          /\ req'[b].pc = "refreshed" => req'[b].view = req'[b].body
        BY DEF NoStaleCopy
      <4>1. CASE b = a
        BY <4>1, <3>1, <3>2, <3>3 DEF TypeOK
      <4>2. CASE b # a
        <5>1. req'[b] = req[b]
          BY <4>2, <3>2 DEF TypeOK
        <5>2. Upserting(b) => req[b].tenant # t
          BY <4>2, <3>3 DEF OneUpsertPerTenant
        <5>3. Upserting(b) => row'[req[b].tenant] = row[req[b].tenant]
          BY <5>2, <3>1, <3>3 DEF TypeOK, Request, Upserting
        <5> QED BY <5>1, <5>3 DEF NoStaleCopy, Upserting
      <4> QED BY <4>1, <4>2
    <3>5. BodiesInFlight'
      BY <3>2 DEF BodiesInFlight, TypeOK
    <3>6. RowIsAPostedBody'
      BY <3>1, <3>3 DEF RowIsAPostedBody, TypeOK
    <3> QED BY <2>1, <3>4, <3>5, <3>6
  <2>3. CASE DeleteRow(a)
    <3>1. req[a].tenant \in Tenants /\ row' = [row EXCEPT ![req[a].tenant] = NoRow]
      BY <2>3 DEF DeleteRow, TypeOK, Request
    <3>2. req' = [req EXCEPT ![a] = req'[a]] /\ req'[a].pc \in {"deleted", "missing"}
      BY <2>3 DEF DeleteRow, Move, TypeOK
    <3> QED
      BY <2>1, <3>1, <3>2 DEF NoStaleCopy, BodiesInFlight, RowIsAPostedBody, TypeOK
  <2>4. CASE \E t \in Tenants : \E b \in Bodies[t] : UpsertLoad(a, t, b)
    BY <2>1, <2>4 DEF UpsertLoad, Move, NoStaleCopy, BodiesInFlight, RowIsAPostedBody, TypeOK
  <2>5. CASE UpsertRefresh(a)
    BY <2>1, <2>5 DEF UpsertRefresh, Move, NoStaleCopy, BodiesInFlight, RowIsAPostedBody, TypeOK
  <2>6. CASE ~ \/ UpsertCommit(a) \/ DeleteRow(a) \/ UpsertRefresh(a)
               \/ \E t \in Tenants : \E b \in Bodies[t] : UpsertLoad(a, t, b)
    <3>1. UNCHANGED row
      BY <2>6 DEF Step, Reject, Get, UpsertConflict, RefreshGone, UpsertRespond, DeleteStart,
                  DeleteRespond, FailBefore, FailAfter, Drop
    <3>2. req' = [req EXCEPT ![a] = req'[a]] /\ req'[a].pc \notin {"loaded", "committed", "refreshed"}
      BY <2>6 DEF TypeOK, Step, Reject, Get, UpsertConflict, RefreshGone, UpsertRespond, DeleteStart,
                  DeleteRespond, FailBefore, FailAfter, Drop, Move
    <3> QED
      BY <2>1, <3>1, <3>2 DEF NoStaleCopy, BodiesInFlight, RowIsAPostedBody, TypeOK
  <2> QED BY <2>2, <2>3, <2>4, <2>5, <2>6
<1> QED BY <1>1, <1>2, <1>3 DEF SerialNext, Next

(* It is an invariant. *)
LEMMA SerialInvariance == SerialSpec => []SerialInv
BY SerialInvInit, SerialInvStep, PTL DEF SerialSpec, SerialNext

(* With one operator at a time, every stored row is a whole posted body. *)
THEOREM RowsAreWhole == SerialSpec => []RowIsAPostedBody
<1>1. SerialInv => RowIsAPostedBody
  BY DEF SerialInv
<1> QED BY <1>1, SerialInvariance, PTL

(* ... because no handler works on a stale copy of the row. *)
THEOREM CopiesAreCurrent == SerialSpec => []NoStaleCopy
<1>1. SerialInv => NoStaleCopy
  BY DEF SerialInv
<1> QED BY <1>1, SerialInvariance, PTL

-----------------------------------------------------------------------------
(* The refinement.  A step of a handler changes the one entry of its request *)
(* in the directory's view of the requests.                                   *)
(* o is the directory's view of r, spelled out for each control point. *)
Shows(r, o) ==
  /\ r.pc = "idle" => o = Directory!New
  /\ r.pc = "loaded" => o = Directory!Called(r.tenant, r.body)
  /\ r.pc = "deleting" => o = Directory!Called(r.tenant, NoRow)
  /\ r.pc = "committed" => o = Directory!Applied(Directory!Ok(r.body))
  /\ r.pc = "refreshed" => o = Directory!Applied(Directory!Ok(r.view))
  /\ r.pc = "deleted" => o = Directory!Applied(Directory!Ok(NoRow))
  /\ r.pc = "missing" => o = Directory!Applied(Directory!Refusal("notfound"))
  /\ r.pc \in {"rejected", "notfound", "failed", "ok"} => o = Directory!Answered(r)

(* The case distinction of DirectoryOp, one implication per control point. *)
LEMMA ShowsOp == ASSUME NEW r PROVE Shows(r, DirectoryOp(r))
BY DEF Shows, DirectoryOp, Directory!New, Directory!Called, Directory!Applied,
       Directory!Answered, Directory!Ok, Directory!Refusal

(* A step of request a moves the view of a and of no other request. *)
LEMMA OpMoves ==
  ASSUME TypeOK, NEW a \in Requests, Step(a)
  PROVE  /\ op' = [op EXCEPT ![a] = op'[a]]
         /\ Shows(req[a], op[a]) /\ Shows(req'[a], op'[a])
<1>1. req' = [req EXCEPT ![a] = req'[a]]
  BY OneRequestMoves
<1>2. op[a] = DirectoryOp(req[a]) /\ op'[a] = DirectoryOp(req'[a])
  BY DEF op
<1>3. op' = [op EXCEPT ![a] = op'[a]]
  BY <1>1 DEF op, TypeOK
<1> QED BY <1>1, <1>2, <1>3, ShowsOp

(* Every step of the serial store is a step of the directory, or none. *)
LEMMA StepRefines ==
  SerialInv /\ [SerialNext]_storeVars => [Directory!DirectoryNext]_<<row, op>>
<1> SUFFICES ASSUME SerialInv, [SerialNext]_storeVars
             PROVE  [Directory!DirectoryNext]_<<row, op>>
  OBVIOUS
<1>1. TypeOK
  BY DEF SerialInv
<1>2. CASE UNCHANGED storeVars
  BY <1>2 DEF storeVars, op
<1>3. CASE Restart
  <2>1. op' = [a \in Requests |-> IF op[a].stage \in {"called", "applied"}
                                  THEN Directory!Answered(Directory!Refusal("failed")) ELSE op[a]]
    <3>1. SUFFICES ASSUME NEW a \in Requests
                   PROVE  DirectoryOp(req'[a]) =
                            IF DirectoryOp(req[a]).stage \in {"called", "applied"}
                            THEN Directory!Answered(Directory!Refusal("failed"))
                            ELSE DirectoryOp(req[a])
      BY DEF op
    <3>2. req'[a] = IF req[a].pc \in Running THEN [pc |-> "failed"] ELSE req[a]
      BY <1>3 DEF Restart
    <3>3. (DirectoryOp(req[a]).stage \in {"called", "applied"}) <=> req[a].pc \in Running
      BY <1>1 DEF TypeOK, Request, DirectoryOp, Running
    <3>4. DirectoryOp([pc |-> "failed"]) = Directory!Answered(Directory!Refusal("failed"))
      BY DEF DirectoryOp, Directory!Answered, Directory!Refusal
    <3> QED BY <3>2, <3>3, <3>4
  <2>2. Directory!Crash
    BY <1>3, <2>1 DEF Directory!Crash, Restart, op
  <2> QED BY <2>2 DEF Directory!DirectoryNext
<1>4. ASSUME NEW a \in Requests, Step(a) PROVE [Directory!DirectoryNext]_<<row, op>>
  <2> DEFINE t == req[a].tenant  body == req[a].body
  <2>0. /\ op' = [op EXCEPT ![a] = op'[a]]
        /\ Shows(req[a], op[a]) /\ Shows(req'[a], op'[a])
    BY <1>1, <1>4, OpMoves
  <2> USE <2>0, <1>1 DEF Shows, Move, Drop, TypeOK
  <2>1. CASE Reject(a)
    <3>1. Directory!TurnAway(a)
      BY <2>1 DEF Reject, Directory!TurnAway, Directory!Refusal
    <3> QED BY <3>1 DEF Directory!DirectoryNext
  <2>2. ASSUME NEW u \in Tenants, Get(a, u) PROVE Directory!DirectoryNext
    <3>1. Directory!Read(a, u)
      BY <2>2 DEF Get, Directory!Read, Directory!Refusal, Directory!Ok
    <3> QED BY <3>1 DEF Directory!DirectoryNext
  <2>3. ASSUME NEW u \in Tenants, NEW b \in Bodies[u], UpsertLoad(a, u, b)
        PROVE  Directory!DirectoryNext
    <3>1. Directory!Call(a, u, b)
      BY <2>3 DEF UpsertLoad, Directory!Call
    <3> QED BY <3>1 DEF Directory!DirectoryNext
  <2>4. ASSUME NEW u \in Tenants, DeleteStart(a, u) PROVE Directory!DirectoryNext
    <3>1. Directory!Call(a, u, NoRow)
      BY <2>4 DEF DeleteStart, Directory!Call
    <3> QED BY <3>1 DEF Directory!DirectoryNext
  <2>5. CASE UpsertCommit(a)
    <3>1. op[a] = Directory!Called(t, body) /\ body # NoRow
      BY <2>5, NoRowAssumption DEF UpsertCommit, Request
    <3>2. op'[a] = Directory!Applied(Directory!Ok(body))
      BY <2>5 DEF UpsertCommit
    <3>3. row' = [row EXCEPT ![t] = body]
      BY <2>5, CommitReplaces
    <3>4. Directory!Apply(a)
      BY <3>1, <3>2, <3>3 DEF Directory!Apply, Directory!Called, Directory!AnswerTo
    <3> QED BY <3>4 DEF Directory!DirectoryNext
  <2>6. CASE UpsertConflict(a) \/ RefreshGone(a) \/ FailBefore(a) \/ FailAfter(a)
    <3>1. op[a].stage \in {"new", "called", "applied"}
      BY <2>6 DEF UpsertConflict, RefreshGone, FailBefore, FailAfter, Directory!New,
                  Directory!Called, Directory!Applied
    <3>2. op'[a] = Directory!Answered(Directory!Refusal("failed")) /\ row' = row
      BY <2>6 DEF UpsertConflict, RefreshGone, FailBefore, FailAfter, Directory!Refusal
    <3>3. Directory!Fail(a)
      BY <3>1, <3>2 DEF Directory!Fail
    <3> QED BY <3>3 DEF Directory!DirectoryNext
  <2>7. CASE UpsertRefresh(a)
    <3>1. req[a].pc = "committed" /\ row[t] = body /\ row' = row
      BY <2>7 DEF UpsertRefresh, SerialInv, NoStaleCopy
    <3>2. op'[a] = op[a]
      BY <2>7, <3>1 DEF UpsertRefresh
    <3> QED BY <3>1, <3>2 DEF op
  <2>8. CASE UpsertRespond(a)
    <3>1. Directory!Answer(a)
      BY <2>8 DEF UpsertRespond, Directory!Answer, Directory!Applied, Directory!Ok
    <3> QED BY <3>1 DEF Directory!DirectoryNext
  <2>9. CASE DeleteRespond(a)
    <3>1. Directory!Answer(a)
      BY <2>9 DEF DeleteRespond, Directory!Answer, Directory!Applied, Directory!Ok,
                  Directory!Refusal
    <3> QED BY <3>1 DEF Directory!DirectoryNext
  <2>10. CASE DeleteRow(a)
    <3>1. op[a] = Directory!Called(t, NoRow)
      BY <2>10 DEF DeleteRow
    <3>2. op'[a] = Directory!Applied(Directory!AnswerTo(NoRow, row[t]))
      BY <2>10 DEF DeleteRow, Directory!AnswerTo
    <3>3. Directory!Apply(a)
      BY <2>10, <3>1, <3>2 DEF DeleteRow, Directory!Apply, Directory!Called
    <3> QED BY <3>3 DEF Directory!DirectoryNext
  <2> QED
    BY <1>4, <2>1, <2>2, <2>3, <2>4, <2>5, <2>6, <2>7, <2>8, <2>9, <2>10 DEF Step
<1> QED BY <1>2, <1>3, <1>4 DEF SerialNext, Next

(* One operator at a time, the store is a directory of whole records: every *)
(* admin request takes effect at most once, at one instant, and its answer   *)
(* tells what it did, whatever DELETEs, GETs, failures and crashes intervene. *)
THEOREM StoreImplementsDirectory == SerialSpec => ImplementsDirectory
<1>1. Init => Directory!DirectoryInit
  BY DEF Init, Directory!DirectoryInit, Directory!New, DirectoryOp, op
<1>2. SerialInv /\ [SerialNext]_storeVars
        => [Directory!DirectoryNext]_<<row, op>>
  BY StepRefines
<1> QED
  BY <1>1, <1>2, SerialInvariance, PTL
     DEF SerialSpec, SerialNext, ImplementsDirectory, Directory!DirectorySpec
=============================================================================
