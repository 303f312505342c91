------------------------ MODULE CredentialDirectory ------------------------
(***************************************************************************)
(* What the credential store promises, with nothing of how it does it.     *)
(* "Both POSTs return the stored record with the secret masked, and are    *)
(* idempotent -- re-posting replaces the previous values" (geneco-mcp      *)
(* README): the directory holds for each tenant a whole posted body or     *)
(* nothing, each admin request takes effect at most once, at one instant   *)
(* between its call and its answer, and the answer tells what it did.  A   *)
(* request that fails may or may not have taken effect.                    *)
(***************************************************************************)
CONSTANTS Tenants,   \* the tenant slugs
          Bodies,    \* Bodies[t]: the bodies an operator posts for tenant t
          Requests,  \* the admin requests
          NoRow      \* the tenant has no record

VARIABLES dir,  \* dir[t]: the record of tenant t, or NoRow
          op    \* op[a]: how far request a has come

New              == [stage |-> "new"]
Called(t, want)  == [stage |-> "called", tenant |-> t, want |-> want]
Applied(answer)  == [stage |-> "applied", answer |-> answer]
Answered(answer) == [stage |-> "answered", answer |-> answer]

Ok(shown) == [pc |-> "ok", shown |-> shown]   \* 200 with a record, or 204 (NoRow)
Refusal(pc) == [pc |-> pc]                    \* 401, 404 or 500

DirectoryInit == /\ dir = [t \in Tenants |-> NoRow]
                 /\ op = [a \in Requests |-> New]

(* A POST wants the tenant's record to be its body, a DELETE wants it gone. *)
Call(a, t, want) == /\ op[a] = New
                    /\ op' = [op EXCEPT ![a] = Called(t, want)]
                    /\ UNCHANGED dir

AnswerTo(want, had) == IF want # NoRow THEN Ok(want)
                       ELSE IF had # NoRow THEN Ok(NoRow) ELSE Refusal("notfound")

Apply(a) ==
  /\ op[a].stage = "called"
  /\ dir' = [dir EXCEPT ![op[a].tenant] = op[a].want]
  /\ op' = [op EXCEPT ![a] = Applied(AnswerTo(op[a].want, dir[op[a].tenant]))]

Answer(a) == /\ op[a].stage = "applied"
             /\ op' = [op EXCEPT ![a] = Answered(op[a].answer)]
             /\ UNCHANGED dir

Fail(a) == /\ op[a].stage \in {"new", "called", "applied"}
           /\ op' = [op EXCEPT ![a] = Answered(Refusal("failed"))]
           /\ UNCHANGED dir

(* A GET takes effect and answers at once; a bad key is turned away. *)
Read(a, t) ==
  /\ op[a] = New
  /\ op' = [op EXCEPT ![a] = Answered(IF dir[t] = NoRow THEN Refusal("notfound")
                                                        ELSE Ok(dir[t]))]
  /\ UNCHANGED dir

TurnAway(a) == /\ op[a] = New
               /\ op' = [op EXCEPT ![a] = Answered(Refusal("rejected"))]
               /\ UNCHANGED dir

(* A crash of the process answers nobody and loses no record. *)
Crash == /\ op' = [a \in Requests |-> IF op[a].stage \in {"called", "applied"}
                                      THEN Answered(Refusal("failed")) ELSE op[a]]
         /\ UNCHANGED dir

DirectoryNext ==
  \/ \E a \in Requests : \/ \E t \in Tenants : \/ \E w \in Bodies[t] \cup {NoRow} : Call(a, t, w)
                                               \/ Read(a, t)
                         \/ Apply(a) \/ Answer(a) \/ Fail(a) \/ TurnAway(a)
  \/ Crash

DirectorySpec == DirectoryInit /\ [][DirectoryNext]_<<dir, op>>
=============================================================================
