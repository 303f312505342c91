------------------------- MODULE MCCredentialStore -------------------------
(* Small instances of CredentialStore.  Tenant t1 is posted bodies that     *)
(* differ in one, two or three columns, so that a merge of two of them can  *)
(* be a row nobody posted; tenant t2 shows that tenants do not disturb each *)
(* other.                                                                    *)
EXTENDS CredentialStore, TLC

CONSTANTS t1, t2

MCColumns == {"org", "vault", "secret"}
MCValues  == {"A", "B"}
Posted(o, v, s) == [org |-> o, vault |-> v, secret |-> s]
MCBodies  == (t1 :> {Posted("A", "A", "A"), Posted("B", "A", "B"), Posted("A", "B", "B")})
             @@ (t2 :> {Posted("B", "B", "A")})
MCTenants == {t1, t2}
RequestSymmetry == Permutations(Requests)
=============================================================================
