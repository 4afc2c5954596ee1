--------------------------- MODULE LeaseAuthority ---------------------------
(***************************************************************************)
(* What the lease store promises, without its database, files, locks and   *)
(* latches.  A profile is sealed against ordinary use before a lease may   *)
(* even be requested for it and stays sealed until its last lease has      *)
(* ended.  Authority is granted only where the resource mode and every     *)
(* capacity dimension allow, and whatever had not ended when the service   *)
(* restarts is doomed: it can end, but never hold authority again.         *)
(***************************************************************************)
EXTENDS Naturals, FiniteSets

CONSTANTS Requests, Profiles, Policies, Dims, ProfileOf, Key, Limit, ModeOf

VARIABLES
  sealed,  \* profiles closed to ordinary use
  stage,   \* how far each request has come
  claim    \* the policy each grant was made under

vars == <<sealed, stage, claim>>

Init ==
  /\ sealed = {}
  /\ stage \in [Requests -> {"absent", "doomed"}]
  /\ claim \in [Requests -> Policies \cup {"none"}]

Unended == {"pending", "granted", "doomed"}

Granted(u) == {r \in Requests : ProfileOf[r] = u /\ stage[r] = "granted"}

Sharing(r, d) ==
  {q \in Requests : stage[q] = "granted" /\ Key[q][d] = Key[r][d]}

Seal(u) == sealed' = sealed \cup {u} /\ UNCHANGED <<stage, claim>>

Unseal(u) ==
  /\ \A r \in Requests : ProfileOf[r] = u => stage[r] \notin Unended
  /\ sealed' = sealed \ {u}
  /\ UNCHANGED <<stage, claim>>

Request(r) ==
  /\ stage[r] = "absent"
  /\ ProfileOf[r] \in sealed
  /\ stage' = [stage EXCEPT ![r] = "pending"]
  /\ claim' = [claim EXCEPT ![r] = "none"]
  /\ UNCHANGED sealed

Grant(r, p) ==
  /\ stage[r] = "pending"
  /\ ProfileOf[r] \in sealed
  /\ \A q \in Granted(ProfileOf[r]) :
       ModeOf[p] = "shared" /\ ModeOf[claim[q]] = "shared"
  /\ \A d \in Dims : Cardinality(Sharing(r, d)) < Limit[p][d]
  /\ stage' = [stage EXCEPT ![r] = "granted"]
  /\ claim' = [claim EXCEPT ![r] = p]
  /\ UNCHANGED sealed

(* A request may also be answered by a refusal alone, sealed or not.       *)
End(r) ==
  /\ stage[r] # "ended"
  /\ stage' = [stage EXCEPT ![r] = "ended"]
  /\ claim' \in {claim, [claim EXCEPT ![r] = "none"]}
  /\ UNCHANGED sealed

Forget(S) ==
  /\ \A r \in S : stage[r] = "ended"
  /\ stage' = [r \in Requests |-> IF r \in S THEN "absent" ELSE stage[r]]
  /\ claim' = [r \in Requests |-> IF r \in S THEN "none" ELSE claim[r]]
  /\ UNCHANGED sealed

Restart ==
  /\ stage' = [r \in Requests |->
                 IF stage[r] \in Unended THEN "doomed" ELSE stage[r]]
  /\ UNCHANGED <<sealed, claim>>

Next ==
  \/ Restart
  \/ \E u \in Profiles : Seal(u) \/ Unseal(u)
  \/ \E S \in SUBSET Requests : Forget(S)
  \/ \E r \in Requests :
       \/ Request(r) \/ End(r)
       \/ \E p \in Policies : Grant(r, p)

Spec == Init /\ [][Next]_vars
=============================================================================
