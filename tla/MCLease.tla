------------------------------ MODULE MCLease ------------------------------
(***************************************************************************)
(* Lease for TLC: a lease issued at wall 2, monotonic 1, with ttl 2 of a   *)
(* signed session of 6 that the signed expiry (wall 7) cuts short to 5.    *)
(* Policies differ in what the code branches on.                           *)
(***************************************************************************)
EXTENDS Lease

BasePolicy == [ttl |-> 2, maxTtl |-> 3, maxSession |-> 6, signedExpires |-> 7,
               digest |-> "d1", bound |-> TRUE, resolved |-> TRUE]

MCPolicies ==
  {BasePolicy,
   [BasePolicy EXCEPT !.ttl = 3],
   [BasePolicy EXCEPT !.maxSession = 3, !.digest = "d2"],
   [BasePolicy EXCEPT !.bound = FALSE]}

MCControls ==
  [caller : {TRUE}, identity : {TRUE}, generation : 1 .. MaxFencing]
    \cup {[caller |-> TRUE, identity |-> FALSE, generation |-> 1],
          [caller |-> FALSE, identity |-> TRUE, generation |-> 2]}

(* Wall 1 is before issuance; the last sample is of another generation.    *)
MCSamples ==
  [wall : 1 .. 7, mono : 1 .. 6, generation : {1}]
    \cup {[wall |-> 3, mono |-> 2, generation |-> 2]}
MCReasonInputs == {"Completed", "OperatorRevoked", "InternalError"}
MCDigests == {"d1", "d2"}
============================================================================
