--------------------------- MODULE MCLeaseHistory ---------------------------
(***************************************************************************)
(* LeaseHistory for TLC: a lease issued at wall 2, monotonic 1, with ttl 2 *)
(* of a signed session of 4 that the signed expiry (wall 6) also ends, and *)
(* a retention of 2.                                                       *)
(***************************************************************************)
EXTENDS LeaseHistory

BasePolicy == [ttl |-> 2, maxTtl |-> 2, maxSession |-> 4, signedExpires |-> 6,
               digest |-> "d1", bound |-> TRUE, resolved |-> TRUE]
MCPolicies == {BasePolicy, [BasePolicy EXCEPT !.digest = "d2"]}

MCControls ==
  [caller : {TRUE}, identity : {TRUE}, generation : 1 .. MaxFencing]
    \cup {[caller |-> FALSE, identity |-> TRUE, generation |-> 2]}

(* Without any wall jump: wall and monotonic time advance together.        *)
MCSteadySamples ==
  {s \in [wall : 2 .. 6, mono : 1 .. 5, generation : {1}] :
     s.wall = s.mono + 1}

(* The wall clock also falls behind by two or jumps ahead to the signed    *)
(* expiry; the last sample is of another generation.                       *)
MCSamples ==
  {s \in [wall : 1 .. 6, mono : 1 .. 4, generation : {1}] :
     s.wall - s.mono = 1 \/ <<s.wall, s.mono>> \in {<<1, 2>>, <<2, 3>>, <<6, 3>>}}
    \cup {[wall |-> 3, mono |-> 2, generation |-> 2]}

MCReasonInputs == {"WorkerFailed", "PolicyRevoked", "InternalError"}
MCDigests == {"d1", "d2"}
==============================================================================
