---------------------------- MODULE MCLeaseStore ----------------------------
(***************************************************************************)
(* LeaseStore for TLC: two requests of one caller for the same profile.    *)
(* "solo" is the exclusive policy, "pair" the shared one; each dimension   *)
(* is full after one lease under "solo" and after two under "pair".        *)
(***************************************************************************)
EXTENDS LeaseStore, TLC

CONSTANTS u1, u2, q1, q2, q3

MCProfileOf == [r \in Requests |-> IF r = q3 THEN u2 ELSE u1]

MCKey == [r \in Requests |->
            [d \in Dims |-> IF d = "profile" THEN MCProfileOf[r] ELSE "all"]]

MCLimit == ("solo" :> [d \in Dims |-> 1]) @@ ("pair" :> [d \in Dims |-> 2])
MCModeOf == ("solo" :> "exclusive") @@ ("pair" :> "shared")
=============================================================================
