--------------------------- MODULE MCProfileFence ---------------------------
(***************************************************************************)
(* ProfileFence for TLC: one profile under the first alias, a second alias *)
(* and UID free for renames and additions.                                 *)
(***************************************************************************)
EXTENDS ProfileFence, TLC

CONSTANTS u1, u2, r1, r2, p1, p2, a1, a2

MCInitConfig ==
  [a \in Aliases |-> IF a = a1 THEN [uid |-> u1, rev |-> r1]
                     ELSE [uid |-> "none", rev |-> "none"]]

(* The run about ordinary commands alone never opens the service.          *)
ServiceDown == svc = SvcDown

Processes == Permutations(Procs)
============================================================================
