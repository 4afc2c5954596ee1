-------------------------- MODULE MigrationContract --------------------------
(***************************************************************************)
(* What a migration promises to the commands that read the target store:   *)
(* the target is either not migrated or migrated completely, the store is  *)
(* closed while that changes, and a migrated store stays migrated.         *)
(***************************************************************************)
VARIABLE view

Init == view = "unmigrated"

Close == view = "unmigrated" /\ view' = "closed"
Reopen == view = "closed" /\ view' \in {"unmigrated", "migrated"}

Next == Close \/ Reopen

Spec == Init /\ [][Next]_view
============================================================================
