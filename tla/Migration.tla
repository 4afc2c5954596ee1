------------------------------ MODULE Migration ------------------------------
(***************************************************************************)
(* The copy-only migration of a legacy store (migration.rs and its         *)
(* submodules journal, recovery and filesystem): MigrationPlan::inspect    *)
(* and execute, the rollback of a failed execution, recover_incomplete,    *)
(* and the startup guard every ordinary command holds.                     *)
(*                                                                         *)
(* The target layout is a set of anchors, the directories renamed as a     *)
(* whole.  An anchor has a staged tree, a target tree and an archived      *)
(* tree; a tree is absent, made by the migration, or a directory another   *)
(* program made: empty at first, foreign once something is in it.  The     *)
(* data of a made tree is the version of the legacy store it was copied    *)
(* from.  Every file operation that a crash may separate from the next is  *)
(* a step of its own.                                                      *)
(***************************************************************************)
EXTENDS Integers

CONSTANTS N,              \* number of anchors, in the order of their paths
          ConfigAnchor,   \* the anchor that holds the configuration file
          VendorAnchor,   \* the anchor that holds vendor-state
          MaxTx,          \* migrations started
          MaxChanges,     \* changes of the legacy store by other programs
          MaxForeign,     \* target directories made by other programs
          MaxFaults,      \* failing file operations
          MaxCrashes      \* process deaths

Anchors == 1..N

ASSUME NAssumption == N \in Nat \ {0}
ASSUME AnchorAssumption == ConfigAnchor \in Anchors /\ VendorAnchor \in Anchors
ASSUME BoundAssumption == /\ MaxTx \in Nat /\ MaxChanges \in Nat /\ MaxForeign \in Nat
                          /\ MaxFaults \in Nat /\ MaxCrashes \in Nat

VARIABLES legacy,   \* version of the legacy metadata and of its vendor files
          journal,  \* the journal on disk
          stage, target, archive,  \* the three trees of each anchor
          lock,     \* the operation lock: free, shared by commands, exclusive
          pc,       \* where the running migration or recovery is
          cur,      \* the anchor its loop has reached
          plan,     \* the version of the legacy store it planned from
          mem,      \* its journal in memory
          tx,       \* the transaction identifier, counted
          used      \* how much of each bound is used

disk == <<legacy, journal, stage, target, archive>>
process == <<pc, cur, plan, mem>>
vars == <<disk, process, lock, tx, used>>

Version == [meta : 0..MaxChanges + 1, vendor : 0..MaxChanges + 1]
NoData == [meta |-> 0, vendor |-> 0]

Tree == [kind : {"absent", "made", "empty", "foreign"}, marker : 0..MaxTx, data : Version]
Absent == [kind |-> "absent", marker |-> 0, data |-> NoData]
\* What another program made: nothing in it yet, or something of its own.
Empty == [kind |-> "empty", marker |-> 0, data |-> NoData]
Foreign == [kind |-> "foreign", marker |-> 0, data |-> NoData]

Phase == {"none", "torn", "staging", "staged", "committing", "verified"}
Journal == [phase : Phase, committed : SUBSET Anchors, archived : SUBSET Anchors]
NoJournal == [phase |-> "none", committed |-> {}, archived |-> {}]

\* prepare and execute_transaction, rollback, and the finalization of recover
PreparePcs == {"prepare", "journal"}
TransactionPcs == {"mkdir", "mark", "copy", "stage", "absent", "commit", "record",
                   "verify", "unmark", "clear"}
RollbackPcs == {"rollback", "archive", "unstage", "removing", "finish"}
FinalizePcs == {"reverify", "finalize"}
Pcs == {"idle", "planned"} \cup PreparePcs \cup TransactionPcs
          \cup RollbackPcs \cup FinalizePcs

Used == [changes : 0..MaxChanges, foreign : 0..MaxForeign,
         faults : 0..MaxFaults, crashes : 0..MaxCrashes]

TypeOK ==
    /\ legacy \in [meta : 1..MaxChanges + 1, vendor : 1..MaxChanges + 1]
    /\ journal \in Journal
    /\ stage \in [Anchors -> Tree]
    /\ target \in [Anchors -> Tree]
    /\ archive \in [Anchors -> [1..MaxTx -> Tree]]
    /\ lock \in {"free", "shared", "exclusive"}
    /\ pc \in Pcs
    /\ cur \in Anchors
    /\ plan \in Version
    /\ mem \in Journal
    /\ tx \in 0..MaxTx
    /\ used \in Used

Init ==
    /\ legacy = [meta |-> 1, vendor |-> 1]
    /\ journal = NoJournal
    /\ stage = [a \in Anchors |-> Absent]
    /\ target = [a \in Anchors |-> Absent]
    /\ archive = [a \in Anchors |-> [t \in 1..MaxTx |-> Absent]]
    /\ lock = "free"
    /\ pc = "idle" /\ cur = 1 /\ plan = NoData /\ mem = NoJournal
    /\ tx = 0
    /\ used = [changes |-> 0, foreign |-> 0, faults |-> 0, crashes |-> 0]

-----------------------------------------------------------------------------
(* The running process.                                                    *)

\* Mutant: the marker is not compared with the transaction.
OwnedByAnyone(tree) == tree.kind # "absent"

\* validate_owner_marker: the tree carries this transaction's marker.
Owned(tree) == tree.kind = "made" /\ tree.marker = tx

\* Mutant: a leftover journal does not stop a command.
NoJournalCheck == TRUE

\* ensure_no_journal.
NoJournalFile == journal.phase = "none"

\* validate_target_is_absent.
TargetAbsent == \A a \in Anchors : target[a].kind = "absent"

\* The process ends, releases the operation lock and forgets its memory.
Stop == /\ pc' = "idle" /\ cur' = 1 /\ plan' = NoData /\ mem' = NoJournal
        /\ lock' = "free"

\* An error of execute_transaction: execute rolls the transaction back.
RollBack == pc' = "rollback" /\ cur' = 1 /\ UNCHANGED <<plan, mem, lock>>

\* journal::write replaces the journal file atomically.
Write(next) == mem' = next /\ journal' = next

\* The next index of a loop over the anchors, or the step after the loop.
Loop(here, after) ==
    IF cur < N THEN pc' = here /\ cur' = cur + 1 ELSE pc' = after /\ cur' = 1

\* acquire_operation_lock never waits: commands share the lock, a migration or
\* recovery holds it alone.
LockAvailable(exclusive) == IF exclusive THEN lock = "free" ELSE lock # "exclusive"

\* commit_order: by path, the anchor with the configuration last.
Precedes(a, b) ==
    IF (a = ConfigAnchor) <=> (b = ConfigAnchor) THEN a < b ELSE b = ConfigAnchor
NextToCommit(a) ==
    /\ a \notin mem.committed
    /\ \A b \in Anchors : Precedes(b, a) => b \in mem.committed

-----------------------------------------------------------------------------
(* MigrationPlan::inspect and execute.                                     *)

\* inspect reads the legacy store without any lock.
Inspect ==
    /\ pc = "idle" /\ tx < MaxTx
    /\ NoJournalFile /\ TargetAbsent
    /\ pc' = "planned" /\ plan' = legacy
    /\ UNCHANGED <<disk, cur, mem, lock, tx, used>>

\* execute takes the locks without waiting and revalidates source and target.
Begin ==
    /\ pc = "planned"
    /\ IF LockAvailable(TRUE) /\ NoJournalFile /\ TargetAbsent /\ legacy = plan
       THEN /\ lock' = "exclusive" /\ pc' = "prepare"
            /\ UNCHANGED <<cur, plan, mem>>
       ELSE /\ pc' = "idle" /\ plan' = NoData
            /\ UNCHANGED <<lock, cur, mem>>
    /\ UNCHANGED <<disk, tx, used>>

\* A legacy command still holds a profile or metadata lock: ConfigBusy.
LegacyBusy ==
    /\ pc = "planned"
    /\ pc' = "idle" /\ plan' = NoData
    /\ UNCHANGED <<disk, cur, mem, lock, tx, used>>

\* prepare checks the target again and creates the journal file, still empty.
Prepare ==
    /\ pc = "prepare"
    /\ IF TargetAbsent
       THEN /\ tx' = tx + 1
            /\ journal' = [NoJournal EXCEPT !.phase = "torn"]
            /\ pc' = "journal"
            /\ UNCHANGED <<cur, plan, mem, lock>>
       ELSE Stop /\ UNCHANGED <<journal, tx>>
    /\ UNCHANGED <<legacy, stage, target, archive, used>>

\* ... and writes it: version, transaction, path signatures, anchors, phase.
FillJournal ==
    /\ pc = "journal"
    /\ Write([NoJournal EXCEPT !.phase = "staging"])
    /\ pc' = "mkdir"
    /\ UNCHANGED <<legacy, stage, target, archive, cur, plan, lock, tx, used>>

\* create_secure_directory_new of one staging directory.
MakeStage ==
    /\ pc = "mkdir"
    /\ stage' = [stage EXCEPT ![cur] = [Absent EXCEPT !.kind = "made"]]
    /\ pc' = "mark"
    /\ UNCHANGED <<legacy, journal, target, archive, cur, plan, mem, lock, tx, used>>

\* The owner marker inside it is the next file operation.
MarkStage ==
    /\ pc = "mark"
    /\ stage' = [stage EXCEPT ![cur].marker = tx]
    /\ Loop("mkdir", "copy")
    /\ UNCHANGED <<legacy, journal, target, archive, plan, mem, lock, tx, used>>

\* The metadata comes from the plan in memory; copy_regular_file compares the
\* fingerprint of every vendor file with the plan before and after the copy.
CopyStage(a) ==
    /\ pc = "copy" /\ stage[a].data = NoData
    /\ a = VendorAnchor => \A b \in Anchors \ {a} : stage[b].data # NoData
    /\ IF a = VendorAnchor /\ legacy.vendor # plan.vendor
       THEN RollBack /\ UNCHANGED stage
       ELSE /\ stage' = [stage EXCEPT ![a].data = plan]
            /\ pc' = (IF \A b \in Anchors \ {a} : stage[b].data # NoData
                         THEN "stage" ELSE "copy")
            /\ UNCHANGED <<cur, plan, mem, lock>>
    /\ UNCHANGED <<legacy, journal, target, archive, tx, used>>

\* revalidate_source, then the journal records that the copy is complete.
Stage ==
    /\ pc = "stage"
    /\ IF legacy = plan
       THEN /\ Write([mem EXCEPT !.phase = "staged"])
            /\ pc' = "absent" /\ UNCHANGED <<cur, plan, lock>>
       ELSE RollBack /\ UNCHANGED journal
    /\ UNCHANGED <<legacy, stage, target, archive, tx, used>>

\* validate_target_is_absent, once more before the first rename.
CheckAbsent ==
    /\ pc = "absent"
    /\ IF TargetAbsent THEN pc' = "commit" /\ UNCHANGED <<cur, plan, mem, lock>>
                       ELSE RollBack
    /\ UNCHANGED <<disk, tx, used>>

\* One anchor is renamed into place, without another look at the target:
\* rename(2) replaces an empty directory and fails on one that holds something.
Replaceable(tree) == tree.kind \in {"absent", "empty"}
CommitRename(a) ==
    /\ pc = "commit" /\ NextToCommit(a)
    /\ IF Replaceable(target[a])
       THEN /\ target' = [target EXCEPT ![a] = stage[a]]
            /\ stage' = [stage EXCEPT ![a] = Absent]
            /\ pc' = "record" /\ cur' = a
            /\ UNCHANGED <<plan, mem, lock>>
       ELSE RollBack /\ UNCHANGED <<stage, target>>
    /\ UNCHANGED <<legacy, journal, archive, tx, used>>

\* ... and only then recorded as committed.
Recorded == [mem EXCEPT !.phase = "committing", !.committed = @ \cup {cur}]
CommitRecord ==
    /\ pc = "record"
    /\ Write(Recorded)
    /\ pc' = (IF Recorded.committed = Anchors THEN "verify" ELSE "commit")
    /\ cur' = 1
    /\ UNCHANGED <<legacy, stage, target, archive, plan, lock, tx, used>>

\* verify_committed_target: the metadata is compared with the plan, ...
MetadataMatches(expected) ==
    \A a \in Anchors : target[a].data.meta = expected.meta
\* ... the vendor files with the plan and, byte by byte, with the legacy ones,
VendorMatches(expected) ==
    /\ target[VendorAnchor].data.vendor = expected.vendor
    /\ legacy.vendor = expected.vendor
\* ... every marker that is there, or has to be, is this transaction's,
MarkersMatch(required) ==
    \A a \in Anchors : target[a].marker \in (IF required THEN {tx} ELSE {0, tx})
\* ... and the anchors hold what the migration made and nothing else.
LayoutMatches == \A a \in Anchors : target[a].kind = "made"
Verifies(expected, required) ==
    /\ MetadataMatches(expected) /\ VendorMatches(expected)
    /\ MarkersMatch(required) /\ LayoutMatches

Verify ==
    /\ pc = "verify"
    /\ IF Verifies(plan, TRUE)
       THEN /\ Write([mem EXCEPT !.phase = "verified"])
            /\ pc' = "unmark" /\ UNCHANGED <<cur, plan, lock>>
       ELSE RollBack /\ UNCHANGED journal
    /\ UNCHANGED <<legacy, stage, target, archive, tx, used>>

\* remove_owner_marker_if_present, anchor by anchor.
Unmark ==
    /\ pc = "unmark"
    /\ target' = [target EXCEPT ![cur].marker = 0]
    /\ Loop("unmark", "clear")
    /\ UNCHANGED <<legacy, journal, stage, archive, plan, mem, lock, tx, used>>

\* remove_regular_file of the journal; the migration is over.
RemoveJournal ==
    /\ pc = "clear"
    /\ journal' = NoJournal
    /\ Stop
    /\ UNCHANGED <<legacy, stage, target, archive, tx, used>>

-----------------------------------------------------------------------------
(* recovery::rollback, run by a failed execute and by recover_incomplete.  *)

\* Mutant: the archive path is remembered but not written to the journal.
RollbackUnrecorded ==
    /\ pc = "rollback"
    /\ LET present == target[cur].kind # "absent"
       IN \/ /\ present /\ ~Owned(target[cur]) /\ cur \notin mem.archived
             /\ Stop
          \/ /\ present /\ Owned(target[cur])
             /\ mem' = [mem EXCEPT !.archived = @ \cup {cur}]
             /\ pc' = "archive" /\ UNCHANGED <<cur, plan, lock>>
          \/ /\ ~present
             /\ pc' = (IF cur \in mem.archived THEN "archive" ELSE "unstage")
             /\ UNCHANGED <<cur, plan, mem, lock>>
    /\ UNCHANGED <<disk, tx, used>>

\* An owned target gets an archive path in the journal before it is moved.
RollbackAnchor ==
    /\ pc = "rollback"
    /\ LET present == target[cur].kind # "absent"
           planned == cur \in mem.archived
           refuse == ~planned /\ (IF present THEN ~Owned(target[cur])
                                             ELSE cur \in mem.committed)
       IN \/ /\ refuse
             /\ Stop /\ UNCHANGED journal
          \/ /\ ~refuse /\ present /\ ~planned
             /\ Write([mem EXCEPT !.archived = @ \cup {cur}])
             /\ pc' = "archive" /\ UNCHANGED <<cur, plan, lock>>
          \/ /\ ~refuse /\ (~present \/ planned)
             /\ pc' = (IF planned THEN "archive" ELSE "unstage")
             /\ UNCHANGED <<journal, cur, plan, mem, lock>>
    /\ UNCHANGED <<legacy, stage, target, archive, tx, used>>

\* Mutant: a target that was already moved is not accepted.
ArchiveOnce ==
    /\ pc = "archive"
    /\ \/ /\ Owned(target[cur])
          /\ archive' = [archive EXCEPT ![cur][tx] = target[cur]]
          /\ target' = [target EXCEPT ![cur] = Absent]
          /\ pc' = "unstage" /\ UNCHANGED <<cur, plan, mem, lock>>
       \/ ~Owned(target[cur]) /\ Stop /\ UNCHANGED <<target, archive>>
    /\ UNCHANGED <<legacy, journal, stage, tx, used>>

\* archive_committed_target: move it, or accept that it was moved before.
ArchiveTarget ==
    /\ pc = "archive"
    /\ LET moved == archive[cur][tx]
       IN \/ /\ Owned(target[cur]) /\ moved.kind = "absent"
             /\ archive' = [archive EXCEPT ![cur][tx] = target[cur]]
             /\ target' = [target EXCEPT ![cur] = Absent]
             /\ pc' = "unstage" /\ UNCHANGED <<cur, plan, mem, lock>>
          \/ /\ target[cur].kind = "absent" /\ Owned(moved)
             /\ pc' = "unstage" /\ UNCHANGED <<target, archive, cur, plan, mem, lock>>
          \/ /\ ~(Owned(target[cur]) /\ moved.kind = "absent")
             /\ ~(target[cur].kind = "absent" /\ Owned(moved))
             /\ Stop /\ UNCHANGED <<target, archive>>
    /\ UNCHANGED <<legacy, journal, stage, tx, used>>

\* remove_owned_tree_if_present checks the marker of the staging directory ...
CheckStage ==
    /\ pc = "unstage"
    /\ \/ /\ stage[cur].kind = "absent"
          /\ Loop("rollback", "finish") /\ UNCHANGED <<plan, mem, lock>>
       \/ /\ Owned(stage[cur])
          /\ pc' = "removing" /\ UNCHANGED <<cur, plan, mem, lock>>
       \/ /\ stage[cur].kind # "absent" /\ ~Owned(stage[cur])
          /\ Stop
    /\ UNCHANGED <<disk, tx, used>>

\* ... and remove_dir_all then deletes its entries in directory order.
RemoveStage ==
    /\ pc = "removing"
    /\ LET tree == stage[cur]
       IN \/ /\ tree.marker # 0 /\ tree.data # NoData
             /\ \/ stage' = [stage EXCEPT ![cur].marker = 0]
                \/ stage' = [stage EXCEPT ![cur].data = NoData]
             /\ UNCHANGED <<pc, cur>>
          \/ /\ tree.marker = 0 \/ tree.data = NoData
             /\ stage' = [stage EXCEPT ![cur] = Absent]
             /\ Loop("rollback", "finish")
    /\ UNCHANGED <<legacy, journal, target, archive, plan, mem, lock, tx, used>>

\* The journal is removed last, by a rollback and by a finalization.
Finish ==
    /\ pc = "finish"
    /\ journal' = NoJournal
    /\ Stop
    /\ UNCHANGED <<legacy, stage, target, archive, tx, used>>

-----------------------------------------------------------------------------
(* recovery::recover.                                                      *)

\* parse_toml and validate: a whole journal of this pair of layouts.
Acceptable(j) == j.phase \notin {"none", "torn"}

\* Any other journal is refused; a verified one is finalized
\* from a new inspection of the legacy store, an earlier one is rolled back.
Recover ==
    /\ pc = "idle" /\ LockAvailable(TRUE) /\ Acceptable(journal)
    /\ lock' = "exclusive" /\ mem' = journal /\ cur' = 1
    /\ IF journal.phase = "verified" THEN pc' = "reverify" /\ plan' = legacy
                                     ELSE pc' = "rollback" /\ UNCHANGED plan
    /\ UNCHANGED <<disk, tx, used>>

\* revalidate_source and verify_committed_target, without requiring markers.
Reverify ==
    /\ pc = "reverify"
    /\ IF legacy = plan /\ Verifies(plan, FALSE)
       THEN pc' = "finalize" /\ UNCHANGED <<cur, plan, mem, lock>>
       ELSE Stop
    /\ UNCHANGED <<disk, tx, used>>

\* Markers and leftover staging directories go, anchor by anchor.
Finalize ==
    /\ pc = "finalize"
    /\ \/ /\ stage[cur].kind = "absent" \/ Owned(stage[cur])
          /\ target' = [target EXCEPT ![cur].marker = 0]
          /\ stage' = [stage EXCEPT ![cur] = Absent]
          /\ Loop("finalize", "finish") /\ UNCHANGED <<plan, mem, lock>>
       \/ /\ stage[cur].kind # "absent" /\ ~Owned(stage[cur])
          /\ Stop /\ UNCHANGED <<target, stage>>
    /\ UNCHANGED <<legacy, journal, archive, tx, used>>

-----------------------------------------------------------------------------
(* Ordinary commands, failures and other programs.                         *)

\* acquire_migration_startup_guard: a shared lock, then no journal.
StartCommand ==
    /\ LockAvailable(FALSE) /\ NoJournalFile
    /\ lock' = "shared"
    /\ UNCHANGED <<disk, process, tx, used>>
EndCommand ==
    /\ lock = "shared" /\ lock' = "free"
    /\ UNCHANGED <<disk, process, tx, used>>

\* A file operation fails: prepare removes the journal file it could not
\* write, the transaction is rolled back, a rollback or a recovery gives up.
FileError ==
    /\ used.faults < MaxFaults
    /\ used' = [used EXCEPT !.faults = @ + 1]
    /\ \/ pc \in PreparePcs /\ Stop /\ journal' = NoJournal
       \/ pc \in TransactionPcs /\ RollBack /\ UNCHANGED journal
       \/ pc \in RollbackPcs \cup FinalizePcs /\ Stop /\ UNCHANGED journal
    /\ UNCHANGED <<legacy, stage, target, archive, tx>>

\* A journal write fails after the journal in memory has advanced.
NextMem == CASE pc = "stage" -> [mem EXCEPT !.phase = "staged"]
             [] pc = "record" -> Recorded
             [] pc = "verify" -> [mem EXCEPT !.phase = "verified"]
WriteError ==
    /\ used.faults < MaxFaults
    /\ used' = [used EXCEPT !.faults = @ + 1]
    /\ \/ pc = "stage" /\ legacy = plan
       \/ pc = "record"
       \/ pc = "verify" /\ Verifies(plan, TRUE)
    /\ mem' = NextMem
    /\ pc' = "rollback" /\ cur' = 1
    /\ UNCHANGED <<disk, plan, lock, tx>>

\* The process dies; the operating system releases its lock.
Crash ==
    /\ pc # "idle" /\ used.crashes < MaxCrashes
    /\ used' = [used EXCEPT !.crashes = @ + 1]
    /\ pc' = "idle" /\ cur' = 1 /\ plan' = NoData /\ mem' = NoJournal
    /\ lock' = (IF lock = "exclusive" THEN "free" ELSE lock)
    /\ UNCHANGED <<disk, tx>>

\* Another program changes the legacy store, or makes a target directory and
\* then puts something into it, as long as the directory is its own.
ChangeLegacy ==
    /\ used.changes < MaxChanges
    /\ used' = [used EXCEPT !.changes = @ + 1]
    /\ \E part \in {"meta", "vendor"} : legacy' = [legacy EXCEPT ![part] = @ + 1]
    /\ UNCHANGED <<journal, stage, target, archive, process, lock, tx>>
MakeForeign(a) ==
    /\ used.foreign < MaxForeign
    /\ used' = [used EXCEPT !.foreign = @ + 1]
    /\ target[a].kind = "absent"
    /\ target' = [target EXCEPT ![a] = Empty]
    /\ UNCHANGED <<legacy, journal, stage, archive, process, lock, tx>>
FillForeign(a) ==
    /\ target[a].kind = "empty"
    /\ target' = [target EXCEPT ![a] = Foreign]
    /\ UNCHANGED <<legacy, journal, stage, archive, process, lock, tx, used>>

-----------------------------------------------------------------------------
Execute ==
    \/ Begin \/ Prepare \/ FillJournal \/ MakeStage \/ MarkStage
    \/ \E a \in Anchors : CopyStage(a) \/ CommitRename(a)
    \/ Stage \/ CheckAbsent \/ CommitRecord \/ Verify \/ Unmark \/ RemoveJournal
Resolve ==
    \/ RollbackAnchor \/ ArchiveTarget \/ CheckStage \/ RemoveStage \/ Finish
    \/ Reverify \/ Finalize
Environment ==
    \/ StartCommand \/ EndCommand \/ FileError \/ WriteError \/ Crash
    \/ ChangeLegacy \/ \E a \in Anchors : MakeForeign(a) \/ FillForeign(a)

Next == Inspect \/ LegacyBusy \/ Execute \/ Recover \/ Resolve \/ Environment

Spec == Init /\ [][Next]_vars

\* A process that runs goes on, and the operator runs `migrate recover` again
\* as long as a journal is there.
FairSpec == Spec /\ WF_vars(Execute) /\ WF_vars(Resolve) /\ WF_vars(Recover)

-----------------------------------------------------------------------------
(* Properties.                                                             *)

\* What an ordinary command can see of the target: nothing while it cannot
\* run; a complete target has every anchor, copied from one version of the
\* legacy store and without owner markers.
Readable == lock = "shared" \/ (lock = "free" /\ NoJournalFile)
Complete == \E v \in Version \ {NoData} :
                \A a \in Anchors : target[a] = [kind |-> "made", marker |-> 0, data |-> v]
View == IF ~Readable THEN "closed"
        ELSE IF Complete THEN "migrated"
        ELSE IF \E a \in Anchors : target[a].kind = "made" THEN "partial"
        ELSE "unmigrated"

Contract == INSTANCE MigrationContract WITH view <- View

\* Whatever fails or dies between two file operations, an ordinary command
\* sees no partial target: the migration implements its contract
\* (acquire_migration_startup_guard, execute and recover_incomplete).
ImplementsContract == Contract!Spec

\* The journal on disk never contradicts the trees: a copy recorded as
\* committed is in place or archived, and a copy with a planned archive is in
\* exactly one of the two places, so that a rollback can always continue
\* (rollback and archive_committed_target refuse otherwise).
JournalMatchesDisk ==
    journal.phase # "none" =>
        \A a \in Anchors :
            LET inPlace == target[a].kind = "made"
                moved == tx # 0 /\ archive[a][tx].kind = "made"
            IN /\ a \in journal.committed => inPlace \/ moved
               /\ a \in journal.archived => (inPlace <=> ~moved)
               /\ moved => a \in journal.archived

\* Whatever a commit, a rollback or a finalization meets at a target path, it
\* never moves, changes or removes what another program keeps there
\* (validate_owner_marker; rename onto a directory that holds something).  A
\* directory that is still empty may be replaced by CommitRename.
ForeignUntouched ==
    [][\A a \in Anchors : target[a].kind = "foreign" => target'[a] = target[a]]_vars

\* What an interruption leaves is intact when every tree it made carries its
\* marker, the journal is readable, no other program took a target path, and
\* after the verification the legacy store is still the copied one.
Intact ==
    /\ journal.phase # "torn"
    /\ \A a \in Anchors : stage[a].kind = "made" => Owned(stage[a])
    /\ \A a \in Anchors : target[a].kind \notin {"empty", "foreign"}
    /\ journal.phase = "verified" => Verifies(legacy, FALSE)

\* An interruption that left its trees intact is resolved by running
\* `migrate recover` often enough: the journal goes (recovery::recover).
IntactIsResolved ==
    (journal.phase # "none" /\ Intact)
        ~> (journal.phase = "none" \/ (pc = "idle" /\ ~Intact))

\* migration.rs:262: "A non-secret journal makes interruption recoverable."
InterruptionIsRecoverable == journal.phase # "none" ~> journal.phase = "none"
============================================================================
