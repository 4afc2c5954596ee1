--------------------------- MODULE MigrationProofs ---------------------------
(***************************************************************************)
(* Theorems about Migration, for any number of anchors, transactions,      *)
(* crashes and faults: the journal never contradicts the trees, what       *)
(* another program keeps stays, commands see what MigrationContract says.  *)
(***************************************************************************)
EXTENDS Migration, TLAPS

-----------------------------------------------------------------------------
(* The inductive invariant.                                                *)

Made(a) == target[a].kind = "made"
Moved(a) == tx # 0 /\ archive[a][tx].kind = "made"
Clean == \A a \in Anchors : ~Made(a)

\* JournalMatchesDisk for the journal j.
Matches(j) ==
    \A a \in Anchors : /\ a \in j.committed => Made(a) \/ Moved(a)
                       /\ a \in j.archived => (Made(a) <=> ~Moved(a))
                       /\ Moved(a) => a \in j.archived

\* Every copy in place is of one version.
Uniform == \E v \in Version \ {NoData} : \A a \in Anchors : Made(a) => target[a].data = v

Types == TypeOK /\ legacy.meta + legacy.vendor <= used.changes + 2

Locks == /\ lock = "exclusive" <=> pc \notin {"idle", "planned"}
         /\ lock = "shared" => journal.phase = "none"

Phases == /\ pc = "prepare" => journal.phase = "none" /\ Clean
          /\ pc = "journal" => journal.phase = "torn" /\ journal.archived = {} /\ Clean
          /\ pc \notin {"idle", "planned", "prepare"} => journal.phase # "none"
          /\ pc \in TransactionPcs \cup RollbackPcs \cup FinalizePcs => mem.phase # "none"
          /\ journal.phase # "none" => tx # 0
          /\ pc \in {"planned", "prepare"} => tx < MaxTx
          /\ pc \in {"idle", "planned", "reverify"} \cup PreparePcs => cur = 1
          /\ pc \in {"planned"} \cup PreparePcs \cup TransactionPcs => plan # NoData

\* No journal: not migrated, or completely.
Whole == journal.phase = "none" => Clean \/ Complete
Consistent == journal.phase # "none" => Matches(journal)
\* Later transactions have archived nothing.
Fresh == \A a \in Anchors, t \in 1..MaxTx : t > tx => archive[a][t].kind # "made"

\* Where a transaction has left its copies.
Copy(marker, data) == [kind |-> "made", marker |-> marker, data |-> data]
Executing == pc \in TransactionPcs => mem = journal /\ mem.archived = {}
Staging ==
    /\ pc \in {"mkdir", "mark", "copy", "stage", "absent"} => mem.committed = {} /\ Clean
    /\ pc \in {"mkdir", "mark"} => \A a \in Anchors : a < cur => stage[a] = Copy(tx, NoData)
    /\ pc = "mark" => stage[cur] = Copy(0, NoData)
    /\ pc = "copy" => \A a \in Anchors : stage[a] \in {Copy(tx, NoData), Copy(tx, plan)}
    /\ pc \in {"stage", "absent"} => \A a \in Anchors : stage[a] = Copy(tx, plan)
Placed(a) == a \in mem.committed \/ (pc = "record" /\ a = cur)
Committing ==
    /\ pc \in {"commit", "record"} => \A a \in Anchors :
          /\ Placed(a) => target[a] = Copy(tx, plan)
          /\ ~Placed(a) => stage[a] = Copy(tx, plan) /\ ~Made(a)
    /\ pc = "verify" => cur = 1 /\ \A a \in Anchors : target[a] = Copy(tx, plan)
    /\ pc = "unmark" => \A a \in Anchors : target[a] = Copy(IF a < cur THEN 0 ELSE tx, plan)
    /\ pc = "clear" => \A a \in Anchors : target[a] = Copy(0, plan)

\* How far a rollback or a finalization is.
Resolving ==
    /\ pc \in RollbackPcs \cup FinalizePcs => mem.archived = journal.archived /\ Matches(mem)
    /\ pc \in {"rollback", "archive", "unstage", "removing"} =>
          \A a \in Anchors : a < cur => ~Made(a)
    /\ pc \in {"unstage", "removing"} => ~Made(cur)
    /\ pc = "archive" => cur \in mem.archived
    /\ pc = "finalize" => \A a \in Anchors : Made(a) /\ (a < cur => target[a].marker = 0)
    /\ pc = "finish" => Clean \/ Complete

IInv == /\ Types /\ Locks /\ Phases /\ Uniform /\ Whole /\ Consistent /\ Fresh
        /\ Executing /\ Staging /\ Committing /\ Resolving

LEMMA InitInv == Init => IInv
<1> SUFFICES ASSUME Init PROVE IInv  OBVIOUS
<1>1. /\ \A a \in Anchors : target[a] = Absent
      /\ \A a \in Anchors, t \in 1..MaxTx : archive[a][t] = Absent
  BY DEF Init
<1>2. Absent \in Tree /\ Absent.kind = "absent" /\ NoJournal \in Journal /\ NoData \in Version
  BY BoundAssumption DEF Absent, Tree, NoJournal, Journal, Phase, NoData, Version
<1>3. 1 \in Anchors  BY NAssumption DEF Anchors
<1>4. TypeOK
  BY <1>2, <1>3, BoundAssumption DEF Init, TypeOK, Pcs, Used
<1>5. Types  BY <1>4, BoundAssumption DEF Init, Types
<1>6. Clean  BY <1>1, <1>2 DEF Clean, Made
<1>7. [meta |-> 1, vendor |-> 1] \in Version \ {NoData}
  BY BoundAssumption DEF Version, NoData
<1>8. Uniform  BY <1>6, <1>7 DEF Uniform, Clean
<1>9. journal.phase = "none"  BY DEF Init, NoJournal
<1>10. Fresh  BY <1>1, <1>2 DEF Fresh
<1>11. pc = "idle" /\ cur = 1 /\ lock = "free" /\ tx = 0  BY DEF Init
<1> QED  BY <1>5, <1>6, <1>8, <1>9, <1>10, <1>11
     DEF IInv, Locks, Phases, Whole, Consistent, Executing, Staging, Committing, Resolving,
         PreparePcs, TransactionPcs, RollbackPcs, FinalizePcs

-----------------------------------------------------------------------------
(* What most steps share.                                                  *)

\* The trees that are read by the invariant.
Trees == <<journal, target, archive, tx>>

LEMMA TreesKeep ==
  ASSUME IInv, UNCHANGED Trees
  PROVE  Uniform' /\ Whole' /\ Consistent' /\ Fresh'
<1>1. Uniform'  BY DEF IInv, Trees, Uniform, Made
<1>2. Whole'  BY DEF IInv, Trees, Whole, Clean, Complete, Made
<1>3. Consistent'  BY DEF IInv, Trees, Consistent, Matches, Made, Moved
<1>4. Fresh'  BY DEF IInv, Trees, Fresh
<1> QED  BY <1>1, <1>2, <1>3, <1>4

\* A process that ends, or only plans: what is on disk stays, or a journal
\* that is no longer needed goes.
LEMMA RestKeeps ==
  ASSUME IInv, Types', UNCHANGED <<target, archive, tx>>, cur' = 1,
         pc' = "idle" \/ (pc' = "planned" /\ tx < MaxTx /\ plan' # NoData),
         lock' # "exclusive", lock' = "shared" => journal'.phase = "none",
         journal' = journal \/ (journal' = NoJournal /\ (Clean \/ Complete))
  PROVE  IInv'
<1>1. Uniform'  BY DEF IInv, Uniform, Made
<1>2. Fresh'  BY DEF IInv, Fresh
<1>3. Whole'  BY DEF IInv, Whole, Clean, Complete, Made
<1>4. CASE journal' = journal
  <2>1. Consistent'  BY <1>4 DEF IInv, Consistent, Matches, Made, Moved
  <2>2. journal'.phase # "none" => tx' # 0  BY <1>4 DEF IInv, Phases
  <2> QED  BY <1>1, <1>2, <1>3, <2>1, <2>2
       DEF IInv, Locks, Phases, Executing, Staging, Committing, Resolving,
           PreparePcs, TransactionPcs, RollbackPcs, FinalizePcs
<1>5. CASE journal' = NoJournal
  <2>1. journal'.phase = "none"  BY <1>5 DEF NoJournal
  <2> QED  BY <1>1, <1>2, <1>3, <2>1
       DEF IInv, Consistent, Locks, Phases, Executing, Staging, Committing, Resolving,
           PreparePcs, TransactionPcs, RollbackPcs, FinalizePcs
<1> QED  BY <1>4, <1>5

\* Stop keeps the types.
LEMMA StopTypes ==
  ASSUME Types, Stop, UNCHANGED <<legacy, stage, target, archive, tx>>,
         used' \in Used, used'.changes = used.changes, journal' \in {journal, NoJournal}
  PROVE  Types' /\ pc' = "idle" /\ lock' = "free" /\ cur' = 1
<1>1. /\ NoJournal \in Journal /\ NoData \in Version /\ 1 \in Anchors
  BY BoundAssumption, NAssumption DEF NoJournal, Journal, Phase, NoData, Version, Anchors
<1>2. TypeOK'  BY <1>1 DEF Types, TypeOK, Stop, Pcs
<1> QED  BY <1>2 DEF Types, Stop

LEMMA StopKeeps ==
  ASSUME IInv, Stop, UNCHANGED <<legacy, stage, target, archive, tx>>,
         used' \in Used, used'.changes = used.changes,
         journal' = journal \/ (journal' = NoJournal /\ (Clean \/ Complete))
  PROVE  IInv'
<1>1. Types' /\ pc' = "idle" /\ lock' = "free" /\ cur' = 1  BY StopTypes DEF IInv
<1> QED  BY <1>1, RestKeeps

\* A transaction that fails: what it has placed is known to be in place.
LEMMA FailKeeps ==
  ASSUME IInv, Types', pc \in TransactionPcs, pc' = "rollback", cur' = 1,
         UNCHANGED <<journal, stage, target, archive, lock, tx>>,
         mem'.phase # "none", mem'.archived = mem.archived,
         \A a \in Anchors : a \in mem'.committed => Made(a)
  PROVE  IInv'
<1>1. Uniform' /\ Whole' /\ Consistent' /\ Fresh'  BY TreesKeep DEF Trees
<1>2. journal.phase # "none" /\ mem = journal /\ mem.archived = {}
  BY DEF IInv, Phases, Executing, TransactionPcs, PreparePcs
<1>3. \A a \in Anchors : ~Moved(a)  BY <1>2 DEF IInv, Consistent, Matches
<1>4. Matches(mem)'  BY <1>2, <1>3 DEF Matches, Made, Moved
<1>5. \A a \in Anchors : ~(a < cur')  BY DEF Anchors
<1>6. Locks'  BY DEF IInv, Locks, TransactionPcs
<1>7. Phases'
  BY <1>2 DEF IInv, Phases, TransactionPcs, RollbackPcs, PreparePcs
<1>8. Resolving'
  BY <1>2, <1>4, <1>5 DEF Resolving, RollbackPcs, FinalizePcs
<1> QED  BY <1>1, <1>6, <1>7, <1>8 DEF IInv, Executing, Staging, Committing, TransactionPcs

LEMMA RollBackKeeps ==
  ASSUME IInv, pc \in TransactionPcs, RollBack,
         UNCHANGED <<legacy, journal, stage, target, archive, tx>>,
         used' \in Used, used'.changes = used.changes
  PROVE  IInv'
<1>1. /\ pc' = "rollback" /\ cur' = 1
      /\ plan' = plan /\ mem' = mem /\ lock' = lock
  BY DEF RollBack
<1>2. 1 \in Anchors  BY NAssumption DEF Anchors
<1>3. Types'  BY <1>1, <1>2 DEF IInv, Types, TypeOK, Pcs, RollbackPcs
<1>4. mem = journal /\ mem.archived = {} /\ mem.phase # "none"
  BY DEF IInv, Executing, Phases
<1>5. \A a \in Anchors : a \in mem.committed => Made(a)
  BY <1>4 DEF IInv, Consistent, Matches
<1> QED  BY <1>1, <1>3, <1>4, <1>5, FailKeeps

-----------------------------------------------------------------------------
(* Other programs, commands and failures.                                  *)

\* Nothing the process works with changes.
LEMMA FrameKeeps ==
  ASSUME IInv, Types', Locks', UNCHANGED <<journal, stage, target, archive, tx, process>>
  PROVE  IInv'
<1>1. Uniform' /\ Whole' /\ Consistent' /\ Fresh'  BY TreesKeep DEF Trees
<1>2. pc' = pc /\ cur' = cur /\ plan' = plan /\ mem' = mem  BY DEF process
<1>3. Phases' /\ Executing'  BY <1>2 DEF IInv, Phases, Executing, Clean, Made
<1>4. Staging'  BY <1>2 DEF IInv, Staging, Clean, Made
<1>5. Committing'  BY <1>2 DEF IInv, Committing, Made, Placed
<1>6. Resolving'  BY <1>2 DEF IInv, Resolving, Clean, Complete, Made, Matches, Moved
<1> QED  BY <1>1, <1>3, <1>4, <1>5, <1>6 DEF IInv

LEMMA CommandKeeps ==
  ASSUME IInv, StartCommand \/ EndCommand
  PROVE  IInv'
<1>1. Types'
  BY DEF StartCommand, EndCommand, disk, process, IInv, Types, TypeOK
<1>2. Locks'
  BY DEF StartCommand, EndCommand, disk, process, LockAvailable, NoJournalFile, IInv, Locks
<1> QED  BY <1>1, <1>2, FrameKeeps DEF StartCommand, EndCommand, disk

LEMMA ChangeLegacyKeeps ==
  ASSUME IInv, ChangeLegacy
  PROVE  IInv'
<1>1. PICK part \in {"meta", "vendor"} : legacy' = [legacy EXCEPT ![part] = @ + 1]
  BY DEF ChangeLegacy
<1>2. used' = [used EXCEPT !.changes = @ + 1] /\ used.changes < MaxChanges
  BY DEF ChangeLegacy
<1>3. /\ legacy.meta \in Nat /\ legacy.vendor \in Nat /\ legacy.meta >= 1 /\ legacy.vendor >= 1
      /\ legacy.meta + legacy.vendor <= used.changes + 2
      /\ legacy = [meta |-> legacy.meta, vendor |-> legacy.vendor]
      /\ used \in Used /\ used.changes \in Nat
  BY BoundAssumption DEF IInv, Types, TypeOK, Used
<1>4. used' \in Used /\ used'.changes = used.changes + 1
  BY <1>2, <1>3, BoundAssumption DEF Used
<1>5. \/ legacy' = [meta |-> legacy.meta + 1, vendor |-> legacy.vendor]
      \/ legacy' = [meta |-> legacy.meta, vendor |-> legacy.vendor + 1]
  BY <1>1, <1>3
<1>6. /\ legacy' \in [meta : 1..MaxChanges + 1, vendor : 1..MaxChanges + 1]
      /\ legacy'.meta + legacy'.vendor <= used'.changes + 2
  BY <1>2, <1>3, <1>4, <1>5, BoundAssumption
<1>7. Types'  BY <1>4, <1>6 DEF ChangeLegacy, process, IInv, Types, TypeOK
<1>8. Locks'  BY DEF ChangeLegacy, process, IInv, Locks
<1> QED  BY <1>7, <1>8, FrameKeeps DEF ChangeLegacy

\* One more of a bound other than the changes.
LEMMA UsedStep ==
  ASSUME Types,
         \/ used.foreign < MaxForeign /\ used' = [used EXCEPT !.foreign = @ + 1]
         \/ used.faults < MaxFaults /\ used' = [used EXCEPT !.faults = @ + 1]
         \/ used.crashes < MaxCrashes /\ used' = [used EXCEPT !.crashes = @ + 1]
  PROVE  used' \in Used /\ used'.changes = used.changes
<1> DEFINE f == used.foreign + 1
           g == used.faults + 1
           h == used.crashes + 1
<1>1. used \in Used  BY DEF Types, TypeOK
<1>2. /\ used.foreign \in 0..MaxForeign /\ used.faults \in 0..MaxFaults
      /\ used.crashes \in 0..MaxCrashes
  BY <1>1 DEF Used
<1>3. /\ used.foreign < MaxForeign => f \in 0..MaxForeign
      /\ used.faults < MaxFaults => g \in 0..MaxFaults
      /\ used.crashes < MaxCrashes => h \in 0..MaxCrashes
  BY <1>2, BoundAssumption
<1>4. \/ used.foreign < MaxForeign /\ used' = [used EXCEPT !.foreign = f]
      \/ used.faults < MaxFaults /\ used' = [used EXCEPT !.faults = g]
      \/ used.crashes < MaxCrashes /\ used' = [used EXCEPT !.crashes = h]
  OBVIOUS
<1> HIDE DEF f, g, h
<1> QED  BY <1>1, <1>3, <1>4 DEF Used

\* Another program makes a directory, or fills the one it made.
LEMMA ForeignKeeps ==
  ASSUME IInv, NEW a \in Anchors, NEW tree \in {Empty, Foreign},
         target[a].kind \in {"absent", "empty"}, target' = [target EXCEPT ![a] = tree],
         UNCHANGED <<legacy, journal, stage, archive, process, lock, tx>>,
         used' \in Used, used'.changes = used.changes
  PROVE  IInv'
<1>1. /\ UNCHANGED <<legacy, journal, stage, archive, lock, tx>>
      /\ pc' = pc /\ cur' = cur /\ plan' = plan /\ mem' = mem
      /\ target' = [target EXCEPT ![a] = tree] /\ target[a].kind # "made"
  BY DEF process
<1>2. tree \in Tree /\ tree.kind # "made"
  BY BoundAssumption DEF Empty, Foreign, Tree, NoData, Version
<1>3. /\ \A b \in Anchors : Made(b)' <=> Made(b)
      /\ \A b \in Anchors : Made(b) => target'[b] = target[b]
  BY <1>1, <1>2 DEF Made, IInv, Types, TypeOK
<1>4. used' \in Used /\ used'.changes = used.changes  OBVIOUS
<1>5. Types'
  BY <1>1, <1>2, <1>4 DEF IInv, Types, TypeOK
<1>6. Uniform'  BY <1>3 DEF IInv, Uniform
<1>7. Clean' = Clean  BY <1>3 DEF Clean
<1>8. Complete => Complete'
  <2> SUFFICES ASSUME Complete PROVE FALSE  OBVIOUS
  <2>1. target[a].kind = "made"  BY DEF Complete
  <2> QED  BY <1>1, <2>1
<1>9. Whole'  BY <1>1, <1>7, <1>8 DEF IInv, Whole
<1>10. \A j : Matches(j)' <=> Matches(j)
  BY <1>1, <1>3 DEF Matches, Moved
<1>11. Consistent'  BY <1>1, <1>10 DEF IInv, Consistent, Matches, Made, Moved
<1>12. Fresh' /\ Locks'  BY <1>1 DEF IInv, Fresh, Locks
<1>13. Phases' /\ Executing'  BY <1>1, <1>7 DEF IInv, Phases, Executing
<1>14. Staging'  BY <1>1, <1>7 DEF IInv, Staging
<1>15. Committing'
  <2>1. \A b \in Anchors : \A m, d : target[b] = Copy(m, d) => target'[b] = Copy(m, d)
    BY <1>3 DEF Copy, Made
  <2> QED  BY <1>1, <1>3, <2>1 DEF IInv, Committing, Placed
<1>16. Resolving'
  BY <1>1, <1>3, <1>7, <1>8, NAssumption
     DEF IInv, Types, TypeOK, Resolving, Matches, Made, Moved
<1> QED  BY <1>5, <1>6, <1>9, <1>11, <1>12, <1>13, <1>14, <1>15, <1>16 DEF IInv

LEMMA MakeForeignKeeps ==
  ASSUME IInv, NEW a \in Anchors, MakeForeign(a)
  PROVE  IInv'
<1>1. used' \in Used /\ used'.changes = used.changes
  BY UsedStep DEF MakeForeign, IInv
<1> QED  BY <1>1, ForeignKeeps DEF MakeForeign

LEMMA FillForeignKeeps ==
  ASSUME IInv, NEW a \in Anchors, FillForeign(a)
  PROVE  IInv'
<1>1. used' \in Used /\ used'.changes = used.changes
  BY DEF FillForeign, IInv, Types, TypeOK
<1> QED  BY <1>1, ForeignKeeps DEF FillForeign

LEMMA FileErrorKeeps ==
  ASSUME IInv, FileError
  PROVE  IInv'
<1>1. /\ used' \in Used /\ used'.changes = used.changes
      /\ UNCHANGED <<legacy, stage, target, archive, tx>>
  BY UsedStep DEF FileError, IInv
<1>2. CASE pc \in PreparePcs /\ Stop /\ journal' = NoJournal
  <2>1. Clean  BY <1>2 DEF PreparePcs, IInv, Phases
  <2> QED  BY <1>1, <1>2, <2>1, StopKeeps
<1>3. CASE pc \in TransactionPcs /\ RollBack /\ UNCHANGED journal
  BY <1>1, <1>3, RollBackKeeps
<1>4. CASE pc \in RollbackPcs \cup FinalizePcs /\ Stop /\ UNCHANGED journal
  BY <1>1, <1>4, StopKeeps
<1> QED  BY <1>2, <1>3, <1>4 DEF FileError

LEMMA WriteErrorKeeps ==
  ASSUME IInv, WriteError
  PROVE  IInv'
<1>1. /\ used' \in Used /\ used'.changes = used.changes
      /\ UNCHANGED <<legacy, journal, stage, target, archive, plan, lock, tx>>
      /\ pc' = "rollback" /\ cur' = 1 /\ mem' = NextMem
      /\ pc \in {"stage", "record", "verify"}
  BY UsedStep DEF WriteError, IInv, disk
<1>2. mem = journal /\ mem.archived = {} /\ pc \in TransactionPcs
  BY <1>1 DEF IInv, Executing, TransactionPcs
<1>3. /\ mem \in Journal /\ cur \in Anchors /\ 1 \in Anchors
      /\ \A a \in Anchors : a \in mem.committed => Made(a)
  <2>1. journal.phase # "none"  BY <1>1 DEF IInv, Phases
  <2> QED  BY <1>2, <2>1, NAssumption DEF IInv, Types, TypeOK, Consistent, Matches, Anchors
<1>4. /\ NextMem \in Journal /\ NextMem.phase # "none" /\ NextMem.archived = mem.archived
      /\ \A a \in Anchors : a \in NextMem.committed => Made(a)
  <2>1. CASE pc = "stage"
    <3>1. NextMem = [mem EXCEPT !.phase = "staged"]  BY <2>1 DEF NextMem
    <3> QED  BY <1>3, <3>1 DEF Journal, Phase
  <2>2. CASE pc = "record"
    <3>1. NextMem = [mem EXCEPT !.phase = "committing", !.committed = @ \cup {cur}]
      BY <2>2 DEF NextMem, Recorded
    <3>2. Made(cur)
      BY <1>3, <2>2 DEF IInv, Committing, Placed, Copy, Made
    <3> QED  BY <1>3, <3>1, <3>2 DEF Journal, Phase
  <2>3. CASE pc = "verify"
    <3>1. NextMem = [mem EXCEPT !.phase = "verified"]  BY <2>3 DEF NextMem
    <3> QED  BY <1>3, <3>1 DEF Journal, Phase
  <2> QED  BY <1>1, <2>1, <2>2, <2>3
<1>5. Types'
  BY <1>1, <1>3, <1>4 DEF IInv, Types, TypeOK, Pcs, RollbackPcs
<1> QED  BY <1>1, <1>2, <1>4, <1>5, FailKeeps

LEMMA CrashKeeps ==
  ASSUME IInv, Crash
  PROVE  IInv'
<1>1. used' \in Used /\ used'.changes = used.changes
  BY UsedStep DEF Crash, IInv
<1>2. /\ NoJournal \in Journal /\ NoData \in Version /\ 1 \in Anchors
  BY BoundAssumption, NAssumption DEF NoJournal, Journal, Phase, NoData, Version, Anchors
<1>3. Types'  BY <1>1, <1>2 DEF Crash, disk, IInv, Types, TypeOK, Pcs
<1>4. lock' # "exclusive" /\ (lock' = "shared" => lock = "shared")  BY DEF Crash
<1> QED  BY <1>3, <1>4, RestKeeps DEF Crash, disk, IInv, Locks

-----------------------------------------------------------------------------
(* The transaction.                                                        *)

LEMMA InspectKeeps ==
  ASSUME IInv, Inspect
  PROVE  IInv'
<1>1. /\ UNCHANGED <<legacy, journal, stage, target, archive, cur, mem, lock, tx, used>>
      /\ pc = "idle" /\ tx < MaxTx /\ pc' = "planned" /\ plan' = legacy
  BY DEF Inspect, disk
<1>2. legacy \in Version /\ legacy # NoData
  BY DEF IInv, Types, TypeOK, Version, NoData
<1>3. Types'  BY <1>1, <1>2 DEF IInv, Types, TypeOK, Pcs
<1> QED  BY <1>1, <1>2, <1>3, RestKeeps DEF IInv, Locks, Phases

LEMMA LegacyBusyKeeps ==
  ASSUME IInv, LegacyBusy
  PROVE  IInv'
<1>1. /\ UNCHANGED <<legacy, journal, stage, target, archive, cur, mem, lock, tx, used>>
      /\ pc = "planned" /\ pc' = "idle" /\ plan' = NoData
  BY DEF LegacyBusy, disk
<1>2. NoData \in Version  BY BoundAssumption DEF Version, NoData
<1>3. Types'  BY <1>1, <1>2 DEF IInv, Types, TypeOK, Pcs
<1> QED  BY <1>1, <1>3, RestKeeps DEF IInv, Locks, Phases

LEMMA BeginKeeps ==
  ASSUME IInv, Begin
  PROVE  IInv'
<1>1. /\ UNCHANGED <<legacy, journal, stage, target, archive, cur, mem, tx, used>>
      /\ pc = "planned"
  BY DEF Begin, disk
<1>2. NoData \in Version  BY BoundAssumption DEF Version, NoData
<1>3. CASE pc' = "idle" /\ plan' = NoData /\ lock' = lock
  <2>1. Types'  BY <1>1, <1>2, <1>3 DEF IInv, Types, TypeOK, Pcs
  <2> QED  BY <1>1, <1>3, <2>1, RestKeeps DEF IInv, Locks, Phases
<1>4. CASE /\ NoJournalFile /\ TargetAbsent /\ lock' = "exclusive" /\ pc' = "prepare"
           /\ plan' = plan
  <2>1. Clean  BY <1>4 DEF TargetAbsent, Clean, Made
  <2>2. Types'  BY <1>1, <1>4 DEF IInv, Types, TypeOK, Pcs, PreparePcs
  <2>3. Uniform' /\ Whole' /\ Consistent' /\ Fresh'  BY <1>1, TreesKeep DEF Trees
  <2>4. Phases'
    BY <1>1, <1>4, <2>1
       DEF IInv, Phases, NoJournalFile, Clean, Made, TransactionPcs, RollbackPcs,
           FinalizePcs, PreparePcs
  <2> QED  BY <1>4, <2>2, <2>3, <2>4
       DEF IInv, Locks, Executing, Staging, Committing, Resolving, TransactionPcs,
           RollbackPcs, FinalizePcs
<1> QED  BY <1>1, <1>3, <1>4 DEF Begin

LEMMA PrepareKeeps ==
  ASSUME IInv, Prepare
  PROVE  IInv'
<1>1. UNCHANGED <<legacy, stage, target, archive, used>> /\ pc = "prepare" /\ Clean
  BY DEF Prepare, IInv, Phases
<1>2. CASE Stop /\ UNCHANGED <<journal, tx>>
  <2>1. used' \in Used /\ used'.changes = used.changes
    BY <1>1 DEF IInv, Types, TypeOK
  <2> QED  BY <1>1, <1>2, <2>1, StopKeeps
<1>3. CASE /\ tx' = tx + 1 /\ journal' = [NoJournal EXCEPT !.phase = "torn"]
           /\ pc' = "journal" /\ UNCHANGED <<cur, plan, mem, lock>>
  <2>1. /\ journal' \in Journal /\ journal'.phase = "torn"
        /\ journal'.committed = {} /\ journal'.archived = {}
    BY <1>3 DEF Journal, NoJournal, Phase
  <2>2. tx' \in 1..MaxTx
    BY <1>1, <1>3, BoundAssumption DEF IInv, Types, TypeOK, Phases
  <2>3. Types'
    BY <1>1, <1>3, <2>1, <2>2 DEF IInv, Types, TypeOK, Pcs, PreparePcs
  <2>4. \A a \in Anchors : ~Moved(a)'
    BY <1>1, <1>3, <2>2, BoundAssumption DEF IInv, Types, TypeOK, Fresh, Moved
  <2>5. Consistent'  BY <2>1, <2>4 DEF Consistent, Matches
  <2>6. Uniform' /\ Clean'  BY <1>1 DEF IInv, Uniform, Clean, Made
  <2>7. Fresh'
    BY <1>1, <1>3, BoundAssumption DEF IInv, Types, TypeOK, Fresh
  <2>8. Phases'
    BY <1>1, <1>3, <2>1, <2>2, <2>6
       DEF IInv, Phases, TransactionPcs, RollbackPcs, FinalizePcs, PreparePcs
  <2> QED  BY <1>1, <1>3, <2>1, <2>3, <2>5, <2>6, <2>7, <2>8
       DEF IInv, Locks, Whole, Executing, Staging, Committing, Resolving, TransactionPcs,
           RollbackPcs, FinalizePcs
<1> QED  BY <1>2, <1>3 DEF Prepare

\* A step of the transaction: nothing has been archived, and what the journal
\* records as committed is in place.
LEMMA TransactionStep ==
  ASSUME IInv, Types', pc \in TransactionPcs \cup {"journal"}, pc' \in TransactionPcs,
         UNCHANGED <<archive, lock, tx, plan>>,
         mem' = journal', journal'.phase # "none", journal'.archived = {},
         \A a \in Anchors : a \in journal'.committed => Made(a)',
         Uniform', Staging', Committing'
  PROVE  IInv'
<1>1. journal.phase # "none" /\ journal.archived = {}
  BY DEF IInv, Phases, Executing, TransactionPcs
<1>2. \A a \in Anchors : ~Moved(a)  BY <1>1 DEF IInv, Consistent, Matches
<1>3. Consistent'  BY <1>2 DEF Consistent, Matches, Moved
<1>4. Fresh' /\ Whole'  BY DEF IInv, Fresh, Whole
<1>5. Locks'  BY <1>1 DEF IInv, Locks, TransactionPcs
<1>6. Phases'
  BY <1>1 DEF IInv, Phases, TransactionPcs, RollbackPcs, PreparePcs
<1>7. Executing' /\ Resolving'
  BY DEF Executing, Resolving, TransactionPcs, RollbackPcs, FinalizePcs
<1> QED  BY <1>3, <1>4, <1>5, <1>6, <1>7 DEF IInv

\* ... that leaves the target alone.
LEMMA StagingStep ==
  ASSUME IInv, Types', pc \in TransactionPcs, pc' \in TransactionPcs,
         UNCHANGED <<journal, mem, target, archive, lock, tx, plan>>,
         Staging', Committing'
  PROVE  IInv'
<1>1. /\ mem' = journal' /\ journal'.archived = {} /\ journal'.phase # "none"
      /\ \A a \in Anchors : a \in journal'.committed => Made(a)'
  BY DEF IInv, Executing, Phases, Consistent, Matches, Made
<1>2. Uniform'  BY DEF IInv, Uniform, Made
<1> QED  BY <1>1, <1>2, TransactionStep

LEMMA FillJournalKeeps ==
  ASSUME IInv, FillJournal
  PROVE  IInv'
<1> DEFINE j == [NoJournal EXCEPT !.phase = "staging"]
<1>1. /\ UNCHANGED <<legacy, stage, target, archive, cur, plan, lock, tx, used>>
      /\ mem' = j /\ journal' = j /\ pc = "journal" /\ pc' = "mkdir"
  BY DEF FillJournal, Write
<1>2. j \in Journal /\ j.phase = "staging" /\ j.committed = {} /\ j.archived = {}
  BY DEF Journal, NoJournal, Phase
<1> HIDE DEF j
<1>3. Types'  BY <1>1, <1>2 DEF IInv, Types, TypeOK, Pcs, TransactionPcs
<1>4. Clean'  BY <1>1 DEF IInv, Phases, Clean, Made
<1>5. Uniform'  BY <1>1 DEF IInv, Uniform, Made
<1>6. cur = 1  BY <1>1 DEF IInv, Phases, PreparePcs
<1>7. Staging'  BY <1>1, <1>2, <1>4, <1>6 DEF Staging, Anchors
<1>8. Committing'  BY <1>1 DEF Committing
<1>9. pc' \in TransactionPcs  BY <1>1 DEF TransactionPcs
<1> QED  BY <1>1, <1>2, <1>3, <1>5, <1>7, <1>8, <1>9, TransactionStep

\* The loops run over all anchors.
LEMMA LoopNext ==
  ASSUME cur \in Anchors, NEW here, NEW after, Loop(here, after)
  PROVE  \/ pc' = here /\ cur' = cur + 1 /\ cur' \in Anchors
         \/ pc' = after /\ cur' = 1 /\ cur' \in Anchors /\ cur = N
BY NAssumption DEF Anchors, Loop

LEMMA MakeStageKeeps ==
  ASSUME IInv, MakeStage
  PROVE  IInv'
<1>1. /\ UNCHANGED <<legacy, journal, target, archive, cur, plan, mem, lock, tx, used>>
      /\ pc = "mkdir" /\ pc' = "mark"
      /\ stage' = [stage EXCEPT ![cur] = [Absent EXCEPT !.kind = "made"]]
  BY DEF MakeStage
<1>2. [Absent EXCEPT !.kind = "made"] = Copy(0, NoData)  BY DEF Absent, Copy
<1>3. Copy(0, NoData) \in Tree
  BY BoundAssumption DEF Copy, Tree, NoData, Version
<1>4. stage' = [stage EXCEPT ![cur] = Copy(0, NoData)]  BY <1>1, <1>2
<1>5. Types'
  BY <1>1, <1>3, <1>4 DEF IInv, Types, TypeOK, Pcs, TransactionPcs
<1>6. Staging'
  BY <1>1, <1>4 DEF IInv, Types, TypeOK, Staging, Anchors, Clean, Made
<1>7. Committing'  BY <1>1 DEF Committing
<1> QED  BY <1>1, <1>5, <1>6, <1>7, StagingStep DEF TransactionPcs

LEMMA MarkStageKeeps ==
  ASSUME IInv, MarkStage
  PROVE  IInv'
<1>1. /\ UNCHANGED <<legacy, journal, target, archive, plan, mem, lock, tx, used>>
      /\ pc = "mark" /\ cur \in Anchors
      /\ stage' = [stage EXCEPT ![cur].marker = tx]
      /\ \/ pc' = "mkdir" /\ cur' = cur + 1 /\ cur' \in Anchors
         \/ pc' = "copy" /\ cur' = 1 /\ cur' \in Anchors /\ cur = N
  BY LoopNext DEF MarkStage, IInv, Types, TypeOK
<1>2. /\ Copy(tx, NoData) \in Tree
      /\ stage' = [stage EXCEPT ![cur] = Copy(tx, NoData)]
  <2>1. stage[cur] = Copy(0, NoData)  BY <1>1 DEF IInv, Staging
  <2>2. [stage[cur] EXCEPT !.marker = tx] = Copy(tx, NoData)  BY <2>1 DEF Copy
  <2>3. Copy(tx, NoData) \in Tree
    BY BoundAssumption DEF IInv, Types, TypeOK, Copy, Tree, NoData, Version
  <2>4. stage' = [stage EXCEPT ![cur] = [stage[cur] EXCEPT !.marker = tx]]  BY <1>1
  <2> QED  BY <2>2, <2>3, <2>4
<1>3. Types'
  BY <1>1, <1>2 DEF IInv, Types, TypeOK, Pcs, TransactionPcs
<1>4. \A a \in Anchors : a <= cur => stage'[a] = Copy(tx, NoData)
  BY <1>1, <1>2 DEF IInv, Types, TypeOK, Staging, Anchors
<1>5. Staging'
  BY <1>1, <1>4, NAssumption DEF IInv, Staging, Anchors, Clean, Made
<1>6. Committing'  BY <1>1 DEF Committing
<1> QED  BY <1>1, <1>3, <1>5, <1>6, StagingStep DEF TransactionPcs

LEMMA CopyStageKeeps ==
  ASSUME IInv, NEW a \in Anchors, CopyStage(a)
  PROVE  IInv'
<1>1. /\ UNCHANGED <<legacy, journal, target, archive, tx, used>>
      /\ pc = "copy" /\ stage[a].data = NoData
  BY DEF CopyStage
<1>2. CASE RollBack /\ UNCHANGED stage
  <2>1. used' \in Used /\ used'.changes = used.changes
    BY <1>1 DEF IInv, Types, TypeOK
  <2> QED  BY <1>1, <1>2, <2>1, RollBackKeeps DEF TransactionPcs
<1>3. CASE /\ stage' = [stage EXCEPT ![a].data = plan]
           /\ pc' = (IF \A b \in Anchors \ {a} : stage[b].data # NoData
                        THEN "stage" ELSE "copy")
           /\ UNCHANGED <<cur, plan, mem, lock>>
  <2>1. plan # NoData /\ plan \in Version
    BY <1>1 DEF IInv, Types, TypeOK, Phases, TransactionPcs
  <2>2. \A b \in Anchors : /\ stage[b] \in {Copy(tx, NoData), Copy(tx, plan)}
                           /\ stage[b].data # NoData => stage[b] = Copy(tx, plan)
    BY <1>1 DEF IInv, Staging, Copy
  <2>3. /\ Copy(tx, plan) \in Tree
        /\ stage' = [stage EXCEPT ![a] = Copy(tx, plan)]
    <3>1. stage[a] = Copy(tx, NoData)  BY <1>1, <2>1, <2>2 DEF Copy
    <3>2. [stage[a] EXCEPT !.data = plan] = Copy(tx, plan)  BY <3>1 DEF Copy
    <3>3. Copy(tx, plan) \in Tree  BY <2>1 DEF IInv, Types, TypeOK, Copy, Tree
    <3>4. stage' = [stage EXCEPT ![a] = [stage[a] EXCEPT !.data = plan]]  BY <1>3
    <3> QED  BY <3>2, <3>3, <3>4
  <2>4. Types'
    BY <1>1, <1>3, <2>3 DEF IInv, Types, TypeOK, Pcs, TransactionPcs
  <2>5. stage'[a] = Copy(tx, plan) /\ \A b \in Anchors \ {a} : stage'[b] = stage[b]
    BY <2>3 DEF IInv, Types, TypeOK
  <2>6. pc' = "stage" => \A b \in Anchors : stage'[b] = Copy(tx, plan)
    BY <1>3, <2>2, <2>5
  <2>7. Staging'
    BY <1>1, <1>3, <2>2, <2>5, <2>6 DEF IInv, Staging, Clean, Made
  <2>8. Committing' /\ pc' \in TransactionPcs
    BY <1>3 DEF Committing, TransactionPcs
  <2> QED  BY <1>1, <1>3, <2>4, <2>7, <2>8, StagingStep DEF TransactionPcs
<1> QED  BY <1>1, <1>2, <1>3 DEF CopyStage

\* A step that writes the journal in memory and on disk.
LEMMA WriteTypes ==
  ASSUME IInv, NEW next, Write(next), next \in Journal, pc' \in Pcs, cur' \in Anchors,
         UNCHANGED <<legacy, stage, target, archive, plan, lock, tx, used>>
  PROVE  Types'
BY DEF IInv, Types, TypeOK, Write

\* Nothing a running transaction has committed is archived.
LEMMA CommittedMade ==
  ASSUME IInv, pc \in TransactionPcs
  PROVE  /\ mem = journal /\ mem \in Journal /\ mem.archived = {} /\ mem.phase # "none"
         /\ \A a \in Anchors : a \in mem.committed => Made(a)
BY DEF IInv, Types, TypeOK, Executing, Phases, Consistent, Matches

LEMMA StageKeeps ==
  ASSUME IInv, Stage
  PROVE  IInv'
<1>1. /\ UNCHANGED <<legacy, stage, target, archive, tx, used>>
      /\ pc = "stage" /\ pc \in TransactionPcs
  BY DEF Stage, TransactionPcs
<1>2. CASE RollBack /\ UNCHANGED journal
  <2>1. used' \in Used /\ used'.changes = used.changes
    BY <1>1 DEF IInv, Types, TypeOK
  <2> QED  BY <1>1, <1>2, <2>1, RollBackKeeps
<1>3. CASE Write([mem EXCEPT !.phase = "staged"]) /\ pc' = "absent" /\ UNCHANGED <<cur, plan, lock>>
  <2> DEFINE next == [mem EXCEPT !.phase = "staged"]
  <2>1. /\ next \in Journal /\ next.phase = "staged" /\ next.archived = {}
        /\ next.committed = mem.committed
    BY <1>1, CommittedMade DEF Journal, Phase
  <2>2. Write(next)  BY <1>3
  <2> HIDE DEF next
  <2>3. Types'
    BY <1>1, <1>3, <2>1, <2>2, WriteTypes DEF Pcs, TransactionPcs, IInv, Types, TypeOK
  <2>4. \A a \in Anchors : a \in next.committed => Made(a)'
    BY <1>1, <2>1, CommittedMade DEF Made
  <2>5. Uniform'  BY <1>1 DEF IInv, Uniform, Made
  <2>6. Staging'
    BY <1>1, <1>3, <2>1, <2>2 DEF IInv, Staging, Clean, Made, Write
  <2>7. Committing' /\ pc' \in TransactionPcs
    BY <1>3 DEF Committing, TransactionPcs
  <2> QED  BY <1>1, <1>3, <2>1, <2>2, <2>3, <2>4, <2>5, <2>6, <2>7, TransactionStep DEF Write
<1> QED  BY <1>2, <1>3 DEF Stage

LEMMA CheckAbsentKeeps ==
  ASSUME IInv, CheckAbsent
  PROVE  IInv'
<1>1. /\ UNCHANGED <<legacy, journal, stage, target, archive, tx, used>>
      /\ pc = "absent" /\ pc \in TransactionPcs
  BY DEF CheckAbsent, TransactionPcs, disk
<1>2. CASE RollBack
  <2>1. used' \in Used /\ used'.changes = used.changes
    BY <1>1 DEF IInv, Types, TypeOK
  <2> QED  BY <1>1, <1>2, <2>1, RollBackKeeps
<1>3. CASE pc' = "commit" /\ UNCHANGED <<cur, plan, mem, lock>>
  <2>1. Types'  BY <1>1, <1>3 DEF IInv, Types, TypeOK, Pcs, TransactionPcs
  <2>2. Staging'  BY <1>3 DEF Staging
  <2>3. Committing'
    BY <1>1, <1>3 DEF IInv, Staging, Committing, Placed, Clean, Made
  <2> QED  BY <1>1, <1>3, <2>1, <2>2, <2>3, StagingStep DEF TransactionPcs
<1> QED  BY <1>2, <1>3 DEF CheckAbsent

LEMMA CommitRenameKeeps ==
  ASSUME IInv, NEW a \in Anchors, CommitRename(a)
  PROVE  IInv'
<1>1. /\ UNCHANGED <<legacy, journal, archive, tx, used>>
      /\ pc = "commit" /\ pc \in TransactionPcs /\ a \notin mem.committed
  BY DEF CommitRename, NextToCommit, TransactionPcs
<1>2. CASE RollBack /\ UNCHANGED <<stage, target>>
  <2>1. used' \in Used /\ used'.changes = used.changes
    BY <1>1 DEF IInv, Types, TypeOK
  <2> QED  BY <1>1, <1>2, <2>1, RollBackKeeps
<1>3. CASE /\ target' = [target EXCEPT ![a] = stage[a]]
           /\ stage' = [stage EXCEPT ![a] = Absent]
           /\ pc' = "record" /\ cur' = a
           /\ UNCHANGED <<plan, mem, lock>>
  <2>1. Absent \in Tree
    BY BoundAssumption DEF Absent, Tree, NoData, Version
  <2>2. Types'
    BY <1>1, <1>3, <2>1 DEF IInv, Types, TypeOK, Pcs, TransactionPcs
  <2>3. /\ target'[a] = stage[a]
        /\ \A b \in Anchors \ {a} : target'[b] = target[b] /\ stage'[b] = stage[b]
    BY <1>3 DEF IInv, Types, TypeOK
  <2>4. stage[a] = Copy(tx, plan)
    BY <1>1 DEF IInv, Committing, Placed
  <2>5. \A b \in Anchors : Placed(b)' <=> (b \in mem.committed \/ b = a)
    BY <1>3 DEF Placed
  <2>6. Committing'
    BY <1>1, <1>3, <2>3, <2>4, <2>5 DEF IInv, Committing, Placed, Made
  <2>7. Staging' /\ pc' \in TransactionPcs
    BY <1>3 DEF Staging, TransactionPcs
  <2>8. \A b \in Anchors : b \in mem.committed => Made(b)'
    BY <1>1, <2>3, CommittedMade DEF Made
  <2>9. Uniform'
    <3>1. plan \in Version \ {NoData}
      BY <1>1 DEF IInv, Types, TypeOK, Phases
    <3>2. \A b \in Anchors : Made(b)' => target'[b].data = plan
      BY <1>1, <1>3, <2>3, <2>4 DEF IInv, Committing, Placed, Made, Copy
    <3> QED  BY <3>1, <3>2 DEF Uniform
  <2> QED  BY <1>1, <1>3, <2>2, <2>6, <2>7, <2>8, <2>9, CommittedMade, TransactionStep
<1> QED  BY <1>2, <1>3 DEF CommitRename

LEMMA CommitRecordKeeps ==
  ASSUME IInv, CommitRecord
  PROVE  IInv'
<1>1. /\ UNCHANGED <<legacy, stage, target, archive, plan, lock, tx, used>>
      /\ pc = "record" /\ pc \in TransactionPcs /\ Write(Recorded) /\ cur' = 1
      /\ pc' = (IF Recorded.committed = Anchors THEN "verify" ELSE "commit")
  BY DEF CommitRecord, TransactionPcs
<1>2. cur \in Anchors /\ cur' \in Anchors
  BY <1>1, NAssumption DEF IInv, Types, TypeOK, Anchors
<1>3. /\ Recorded \in Journal /\ Recorded.phase = "committing" /\ Recorded.archived = {}
      /\ Recorded.committed = mem.committed \cup {cur}
  BY <1>1, <1>2, CommittedMade DEF Recorded, Journal, Phase
<1>4. Types'
  BY <1>1, <1>2, <1>3, WriteTypes DEF Pcs, TransactionPcs
<1>5. mem' = Recorded /\ journal' = Recorded  BY <1>1 DEF Write
<1>6. \A a \in Anchors : Placed(a)' <=> Placed(a)
  BY <1>1, <1>2, <1>3, <1>5 DEF Placed
<1>7. \A a \in Anchors : Made(a)' <=> Made(a)  BY <1>1 DEF Made
<1>8. Committing'
  <2>1. pc' \in {"commit", "verify"}  BY <1>1
  <2>2. pc' = "verify" => \A a \in Anchors : target'[a] = Copy(tx, plan)
    BY <1>1, <1>3, <1>6 DEF IInv, Committing, Placed
  <2> QED  BY <1>1, <1>6, <1>7, <2>1, <2>2 DEF IInv, Committing
<1>9. \A a \in Anchors : a \in journal'.committed => Made(a)'
  <2>1. Made(cur)  BY <1>1, <1>2 DEF IInv, Committing, Placed, Made, Copy
  <2> QED  BY <1>1, <1>3, <1>5, <1>7, <2>1, CommittedMade
<1>10. Staging' /\ pc' \in TransactionPcs
  BY <1>1 DEF Staging, TransactionPcs
<1>11. Uniform'  BY <1>1 DEF IInv, Uniform, Made
<1> QED  BY <1>1, <1>3, <1>4, <1>5, <1>8, <1>9, <1>10, <1>11, TransactionStep

LEMMA VerifyKeeps ==
  ASSUME IInv, Verify
  PROVE  IInv'
<1>1. /\ UNCHANGED <<legacy, stage, target, archive, tx, used>>
      /\ pc = "verify" /\ pc \in TransactionPcs
  BY DEF Verify, TransactionPcs
<1>2. CASE RollBack /\ UNCHANGED journal
  <2>1. used' \in Used /\ used'.changes = used.changes
    BY <1>1 DEF IInv, Types, TypeOK
  <2> QED  BY <1>1, <1>2, <2>1, RollBackKeeps
<1>3. CASE Write([mem EXCEPT !.phase = "verified"]) /\ pc' = "unmark" /\ UNCHANGED <<cur, plan, lock>>
  <2> DEFINE next == [mem EXCEPT !.phase = "verified"]
  <2>1. /\ next \in Journal /\ next.phase = "verified" /\ next.archived = {}
        /\ next.committed = mem.committed
    BY <1>1, CommittedMade DEF Journal, Phase
  <2>2. Write(next)  BY <1>3
  <2> HIDE DEF next
  <2>3. Types'
    BY <1>1, <1>3, <2>1, <2>2, WriteTypes DEF Pcs, TransactionPcs, IInv, Types, TypeOK
  <2>4. \A a \in Anchors : a \in next.committed => Made(a)'
    BY <1>1, <2>1, CommittedMade DEF Made
  <2>5. Uniform'  BY <1>1 DEF IInv, Uniform, Made
  <2>6. cur = 1  BY <1>1 DEF IInv, Committing
  <2>7. Committing'
    BY <1>1, <1>3, <2>6 DEF IInv, Committing, Anchors
  <2>8. Staging' /\ pc' \in TransactionPcs
    BY <1>3 DEF Staging, TransactionPcs
  <2> QED  BY <1>1, <1>3, <2>1, <2>2, <2>3, <2>4, <2>5, <2>7, <2>8, TransactionStep DEF Write
<1> QED  BY <1>2, <1>3 DEF Verify

LEMMA UnmarkKeeps ==
  ASSUME IInv, Unmark
  PROVE  IInv'
<1>1. /\ UNCHANGED <<legacy, journal, stage, archive, plan, mem, lock, tx, used>>
      /\ pc = "unmark" /\ pc \in TransactionPcs /\ cur \in Anchors
      /\ target' = [target EXCEPT ![cur].marker = 0]
      /\ \/ pc' = "unmark" /\ cur' = cur + 1 /\ cur' \in Anchors
         \/ pc' = "clear" /\ cur' = 1 /\ cur' \in Anchors /\ cur = N
  BY LoopNext DEF Unmark, TransactionPcs, IInv, Types, TypeOK
<1>2. plan \in Version \ {NoData}
  BY <1>1 DEF IInv, Types, TypeOK, Phases
<1>3. Copy(0, plan) \in Tree /\ target' = [target EXCEPT ![cur] = Copy(0, plan)]
  <2>1. target[cur] = Copy(tx, plan)
    BY <1>1 DEF IInv, Committing, Anchors
  <2>2. [target[cur] EXCEPT !.marker = 0] = Copy(0, plan)  BY <2>1 DEF Copy
  <2>3. Copy(0, plan) \in Tree  BY <1>2, BoundAssumption DEF Copy, Tree
  <2>4. target' = [target EXCEPT ![cur] = [target[cur] EXCEPT !.marker = 0]]  BY <1>1
  <2> QED  BY <2>2, <2>3, <2>4
<1>4. Types'
  BY <1>1, <1>3 DEF IInv, Types, TypeOK, Pcs, TransactionPcs
<1>5. \A a \in Anchors : target'[a] = Copy(IF a <= cur THEN 0 ELSE tx, plan)
  BY <1>1, <1>3 DEF IInv, Types, TypeOK, Committing, Anchors
<1>6. Committing'
  BY <1>1, <1>5, NAssumption DEF Committing, Anchors
<1>7. \A a \in Anchors : Made(a)' /\ target'[a].data = plan
  <2>1. \A m, d : Copy(m, d).kind = "made" /\ Copy(m, d).data = d  BY DEF Copy
  <2> QED  BY <1>5, <2>1 DEF Made
<1>8. Uniform'  BY <1>2, <1>7 DEF Uniform
<1>9. Staging' /\ pc' \in TransactionPcs
  BY <1>1 DEF Staging, TransactionPcs
<1> QED  BY <1>1, <1>4, <1>6, <1>7, <1>8, <1>9, CommittedMade, TransactionStep

LEMMA RemoveJournalKeeps ==
  ASSUME IInv, RemoveJournal
  PROVE  IInv'
<1>1. /\ UNCHANGED <<legacy, stage, target, archive, tx, used>>
      /\ pc = "clear" /\ journal' = NoJournal /\ Stop
  BY DEF RemoveJournal
<1>2. plan \in Version \ {NoData}
  BY <1>1 DEF IInv, Types, TypeOK, Phases, TransactionPcs
<1>3. Complete  BY <1>1, <1>2 DEF IInv, Committing, Copy, Complete
<1>4. used' \in Used /\ used'.changes = used.changes
  BY <1>1 DEF IInv, Types, TypeOK
<1> QED  BY <1>1, <1>3, <1>4, StopKeeps

-----------------------------------------------------------------------------
(* Rollback and recovery.                                                  *)

\* What a step of a rollback or a finalization has to show.
LEMMA ResolveStep ==
  ASSUME IInv, Types',
         pc \in RollbackPcs \cup FinalizePcs, pc' \in RollbackPcs \cup FinalizePcs,
         UNCHANGED <<lock, tx>>, journal'.phase # "none", mem'.phase # "none",
         pc' = "reverify" => cur' = 1,
         Uniform', Consistent', Fresh', Resolving'
  PROVE  IInv'
<1>1. Locks'  BY DEF IInv, Locks, Phases, RollbackPcs, FinalizePcs
<1>2. Whole'  BY DEF Whole
<1>3. Phases'
  BY DEF IInv, Phases, RollbackPcs, FinalizePcs, TransactionPcs, PreparePcs
<1>4. Executing' /\ Staging' /\ Committing'
  BY DEF Executing, Staging, Committing, RollbackPcs, FinalizePcs, TransactionPcs
<1> QED  BY <1>1, <1>2, <1>3, <1>4 DEF IInv

\* A step that refuses to go on.
LEMMA RefuseKeeps ==
  ASSUME IInv, Stop, UNCHANGED <<legacy, journal, stage, target, archive, tx, used>>
  PROVE  IInv'
<1>1. used' \in Used /\ used'.changes = used.changes  BY DEF IInv, Types, TypeOK
<1> QED  BY <1>1, StopKeeps

\* One that only goes on to the next place.
LEMMA GoKeeps ==
  ASSUME IInv, Types',
         pc \in RollbackPcs \cup FinalizePcs, pc' \in (RollbackPcs \cup FinalizePcs) \ {"reverify"},
         UNCHANGED <<journal, target, archive, lock, mem, tx>>,
         mem.phase # "none",
         Resolving'
  PROVE  IInv'
<1>1. journal.phase # "none"
  BY DEF IInv, Phases, RollbackPcs, FinalizePcs
<1> QED  BY <1>1, TreesKeep, ResolveStep DEF Trees

LEMMA RollbackAnchorKeeps ==
  ASSUME IInv, RollbackAnchor
  PROVE  IInv'
<1>1. /\ UNCHANGED <<legacy, stage, target, archive, tx, used>>
      /\ pc = "rollback" /\ cur \in Anchors /\ mem \in Journal
      /\ mem.archived = journal.archived /\ Matches(mem)
      /\ mem.phase # "none" /\ journal.phase # "none"
      /\ \A a \in Anchors : a < cur => ~Made(a)
  BY DEF RollbackAnchor, IInv, Types, TypeOK, Phases, Resolving, RollbackPcs
<1>2. target[cur] \in Tree  BY <1>1 DEF IInv, Types, TypeOK
<1>3. CASE Stop /\ UNCHANGED journal  BY <1>1, <1>3, RefuseKeeps
<1>4. CASE /\ cur \notin mem.archived /\ Owned(target[cur])
           /\ Write([mem EXCEPT !.archived = @ \cup {cur}])
           /\ pc' = "archive" /\ UNCHANGED <<cur, plan, lock>>
  <2> DEFINE next == [mem EXCEPT !.archived = @ \cup {cur}]
  <2>1. /\ next \in Journal /\ next.archived = mem.archived \cup {cur}
        /\ next.committed = mem.committed /\ next.phase = mem.phase
    BY <1>1 DEF Journal
  <2>2. mem' = next /\ journal' = next /\ Write(next)  BY <1>4 DEF Write
  <2> HIDE DEF next
  <2>3. Types'
    BY <1>1, <1>4, <2>1, <2>2, WriteTypes DEF Pcs, RollbackPcs
  <2>4. Made(cur) /\ ~Moved(cur)
    BY <1>1, <1>4 DEF Owned, Made, Matches
  <2>5. Matches(next)
    BY <1>1, <2>1, <2>4 DEF Matches
  <2>6. Matches(mem)' /\ Matches(journal)'
    BY <1>1, <2>2, <2>5 DEF Matches, Made, Moved
  <2>7. Consistent'  BY <2>6 DEF Consistent
  <2>8. Uniform' /\ Fresh'  BY <1>1 DEF IInv, Uniform, Made, Fresh
  <2>9. Resolving'
    BY <1>1, <1>4, <2>1, <2>2, <2>6 DEF Resolving, Made
  <2> QED  BY <1>1, <1>4, <2>1, <2>2, <2>3, <2>7, <2>8, <2>9, ResolveStep DEF RollbackPcs
<1>5. CASE /\ UNCHANGED <<journal, cur, plan, mem, lock>>
           /\ pc' = (IF cur \in mem.archived THEN "archive" ELSE "unstage")
           /\ cur \notin mem.archived => ~Made(cur)
  <2>1. Types'
    BY <1>1, <1>5 DEF IInv, Types, TypeOK, Pcs, RollbackPcs
  <2>2. Resolving'
    BY <1>1, <1>5 DEF Resolving, Matches, Made, Moved
  <2> QED  BY <1>1, <1>5, <2>1, <2>2, GoKeeps DEF RollbackPcs
<1>6. \/ Stop /\ UNCHANGED journal
      \/ /\ cur \notin mem.archived /\ Owned(target[cur])
         /\ Write([mem EXCEPT !.archived = @ \cup {cur}])
         /\ pc' = "archive" /\ UNCHANGED <<cur, plan, lock>>
      \/ /\ UNCHANGED <<journal, cur, plan, mem, lock>>
         /\ pc' = (IF cur \in mem.archived THEN "archive" ELSE "unstage")
         /\ cur \notin mem.archived => ~Made(cur)
  BY Zenon DEF RollbackAnchor, Made
<1> QED  BY <1>3, <1>4, <1>5, <1>6

LEMMA ArchiveTargetKeeps ==
  ASSUME IInv, ArchiveTarget
  PROVE  IInv'
<1>1. /\ UNCHANGED <<legacy, journal, stage, tx, used>>
      /\ pc = "archive" /\ cur \in Anchors /\ tx \in 1..MaxTx
      /\ mem.archived = journal.archived /\ Matches(mem) /\ cur \in mem.archived
      /\ mem.phase # "none" /\ journal.phase # "none"
      /\ \A a \in Anchors : a < cur => ~Made(a)
  BY BoundAssumption DEF ArchiveTarget, IInv, Types, TypeOK, Phases, Resolving, RollbackPcs
<1>2. CASE Stop /\ UNCHANGED <<target, archive>>  BY <1>1, <1>2, RefuseKeeps
<1>3. CASE /\ target[cur].kind = "absent"
           /\ pc' = "unstage" /\ UNCHANGED <<target, archive, cur, plan, mem, lock>>
  <2>1. Types'
    BY <1>1, <1>3 DEF IInv, Types, TypeOK, Pcs, RollbackPcs
  <2>2. Resolving'
    BY <1>1, <1>3 DEF Resolving, Matches, Made, Moved
  <2> QED  BY <1>1, <1>3, <2>1, <2>2, GoKeeps DEF RollbackPcs
<1>4. CASE /\ Owned(target[cur])
           /\ archive' = [archive EXCEPT ![cur][tx] = target[cur]]
           /\ target' = [target EXCEPT ![cur] = Absent]
           /\ pc' = "unstage" /\ UNCHANGED <<cur, plan, mem, lock>>
  <2>1. Absent \in Tree /\ Absent.kind = "absent"
    BY BoundAssumption DEF Absent, Tree, NoData, Version
  <2>2. archive' \in [Anchors -> [1..MaxTx -> Tree]]
    BY <1>1, <1>4 DEF IInv, Types, TypeOK
  <2>3. Types'
    BY <1>1, <1>4, <2>1, <2>2 DEF IInv, Types, TypeOK, Pcs, RollbackPcs
  <2>4. /\ target[cur].kind = "made" /\ target'[cur] = Absent
        /\ archive'[cur][tx] = target[cur]
        /\ \A a \in Anchors \ {cur} : target'[a] = target[a] /\ archive'[a] = archive[a]
        /\ \A t \in 1..MaxTx : t # tx => archive'[cur][t] = archive[cur][t]
    BY <1>1, <1>4 DEF IInv, Types, TypeOK, Owned
  <2>5. \A a \in Anchors : /\ a = cur => ~Made(a)' /\ Moved(a)'
                           /\ a # cur => (Made(a)' <=> Made(a)) /\ (Moved(a)' <=> Moved(a))
    BY <1>1, <2>1, <2>4, BoundAssumption DEF Made, Moved
  <2>6. \A j : Matches(j) /\ cur \in j.archived =>
          \A a \in Anchors : /\ a \in j.committed => Made(a)' \/ Moved(a)'
                             /\ a \in j.archived => (Made(a)' <=> ~Moved(a)')
                             /\ Moved(a)' => a \in j.archived
    BY <2>5 DEF Matches
  <2>7. Matches(mem)'  BY <1>1, <1>4, <2>6 DEF Matches
  <2>8. Consistent'  BY <1>1, <2>6 DEF IInv, Consistent, Matches
  <2>9. Uniform'
    <3>1. \A a \in Anchors : Made(a)' => Made(a) /\ target'[a] = target[a]
      BY <2>4, <2>5
    <3> QED  BY <3>1 DEF IInv, Uniform
  <2>10. Fresh'
    BY <1>1, <2>4, BoundAssumption DEF IInv, Fresh
  <2>11. Resolving'
    BY <1>1, <1>4, <2>5, <2>7 DEF Resolving, Anchors
  <2> QED  BY <1>1, <1>4, <2>3, <2>8, <2>9, <2>10, <2>11, ResolveStep DEF RollbackPcs
<1>5. \/ Stop /\ UNCHANGED <<target, archive>>
      \/ /\ target[cur].kind = "absent"
         /\ pc' = "unstage" /\ UNCHANGED <<target, archive, cur, plan, mem, lock>>
      \/ /\ Owned(target[cur])
         /\ archive' = [archive EXCEPT ![cur][tx] = target[cur]]
         /\ target' = [target EXCEPT ![cur] = Absent]
         /\ pc' = "unstage" /\ UNCHANGED <<cur, plan, mem, lock>>
  BY Zenon DEF ArchiveTarget
<1> QED  BY <1>2, <1>3, <1>4, <1>5

LEMMA CheckStageKeeps ==
  ASSUME IInv, CheckStage
  PROVE  IInv'
<1>1. /\ UNCHANGED <<legacy, journal, stage, target, archive, tx, used>>
      /\ pc = "unstage" /\ cur \in Anchors
      /\ mem.archived = journal.archived /\ Matches(mem) /\ mem.phase # "none"
      /\ \A a \in Anchors : a <= cur => ~Made(a)
  BY DEF CheckStage, disk, IInv, Types, TypeOK, Phases, Resolving, RollbackPcs, Anchors
<1>2. CASE Stop  BY <1>1, <1>2, RefuseKeeps
<1>3. CASE Loop("rollback", "finish") /\ UNCHANGED <<plan, mem, lock>>
  <2>1. \/ pc' = "rollback" /\ cur' = cur + 1 /\ cur' \in Anchors
        \/ pc' = "finish" /\ cur' = 1 /\ cur' \in Anchors /\ cur = N
    BY <1>1, <1>3, LoopNext
  <2>2. Types'
    BY <1>1, <1>3, <2>1 DEF IInv, Types, TypeOK, Pcs, RollbackPcs
  <2>3. \A a \in Anchors : a < cur' \/ pc' = "finish" => ~Made(a)'
    BY <1>1, <2>1, NAssumption DEF Made, Anchors
  <2>4. Resolving'
    BY <1>1, <1>3, <2>1, <2>3 DEF Resolving, Matches, Made, Moved, Clean
  <2> QED  BY <1>1, <1>3, <2>1, <2>2, <2>4, GoKeeps DEF RollbackPcs
<1>4. CASE pc' = "removing" /\ UNCHANGED <<cur, plan, mem, lock>>
  <2>1. Types'
    BY <1>1, <1>4 DEF IInv, Types, TypeOK, Pcs, RollbackPcs
  <2>2. Resolving'
    BY <1>1, <1>4 DEF Resolving, Matches, Made, Moved, Anchors
  <2> QED  BY <1>1, <1>4, <2>1, <2>2, GoKeeps DEF RollbackPcs
<1> QED  BY <1>2, <1>3, <1>4 DEF CheckStage

LEMMA RemoveStageKeeps ==
  ASSUME IInv, RemoveStage
  PROVE  IInv'
<1>1. /\ UNCHANGED <<legacy, journal, target, archive, plan, mem, lock, tx, used>>
      /\ pc = "removing" /\ cur \in Anchors
      /\ mem.archived = journal.archived /\ Matches(mem) /\ mem.phase # "none"
      /\ \A a \in Anchors : a <= cur => ~Made(a)
  BY DEF RemoveStage, IInv, Types, TypeOK, Phases, Resolving, RollbackPcs, Anchors
<1>2. stage' \in [Anchors -> Tree]
  <2>1. stage \in [Anchors -> Tree] /\ stage[cur] \in Tree
    BY <1>1 DEF IInv, Types, TypeOK
  <2>2. Absent \in Tree /\ NoData \in Version
    BY BoundAssumption DEF Absent, Tree, NoData, Version
  <2>3. /\ [stage[cur] EXCEPT !.marker = 0] \in Tree
        /\ [stage[cur] EXCEPT !.data = NoData] \in Tree
    BY <2>1, <2>2, BoundAssumption DEF Tree
  <2>4. \/ stage' = [stage EXCEPT ![cur] = [stage[cur] EXCEPT !.marker = 0]]
        \/ stage' = [stage EXCEPT ![cur] = [stage[cur] EXCEPT !.data = NoData]]
        \/ stage' = [stage EXCEPT ![cur] = Absent]
    BY DEF RemoveStage
  <2> QED  BY <2>1, <2>2, <2>3, <2>4
<1>3. CASE UNCHANGED <<pc, cur>>
  <2>1. Types'  BY <1>1, <1>2, <1>3 DEF IInv, Types, TypeOK
  <2>2. Resolving'
    BY <1>1, <1>3 DEF Resolving, Matches, Made, Moved, Anchors
  <2> QED  BY <1>1, <1>3, <2>1, <2>2, GoKeeps DEF RollbackPcs
<1>4. CASE Loop("rollback", "finish")
  <2>1. \/ pc' = "rollback" /\ cur' = cur + 1 /\ cur' \in Anchors
        \/ pc' = "finish" /\ cur' = 1 /\ cur' \in Anchors /\ cur = N
    BY <1>1, <1>4, LoopNext
  <2>2. Types'
    BY <1>1, <1>2, <2>1 DEF IInv, Types, TypeOK, Pcs, RollbackPcs
  <2>3. \A a \in Anchors : a < cur' \/ pc' = "finish" => ~Made(a)'
    BY <1>1, <2>1, NAssumption DEF Made, Anchors
  <2>4. Resolving'
    BY <1>1, <2>1, <2>3 DEF Resolving, Matches, Made, Moved, Clean
  <2> QED  BY <1>1, <2>1, <2>2, <2>4, GoKeeps DEF RollbackPcs
<1> QED  BY <1>3, <1>4 DEF RemoveStage

LEMMA FinishKeeps ==
  ASSUME IInv, Finish
  PROVE  IInv'
<1>1. Clean \/ Complete  BY DEF Finish, IInv, Resolving
<1>2. used' \in Used /\ used'.changes = used.changes
  BY DEF Finish, IInv, Types, TypeOK
<1> QED  BY <1>1, <1>2, StopKeeps DEF Finish

LEMMA RecoverKeeps ==
  ASSUME IInv, Recover
  PROVE  IInv'
<1>1. /\ UNCHANGED <<legacy, journal, stage, target, archive, tx, used>>
      /\ pc = "idle" /\ journal.phase # "none" /\ lock' = "exclusive"
      /\ mem' = journal /\ cur' = 1
      /\ pc' \in {"reverify", "rollback"} /\ plan' \in {legacy, plan}
  BY DEF Recover, Acceptable, disk
<1>2. legacy \in Version /\ 1 \in Anchors
  BY NAssumption, BoundAssumption DEF IInv, Types, TypeOK, Version, Anchors
<1>3. Types'
  BY <1>1, <1>2 DEF IInv, Types, TypeOK, Pcs, RollbackPcs, FinalizePcs
<1>4. Uniform' /\ Whole' /\ Consistent' /\ Fresh'  BY <1>1, TreesKeep DEF Trees
<1>5. Matches(mem)'
  BY <1>1 DEF IInv, Consistent, Matches, Made, Moved
<1>6. Resolving'
  BY <1>1, <1>5 DEF Resolving, Anchors
<1>7. Phases'
  BY <1>1 DEF IInv, Phases, TransactionPcs, RollbackPcs, PreparePcs
<1>8. Locks' /\ Executing' /\ Staging' /\ Committing'
  BY <1>1 DEF Locks, Executing, Staging, Committing, TransactionPcs
<1> QED  BY <1>3, <1>4, <1>6, <1>7, <1>8 DEF IInv

LEMMA ReverifyKeeps ==
  ASSUME IInv, Reverify
  PROVE  IInv'
<1>1. /\ UNCHANGED <<legacy, journal, stage, target, archive, tx, used>>
      /\ pc = "reverify" /\ cur = 1
      /\ mem.archived = journal.archived /\ Matches(mem) /\ mem.phase # "none"
  BY DEF Reverify, disk, IInv, Phases, Resolving, FinalizePcs
<1>2. CASE Stop  BY <1>1, <1>2, RefuseKeeps
<1>3. CASE Verifies(plan, FALSE) /\ pc' = "finalize" /\ UNCHANGED <<cur, plan, mem, lock>>
  <2>1. Types'
    BY <1>1, <1>3 DEF IInv, Types, TypeOK, Pcs, FinalizePcs
  <2>2. \A a \in Anchors : Made(a)  BY <1>3 DEF Verifies, LayoutMatches, Made
  <2>3. Resolving'
    BY <1>1, <1>3, <2>2 DEF Resolving, Matches, Made, Moved, Anchors
  <2> QED  BY <1>1, <1>3, <2>1, <2>3, GoKeeps DEF FinalizePcs
<1> QED  BY <1>2, <1>3 DEF Reverify

LEMMA FinalizeKeeps ==
  ASSUME IInv, Finalize
  PROVE  IInv'
<1>1. /\ UNCHANGED <<legacy, journal, archive, tx, used>>
      /\ pc = "finalize" /\ cur \in Anchors
      /\ mem.archived = journal.archived /\ Matches(mem)
      /\ mem.phase # "none" /\ journal.phase # "none"
      /\ \A a \in Anchors : Made(a) /\ (a < cur => target[a].marker = 0)
  BY DEF Finalize, IInv, Types, TypeOK, Phases, Resolving, RollbackPcs, FinalizePcs
<1>2. CASE Stop /\ UNCHANGED <<target, stage>>  BY <1>1, <1>2, RefuseKeeps
<1>3. CASE /\ target' = [target EXCEPT ![cur].marker = 0]
           /\ stage' = [stage EXCEPT ![cur] = Absent]
           /\ Loop("finalize", "finish") /\ UNCHANGED <<plan, mem, lock>>
  <2>1. \/ pc' = "finalize" /\ cur' = cur + 1 /\ cur' \in Anchors
        \/ pc' = "finish" /\ cur' = 1 /\ cur' \in Anchors /\ cur = N
    BY <1>1, <1>3, LoopNext
  <2> DEFINE new == [target[cur] EXCEPT !.marker = 0]
  <2>2. /\ target[cur] \in Tree /\ Absent \in Tree
        /\ new \in Tree /\ new.marker = 0
        /\ new.kind = target[cur].kind /\ new.data = target[cur].data
    <3>1. target[cur] \in Tree  BY <1>1 DEF IInv, Types, TypeOK
    <3>2. Absent \in Tree  BY BoundAssumption DEF Absent, Tree, NoData, Version
    <3>3. /\ new \in Tree /\ new.marker = 0
          /\ new.kind = target[cur].kind /\ new.data = target[cur].data
      BY <3>1, BoundAssumption DEF Tree
    <3> QED  BY <3>1, <3>2, <3>3
  <2>3. target' = [target EXCEPT ![cur] = new]  BY <1>3
  <2> HIDE DEF new
  <2>4. Types'
    BY <1>1, <1>3, <2>1, <2>2, <2>3
       DEF IInv, Types, TypeOK, Pcs, RollbackPcs, FinalizePcs
  <2>5. \A a \in Anchors : /\ target'[a].kind = "made" /\ target'[a].data = target[a].data
                           /\ a <= cur => target'[a].marker = 0
    BY <1>1, <2>2, <2>3 DEF IInv, Types, TypeOK, Made, Anchors
  <2>6. PICK v \in Version \ {NoData} : \A a \in Anchors : target[a].data = v
    BY <1>1 DEF IInv, Uniform
  <2>7. Uniform'  BY <2>5, <2>6 DEF Uniform
  <2>8. Matches(mem)' /\ Matches(journal)'
    <3>1. \A a \in Anchors : target[a].kind = "made"  BY <1>1 DEF Made
    <3> QED  BY <1>1, <1>3, <2>5, <3>1 DEF IInv, Consistent, Matches, Made, Moved
  <2>9. Consistent' /\ Fresh'  BY <1>1, <2>8 DEF IInv, Consistent, Fresh
  <2>10. pc' = "finish" => Complete'
    <3> SUFFICES ASSUME pc' = "finish" PROVE Complete'  OBVIOUS
    <3>1. \A a \in Anchors : target'[a].marker = 0
      BY <2>1, <2>5 DEF Anchors
    <3>2. \A a \in Anchors : target'[a] = [kind |-> "made", marker |-> 0, data |-> v]
      BY <2>4, <2>5, <2>6, <3>1 DEF Types, TypeOK, Tree
    <3> QED  BY <3>2 DEF Complete
  <2>11. Resolving'
    BY <1>1, <1>3, <2>1, <2>5, <2>8, <2>10 DEF Resolving, Made, Anchors
  <2> QED  BY <1>1, <1>3, <2>1, <2>4, <2>7, <2>9, <2>11, ResolveStep
       DEF RollbackPcs, FinalizePcs
<1> QED  BY <1>2, <1>3 DEF Finalize

LEMMA NextInv == IInv /\ [Next]_vars => IInv'
<1> SUFFICES ASSUME IInv, [Next]_vars PROVE IInv'  OBVIOUS
<1>1. CASE Execute
  BY <1>1, BeginKeeps, PrepareKeeps, FillJournalKeeps, MakeStageKeeps, MarkStageKeeps,
     CopyStageKeeps, CommitRenameKeeps, StageKeeps, CheckAbsentKeeps, CommitRecordKeeps,
     VerifyKeeps, UnmarkKeeps, RemoveJournalKeeps
     DEF Execute
<1>2. CASE Resolve
  BY <1>2, RollbackAnchorKeeps, ArchiveTargetKeeps, CheckStageKeeps, RemoveStageKeeps,
     FinishKeeps, ReverifyKeeps, FinalizeKeeps
     DEF Resolve
<1>3. CASE Environment
  BY <1>3, CommandKeeps, FileErrorKeeps, WriteErrorKeeps, CrashKeeps, ChangeLegacyKeeps,
     MakeForeignKeeps, FillForeignKeeps
     DEF Environment
<1>4. CASE UNCHANGED vars
  <2>1. UNCHANGED <<legacy, journal, stage, target, archive, tx, process, lock, used>>
    BY <1>4 DEF vars, disk
  <2>2. Types' /\ Locks'
    BY <2>1 DEF process, IInv, Types, TypeOK, Locks
  <2> QED  BY <2>1, <2>2, FrameKeeps
<1> QED  BY <1>1, <1>2, <1>3, <1>4, InspectKeeps, LegacyBusyKeeps, RecoverKeeps DEF Next

(***************************************************************************)
(* What holds between any two file operations, whatever fails or dies: the *)
(* journal fits the trees, a store without a journal is unmigrated or      *)
(* complete, every copy is of one version.  (execute_transaction,          *)
(* recovery::rollback and recovery::recover.)                              *)
(***************************************************************************)
THEOREM Invariance == Spec => []IInv
<1>1. IInv /\ [Next]_vars => IInv'  BY NextInv
<1> QED  BY InitInv, <1>1, PTL DEF Spec

(***************************************************************************)
(* For any number of anchors, the journal on disk never contradicts the    *)
(* trees, so that a rollback finds each copy where the journal says it is. *)
(* (rollback and archive_committed_target refuse otherwise.)               *)
(***************************************************************************)
THEOREM JournalAlwaysMatches == Spec => []JournalMatchesDisk
<1>1. IInv => JournalMatchesDisk
  BY DEF IInv, Consistent, Matches, Made, Moved, JournalMatchesDisk
<1> QED  BY Invariance, <1>1, PTL

LEMMA ForeignStep ==
  ASSUME IInv, Next, NEW a \in Anchors, target[a].kind = "foreign"
  PROVE  target'[a] = target[a]
<1>1. target \in [Anchors -> Tree] /\ cur \in Anchors  BY DEF IInv, Types, TypeOK
<1>2. CASE Unmark
  <2>1. target[a] = Copy(IF a < cur THEN 0 ELSE tx, plan)
    BY <1>2 DEF Unmark, IInv, Committing
  <2> QED  BY <2>1 DEF Copy
<1>3. CASE Finalize
  <2>1. target[a].kind = "made"  BY <1>3 DEF Finalize, IInv, Resolving, Made
  <2> QED  BY <2>1
<1>4. CASE ArchiveTarget  BY <1>1, <1>4 DEF ArchiveTarget, Owned
<1>5. ASSUME NEW b \in Anchors, CommitRename(b) \/ MakeForeign(b) \/ FillForeign(b)
      PROVE  target'[a] = target[a]
  BY <1>1, <1>5 DEF CommitRename, Replaceable, MakeForeign, FillForeign
<1>6. CASE \/ Inspect \/ LegacyBusy \/ Begin \/ Prepare \/ FillJournal \/ MakeStage
           \/ MarkStage \/ Stage \/ CheckAbsent \/ CommitRecord \/ Verify \/ RemoveJournal
           \/ \E b \in Anchors : CopyStage(b)
  BY <1>6 DEF Inspect, LegacyBusy, Begin, Prepare, FillJournal, MakeStage, MarkStage,
     Stage, CheckAbsent, CommitRecord, Verify, RemoveJournal, CopyStage, disk
<1>7. CASE \/ RollbackAnchor \/ CheckStage \/ RemoveStage \/ Finish \/ Recover \/ Reverify
           \/ StartCommand \/ EndCommand \/ FileError \/ WriteError \/ Crash \/ ChangeLegacy
  BY <1>7 DEF RollbackAnchor, CheckStage, RemoveStage, Finish, Recover, Reverify,
     StartCommand, EndCommand, FileError, WriteError, Crash, ChangeLegacy, disk
<1> QED  BY <1>2, <1>3, <1>4, <1>5, <1>6, <1>7 DEF Next, Execute, Resolve, Environment

(***************************************************************************)
(* What another program keeps in a directory at a target path is never     *)
(* moved, changed or removed, whatever fails or dies and whenever it got   *)
(* there; a directory that is still empty is not covered.                  *)
(* (execute_transaction's rename and validate_owner_marker.)               *)
(***************************************************************************)
THEOREM ForeignAlwaysUntouched == Spec => ForeignUntouched
<1>1. IInv /\ [Next]_vars =>
        [\A a \in Anchors : target[a].kind = "foreign" => target'[a] = target[a]]_vars
  BY ForeignStep
<1> QED  BY Invariance, <1>1, PTL DEF Spec, ForeignUntouched

-----------------------------------------------------------------------------
(* What commands see.                                                      *)

LEMMA ReadableFacts ==
  ASSUME IInv, Readable
  PROVE  /\ journal.phase = "none" /\ pc \in {"idle", "planned"} /\ lock # "exclusive"
         /\ Clean \/ Complete
BY DEF IInv, Locks, Whole, Readable, NoJournalFile

LEMMA CompleteNotClean ==
  ASSUME Complete
  PROVE  /\ ~Clean /\ \A a \in Anchors : target[a].kind = "made"
         /\ ~TargetAbsent
<1>1. \A a \in Anchors : target[a].kind = "made"  BY DEF Complete
<1>2. 1 \in Anchors  BY NAssumption DEF Anchors
<1> QED  BY <1>1, <1>2 DEF Clean, Made, TargetAbsent

LEMMA ViewIs ==
  ASSUME IInv
  PROVE  /\ ~Readable => View = "closed"
         /\ Readable /\ Complete => View = "migrated"
         /\ Readable /\ ~Complete => Clean /\ View = "unmigrated"
BY ReadableFacts DEF View, Clean, Made

\* While a command can run, only these steps can be taken.
LEMMA ReadableNext ==
  ASSUME IInv, Next, Readable
  PROVE  /\ journal' = journal
         /\ lock' # "exclusive" \/ TargetAbsent
         /\ UNCHANGED target \/ \E a \in Anchors : MakeForeign(a) \/ FillForeign(a)
<1>1. /\ journal.phase = "none" /\ pc \in {"idle", "planned"} /\ lock # "exclusive"
  BY ReadableFacts
<1>2. ~Execute \/ Begin
  BY <1>1 DEF Execute, Prepare, FillJournal, MakeStage, MarkStage, CopyStage, CommitRename,
     Stage, CheckAbsent, CommitRecord, Verify, Unmark, RemoveJournal
<1>3. ~Resolve /\ ~Recover
  BY <1>1 DEF Resolve, RollbackAnchor, ArchiveTarget, CheckStage, RemoveStage, Finish,
     Reverify, Finalize, Recover, Acceptable
<1>4. ~FileError /\ ~WriteError
  BY <1>1 DEF FileError, WriteError, PreparePcs, TransactionPcs, RollbackPcs, FinalizePcs
<1>5. CASE Begin \/ Inspect \/ LegacyBusy
  BY <1>1, <1>5 DEF Begin, Inspect, LegacyBusy, disk
<1>6. CASE StartCommand \/ EndCommand \/ Crash \/ ChangeLegacy
  BY <1>1, <1>6 DEF StartCommand, EndCommand, Crash, ChangeLegacy, disk
<1>7. ASSUME NEW a \in Anchors, MakeForeign(a) \/ FillForeign(a)
      PROVE  journal' = journal /\ lock' = lock
  BY <1>7 DEF MakeForeign, FillForeign
<1> QED  BY <1>1, <1>2, <1>3, <1>4, <1>5, <1>6, <1>7 DEF Next, Environment

LEMMA ContractStep ==
  ASSUME IInv, IInv', [Next]_vars
  PROVE  [Contract!Next]_View
<1>1. /\ ~Readable => View = "closed"
      /\ Readable /\ Complete => View = "migrated"
      /\ Readable /\ ~Complete => Clean /\ View = "unmigrated"
  BY ViewIs
<1>2. (/\ ~Readable => View = "closed"
       /\ Readable /\ Complete => View = "migrated"
       /\ Readable /\ ~Complete => Clean /\ View = "unmigrated")'
  BY ViewIs, PTL
<1>3. CASE UNCHANGED vars
  BY <1>3 DEF vars, disk, View, Readable, NoJournalFile, Complete
<1>4. CASE ~Readable
  <2>1. View' \in {"closed", "unmigrated", "migrated"}  BY <1>2
  <2> QED  BY <1>1, <1>4, <2>1 DEF Contract!Next, Contract!Reopen
<1>5. CASE Next /\ Readable
  <2>1. /\ journal'.phase = "none"
        /\ lock' # "exclusive" \/ TargetAbsent
        /\ UNCHANGED target \/ \E a \in Anchors : MakeForeign(a) \/ FillForeign(a)
    BY <1>5, ReadableNext, ReadableFacts
  <2>2. lock' # "exclusive" => Readable'
    <3>1. lock' \in {"free", "shared", "exclusive"}  BY DEF IInv, Types, TypeOK
    <3> QED  BY <2>1, <3>1 DEF Readable, NoJournalFile
  <2>3. CASE Complete
    <3>1. ~TargetAbsent /\ \A a \in Anchors : target[a].kind = "made"
      BY <2>3, CompleteNotClean
    <3>2. target' = target  BY <2>1, <3>1 DEF MakeForeign, FillForeign
    <3>3. Readable' /\ Complete'  BY <2>1, <2>2, <2>3, <3>1, <3>2 DEF Complete
    <3> QED  BY <1>1, <1>2, <1>5, <2>3, <3>3
  <2>4. CASE ~Complete
    <3>1. Clean /\ View = "unmigrated"  BY <1>1, <1>5, <2>4
    <3>2. \A a \in Anchors : target'[a].kind # "made"
      BY <2>1, <3>1
         DEF MakeForeign, FillForeign, Empty, Foreign, Clean, Made, IInv, Types, TypeOK
    <3>3. ~Complete'
      <4>1. (Complete => ~Clean)'  BY CompleteNotClean, PTL
      <4> QED  BY <3>2, <4>1 DEF Clean, Made
    <3>4. View' \in {"closed", "unmigrated"}  BY <1>2, <3>3
    <3> QED  BY <3>1, <3>4 DEF Contract!Next, Contract!Close
  <2> QED  BY <2>3, <2>4
<1> QED  BY <1>3, <1>4, <1>5

(***************************************************************************)
(* Whatever fails or dies between two file operations, and with any number *)
(* of anchors, an ordinary command sees no partial target, and a migrated  *)
(* one stays: Migration implements MigrationContract.                      *)
(* (acquire_migration_startup_guard, execute, recover_incomplete.)         *)
(***************************************************************************)
THEOREM MigrationImplementsContract == Spec => ImplementsContract
<1>1. Init => Contract!Init
  <2> SUFFICES ASSUME Init PROVE View = "unmigrated"  BY DEF Contract!Init
  <2>1. \A a \in Anchors : target[a].kind = "absent"  BY DEF Init, Absent
  <2>2. Clean  BY <2>1 DEF Clean, Made
  <2>3. ~Complete  BY <2>2, CompleteNotClean
  <2>4. Readable  BY DEF Init, Readable, NoJournalFile, NoJournal
  <2> QED  BY <2>1, <2>3, <2>4 DEF View
<1>2. IInv /\ IInv' /\ [Next]_vars => [Contract!Next]_View  BY ContractStep
<1> QED  BY Invariance, <1>1, <1>2, PTL DEF Spec, ImplementsContract, Contract!Spec
=============================================================================
