---------------------------- MODULE ProfileFence ----------------------------
(***************************************************************************)
(* Who may use a profile: ordinary ctxlane processes (run, login, env,     *)
(* doctor, profile edit, rename, remove, add) against the automation       *)
(* service, over the advisory file locks of state_dir/profile-locks, the   *)
(* durable fence marker of each profile UID and the shared configuration.  *)
(*                                                                         *)
(* Every lock acquisition is a non-blocking flock and a step of its own, a *)
(* lock conversion is two steps (flock drops the old mode before it tries  *)
(* the new one), and a marker reaches the disk only when it is synced.     *)
(* The service may crash, and the machine may lose power, at every step.   *)
(***************************************************************************)
EXTENDS Naturals, FiniteSets

CONSTANTS
  Procs,       \* ordinary ctxlane processes
  Service,     \* the automation service process
  Aliases,     \* provider/name references
  Uids,        \* immutable profile UIDs
  Revisions,   \* profile contents an edit can choose between
  Commands,    \* the commands the processes execute
  InitConfig   \* the configuration the system starts from

ASSUME FenceConstants ==
  /\ Service \notin Procs
  /\ Commands \subseteq {"run", "login", "env", "doctor", "edit", "rename",
                         "remove", "add"}
  /\ InitConfig \in [Aliases -> ([uid : Uids, rev : Revisions]
                                   \cup {[uid |-> "none", rev |-> "none"]})]
  /\ "none" \notin Uids
  /\ \A a, b \in Aliases :
       InitConfig[a].uid = InitConfig[b].uid /\ InitConfig[a].uid # "none"
         => a = b

VARIABLES
  config,     \* alias -> profile entry
  retired,    \* retired_profile_uids
  marker,     \* uid -> what is at the marker pathname
  bound,      \* uid -> the profile_ref written in that marker
  locks,      \* lock -> holder -> mode
  proc,       \* ordinary process -> the command it is executing
  svc,        \* the service: its phase and the fence operation in progress
  guard,      \* uid -> the fence guard the service registry holds
  retained,   \* uid -> the aliases that guard keeps locked
  hard,       \* uids whose cleanup is latched until restart
  blockers    \* uids with unresolved durable lease state

fsVars == <<config, retired, marker, bound>>
svcVars == <<svc, guard, retained, hard, blockers>>
vars == <<fsVars, locks, proc, svcVars>>

NoEntry == [uid |-> "none", rev |-> "none"]
Entry == [uid : Uids, rev : Revisions]
Config == [Aliases -> Entry \cup {NoEntry}]

Holders == Procs \cup {Service}
AliasLock(a) == <<"alias", a>>
LifecycleLock(u) == <<"lifecycle", u>>
ResourceLock(u) == <<"resource", u>>
Locks == {AliasLock(a) : a \in Aliases} \cup {LifecycleLock(u) : u \in Uids}
           \cup {ResourceLock(u) : u \in Uids}
Modes == {"none", "shared", "exclusive"}

(* A marker is "dirty" until file and directory are synced, "torn" when a  *)
(* crash left an object that does not parse, and "unlinked" when its       *)
(* removal has not reached the disk.                                       *)
MarkerStates == {"absent", "dirty", "torn", "durable", "unlinked"}
Present(u) == marker[u] \in {"dirty", "torn", "durable"}

UseOps == {"run", "login", "env", "doctor"}
EditOps == {"edit", "rename", "remove", "add"}
Idle == [op |-> "idle", at |-> "idle", alias |-> "none", to |-> "none",
         seen |-> NoEntry]
Command ==
  [op : UseOps \cup EditOps, at : {"locking", "unfenced", "using", "removed"},
   alias : Aliases, to : Aliases, seen : Entry]

NoConfig == [a \in Aliases |-> NoEntry]
SvcDown == [phase |-> "down", step |-> "none", uid |-> "none",
            alias |-> "none", before |-> NoConfig]
SvcAt(step, u, a) == [svc EXCEPT !.step = step, !.uid = u, !.alias = a]
SvcRest == [svc EXCEPT !.step = "none", !.uid = "none", !.alias = "none"]
SvcSteps == {"none", "recovering", "locking", "syncing", "downgrading",
             "upgrading", "proving", "unsynced"}
Service0 == [phase : {"down", "recovery", "ready"}, step : SvcSteps,
             uid : Uids \cup {"none"}, alias : Aliases \cup {"none"},
             before : Config]

(* "busy" retains a lifecycle descriptor in an unknown mode and "latched"  *)
(* is shared with a retryable cleanup latched; "deferred" waits for restart*)
Guards == {"none", "shared", "latched", "busy", "exclusive", "deferred"}

Init ==
  /\ config = InitConfig
  /\ retired = {}
  /\ marker = [u \in Uids |-> "absent"]
  /\ bound = [u \in Uids |-> "none"]
  /\ locks = [l \in Locks |-> [h \in Holders |-> "none"]]
  /\ proc = [p \in Procs |-> Idle]
  /\ svc = SvcDown
  /\ guard = [u \in Uids |-> "none"]
  /\ retained = [u \in Uids |-> {}]
  /\ hard = {}
  /\ blockers = {}

----------------------------------------------------------------------------
(* Advisory locks.                                                         *)

Grantable(l, h, mode) ==
  \A other \in Holders \ {h} :
    IF mode = "exclusive" THEN locks[l][other] = "none"
                          ELSE locks[l][other] # "exclusive"

SetLock(l, h, mode) == locks' = [locks EXCEPT ![l][h] = mode]
DropAll(hs) ==
  locks' = [l \in Locks |->
              [h \in Holders |-> IF h \in hs THEN "none" ELSE locks[l][h]]]

Holds(l, h) == locks[l][h] # "none"

(* Lock paths sort by kind: the alias, then the UID's lifecycle, then the  *)
(* UID's resource.                                                         *)
Rank(l) == CASE l[1] = "alias" -> 1
             [] l[1] = "lifecycle" -> 2
             [] OTHER -> 3
First(ls) == {l \in ls : \A m \in ls : Rank(l) <= Rank(m)}

----------------------------------------------------------------------------
(* Ordinary commands.                                                      *)

(* Mutant: adding a profile takes no alias lock.                           *)
NeededUnlessAdding(c) ==
  CASE c.op = "env" -> {LifecycleLock(c.seen.uid)}
    [] c.op = "add" -> {}
    [] c.op = "rename" ->
         {AliasLock(c.alias), AliasLock(c.to), LifecycleLock(c.seen.uid)}
    [] OTHER -> {AliasLock(c.alias), LifecycleLock(c.seen.uid)}

Needed(c) ==
  CASE c.op = "env" -> {LifecycleLock(c.seen.uid)}
    [] c.op = "add" -> {AliasLock(c.alias)}
    [] c.op \in {"edit", "remove"} ->
         {AliasLock(c.alias), LifecycleLock(c.seen.uid)}
    [] c.op = "rename" ->
         {AliasLock(c.alias), AliasLock(c.to), LifecycleLock(c.seen.uid)}
    [] OTHER ->
         {AliasLock(c.alias), LifecycleLock(c.seen.uid),
          ResourceLock(c.seen.uid)}

(* Mutant: management takes the lifecycle lock in shared mode.             *)
SharedLifecycle(c, l) ==
  IF l[1] = "lifecycle" \/ (l[1] = "alias" /\ c.op \in {"run", "doctor"})
    THEN "shared" ELSE "exclusive"

ModeFor(c, l) ==
  CASE l[1] = "alias" -> IF c.op \in {"run", "doctor"} THEN "shared"
                                                        ELSE "exclusive"
    [] l[1] = "lifecycle" -> IF c.op \in UseOps THEN "shared" ELSE "exclusive"
    [] OTHER -> "exclusive"

Missing(p) == {l \in Needed(proc[p]) : ~Holds(l, p)}

(* A command reads the configuration with no lock held and remembers the   *)
(* entry it saw; "add" has no entry and starts with a fresh UID.           *)
Begin(p, op, a, to) ==
  /\ proc[p] = Idle
  /\ IF op = "add"
       THEN \E u \in Uids, r \in Revisions :
              proc' = [proc EXCEPT ![p] =
                         [op |-> op, at |-> "locking", alias |-> a, to |-> a,
                          seen |-> [uid |-> u, rev |-> r]]]
       ELSE /\ config[a] # NoEntry
            /\ op # "rename" => to = a
            /\ proc' = [proc EXCEPT ![p] =
                          [op |-> op, at |-> "locking", alias |-> a,
                           to |-> to, seen |-> config[a]]]
  /\ UNCHANGED <<fsVars, locks, svcVars>>

AcquireLock(p) ==
  /\ proc[p].at = "locking"
  /\ \E l \in First(Missing(p)) :
       /\ Grantable(l, p, ModeFor(proc[p], l))
       /\ SetLock(l, p, ModeFor(proc[p], l))
  /\ UNCHANGED <<fsVars, proc, svcVars>>

(* Mutants: nobody looks at the marker; only the using commands do.        *)
SkipMarker(p) ==
  /\ proc[p].at = "locking"
  /\ Missing(p) = {}
  /\ proc' = [proc EXCEPT ![p].at = "unfenced"]
  /\ UNCHANGED <<fsVars, locks, svcVars>>

CheckMarkerToUse(p) ==
  /\ proc[p].at = "locking"
  /\ Missing(p) = {}
  /\ proc[p].op \in UseOps => ~Present(proc[p].seen.uid)
  /\ proc' = [proc EXCEPT ![p].at = "unfenced"]
  /\ UNCHANGED <<fsVars, locks, svcVars>>

(* ensure_profile_automation_unfenced: any object at the marker pathname   *)
(* refuses; add_profile and only it makes no such check.                   *)
CheckMarker(p) ==
  /\ proc[p].at = "locking"
  /\ Missing(p) = {}
  /\ proc[p].op # "add" => ~Present(proc[p].seen.uid)
  /\ proc' = [proc EXCEPT ![p].at = "unfenced"]
  /\ UNCHANGED <<fsVars, locks, svcVars>>

(* ensure_profile_is_current or the equivalent comparison; the diagnostic  *)
(* command goes on with the entry it read.                                 *)
Use(p) ==
  /\ proc[p].at = "unfenced"
  /\ proc[p].op \in UseOps
  /\ proc[p].op # "doctor" => config[proc[p].alias] = proc[p].seen
  /\ proc' = [proc EXCEPT ![p].at = "using"]
  /\ UNCHANGED <<fsVars, locks, svcVars>>

(* Done, refused, failed or killed: the process ends, its locks with it.   *)
Leave(p) ==
  /\ proc[p] # Idle
  /\ proc' = [proc EXCEPT ![p] = Idle]
  /\ DropAll({p})
  /\ UNCHANGED <<fsVars, svcVars>>

UpdateAllowed(p, op) ==
  /\ proc[p].at = "unfenced"
  /\ proc[p].op = op
  /\ op # "add" => config[proc[p].alias] = proc[p].seen

EditProfile(p) ==
  /\ UpdateAllowed(p, "edit")
  /\ \E r \in Revisions :
       config' = [config EXCEPT ![proc[p].alias].rev = r]
  /\ proc' = [proc EXCEPT ![p] = Idle]
  /\ DropAll({p})
  /\ UNCHANGED <<retired, marker, bound, svcVars>>

RenameProfile(p) ==
  LET c == proc[p] IN
  /\ UpdateAllowed(p, "rename")
  /\ \/ c.to = c.alias /\ UNCHANGED config
     \/ /\ config[c.to] = NoEntry
        /\ config' = [config EXCEPT ![c.alias] = NoEntry, ![c.to] = c.seen]
  /\ proc' = [proc EXCEPT ![p] = Idle]
  /\ DropAll({p})
  /\ UNCHANGED <<retired, marker, bound, svcVars>>

(* Mutant: a retired UID may be given to a new profile.                    *)
AddRetiredProfile(p) ==
  LET c == proc[p] IN
  /\ UpdateAllowed(p, "add")
  /\ config[c.alias] = NoEntry
  /\ \A a \in Aliases : config[a].uid # c.seen.uid
  /\ config' = [config EXCEPT ![c.alias] = c.seen]
  /\ proc' = [proc EXCEPT ![p] = Idle]
  /\ DropAll({p})
  /\ UNCHANGED <<retired, marker, bound, svcVars>>

AddProfile(p) ==
  LET c == proc[p] IN
  /\ UpdateAllowed(p, "add")
  /\ config[c.alias] = NoEntry
  /\ c.seen.uid \notin retired
  /\ \A a \in Aliases : config[a].uid # c.seen.uid
  /\ config' = [config EXCEPT ![c.alias] = c.seen]
  /\ proc' = [proc EXCEPT ![p] = Idle]
  /\ DropAll({p})
  /\ UNCHANGED <<retired, marker, bound, svcVars>>

(* remove_profile_with: metadata first, the caller's cleanup second.       *)
RemoveProfile(p) ==
  LET c == proc[p] IN
  /\ UpdateAllowed(p, "remove")
  /\ config' = [config EXCEPT ![c.alias] = NoEntry]
  /\ retired' = retired \cup {c.seen.uid}
  /\ proc' = [proc EXCEPT ![p].at = "removed"]
  /\ UNCHANGED <<marker, bound, locks, svcVars>>

(* after_remove failed: the entry is restored, unless the alias was taken  *)
(* or the UID is no longer retired.                                        *)
RestoreRemoved(p) ==
  LET c == proc[p] IN
  /\ c.at = "removed"
  /\ config[c.alias] = NoEntry
  /\ c.seen.uid \in retired
  /\ config' = [config EXCEPT ![c.alias] = c.seen]
  /\ retired' = retired \ {c.seen.uid}
  /\ proc' = [proc EXCEPT ![p] = Idle]
  /\ DropAll({p})
  /\ UNCHANGED <<marker, bound, svcVars>>

----------------------------------------------------------------------------
(* The service: recovery of the markers found at open.                     *)

Fenced == {u \in Uids : Present(u)}
RefsIn(c, u) == {a \in Aliases : c[a].uid = u}
RecoveryLocks ==
  UNION {{AliasLock(a) : a \in retained[u]} \cup {LifecycleLock(u)} : u \in Fenced}

(* RecoveringStore::open behind the service lock: a torn marker, or one    *)
(* alias bound by two markers, fails the open before anything is locked.   *)
OpenService ==
  LET refs == [u \in Uids |-> IF Present(u) THEN {bound[u]} \cup RefsIn(config, u)
                                           ELSE {}]
  IN
  /\ svc = SvcDown
  /\ \A u \in Fenced : marker[u] # "torn"
  /\ \A u, v \in Uids : u # v => refs[u] \cap refs[v] = {}
  /\ svc' = [svc EXCEPT !.step = "recovering", !.before = config]
  /\ retained' = refs
  /\ UNCHANGED <<fsVars, locks, proc, guard, hard, blockers>>

RecoverLock ==
  /\ svc.step = "recovering"
  /\ \E l \in First({m \in RecoveryLocks : ~Holds(m, Service)}) :
       LET mode == IF l[1] = "alias" THEN "exclusive" ELSE "shared" IN
       /\ Grantable(l, Service, mode)
       /\ SetLock(l, Service, mode)
  /\ UNCHANGED <<fsVars, proc, svcVars>>

(* A busy lock, or a configuration that moved, fails the open.             *)
RecoverFails ==
  /\ svc.step = "recovering"
  /\ DropAll({Service})
  /\ svc' = SvcDown
  /\ retained' = [u \in Uids |-> {}]
  /\ UNCHANGED <<fsVars, proc, guard, hard, blockers>>

RecoverFences ==
  /\ svc.step = "recovering"
  /\ \A l \in RecoveryLocks : Holds(l, Service)
  /\ \A u \in Fenced : RefsIn(config, u) = RefsIn(svc.before, u)
  /\ svc' = [SvcDown EXCEPT !.phase = "recovery"]
  /\ guard' = [u \in Uids |-> IF Present(u) THEN "shared" ELSE "none"]
  /\ UNCHANGED <<fsVars, locks, proc, retained, hard, blockers>>

(* into_ready: nothing unresolved and no fence of any kind retained.       *)
IntoReady ==
  /\ svc.phase = "recovery" /\ svc.step = "none"
  /\ hard = {}
  /\ blockers = {}
  /\ \A u \in Uids : guard[u] = "none"
  /\ svc' = [svc EXCEPT !.phase = "ready"]
  /\ UNCHANGED <<fsVars, locks, proc, guard, retained, hard, blockers>>

CleanupDeferred ==
  hard # {} \/ \E u \in Uids : guard[u] \in {"busy", "latched", "deferred"}

----------------------------------------------------------------------------
(* prepare_profile_automation_fence.                                       *)

Prepare(u, a) ==
  /\ svc.phase = "ready" /\ svc.step = "none"
  /\ ~CleanupDeferred
  /\ guard[u] = "none"
  /\ config[a].uid = u
  /\ svc' = SvcAt("locking", u, a)
  /\ UNCHANGED <<fsVars, locks, proc, guard, retained, hard, blockers>>

PrepareLocks == {AliasLock(svc.alias), LifecycleLock(svc.uid)}

PrepareLock ==
  /\ svc.step = "locking"
  /\ \E l \in First({m \in PrepareLocks : ~Holds(m, Service)}) :
       /\ Grantable(l, Service, "exclusive")
       /\ SetLock(l, Service, "exclusive")
  /\ UNCHANGED <<fsVars, proc, svcVars>>

(* Busy, refused by the second look at the configuration, or failed before *)
(* the marker was created: the locks taken so far are dropped.             *)
PrepareGivesUp ==
  /\ svc.step = "locking"
  /\ locks' = [l \in Locks |-> [locks[l] EXCEPT
                 ![Service] = IF l \in PrepareLocks THEN "none" ELSE @]]
  /\ svc' = SvcRest
  /\ UNCHANGED <<fsVars, proc, guard, retained, hard, blockers>>

(* create_new_marker; that it never meets a marker is NoOrphanMet below.   *)
CreateMarker ==
  LET u == svc.uid IN
  /\ svc.step = "locking"
  /\ \A l \in PrepareLocks : Holds(l, Service)
  /\ config[svc.alias].uid = u
  /\ ~Present(u)
  /\ marker' = [marker EXCEPT ![u] = "dirty"]
  /\ bound' = [bound EXCEPT ![u] = svc.alias]
  /\ retained' = [retained EXCEPT ![u] = {svc.alias}]
  /\ guard' = [guard EXCEPT ![u] = "exclusive"]
  /\ svc' = SvcAt("syncing", u, svc.alias)
  /\ UNCHANGED <<config, retired, locks, proc, hard, blockers>>

(* sync_all of the marker and of its directory, which also makes every     *)
(* earlier unlink in that directory durable.                               *)
SyncMarker ==
  /\ svc.step = "syncing"
  /\ marker' = [u \in Uids |->
                  IF u = svc.uid THEN "durable"
                  ELSE IF marker[u] = "unlinked" THEN "absent" ELSE marker[u]]
  /\ SetLock(LifecycleLock(svc.uid), Service, "none")
  /\ svc' = SvcAt("downgrading", svc.uid, svc.alias)
  /\ UNCHANGED <<config, retired, bound, proc, guard, retained, hard, blockers>>

(* The second half of downgrade_to_shared, with the marker validation that *)
(* follows: flock has already dropped the exclusive mode.                  *)
Downgrade ==
  LET l == LifecycleLock(svc.uid) IN
  /\ svc.step = "downgrading"
  /\ \/ /\ Grantable(l, Service, "shared")
        /\ SetLock(l, Service, "shared")
        /\ guard' = [guard EXCEPT ![svc.uid] =
                       IF @ = "latched" THEN "latched" ELSE "shared"]
     \/ /\ ~Grantable(l, Service, "shared")
        /\ guard' = [guard EXCEPT ![svc.uid] = "busy"]
        /\ UNCHANGED locks
  /\ svc' = SvcRest
  /\ UNCHANGED <<fsVars, proc, retained, hard, blockers>>

(* Mutant: the failure drops the guard with the operation.                 *)
FenceForgotten ==
  /\ svc.step \in {"syncing", "downgrading", "upgrading", "proving", "unsynced"}
  /\ guard' = [guard EXCEPT ![svc.uid] = "none"]
  /\ svc' = SvcRest
  /\ UNCHANGED <<fsVars, locks, proc, retained, hard, blockers>>

(* Any failure after the marker was created, or while it is converted or   *)
(* removed, keeps what is held and latches until restart.                  *)
FenceFails ==
  /\ svc.step \in {"syncing", "downgrading", "upgrading", "proving", "unsynced"}
  /\ guard' = [guard EXCEPT ![svc.uid] = "deferred"]
  /\ hard' = hard \cup {svc.uid}
  /\ svc' = SvcRest
  /\ UNCHANGED <<fsVars, locks, proc, retained, blockers>>

----------------------------------------------------------------------------
(* Durable lease state, as far as the fence is concerned.                  *)

(* begin_acquire's second phase: under an unambiguous shared guard for the *)
(* profile still current in the configuration. An error from COMMIT leaves *)
(* the row in doubt and latches.                                           *)
CommitLease(u) ==
  /\ svc.phase = "ready" /\ svc.step = "none"
  /\ ~CleanupDeferred
  /\ guard[u] = "shared"
  /\ config[bound[u]].uid = u
  /\ \/ blockers' = blockers \cup {u} /\ UNCHANGED hard
     \/ blockers' \in {blockers, blockers \cup {u}} /\ hard' = hard \cup {u}
  /\ UNCHANGED <<fsVars, locks, proc, svc, guard, retained>>

(* A terminal commit, or recovery terminalizing a prior generation.        *)
ResolveLease(u) ==
  /\ svc.phase \in {"recovery", "ready"} /\ svc.step = "none"
  /\ u \in blockers
  /\ blockers' = blockers \ {u}
  /\ UNCHANGED <<fsVars, locks, proc, svc, guard, retained, hard>>

----------------------------------------------------------------------------
(* try_clear_profile_fence.                                                *)

BeginClear(u) ==
  /\ svc.phase \in {"recovery", "ready"} /\ svc.step = "none"
  /\ u \notin hard
  /\ guard[u] \in {"shared", "latched", "busy"}
  /\ SetLock(LifecycleLock(u), Service, "none")
  /\ svc' = SvcAt("upgrading", u, bound[u])
  /\ UNCHANGED <<fsVars, proc, guard, retained, hard, blockers>>

Upgrade ==
  LET l == LifecycleLock(svc.uid) IN
  /\ svc.step = "upgrading"
  /\ \/ /\ Grantable(l, Service, "exclusive")
        /\ SetLock(l, Service, "exclusive")
        /\ guard' = [guard EXCEPT ![svc.uid] = "exclusive"]
        /\ svc' = SvcAt("proving", svc.uid, svc.alias)
     \/ /\ ~Grantable(l, Service, "exclusive")
        /\ guard' = [guard EXCEPT ![svc.uid] = "busy"]
        /\ svc' = SvcRest
        /\ UNCHANGED locks
  /\ UNCHANGED <<fsVars, proc, retained, hard, blockers>>

(* prove_profile_blockers under the exclusive lifecycle lock: a blocked    *)
(* profile is downgraded, and so is one whose proof could not be read, its *)
(* cleanup latched; any other loses its marker.                            *)
ProveBlocked ==
  /\ svc.step = "proving"
  /\ \/ svc.uid \in blockers /\ UNCHANGED guard
     \/ guard' = [guard EXCEPT ![svc.uid] = "latched"]
  /\ SetLock(LifecycleLock(svc.uid), Service, "none")
  /\ svc' = SvcAt("downgrading", svc.uid, svc.alias)
  /\ UNCHANGED <<fsVars, proc, retained, hard, blockers>>

(* Mutant: the marker goes without a look at the blockers.                 *)
UnlinkUnproved ==
  /\ svc.step = "proving"
  /\ marker' = [marker EXCEPT ![svc.uid] = "unlinked"]
  /\ svc' = SvcAt("unsynced", svc.uid, svc.alias)
  /\ UNCHANGED <<config, retired, bound, locks, proc, guard, retained, hard, blockers>>

UnlinkMarker ==
  /\ svc.step = "proving"
  /\ svc.uid \notin blockers
  /\ marker' = [marker EXCEPT ![svc.uid] = "unlinked"]
  /\ svc' = SvcAt("unsynced", svc.uid, svc.alias)
  /\ UNCHANGED <<config, retired, bound, locks, proc, guard, retained, hard, blockers>>

RetainedLocks(u) ==
  {AliasLock(a) : a \in retained[u]} \cup {LifecycleLock(u)}

SyncUnlink ==
  LET u == svc.uid IN
  /\ svc.step = "unsynced"
  /\ marker' = [v \in Uids |->
                  IF marker[v] = "unlinked" THEN "absent" ELSE marker[v]]
  /\ guard' = [guard EXCEPT ![u] = "none"]
  /\ retained' = [retained EXCEPT ![u] = {}]
  /\ locks' = [l \in Locks |-> [locks[l] EXCEPT
                 ![Service] = IF l \in RetainedLocks(u) THEN "none" ELSE @]]
  /\ svc' = SvcRest
  /\ UNCHANGED <<config, retired, bound, proc, hard, blockers>>

----------------------------------------------------------------------------
(* Failures.                                                               *)

ServiceGone ==
  /\ svc' = SvcDown
  /\ guard' = [u \in Uids |-> "none"]
  /\ retained' = [u \in Uids |-> {}]
  /\ hard' = {}
  /\ UNCHANGED <<config, retired, bound, blockers>>

(* The service dies; a marker it was writing may be left torn.             *)
Crash ==
  /\ svc # SvcDown
  /\ ServiceGone
  /\ marker' \in [Uids -> MarkerStates]
  /\ \A u \in Uids :
       \/ marker'[u] = marker[u]
       \/ marker[u] = "dirty" /\ marker'[u] = "torn"
  /\ DropAll({Service})
  /\ UNCHANGED proc

(* Power loss ends every process; what was not synced may or may not have  *)
(* reached the disk.                                                       *)
PowerLoss ==
  /\ ServiceGone
  /\ marker' \in [Uids -> MarkerStates]
  /\ \A u \in Uids :
       marker'[u] \in
         CASE marker[u] = "dirty" -> {"absent", "torn", "durable"}
           [] marker[u] = "torn" -> {"absent", "torn"}
           [] marker[u] = "unlinked" -> {"absent", "durable"}
           [] OTHER -> {marker[u]}
  /\ DropAll(Holders)
  /\ proc' = [p \in Procs |-> Idle]

OrdinaryNext ==
  \E p \in Procs :
    \/ \E op \in Commands, a, to \in Aliases : Begin(p, op, a, to)
    \/ AcquireLock(p) \/ CheckMarker(p) \/ Use(p) \/ Leave(p)
    \/ EditProfile(p) \/ RenameProfile(p) \/ AddProfile(p)
    \/ RemoveProfile(p) \/ RestoreRemoved(p)

ServiceNext ==
  \/ OpenService \/ RecoverLock \/ RecoverFails \/ RecoverFences \/ IntoReady
  \/ \E u \in Uids :
       \/ \E a \in Aliases : Prepare(u, a)
       \/ CommitLease(u) \/ ResolveLease(u) \/ BeginClear(u)
  \/ PrepareLock \/ PrepareGivesUp \/ CreateMarker \/ SyncMarker \/ Downgrade
  \/ FenceFails \/ Upgrade \/ ProveBlocked \/ UnlinkMarker \/ SyncUnlink

Next == OrdinaryNext \/ ServiceNext \/ Crash \/ PowerLoss

Spec == Init /\ [][Next]_vars

----------------------------------------------------------------------------
(* Properties.                                                             *)

Using(p, u) == proc[p].at = "using" /\ proc[p].seen.uid = u

TypeOK ==
  /\ config \in Config
  /\ retired \subseteq Uids
  /\ marker \in [Uids -> MarkerStates]
  /\ bound \in [Uids -> Aliases \cup {"none"}]
  /\ locks \in [Locks -> [Holders -> Modes]]
  /\ proc \in [Procs -> Command \cup {Idle}]
  /\ svc \in Service0
  /\ guard \in [Uids -> Guards]
  /\ retained \in [Uids -> SUBSET Aliases]
  /\ hard \subseteq Uids
  /\ blockers \subseteq Uids

(* Unresolved lease state is always behind a marker that is on the disk:   *)
(* neither a crash of the service nor power loss, between any two steps of *)
(* preparing, committing, clearing or recovering, can leave a lease whose  *)
(* profile ordinary commands would take for free.                          *)
BlockersFenced == \A u \in blockers : marker[u] = "durable"

(* No ordinary command uses a profile with unresolved lease state, though  *)
(* the marker is only looked at once and the service may lose its          *)
(* lifecycle lock in a conversion.                                         *)
NoOverlap == \A p \in Procs, u \in blockers : ~Using(p, u)

(* The profile a lease was acquired for stays bound to the alias it was    *)
(* acquired under, whatever edits, renames and removals race with it.      *)
BlockersCurrent == \A u \in blockers : config[bound[u]].uid = u

(* A command that compared its profile with the configuration runs to its  *)
(* end on an entry that nobody edits, renames or removes meanwhile.        *)
UseFrozen ==
  \A p \in Procs :
    proc[p].at = "using" /\ proc[p].op # "doctor"
      => config[proc[p].alias] = proc[p].seen

(* When the cleanup after a removal fails, the rollback cannot: the alias  *)
(* is still free and the UID still retired.                                *)
RollbackPossible ==
  \A p \in Procs :
    proc[p].at = "removed"
      => config[proc[p].alias] = NoEntry /\ proc[p].seen.uid \in retired

(* A service that is ready never meets a marker it has no guard for, so    *)
(* the orphan-fence failure of create_new_marker needs outside interference*)
NoOrphanMet ==
  svc.phase = "ready" => \A u \in Uids : Present(u) => guard[u] # "none"

(* A fenced profile is frozen: while its marker is visible no step changes *)
(* its entry or its alias.                                                 *)
FencedFrozen ==
  [][\A u \in Uids : Present(u) /\ Present(u)' =>
       \A a \in Aliases :
         config[a].uid = u \/ config'[a].uid = u => config'[a] = config[a]]_vars

----------------------------------------------------------------------------
(* What makes them inductive.                                              *)

(* An exclusive mode excludes every other holder.                          *)
LocksExclude ==
  \A l \in Locks, g, h \in Holders :
    g # h /\ locks[l][g] = "exclusive" => locks[l][h] = "none"

(* A command past its one look at the marker still holds the lifecycle     *)
(* lock, and no marker has appeared since.                                 *)
CheckedUnfenced ==
  \A p \in Procs :
    /\ proc[p].at \in {"unfenced", "using", "removed"} /\ proc[p].op # "add"
         => /\ Holds(LifecycleLock(proc[p].seen.uid), p)
            /\ ~Present(proc[p].seen.uid)
    /\ proc[p].at = "using" => proc[p].op \in UseOps
    /\ proc[p].at = "removed" => proc[p].op = "remove"

(* The service holds a lifecycle lock only for a guard, for a preparation  *)
(* under way, which takes it exclusively, or while it recovers a marker.   *)
ServiceHolds ==
  /\ \A u \in Uids :
       Holds(LifecycleLock(u), Service) =>
         \/ guard[u] # "none"
         \/ svc.step = "locking" /\ svc.uid = u
         \/ svc.step = "recovering" /\ Present(u)
  /\ svc.step = "locking" =>
       /\ guard[svc.uid] = "none"
       /\ locks[LifecycleLock(svc.uid)][Service] \in {"none", "exclusive"}

(* The step of the fence operation in progress fixes its guard, and a      *)
(* ready service trusts only durable markers.                              *)
GuardStep ==
  /\ svc.step \notin {"none", "recovering"} =>
       svc.uid \in Uids /\ svc.alias \in Aliases
  /\ svc.step \in {"syncing", "proving", "unsynced"} =>
       guard[svc.uid] = "exclusive"
  /\ svc.step = "syncing" => marker[svc.uid] = "dirty"
  /\ svc.step = "recovering" => svc.phase = "down"
  /\ svc.phase = "down" =>
       /\ svc.step \in {"none", "recovering"}
       /\ \A u \in Uids : guard[u] = "none"
  /\ \A u \in Uids : guard[u] \in {"shared", "latched", "busy"} => Present(u)
  /\ svc.step \in {"upgrading", "proving", "downgrading"} => Present(svc.uid)
  /\ svc.phase = "ready" =>
       /\ \A u \in Uids :
            guard[u] \in {"shared", "latched", "busy"} => marker[u] = "durable"
       /\ svc.step \in {"upgrading", "proving", "downgrading"} =>
            marker[svc.uid] = "durable"
  /\ svc.phase # "ready" => svc.step # "locking"

(* A marker was written for a profile of the configuration, and the UID    *)
(* stays known even after the profile is removed.                          *)
MarkerKnown ==
  \A u \in Uids : marker[u] # "absent" =>
    /\ bound[u] \in Aliases
    /\ u \in retired \/ \E a \in Aliases : config[a].uid = u

IInv ==
  /\ TypeOK
  /\ LocksExclude
  /\ CheckedUnfenced
  /\ ServiceHolds
  /\ GuardStep
  /\ MarkerKnown
  /\ BlockersFenced
  /\ BlockersCurrent
============================================================================
