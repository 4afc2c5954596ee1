------------------------- MODULE ProfileFenceProofs -------------------------
(***************************************************************************)
(* ProfileFence: exclusion of ordinary use and frozen profiles, for any    *)
(* number of processes, aliases and profiles.                              *)
(***************************************************************************)
EXTENDS ProfileFence, TLAPS

LEMMA LockFacts ==
  /\ \A a \in Aliases : AliasLock(a) \in Locks
  /\ \A u \in Uids : LifecycleLock(u) \in Locks /\ ResourceLock(u) \in Locks
  /\ \A u, v \in Uids : LifecycleLock(u) = LifecycleLock(v) => u = v
  /\ \A a \in Aliases, u \in Uids : AliasLock(a) # LifecycleLock(u)
  /\ \A u, v \in Uids : ResourceLock(v) # LifecycleLock(u)
  BY DEF Locks, AliasLock, LifecycleLock, ResourceLock

(* The locks a command needs are locks.                                    *)
LEMMA NeededFacts ==
  ASSUME NEW c \in Command
  PROVE  /\ Needed(c) \subseteq Locks
         /\ c.op # "add" => LifecycleLock(c.seen.uid) \in Needed(c)
         /\ \A l : ModeFor(c, l) \in {"shared", "exclusive"}
  <1>1. /\ AliasLock(c.alias) \in Locks /\ AliasLock(c.to) \in Locks
        /\ LifecycleLock(c.seen.uid) \in Locks
        /\ ResourceLock(c.seen.uid) \in Locks
    BY LockFacts DEF Command, Entry
  <1>2. Needed(c) \subseteq Locks
    BY <1>1 DEF Needed
  <1>3. c.op # "add" => LifecycleLock(c.seen.uid) \in Needed(c)
    BY DEF Needed, Command, UseOps, EditOps
  <1>4. \A l : ModeFor(c, l) \in {"shared", "exclusive"}
    BY DEF ModeFor
  <1>5. QED
    BY <1>2, <1>3, <1>4

----------------------------------------------------------------------------
(* Types, action by action.                                                *)

LEMMA InitTypes == Init => TypeOK
  <1> SUFFICES ASSUME Init PROVE TypeOK
    OBVIOUS
  <1>1. config \in Config
    BY FenceConstants DEF Init, Config, Entry, NoEntry
  <1>2. svc \in Service0
    BY DEF Init, SvcDown, Service0, SvcSteps, NoConfig, Config
  <1>3. QED
    BY <1>1, <1>2 DEF Init, TypeOK, MarkerStates, Modes, Guards

LEMMA SvcTypes ==
  ASSUME svc \in Service0
  PROVE  /\ SvcRest \in Service0 /\ SvcDown \in Service0
         /\ \A s \in SvcSteps, u \in Uids \cup {"none"},
               a \in Aliases \cup {"none"} : SvcAt(s, u, a) \in Service0
         /\ SvcRest.phase = svc.phase /\ SvcRest.step = "none"
         /\ SvcDown.phase = "down" /\ SvcDown.step = "none"
         /\ \A s, u, a : /\ SvcAt(s, u, a).phase = svc.phase
                         /\ SvcAt(s, u, a).step = s
                         /\ SvcAt(s, u, a).uid = u
                         /\ SvcAt(s, u, a).alias = a
  <1>1. NoConfig \in Config
    BY DEF NoConfig, Config
  <1>2. QED
    BY <1>1 DEF SvcRest, SvcDown, SvcAt, Service0, SvcSteps

LEMMA LockTypes ==
  ASSUME locks \in [Locks -> [Holders -> Modes]]
  PROVE  /\ \A l \in Locks, h \in Holders, m \in Modes :
              [locks EXCEPT ![l][h] = m] \in [Locks -> [Holders -> Modes]]
         /\ \A hs : [l \in Locks |-> [h \in Holders |->
                       IF h \in hs THEN "none" ELSE locks[l][h]]]
                      \in [Locks -> [Holders -> Modes]]
         /\ \A ls : [l \in Locks |-> [locks[l] EXCEPT
                       ![Service] = IF l \in ls THEN "none" ELSE @]]
                      \in [Locks -> [Holders -> Modes]]
  BY DEF Modes, Holders

(* Ordinary commands keep the types.                                       *)
LEMMA OrdinaryTypes ==
  ASSUME TypeOK, GuardStep, NEW p \in Procs
  PROVE  /\ \A op \in Commands, a, to \in Aliases :
              Begin(p, op, a, to) => TypeOK'
         /\ AcquireLock(p) \/ CheckMarker(p) \/ Use(p) \/ Leave(p) => TypeOK'
         /\ EditProfile(p) \/ RenameProfile(p) \/ AddProfile(p) => TypeOK'
         /\ RemoveProfile(p) \/ RestoreRemoved(p) => TypeOK'
  <1> USE DEF TypeOK
  <1>1. proc[p] \in Command \cup {Idle} /\ p \in Holders
    BY DEF Holders
  <1>2. proc[p] \in Command => /\ proc[p].alias \in Aliases
                               /\ proc[p].to \in Aliases
                               /\ proc[p].seen \in Entry
                               /\ proc[p].seen.uid \in Uids
    BY DEF Command, Entry
  <1>3. proc[p].at # "idle" => proc[p] \in Command
    BY <1>1 DEF Idle
  <1>4. ASSUME NEW op \in Commands, NEW a \in Aliases, NEW to \in Aliases,
               Begin(p, op, a, to)
        PROVE  TypeOK'
    <2>1. \A e \in Entry, b \in Aliases :
            [op |-> op, at |-> "locking", alias |-> a, to |-> b, seen |-> e]
              \in Command
      BY FenceConstants DEF Command, UseOps, EditOps
    <2>2. config[a] # NoEntry => config[a] \in Entry
      BY DEF Config
    <2>3. proc' \in [Procs -> Command \cup {Idle}]
      BY <1>4, <2>1, <2>2 DEF Begin, Entry
    <2>4. QED
      BY <1>4, <2>3 DEF Begin, fsVars, svcVars
  <1>5. ASSUME AcquireLock(p) PROVE TypeOK'
    <2>1. proc[p] \in Command
      BY <1>3, <1>5 DEF AcquireLock
    <2>2. PICK l \in First(Missing(p)) : SetLock(l, p, ModeFor(proc[p], l))
      BY <1>5 DEF AcquireLock
    <2>3. l \in Locks /\ ModeFor(proc[p], l) \in Modes
      BY <2>1, <2>2, NeededFacts DEF First, Missing, Modes
    <2>4. locks' \in [Locks -> [Holders -> Modes]]
      BY <1>1, <2>2, <2>3, LockTypes DEF SetLock
    <2>5. QED
      BY <1>5, <2>4 DEF AcquireLock, fsVars, svcVars
  <1>6. ASSUME CheckMarker(p) \/ Use(p) PROVE TypeOK'
    <2>1. proc[p] \in Command
      BY <1>3, <1>6 DEF CheckMarker, Use
    <2>2. \A s \in {"unfenced", "using"} : [proc[p] EXCEPT !.at = s] \in Command
      BY <2>1 DEF Command
    <2>3. proc' \in [Procs -> Command \cup {Idle}]
      BY <1>6, <2>2 DEF CheckMarker, Use
    <2>4. QED
      BY <1>6, <2>3 DEF CheckMarker, Use, fsVars, svcVars
  <1>7. DropAll({p}) => locks' \in [Locks -> [Holders -> Modes]]
    BY LockTypes DEF DropAll
  <1>8. [proc EXCEPT ![p] = Idle] \in [Procs -> Command \cup {Idle}]
    OBVIOUS
  <1>9. ASSUME Leave(p) PROVE TypeOK'
    BY <1>7, <1>8, <1>9 DEF Leave, fsVars, svcVars
  <1>10. ASSUME EditProfile(p) \/ RenameProfile(p) \/ AddProfile(p)
         PROVE  TypeOK'
    <2>1. proc[p] \in Command
      BY <1>3, <1>10 DEF EditProfile, RenameProfile, AddProfile, UpdateAllowed
    <2>2. EditProfile(p) => config' \in Config
      <3>1. ASSUME EditProfile(p) PROVE config' \in Config
        <4>1. PICK r \in Revisions : config' = [config EXCEPT ![proc[p].alias].rev = r]
          BY <3>1 DEF EditProfile
        <4>2. config[proc[p].alias] \in Entry
          BY <1>2, <2>1, <3>1 DEF EditProfile, UpdateAllowed
        <4>3. [config[proc[p].alias] EXCEPT !.rev = r] \in Entry
          BY <4>2 DEF Entry
        <4>4. QED
          BY <4>1, <4>3 DEF Config
      <3>2. QED
        BY <3>1
    <2>3. RenameProfile(p) \/ AddProfile(p) => config' \in Config
      BY <1>2, <2>1 DEF RenameProfile, AddProfile, Config
    <2>4. QED
      BY <1>7, <1>8, <1>10, <2>2, <2>3
         DEF EditProfile, RenameProfile, AddProfile, svcVars
  <1>11. ASSUME RemoveProfile(p) PROVE TypeOK'
    <2>1. proc[p] \in Command
      BY <1>3, <1>11 DEF RemoveProfile, UpdateAllowed
    <2>2. [proc[p] EXCEPT !.at = "removed"] \in Command
      BY <2>1 DEF Command
    <2>3. proc' \in [Procs -> Command \cup {Idle}]
      BY <1>11, <2>2 DEF RemoveProfile
    <2>4. config' \in Config /\ retired' \subseteq Uids
      BY <1>2, <1>11, <2>1 DEF RemoveProfile, Config
    <2>5. QED
      BY <1>11, <2>3, <2>4 DEF RemoveProfile, svcVars
  <1>12. ASSUME RestoreRemoved(p) PROVE TypeOK'
    <2>1. proc[p] \in Command
      BY <1>3, <1>12 DEF RestoreRemoved
    <2>2. config' \in Config /\ retired' \subseteq Uids
      BY <1>2, <1>12, <2>1 DEF RestoreRemoved, Config
    <2>3. QED
      BY <1>7, <1>8, <1>12, <2>2 DEF RestoreRemoved, svcVars
  <1>13. QED
    BY <1>4, <1>5, <1>6, <1>9, <1>10, <1>11, <1>12
(* So does the service.                                                    *)
LEMMA ServiceTypes ==
  ASSUME TypeOK, GuardStep, MarkerKnown, ServiceNext
  PROVE  TypeOK'
  <1> USE DEF TypeOK
  <1>1. Service \in Holders
    BY DEF Holders
  <1>2. \A s \in SvcSteps, u \in Uids \cup {"none"}, a \in Aliases \cup {"none"} :
          SvcAt(s, u, a) \in Service0
    BY SvcTypes
  <1>3. SvcRest \in Service0 /\ SvcDown \in Service0
    BY SvcTypes
  <1>4. DropAll({Service}) => locks' \in [Locks -> [Holders -> Modes]]
    BY LockTypes DEF DropAll
  <1>5. \A u \in Uids, m \in Modes :
          SetLock(LifecycleLock(u), Service, m) =>
            locks' \in [Locks -> [Holders -> Modes]]
    BY <1>1, LockTypes, LockFacts DEF SetLock
  <1>6. svc.step \notin {"none", "recovering"} =>
          svc.uid \in Uids /\ svc.alias \in Aliases
    BY DEF GuardStep
  <1>7. ASSUME OpenService \/ RecoverFails \/ RecoverFences \/ IntoReady
        PROVE  TypeOK'
    <2>1. OpenService => svc' \in Service0
      BY DEF OpenService, Service0, SvcSteps
    <2>2. OpenService => retained' \in [Uids -> SUBSET Aliases]
      <3>1. ASSUME OpenService, NEW u \in Uids, Present(u)
            PROVE  {bound[u]} \cup RefsIn(config, u) \subseteq Aliases
        BY <3>1 DEF RefsIn, Present, MarkerKnown
      <3>2. QED
        BY <3>1 DEF OpenService
    <2>3. OpenService => TypeOK'
      BY <2>1, <2>2 DEF OpenService, fsVars
    <2>4. RecoverFails => TypeOK'
      BY <1>3, <1>4 DEF RecoverFails, fsVars
    <2>5. RecoverFences => TypeOK'
      BY <1>3 DEF RecoverFences, fsVars, Guards, Service0
    <2>6. IntoReady => TypeOK'
      BY DEF IntoReady, fsVars, Service0
    <2>7. QED
      BY <1>7, <2>3, <2>4, <2>5, <2>6
  <1>8. ASSUME RecoverLock \/ PrepareLock PROVE TypeOK'
    <2>1. RecoverLock => locks' \in [Locks -> [Holders -> Modes]]
      <3>1. RecoveryLocks \subseteq Locks
        BY LockFacts DEF RecoveryLocks, Fenced
      <3>2. QED
        BY <1>1, <3>1, LockTypes DEF RecoverLock, SetLock, First, Modes
    <2>2. PrepareLock => locks' \in [Locks -> [Holders -> Modes]]
      BY <1>1, <1>6, LockTypes, LockFacts
         DEF PrepareLock, PrepareLocks, SetLock, First, Modes
    <2>3. QED
      BY <1>8, <2>1, <2>2 DEF RecoverLock, PrepareLock, fsVars, svcVars
  <1>9. ASSUME NEW u \in Uids,
               \/ \E a \in Aliases : Prepare(u, a)
               \/ CommitLease(u) \/ ResolveLease(u)
        PROVE  TypeOK'
    BY <1>2, <1>9 DEF Prepare, CommitLease, ResolveLease, fsVars, SvcSteps
  <1>10. ASSUME NEW u \in Uids, BeginClear(u) PROVE TypeOK'
    BY <1>2, <1>5, <1>10 DEF BeginClear, fsVars, SvcSteps, Modes
  <1>11. ASSUME PrepareGivesUp PROVE TypeOK'
    <2>1. locks' \in [Locks -> [Holders -> Modes]]
      BY <1>11, LockTypes DEF PrepareGivesUp
    <2>2. QED
      BY <1>3, <1>11, <2>1 DEF PrepareGivesUp, fsVars
  <1>12. ASSUME CreateMarker PROVE TypeOK'
    BY <1>2, <1>6, <1>12 DEF CreateMarker, MarkerStates, Guards, SvcSteps
  <1>13. ASSUME SyncMarker PROVE TypeOK'
    BY <1>2, <1>5, <1>6, <1>13 DEF SyncMarker, MarkerStates, SvcSteps, Modes
  <1>14. ASSUME Downgrade PROVE TypeOK'
    BY <1>3, <1>5, <1>6, <1>14 DEF Downgrade, fsVars, Guards, Modes
  <1>15. ASSUME FenceFails PROVE TypeOK'
    BY <1>3, <1>6, <1>15 DEF FenceFails, fsVars, Guards
  <1>16. ASSUME Upgrade PROVE TypeOK'
    BY <1>2, <1>3, <1>5, <1>6, <1>16 DEF Upgrade, fsVars, Guards, SvcSteps, Modes
  <1>17. ASSUME ProveBlocked PROVE TypeOK'
    BY <1>2, <1>5, <1>6, <1>17 DEF ProveBlocked, fsVars, Guards, SvcSteps, Modes
  <1>18. ASSUME UnlinkMarker PROVE TypeOK'
    BY <1>2, <1>6, <1>18 DEF UnlinkMarker, MarkerStates, SvcSteps
  <1>19. ASSUME SyncUnlink PROVE TypeOK'
    <2>1. locks' \in [Locks -> [Holders -> Modes]]
      BY <1>19, LockTypes DEF SyncUnlink
    <2>2. QED
      BY <1>3, <1>6, <1>19, <2>1 DEF SyncUnlink, MarkerStates, Guards
  <1>20. QED
    BY <1>7, <1>8, <1>9, <1>10, <1>11, <1>12, <1>13, <1>14, <1>15, <1>16,
       <1>17, <1>18, <1>19 DEF ServiceNext

LEMMA FailureTypes ==
  ASSUME TypeOK, Crash \/ PowerLoss
  PROVE  TypeOK'
  <1>1. svc' \in Service0
    BY SvcTypes DEF TypeOK, Crash, PowerLoss, ServiceGone
  <1>2. locks' \in [Locks -> [Holders -> Modes]]
    BY LockTypes DEF TypeOK, Crash, PowerLoss, DropAll
  <1>3. QED
    BY <1>1, <1>2 DEF TypeOK, Crash, PowerLoss, ServiceGone, Guards

----------------------------------------------------------------------------
(* Locks: a step grants one lock that was grantable or lowers modes.       *)

Grants(h) ==
  \E l \in Locks, m \in {"shared", "exclusive"} :
    Grantable(l, h, m) /\ locks' = [locks EXCEPT ![l][h] = m]

Lowers(hs) ==
  \A l \in Locks, h \in Holders :
    locks'[l][h] = locks[l][h] \/ (h \in hs /\ locks'[l][h] = "none")

LEMMA OrdinaryLocks ==
  ASSUME TypeOK, NEW p \in Procs,
         \/ \E op \in Commands, a, to \in Aliases : Begin(p, op, a, to)
         \/ AcquireLock(p) \/ CheckMarker(p) \/ Use(p) \/ Leave(p)
         \/ EditProfile(p) \/ RenameProfile(p) \/ AddProfile(p)
         \/ RemoveProfile(p) \/ RestoreRemoved(p)
  PROVE  Grants(p) \/ Lowers({p})
  <1>1. CASE AcquireLock(p)
    <2>1. proc[p] \in Command
      BY <1>1 DEF AcquireLock, TypeOK, Idle
    <2>2. PICK l \in First(Missing(p)) :
            /\ Grantable(l, p, ModeFor(proc[p], l))
            /\ SetLock(l, p, ModeFor(proc[p], l))
      BY <1>1 DEF AcquireLock
    <2>3. l \in Locks /\ ModeFor(proc[p], l) \in {"shared", "exclusive"}
      BY <2>1, <2>2, NeededFacts DEF First, Missing
    <2>4. QED
      BY <2>2, <2>3 DEF Grants, SetLock
  <1>2. CASE DropAll({p})
    BY <1>2 DEF DropAll, Lowers
  <1>3. CASE UNCHANGED locks
    BY <1>3 DEF Lowers
  <1>4. QED
    BY <1>1, <1>2, <1>3 DEF Begin, CheckMarker, Use, Leave, EditProfile,
       RenameProfile, AddProfile, RemoveProfile, RestoreRemoved

LEMMA ServiceLocks ==
  ASSUME TypeOK, GuardStep, ServiceNext
  PROVE  Grants(Service) \/ Lowers({Service})
  <1>1. svc.step \notin {"none", "recovering"} =>
          svc.uid \in Uids /\ svc.alias \in Aliases
    BY DEF GuardStep
  <1>2. CASE UNCHANGED locks
    BY <1>2 DEF Lowers
  <1>3. ASSUME NEW u \in Uids, SetLock(LifecycleLock(u), Service, "none")
        PROVE  Lowers({Service})
    BY <1>3, LockFacts DEF SetLock, Lowers, TypeOK
  <1>4. CASE DropAll({Service})
    BY <1>4 DEF DropAll, Lowers
  <1>5. CASE RecoverLock
    <2>1. RecoveryLocks \subseteq Locks
      BY LockFacts DEF RecoveryLocks, Fenced, TypeOK
    <2>2. QED
      BY <1>5, <2>1 DEF RecoverLock, Grants, SetLock, First
  <1>6. CASE PrepareLock
    <2>1. PrepareLocks \subseteq Locks
      BY <1>1, <1>6, LockFacts DEF PrepareLock, PrepareLocks
    <2>2. QED
      BY <1>6, <2>1 DEF PrepareLock, Grants, SetLock, First
  <1>7. CASE PrepareGivesUp \/ SyncUnlink
    BY <1>7 DEF PrepareGivesUp, SyncUnlink, Lowers, TypeOK
  <1>8. CASE Downgrade
    BY <1>1, <1>2, <1>8, LockFacts DEF Downgrade, Grants, SetLock
  <1>9. CASE Upgrade
    BY <1>1, <1>2, <1>9, LockFacts DEF Upgrade, Grants, SetLock
  <1>10. CASE SyncMarker \/ ProveBlocked
    BY <1>1, <1>3, <1>10 DEF SyncMarker, ProveBlocked
  <1>11. CASE \E u \in Uids : BeginClear(u)
    BY <1>3, <1>11 DEF BeginClear
  <1>12. CASE \/ OpenService \/ RecoverFences \/ IntoReady
              \/ CreateMarker \/ FenceFails \/ UnlinkMarker
              \/ \E u \in Uids : \/ \E a \in Aliases : Prepare(u, a)
                                 \/ CommitLease(u) \/ ResolveLease(u)
    <2>1. UNCHANGED locks
      BY <1>12 DEF OpenService, RecoverFences, IntoReady, CreateMarker,
         FenceFails, UnlinkMarker, Prepare, CommitLease, ResolveLease
    <2>2. QED
      BY <1>2, <2>1
  <1>13. CASE RecoverFails
    BY <1>4, <1>13 DEF RecoverFails
  <1>14. QED
    BY <1>5, <1>6, <1>7, <1>8, <1>9, <1>10, <1>11, <1>12, <1>13
       DEF ServiceNext

LEMMA LocksStayExclusive ==
  ASSUME TypeOK, GuardStep, LocksExclude, Next
  PROVE  LocksExclude'
  <1>1. ASSUME NEW h \in Holders, Grants(h) PROVE LocksExclude'
    <2>1. PICK l \in Locks, m \in {"shared", "exclusive"} :
            Grantable(l, h, m) /\ locks' = [locks EXCEPT ![l][h] = m]
      BY <1>1 DEF Grants
    <2>2. \A k \in Locks, g \in Holders :
            locks'[k][g] = IF k = l /\ g = h THEN m ELSE locks[k][g]
      BY <2>1 DEF TypeOK
    <2>3. \A g \in Holders \ {h} :
            /\ m = "exclusive" => locks[l][g] = "none"
            /\ locks[l][g] # "exclusive"
      BY <2>1 DEF Grantable
    <2>4. QED
      BY <2>2, <2>3 DEF LocksExclude
  <1>2. ASSUME NEW hs, Lowers(hs) PROVE LocksExclude'
    BY <1>2 DEF Lowers, LocksExclude
  <1>3. CASE OrdinaryNext
    BY <1>1, <1>2, <1>3, OrdinaryLocks DEF OrdinaryNext, Holders
  <1>4. CASE ServiceNext
    BY <1>1, <1>2, <1>4, ServiceLocks DEF Holders
  <1>5. CASE Crash \/ PowerLoss
    <2>1. Lowers(Holders)
      BY <1>5 DEF Crash, PowerLoss, DropAll, Lowers, Holders
    <2>2. QED
      BY <1>2, <2>1
  <1>6. QED
    BY <1>3, <1>4, <1>5 DEF Next
----------------------------------------------------------------------------
(* What an ordinary step leaves alone, and what a service step may do to   *)
(* an ordinary process.                                                    *)

OrdinaryStep(p) ==
  \/ \E op \in Commands, a, to \in Aliases : Begin(p, op, a, to)
  \/ AcquireLock(p) \/ CheckMarker(p) \/ Use(p) \/ Leave(p)
  \/ EditProfile(p) \/ RenameProfile(p) \/ AddProfile(p)
  \/ RemoveProfile(p) \/ RestoreRemoved(p)

LEMMA OrdinaryFrame ==
  ASSUME TypeOK, NEW p \in Procs, OrdinaryStep(p)
  PROVE  /\ UNCHANGED <<marker, bound, svcVars>>
         /\ \A l \in Locks, h \in Holders \ {p} : locks'[l][h] = locks[l][h]
         /\ \A q \in Procs \ {p} : proc'[q] = proc[q]
  <1>1. Grants(p) \/ Lowers({p})
    BY OrdinaryLocks DEF OrdinaryStep
  <1>2. \A l \in Locks, h \in Holders \ {p} : locks'[l][h] = locks[l][h]
    BY <1>1 DEF Grants, Lowers, TypeOK
  <1>3. UNCHANGED <<marker, bound, svcVars>>
    BY DEF OrdinaryStep, Begin, AcquireLock, CheckMarker, Use, Leave,
       EditProfile, RenameProfile, AddProfile, RemoveProfile, RestoreRemoved,
       fsVars
  <1>4. \A q \in Procs \ {p} : proc'[q] = proc[q]
    BY DEF OrdinaryStep, Begin, AcquireLock, CheckMarker, Use, Leave,
       EditProfile, RenameProfile, AddProfile, RemoveProfile, RestoreRemoved,
       TypeOK
  <1>5. QED
    BY <1>2, <1>3, <1>4

LEMMA ServiceFrame ==
  ASSUME TypeOK, GuardStep, ServiceNext
  PROVE  /\ UNCHANGED <<config, retired, proc>>
         /\ \A l \in Locks, p \in Procs : locks'[l][p] = locks[l][p]
  <1>1. Grants(Service) \/ Lowers({Service})
    BY ServiceLocks
  <1>2. \A l \in Locks, p \in Procs : locks'[l][p] = locks[l][p]
    BY <1>1, FenceConstants DEF Grants, Lowers, TypeOK, Holders
  <1>3. UNCHANGED <<config, retired, proc>>
    BY DEF ServiceNext, OpenService, RecoverLock, RecoverFails, RecoverFences,
       IntoReady, Prepare, CommitLease, ResolveLease, BeginClear, PrepareLock,
       PrepareGivesUp, CreateMarker, SyncMarker, Downgrade, FenceFails,
       Upgrade, ProveBlocked, UnlinkMarker, SyncUnlink, fsVars
  <1>4. QED
    BY <1>2, <1>3

(* Only CreateMarker makes a marker appear while processes run.            *)
LEMMA MarkerAppears ==
  ASSUME TypeOK, GuardStep, ServiceNext, NEW u \in Uids,
         ~Present(u), Present(u)'
  PROVE  CreateMarker /\ u = svc.uid
  <1>1. CASE UNCHANGED marker
    BY <1>1 DEF Present
  <1>2. CASE SyncMarker
    BY <1>2 DEF SyncMarker, Present, GuardStep, TypeOK
  <1>3. CASE CreateMarker \/ UnlinkMarker \/ SyncUnlink
    BY <1>3 DEF CreateMarker, UnlinkMarker, SyncUnlink, Present, TypeOK
  <1>4. QED
    BY <1>1, <1>2, <1>3
       DEF ServiceNext, OpenService, RecoverLock, RecoverFails, RecoverFences,
       IntoReady, Prepare, CommitLease, ResolveLease, BeginClear, PrepareLock,
       PrepareGivesUp, Downgrade, FenceFails,
       Upgrade, ProveBlocked, fsVars

(* A marker appears only under the exclusive lifecycle lock of its UID.    *)
LEMMA AppearsExclusively ==
  ASSUME TypeOK, GuardStep, ServiceHolds, CreateMarker
  PROVE  svc.uid \in Uids /\ locks[LifecycleLock(svc.uid)][Service] = "exclusive"
  BY DEF CreateMarker, PrepareLocks, Holds, ServiceHolds, GuardStep

(* A command past its check keeps its lock and stays unfenced.             *)
LEMMA CheckStays ==
  ASSUME TypeOK, GuardStep, LocksExclude, ServiceHolds, CheckedUnfenced, Next
  PROVE  CheckedUnfenced'
  <1> DEFINE Checked(q) ==
        /\ proc[q].at \in {"unfenced", "using", "removed"} /\ proc[q].op # "add"
             => /\ Holds(LifecycleLock(proc[q].seen.uid), q)
                /\ ~Present(proc[q].seen.uid)
        /\ proc[q].at = "using" => proc[q].op \in UseOps
        /\ proc[q].at = "removed" => proc[q].op = "remove"
  <1>1. \A q \in Procs : Checked(q)
    BY DEF CheckedUnfenced
  <1>2. ASSUME NEW q \in Procs, proc[q].at # "idle"
        PROVE  /\ proc[q] \in Command /\ proc[q].seen.uid \in Uids
               /\ LifecycleLock(proc[q].seen.uid) \in Locks /\ q \in Holders
    <2>1. proc[q] \in Command
      BY <1>2 DEF TypeOK, Idle
    <2>2. proc[q].seen.uid \in Uids
      BY <2>1 DEF Command, Entry
    <2>3. QED
      BY <2>1, <2>2, LockFacts DEF Holders
  <1>3. ASSUME NEW p \in Procs, OrdinaryStep(p) PROVE CheckedUnfenced'
    <2>1. /\ UNCHANGED marker
          /\ \A l \in Locks, h \in Holders \ {p} : locks'[l][h] = locks[l][h]
          /\ \A q \in Procs \ {p} : proc'[q] = proc[q]
      BY <1>3, OrdinaryFrame
    <2>2. ASSUME NEW q \in Procs \ {p} PROVE Checked(q)'
      BY <1>1, <1>2, <2>1 DEF Holds, Present, Idle
    <2>3. Checked(p)'
      <3>1. CASE AcquireLock(p)
        <4>1. proc'[p].at = "locking"
          BY <3>1 DEF AcquireLock
        <4>2. QED
          BY <4>1
      <3>2. CASE CheckMarker(p)
        <4>1. proc[p].at = "locking" /\ proc'[p] = [proc[p] EXCEPT !.at = "unfenced"]
          BY <3>2 DEF CheckMarker, TypeOK
        <4>2. proc[p] \in Command
          BY <1>2, <4>1
        <4>3. proc'[p].at = "unfenced" /\ proc'[p].op = proc[p].op
              /\ proc'[p].seen = proc[p].seen
          BY <4>1, <4>2 DEF Command
        <4>4. proc[p].op # "add" => LifecycleLock(proc[p].seen.uid) \in Needed(proc[p])
          BY <4>2, NeededFacts
        <4>5. proc[p].op # "add" => /\ Holds(LifecycleLock(proc[p].seen.uid), p)
                                    /\ ~Present(proc[p].seen.uid)
          BY <3>2, <4>4 DEF CheckMarker, Missing
        <4>6. UNCHANGED locks
          BY <3>2 DEF CheckMarker
        <4>7. QED
          BY <2>1, <4>3, <4>5, <4>6 DEF Holds, Present
      <3>3. CASE Use(p)
        <4>1. /\ proc[p].at = "unfenced" /\ proc[p].op \in UseOps
              /\ proc'[p] = [proc[p] EXCEPT !.at = "using"] /\ UNCHANGED locks
          BY <3>3 DEF Use, TypeOK
        <4>2. proc[p] \in Command
          BY <1>2, <4>1
        <4>3. proc'[p].at = "using" /\ proc'[p].op = proc[p].op
              /\ proc'[p].seen = proc[p].seen
          BY <4>1, <4>2 DEF Command
        <4>4. QED
          BY <1>1, <2>1, <4>1, <4>3 DEF Holds, Present
      <3>4. CASE RemoveProfile(p)
        <4>1. /\ proc[p].at = "unfenced" /\ proc[p].op = "remove"
              /\ proc'[p] = [proc[p] EXCEPT !.at = "removed"] /\ UNCHANGED locks
          BY <3>4 DEF RemoveProfile, UpdateAllowed, TypeOK
        <4>2. proc[p] \in Command
          BY <1>2, <4>1
        <4>3. proc'[p].at = "removed" /\ proc'[p].op = proc[p].op
              /\ proc'[p].seen = proc[p].seen
          BY <4>1, <4>2 DEF Command
        <4>4. QED
          BY <1>1, <2>1, <4>1, <4>3 DEF Holds, Present
      <3>5. CASE proc'[p] = Idle
        BY <3>5 DEF Idle
      <3>6. CASE \E op \in Commands, a, to \in Aliases : Begin(p, op, a, to)
        <4>1. proc'[p].at = "locking"
          BY <3>6 DEF Begin, TypeOK
        <4>2. QED
          BY <4>1
      <3>7. QED
        BY <1>3, <3>1, <3>2, <3>3, <3>4, <3>5, <3>6
           DEF OrdinaryStep, Leave, EditProfile, RenameProfile, AddProfile,
               RestoreRemoved, TypeOK
    <2>4. QED
      BY <2>2, <2>3 DEF CheckedUnfenced
  <1>4. ASSUME ServiceNext PROVE CheckedUnfenced'
    <2>1. /\ UNCHANGED proc
          /\ \A l \in Locks, q \in Procs : locks'[l][q] = locks[l][q]
      BY <1>4, ServiceFrame
    <2>2. ASSUME NEW q \in Procs PROVE Checked(q)'
      <3>1. CASE proc[q].at = "idle"
        BY <2>1, <3>1
      <3>2. ASSUME NEW u \in Uids, proc[q].at # "idle", u = proc[q].seen.uid,
                   Present(u)', ~Present(u)
            PROVE  Checked(q)'
        <4>1. CreateMarker /\ u = svc.uid
          BY <1>4, <3>2, MarkerAppears
        <4>2. locks[LifecycleLock(u)][Service] = "exclusive"
          BY <4>1, AppearsExclusively
        <4>3. ~Holds(LifecycleLock(u), q)
          BY <1>2, <3>2, <4>2, FenceConstants DEF LocksExclude, Holders, Holds
        <4>4. QED
          BY <1>1, <2>1, <3>2, <4>3
      <3>3. ASSUME NEW u \in Uids, proc[q].at # "idle", u = proc[q].seen.uid,
                   Present(u)' => Present(u)
            PROVE  Checked(q)'
        <4>1. proc'[q] = proc[q] /\ UNCHANGED proc
          BY <2>1
        <4>2. Holds(LifecycleLock(u), q) => Holds(LifecycleLock(u), q)'
          BY <1>2, <2>1, <3>3 DEF Holds
        <4>3. ~Present(u) => ~Present(u)'
          BY <3>3
        <4>4. QED
          BY <1>1, <3>3, <4>1, <4>2, <4>3 DEF Holds, Present
      <3>4. QED
        BY <1>2, <3>1, <3>2, <3>3
    <2>3. QED
      BY <2>2 DEF CheckedUnfenced
  <1>5. ASSUME Crash PROVE CheckedUnfenced'
    <2>1. UNCHANGED proc /\ \A u \in Uids : Present(u)' => Present(u)
      BY <1>5 DEF Crash, Present, TypeOK
    <2>2. \A l \in Locks, q \in Procs : locks'[l][q] = locks[l][q]
      BY <1>5, FenceConstants DEF Crash, DropAll, Holders, TypeOK
    <2>3. ASSUME NEW q \in Procs PROVE Checked(q)'
      BY <1>1, <1>2, <2>1, <2>2 DEF Holds
    <2>4. QED
      BY <2>3 DEF CheckedUnfenced
  <1>6. ASSUME PowerLoss PROVE CheckedUnfenced'
    BY <1>6 DEF PowerLoss, CheckedUnfenced, Idle
  <1>7. QED
    BY <1>3, <1>4, <1>5, <1>6 DEF Next, OrdinaryNext, OrdinaryStep

----------------------------------------------------------------------------
(* The service's own bookkeeping.                                          *)

(* Steps of ordinary processes leave the bookkeeping to the service.       *)
LEMMA GuardStays ==
  ASSUME TypeOK, GuardStep, MarkerKnown, Next
  PROVE  GuardStep'
  <1>1. CASE OrdinaryNext
    <2>1. PICK p \in Procs : OrdinaryStep(p)
      BY <1>1 DEF OrdinaryNext, OrdinaryStep
    <2>2. UNCHANGED <<marker, svc, guard>>
      BY <2>1, OrdinaryFrame DEF svcVars
    <2>3. QED
      BY <2>2 DEF GuardStep, Present
  <1>2. CASE Crash \/ PowerLoss
    <2>1. svc' = SvcDown /\ \A u \in Uids : guard'[u] = "none"
      BY <1>2 DEF Crash, PowerLoss, ServiceGone
    <2>2. svc'.phase = "down" /\ svc'.step = "none"
      BY <2>1 DEF SvcDown
    <2>3. QED
      BY <2>1, <2>2 DEF GuardStep, Present
  <1>3. CASE ServiceNext
    <2>1. /\ SvcRest.phase = svc.phase /\ SvcRest.step = "none"
          /\ SvcDown.phase = "down" /\ SvcDown.step = "none"
          /\ \A s, u, a : /\ SvcAt(s, u, a).phase = svc.phase
                          /\ SvcAt(s, u, a).step = s
                          /\ SvcAt(s, u, a).uid = u
                          /\ SvcAt(s, u, a).alias = a
      BY SvcTypes DEF TypeOK
    <2>2. CASE UNCHANGED <<marker, svc, guard>>
      BY <2>2 DEF GuardStep, Present
    <2>3. CASE OpenService
      <3>1. svc' = [SvcDown EXCEPT !.step = "recovering", !.before = config]
        BY <2>3 DEF OpenService
      <3>2. /\ svc'.phase = "down" /\ svc'.step = "recovering"
            /\ svc.phase = "down" /\ UNCHANGED <<marker, guard>>
        BY <2>3, <3>1 DEF OpenService, SvcDown, fsVars
      <3>3. QED
        BY <3>2 DEF GuardStep, Present
    <2>4. CASE RecoverFails
      BY <2>1, <2>4 DEF RecoverFails, fsVars, GuardStep, Present
    <2>5. CASE RecoverFences
      <3>1. svc'.phase = "recovery" /\ svc'.step = "none"
        BY <2>5 DEF RecoverFences, SvcDown
      <3>2. QED
        BY <2>5, <3>1 DEF RecoverFences, GuardStep, Present, fsVars
    <2>6. CASE IntoReady
      <3>1. /\ svc'.phase = "ready" /\ svc'.step = "none"
            /\ UNCHANGED <<marker, guard>> /\ \A u \in Uids : guard[u] = "none"
        BY <2>6 DEF IntoReady, fsVars, TypeOK, Service0
      <3>2. QED
        BY <3>1 DEF GuardStep, Present
    <2>7. ASSUME NEW u \in Uids, NEW a \in Aliases, Prepare(u, a)
          PROVE  GuardStep'
      BY <2>1, <2>7 DEF Prepare, fsVars, GuardStep, Present
    <2>8. ASSUME NEW u \in Uids, CommitLease(u) \/ ResolveLease(u)
          PROVE  GuardStep'
      BY <2>2, <2>8 DEF CommitLease, ResolveLease, fsVars
    <2>9. ASSUME NEW u \in Uids, BeginClear(u) PROVE GuardStep'
      BY <2>1, <2>9 DEF BeginClear, fsVars, GuardStep, MarkerKnown, Present
    <2>10. CASE PrepareGivesUp
      BY <2>1, <2>10 DEF PrepareGivesUp, fsVars, GuardStep, Present
    <2>11. CASE CreateMarker
      BY <2>1, <2>11 DEF CreateMarker, Present, GuardStep, TypeOK
    <2>12. CASE SyncMarker
      BY <2>1, <2>12 DEF SyncMarker, Present, GuardStep, TypeOK
    <2>13. CASE Downgrade
      <3>1. guard' \in [Uids -> Guards]
            /\ \A v \in Uids : v # svc.uid => guard'[v] = guard[v]
        BY <2>13 DEF Downgrade, TypeOK, Guards
      <3>2. svc' = SvcRest /\ UNCHANGED marker /\ svc.uid \in Uids
            /\ svc.phase # "down"
        BY <2>13 DEF Downgrade, fsVars, GuardStep, Present
      <3>3. QED
        BY <2>1, <2>13, <3>1, <3>2 DEF GuardStep, Present, Downgrade
    <2>14. CASE FenceFails
      BY <2>1, <2>14 DEF FenceFails, fsVars, GuardStep, Present, TypeOK
    <2>15. CASE Upgrade
      <3>1. svc'.phase = svc.phase /\ svc.phase # "down" /\ UNCHANGED marker
        BY <2>1, <2>15 DEF Upgrade, fsVars, GuardStep, Present
      <3>2. svc.uid \in Uids /\ svc.alias \in Aliases
        BY <2>15 DEF Upgrade, GuardStep
      <3>3. QED
        BY <2>1, <2>15, <3>1, <3>2 DEF GuardStep, Present, Upgrade, TypeOK
    <2>16. CASE ProveBlocked
      BY <2>1, <2>16 DEF ProveBlocked, fsVars, GuardStep, Present, TypeOK
    <2>17. CASE UnlinkMarker
      BY <2>1, <2>17 DEF UnlinkMarker, Present, GuardStep, TypeOK
    <2>18. CASE SyncUnlink
      BY <2>1, <2>18 DEF SyncUnlink, Present, GuardStep, TypeOK
    <2>19. CASE RecoverLock \/ PrepareLock
      BY <2>2, <2>19 DEF RecoverLock, PrepareLock, fsVars, svcVars
    <2>20. QED
      BY <1>3, <2>3, <2>4, <2>5, <2>6, <2>7, <2>8, <2>9, <2>10, <2>11, <2>12,
         <2>13, <2>14, <2>15, <2>16, <2>17, <2>18, <2>19 DEF ServiceNext
  <1>4. QED
    BY <1>1, <1>2, <1>3 DEF Next

(* The service's lifecycle locks stay accounted for.                       *)
LEMMA HoldsStays ==
  ASSUME TypeOK, GuardStep, ServiceHolds, Next
  PROVE  ServiceHolds'
  <1> DEFINE Mode(u) == locks[LifecycleLock(u)][Service]
             Accounted(u) == \/ guard[u] # "none"
                             \/ svc.step = "locking" /\ svc.uid = u
                             \/ svc.step = "recovering" /\ Present(u)
  <1>1. \A u \in Uids : Mode(u) # "none" => Accounted(u)
    BY DEF ServiceHolds, Holds
  <1>2. Service \in Holders /\ \A u \in Uids : LifecycleLock(u) \in Locks
    BY LockFacts DEF Holders
  <1>3. \A m : \A u, v \in Uids :
          SetLock(LifecycleLock(u), Service, m) =>
            Mode(v)' = IF u = v THEN m ELSE Mode(v)
    BY <1>2, LockFacts DEF SetLock, TypeOK
  <1>4. ASSUME UNCHANGED <<svc, guard, marker>>,
               \A u \in Uids : Mode(u)' = Mode(u)
        PROVE  ServiceHolds'
    BY <1>4, <1>1 DEF ServiceHolds, Holds, Present, GuardStep
  <1>5. CASE OrdinaryNext
    <2>1. PICK p \in Procs : OrdinaryStep(p)
      BY <1>5 DEF OrdinaryNext, OrdinaryStep
    <2>2. UNCHANGED <<marker, svc, guard>>
      BY <2>1, OrdinaryFrame DEF svcVars
    <2>3. \A u \in Uids : Mode(u)' = Mode(u)
      BY <1>2, <2>1, OrdinaryFrame, FenceConstants
    <2>4. QED
      BY <1>4, <2>2, <2>3
  <1>6. CASE Crash \/ PowerLoss
    <2>1. svc'.step = "none"
      BY <1>6 DEF Crash, PowerLoss, ServiceGone, SvcDown
    <2>2. \A u \in Uids : Mode(u)' = "none"
      BY <1>2, <1>6 DEF Crash, PowerLoss, DropAll
    <2>3. QED
      BY <2>1, <2>2 DEF ServiceHolds, Holds
  <1>7. CASE ServiceNext
    <2>1. /\ SvcRest.phase = svc.phase /\ SvcRest.step = "none"
          /\ SvcDown.phase = "down" /\ SvcDown.step = "none"
          /\ \A s, u, a : /\ SvcAt(s, u, a).step = s
                          /\ SvcAt(s, u, a).uid = u
      BY SvcTypes DEF TypeOK
    <2>2. svc.step \notin {"none", "recovering"} => svc.uid \in Uids
      BY DEF GuardStep
    <2>3. CASE OpenService
      <3>1. svc.step = "none" /\ svc'.step = "recovering"
        BY <2>3 DEF OpenService, SvcDown
      <3>2. UNCHANGED <<locks, guard>>
        BY <2>3 DEF OpenService
      <3>3. QED
        BY <1>1, <3>1, <3>2 DEF ServiceHolds, Holds
    <2>4. CASE RecoverLock
      <3>1. PICK l \in RecoveryLocks, m \in Modes : SetLock(l, Service, m)
        BY <2>4 DEF RecoverLock, First, Modes
      <3>2. UNCHANGED <<svc, guard, marker>> /\ svc.step = "recovering"
        BY <2>4 DEF RecoverLock, fsVars, svcVars
      <3>3. l \in {AliasLock(a) : a \in Aliases}
              \/ \E u \in Uids : Present(u) /\ l = LifecycleLock(u)
        BY <3>1 DEF RecoveryLocks, Fenced, TypeOK
      <3>4. \A u \in Uids : Mode(u)' = Mode(u) \/ Present(u)
        <4>1. CASE l \in {AliasLock(a) : a \in Aliases}
          BY <1>2, <3>1, <4>1, LockFacts DEF SetLock, TypeOK
        <4>2. CASE \E u \in Uids : Present(u) /\ l = LifecycleLock(u)
          BY <1>3, <3>1, <4>2
        <4>3. QED
          BY <3>3, <4>1, <4>2
      <3>5. QED
        BY <1>1, <3>2, <3>4 DEF ServiceHolds, Holds, Present
    <2>5. CASE RecoverFails
      <3>1. svc'.step = "none" /\ \A u \in Uids : Mode(u)' = "none"
        BY <1>2, <2>1, <2>5 DEF RecoverFails, DropAll
      <3>2. QED
        BY <3>1 DEF ServiceHolds, Holds
    <2>6. CASE RecoverFences
      <3>1. svc'.step = "none" /\ UNCHANGED locks
        BY <2>6 DEF RecoverFences, SvcDown
      <3>2. \A u \in Uids : guard[u] = "none"
        BY <2>6 DEF RecoverFences, GuardStep
      <3>3. \A u \in Uids : Mode(u) # "none" => guard'[u] # "none"
        BY <1>1, <2>6, <3>2 DEF RecoverFences
      <3>4. QED
        BY <3>1, <3>3 DEF ServiceHolds, Holds
    <2>7. CASE IntoReady
      <3>1. svc.step = "none" /\ svc'.step = "none" /\ UNCHANGED <<locks, guard>>
        BY <2>7 DEF IntoReady, TypeOK, Service0
      <3>2. QED
        BY <1>1, <3>1 DEF ServiceHolds, Holds
    <2>8. ASSUME NEW u \in Uids, NEW a \in Aliases, Prepare(u, a)
          PROVE  ServiceHolds'
      <3>1. /\ svc.step = "none" /\ svc'.step = "locking" /\ svc'.uid = u
            /\ guard[u] = "none" /\ UNCHANGED <<locks, guard>>
        BY <2>1, <2>8 DEF Prepare
      <3>2. Mode(u) = "none"
        BY <1>1, <3>1
      <3>3. QED
        BY <1>1, <3>1, <3>2 DEF ServiceHolds, Holds
    <2>9. ASSUME NEW u \in Uids, CommitLease(u) \/ ResolveLease(u)
          PROVE  ServiceHolds'
      BY <1>4, <2>9 DEF CommitLease, ResolveLease, fsVars
    <2>10. ASSUME NEW u \in Uids, BeginClear(u) PROVE ServiceHolds'
      <3>1. /\ svc.step = "none" /\ svc'.step = "upgrading" /\ UNCHANGED guard
            /\ \A v \in Uids : Mode(v)' \in {"none", Mode(v)}
        BY <1>3, <2>1, <2>10 DEF BeginClear
      <3>2. QED
        BY <1>1, <3>1 DEF ServiceHolds, Holds
    <2>11. CASE PrepareLock
      <3>1. PICK l \in PrepareLocks : SetLock(l, Service, "exclusive")
        BY <2>11 DEF PrepareLock, First
      <3>2. UNCHANGED <<svc, guard, marker>> /\ svc.step = "locking"
        BY <2>11 DEF PrepareLock, fsVars, svcVars
      <3>3. \A u \in Uids : Mode(u)' = Mode(u)
                              \/ (u = svc.uid /\ Mode(u)' = "exclusive")
        <4>1. svc.uid \in Uids /\ svc.alias \in Aliases
          BY <3>2 DEF GuardStep
        <4>2. CASE l = AliasLock(svc.alias)
          BY <1>2, <3>1, <4>1, <4>2, LockFacts DEF SetLock, TypeOK
        <4>3. CASE l = LifecycleLock(svc.uid)
          BY <1>3, <3>1, <4>1, <4>3
        <4>4. QED
          BY <3>1, <4>2, <4>3 DEF PrepareLocks
      <3>4. QED
        BY <1>1, <2>2, <3>2, <3>3 DEF ServiceHolds, Holds, Present
    <2>12. CASE PrepareGivesUp
      <3>1. svc'.step = "none" /\ svc.step = "locking" /\ UNCHANGED guard
        BY <2>1, <2>12 DEF PrepareGivesUp
      <3>2. \A u \in Uids : Mode(u)' \in {"none", Mode(u)}
        BY <1>2, <2>12 DEF PrepareGivesUp, TypeOK
      <3>3. \A v \in Uids : v = svc.uid => Mode(v)' = "none"
        BY <1>2, <2>2, <2>12, <3>1 DEF PrepareGivesUp, PrepareLocks, TypeOK
      <3>4. QED
        BY <1>1, <3>1, <3>2, <3>3 DEF ServiceHolds, Holds
    <2>13. CASE CreateMarker
      <3>1. /\ svc.step = "locking" /\ svc'.step = "syncing" /\ UNCHANGED locks
            /\ \A v \in Uids : guard'[v] = IF v = svc.uid THEN "exclusive" ELSE guard[v]
        BY <2>1, <2>13 DEF CreateMarker, TypeOK
      <3>2. QED
        BY <1>1, <3>1 DEF ServiceHolds, Holds
    <2>14. CASE SyncMarker \/ ProveBlocked
      <3>1. /\ svc.step \in {"syncing", "proving"} /\ svc'.step = "downgrading"
            /\ \A v \in Uids : guard[v] # "none" => guard'[v] # "none"
        BY <2>1, <2>14 DEF SyncMarker, ProveBlocked, TypeOK
      <3>2. \A v \in Uids : Mode(v)' \in {"none", Mode(v)}
        BY <1>3, <2>2, <2>14 DEF SyncMarker, ProveBlocked
      <3>3. QED
        BY <1>1, <3>1, <3>2 DEF ServiceHolds, Holds
    <2>15. CASE Downgrade
      <3>1. /\ svc.step = "downgrading" /\ svc'.step = "none"
            /\ svc.uid \in Uids
        BY <2>1, <2>2, <2>15 DEF Downgrade
      <3>2. \A v \in Uids : /\ v = svc.uid => guard'[v] # "none"
                            /\ v # svc.uid => guard'[v] = guard[v] /\ Mode(v)' = Mode(v)
        BY <1>3, <2>15, <3>1 DEF Downgrade, TypeOK
      <3>3. QED
        BY <1>1, <3>1, <3>2 DEF ServiceHolds, Holds
    <2>16. CASE FenceFails
      <3>1. /\ svc.step \notin {"locking", "recovering"} /\ svc'.step = "none"
            /\ UNCHANGED locks
            /\ \A v \in Uids : guard[v] # "none" => guard'[v] # "none"
        BY <2>1, <2>16 DEF FenceFails, TypeOK
      <3>2. QED
        BY <1>1, <3>1 DEF ServiceHolds, Holds
    <2>17. CASE Upgrade
      <3>1. /\ svc.step = "upgrading" /\ svc'.step \in {"none", "proving"}
            /\ svc.uid \in Uids
        BY <2>1, <2>2, <2>17 DEF Upgrade
      <3>2. \A v \in Uids : /\ v = svc.uid => guard'[v] # "none"
                            /\ v # svc.uid => guard'[v] = guard[v] /\ Mode(v)' = Mode(v)
        BY <1>3, <2>17, <3>1 DEF Upgrade, TypeOK
      <3>3. QED
        BY <1>1, <3>1, <3>2 DEF ServiceHolds, Holds
    <2>18. CASE UnlinkMarker
      <3>1. /\ svc.step = "proving" /\ svc'.step = "unsynced"
            /\ UNCHANGED <<locks, guard>>
        BY <2>1, <2>18 DEF UnlinkMarker
      <3>2. QED
        BY <1>1, <3>1 DEF ServiceHolds, Holds
    <2>19. CASE SyncUnlink
      <3>1. svc.step = "unsynced" /\ svc'.step = "none"
        BY <2>1, <2>19 DEF SyncUnlink
      <3>2. \A v \in Uids : /\ v # svc.uid => guard'[v] = guard[v]
                            /\ Mode(v)' \in {"none", Mode(v)}
        BY <1>2, <2>19 DEF SyncUnlink, TypeOK
      <3>3. \A v \in Uids : v = svc.uid => Mode(v)' = "none"
        BY <1>2, <2>2, <2>19, <3>1 DEF SyncUnlink, RetainedLocks, TypeOK
      <3>4. QED
        BY <1>1, <3>1, <3>2, <3>3 DEF ServiceHolds, Holds
    <2>20. QED
      BY <1>7, <2>3, <2>4, <2>5, <2>6, <2>7, <2>8, <2>9, <2>10, <2>11, <2>12,
         <2>13, <2>14, <2>15, <2>16, <2>17, <2>18, <2>19 DEF ServiceNext
  <1>8. QED
    BY <1>5, <1>6, <1>7 DEF Next

(* What happens to a marker in one step.                                   *)
LEMMA MarkerSteps ==
  ASSUME TypeOK, GuardStep, Next, NEW u \in Uids
  PROVE  /\ marker[u] = "absent" /\ marker'[u] # "absent" =>
              CreateMarker /\ u = svc.uid
         /\ marker[u] = "durable" /\ marker'[u] # "durable" =>
              UnlinkMarker /\ u = svc.uid
         /\ bound'[u] # bound[u] => CreateMarker /\ u = svc.uid
  <1>1. CASE OrdinaryNext
    <2>1. PICK p \in Procs : OrdinaryStep(p)
      BY <1>1 DEF OrdinaryNext, OrdinaryStep
    <2>2. UNCHANGED <<marker, bound>>
      BY <2>1, OrdinaryFrame
    <2>3. QED
      BY <2>2
  <1>2. CASE Crash
    BY <1>2 DEF Crash, ServiceGone
  <1>3. CASE PowerLoss
    <2>1. /\ marker[u] = "absent" => marker'[u] = "absent"
          /\ marker[u] = "durable" => marker'[u] = "durable"
      BY <1>3 DEF PowerLoss
    <2>2. UNCHANGED bound
      BY <1>3 DEF PowerLoss, ServiceGone
    <2>3. QED
      BY <2>1, <2>2
  <1>4. CASE CreateMarker
    BY <1>4 DEF CreateMarker, Present, GuardStep, TypeOK
  <1>5. CASE SyncMarker
    BY <1>5 DEF SyncMarker, GuardStep, TypeOK
  <1>6. CASE UnlinkMarker
    BY <1>6 DEF UnlinkMarker, GuardStep, Present, TypeOK
  <1>7. CASE SyncUnlink
    BY <1>7 DEF SyncUnlink, TypeOK
  <1>8. CASE UNCHANGED <<marker, bound>>
    BY <1>8
  <1>9. QED
    BY <1>1, <1>2, <1>3, <1>4, <1>5, <1>6, <1>7, <1>8
       DEF Next, ServiceNext, OpenService, RecoverLock, RecoverFails,
       RecoverFences, IntoReady, Prepare, CommitLease, ResolveLease,
       BeginClear, PrepareLock, PrepareGivesUp, Downgrade, FenceFails,
       Upgrade, ProveBlocked, fsVars

(* A marked profile stays known.                                           *)
LEMMA KnownStays ==
  ASSUME TypeOK, GuardStep, MarkerKnown, Next
  PROVE  MarkerKnown'
  <1> DEFINE Known(u) == u \in retired \/ \E a \in Aliases : config[a].uid = u
  <1> SUFFICES ASSUME NEW u \in Uids, marker'[u] # "absent"
               PROVE  bound'[u] \in Aliases /\ Known(u)'
    BY DEF MarkerKnown
  <1>1. bound'[u] \in Aliases /\ Known(u)
    <2>1. CASE marker[u] # "absent" /\ ~CreateMarker
      BY <2>1, MarkerSteps DEF MarkerKnown
    <2>2. CASE CreateMarker
      <3>1. svc.alias \in Aliases /\ svc.uid \in Uids
        BY <2>2 DEF CreateMarker, GuardStep
      <3>2. CASE u = svc.uid
        BY <2>2, <3>1, <3>2 DEF CreateMarker, TypeOK
      <3>3. CASE u # svc.uid
        BY <2>2, <3>1, <3>3 DEF CreateMarker, TypeOK, MarkerKnown
      <3>4. QED
        BY <3>2, <3>3
    <2>3. QED
      BY <2>1, <2>2, MarkerSteps
  <1>2. CASE ServiceNext \/ Crash \/ PowerLoss
    <2>1. UNCHANGED <<config, retired>>
      BY <1>2, ServiceFrame DEF Crash, PowerLoss, ServiceGone
    <2>2. QED
      BY <1>1, <2>1
  <1>3. ASSUME NEW p \in Procs, OrdinaryStep(p) PROVE Known(u)'
    <2>1. CASE UNCHANGED <<config, retired>>
      BY <1>1, <2>1
    <2>2. ASSUME proc[p].at \in {"unfenced", "removed"}
          PROVE  /\ proc[p].alias \in Aliases /\ proc[p].to \in Aliases
                 /\ proc[p].seen \in Entry /\ proc[p].seen.uid \in Uids
      BY <2>2 DEF TypeOK, Idle, Command, Entry
    <2>3. CASE EditProfile(p)
      <3>1. \A a \in Aliases : config'[a].uid = config[a].uid
        BY <2>3 DEF EditProfile, TypeOK, Config, Entry, NoEntry
      <3>2. QED
        BY <1>1, <2>3, <3>1 DEF EditProfile
    <2>4. CASE RenameProfile(p)
      BY <1>1, <2>1, <2>2, <2>4, FenceConstants
         DEF RenameProfile, UpdateAllowed, TypeOK, Config, NoEntry
    <2>5. CASE AddProfile(p)
      BY <1>1, <2>2, <2>5, FenceConstants
         DEF AddProfile, UpdateAllowed, TypeOK, Config, NoEntry
    <2>6. CASE RemoveProfile(p)
      BY <1>1, <2>2, <2>6 DEF RemoveProfile, UpdateAllowed, TypeOK, Config
    <2>7. CASE RestoreRemoved(p)
      BY <1>1, <2>2, <2>7, FenceConstants
         DEF RestoreRemoved, TypeOK, Config, NoEntry
    <2>8. QED
      BY <1>3, <2>1, <2>3, <2>4, <2>5, <2>6, <2>7 DEF OrdinaryStep, Begin,
         AcquireLock, CheckMarker, Use, Leave, fsVars
  <1>4. QED
    BY <1>1, <1>2, <1>3 DEF Next, OrdinaryNext, OrdinaryStep

(* The fence outlives the leases it protects, and so does the profile.     *)
LEMMA BlockersStay ==
  ASSUME TypeOK, GuardStep, MarkerKnown, CheckedUnfenced, BlockersFenced,
         BlockersCurrent, Next
  PROVE  BlockersFenced' /\ BlockersCurrent'
  <1>1. CASE \E v \in Uids : CommitLease(v)
    <2>1. PICK v \in Uids : CommitLease(v)
      BY <1>1
    <2>2. blockers' \subseteq blockers \cup {v}
      BY <2>1 DEF CommitLease
    <2>3. UNCHANGED <<marker, bound, config>> /\ marker[v] = "durable"
          /\ config[bound[v]].uid = v
      BY <2>1 DEF CommitLease, GuardStep, fsVars
    <2>4. QED
      BY <2>2, <2>3 DEF BlockersFenced, BlockersCurrent
  <1>2. ASSUME ~\E v \in Uids : CommitLease(v)
        PROVE  blockers' \subseteq blockers
    BY <1>2 DEF Next, OrdinaryNext, ServiceNext, Crash, PowerLoss, ServiceGone,
       OpenService, RecoverLock, RecoverFails, RecoverFences, IntoReady,
       Prepare, ResolveLease, BeginClear, PrepareLock,
       PrepareGivesUp, CreateMarker, SyncMarker, Downgrade, FenceFails,
       Upgrade, ProveBlocked, UnlinkMarker, SyncUnlink, Begin, AcquireLock,
       CheckMarker, Use, Leave, EditProfile, RenameProfile, AddProfile,
       RemoveProfile, RestoreRemoved, svcVars
  <1>3. ASSUME NEW u \in blockers
        PROVE  u \in Uids /\ marker[u] = "durable" /\ bound[u] \in Aliases
    BY DEF TypeOK, BlockersFenced, MarkerKnown
  <1>4. ASSUME NEW u \in blockers, u \in blockers'
        PROVE  marker'[u] = "durable" /\ bound'[u] = bound[u]
    <2>1. ~(CreateMarker /\ u = svc.uid)
      BY <1>3 DEF CreateMarker, Present
    <2>2. ~(UnlinkMarker /\ u = svc.uid)
      BY DEF UnlinkMarker
    <2>3. QED
      BY <1>3, <2>1, <2>2, MarkerSteps
  <1>5. ASSUME NEW u \in blockers
        PROVE  config'[bound[u]].uid = u
    <2>1. CASE UNCHANGED config
      BY <2>1 DEF BlockersCurrent
    <2>2. ASSUME NEW p \in Procs, OrdinaryStep(p)
          PROVE  config'[bound[u]].uid = u
      <3>1. config[bound[u]].uid = u /\ u \in Uids /\ bound[u] \in Aliases
            /\ u # "none"
        BY <1>3, FenceConstants DEF BlockersCurrent
      <3>2. ASSUME proc[p].at \in {"unfenced", "removed"}
            PROVE  /\ proc[p].alias \in Aliases /\ proc[p].to \in Aliases
                   /\ proc[p].op # "add" => proc[p].seen.uid # u
        BY <1>3, <3>2 DEF TypeOK, Idle, Command, Entry, CheckedUnfenced, Present
      <3>3. CASE EditProfile(p)
        BY <3>1, <3>2, <3>3
           DEF EditProfile, UpdateAllowed, TypeOK, Config, Entry, NoEntry
      <3>4. CASE RenameProfile(p)
        BY <2>1, <3>1, <3>2, <3>4
           DEF RenameProfile, UpdateAllowed, TypeOK, Config, NoEntry
      <3>5. CASE AddProfile(p)
        BY <3>1, <3>2, <3>5
           DEF AddProfile, UpdateAllowed, TypeOK, Config, NoEntry
      <3>6. CASE RemoveProfile(p)
        BY <3>1, <3>2, <3>6
           DEF RemoveProfile, UpdateAllowed, TypeOK, Config, NoEntry
      <3>7. CASE RestoreRemoved(p)
        BY <3>1, <3>2, <3>7 DEF RestoreRemoved, TypeOK, Config, NoEntry
      <3>8. QED
        BY <2>1, <2>2, <3>3, <3>4, <3>5, <3>6, <3>7 DEF OrdinaryStep, Begin,
           AcquireLock, CheckMarker, Use, Leave, fsVars
    <2>3. CASE ServiceNext \/ Crash \/ PowerLoss
      <3>1. UNCHANGED config
        BY <2>3, ServiceFrame DEF Crash, PowerLoss, ServiceGone
      <3>2. QED
        BY <2>1, <3>1
    <2>4. QED
      BY <2>2, <2>3 DEF Next, OrdinaryNext, OrdinaryStep
  <1>6. QED
    BY <1>1, <1>2, <1>4, <1>5 DEF BlockersFenced, BlockersCurrent

----------------------------------------------------------------------------
(* Theorems.                                                               *)

(* Every reachable state satisfies the inductive invariant: lock modes     *)
(* exclude each other, a checked command is still unfenced, the service    *)
(* accounts for its locks, and leases are behind durable markers.          *)
THEOREM Invariance == Spec => []IInv
  <1>1. Init => IInv
    <2> SUFFICES ASSUME Init PROVE IInv
      OBVIOUS
    <2>1. svc.phase = "down" /\ svc.step = "none"
      BY DEF Init, SvcDown
    <2>2. \A l \in Locks, h \in Holders : locks[l][h] = "none"
      BY DEF Init
    <2>3. LocksExclude
      BY <2>2 DEF LocksExclude
    <2>4. CheckedUnfenced
      BY DEF Init, CheckedUnfenced, Idle
    <2>5. ServiceHolds
      BY <2>1, <2>2, LockFacts DEF ServiceHolds, Holds, Holders
    <2>6. GuardStep
      BY <2>1 DEF Init, GuardStep
    <2>7. MarkerKnown /\ BlockersFenced /\ BlockersCurrent
      BY DEF Init, MarkerKnown, BlockersFenced, BlockersCurrent
    <2>8. QED
      BY <2>3, <2>4, <2>5, <2>6, <2>7, InitTypes DEF IInv
  <1>2. IInv /\ [Next]_vars => IInv'
    <2> SUFFICES ASSUME IInv, [Next]_vars PROVE IInv'
      OBVIOUS
    <2>1. CASE Next
      <3>1. TypeOK'
        <4>1. CASE OrdinaryNext
          <5>1. PICK p \in Procs : OrdinaryStep(p)
            BY <4>1 DEF OrdinaryNext, OrdinaryStep
          <5>2. TypeOK /\ GuardStep
            BY DEF IInv
          <5>3. QED
            BY <5>1, <5>2, OrdinaryTypes DEF OrdinaryStep
        <4>2. QED
          BY <2>1, <4>1, ServiceTypes, FailureTypes DEF Next, IInv
      <3>2. QED
        BY <2>1, <3>1, LocksStayExclusive, CheckStays, GuardStays, HoldsStays,
           KnownStays, BlockersStay DEF IInv
    <2>2. CASE UNCHANGED vars
      BY <2>2 DEF IInv, TypeOK, LocksExclude, CheckedUnfenced, ServiceHolds,
         GuardStep, MarkerKnown, BlockersFenced, BlockersCurrent, Holds,
         Present, vars, fsVars, svcVars
    <2>3. QED
      BY <2>1, <2>2
  <1>3. QED
    BY <1>1, <1>2, PTL DEF Spec

(* Types hold in every reachable state.                                    *)
THEOREM TypeCorrect == Spec => []TypeOK
  BY Invariance, PTL DEF IInv

(* A lease that is not resolved has its profile's marker on the disk,      *)
(* whatever crashes or loses power between the steps of try_clear,         *)
(* prepare and recovery.                                                   *)
THEOREM LeasesStayFenced == Spec => []BlockersFenced
  BY Invariance, PTL DEF IInv

(* The alias a lease was acquired under still names its profile.           *)
THEOREM LeasesStayCurrent == Spec => []BlockersCurrent
  BY Invariance, PTL DEF IInv

(* No ordinary command is past its marker check on a leased profile.       *)
THEOREM UseNeverOverlaps == Spec => []NoOverlap
  <1>1. IInv => NoOverlap
    BY DEF IInv, NoOverlap, Using, CheckedUnfenced, BlockersFenced, Present,
       UseOps
  <1>2. QED
    BY <1>1, Invariance, PTL

(* A fenced profile's entry and alias are frozen.                          *)
THEOREM FencedProfilesFrozen == Spec => FencedFrozen
  <1> DEFINE Frozen == \A u \in Uids : Present(u) /\ Present(u)' =>
               \A a \in Aliases :
                 config[a].uid = u \/ config'[a].uid = u => config'[a] = config[a]
  <1>1. IInv /\ [Next]_vars => [Frozen]_vars
    <2> SUFFICES ASSUME IInv, Next PROVE Frozen
      OBVIOUS
    <2>1. CASE UNCHANGED config
      BY <2>1
    <2>2. ASSUME NEW p \in Procs, OrdinaryStep(p) PROVE Frozen
      <3>1. ASSUME proc[p].at \in {"unfenced", "removed"}
            PROVE  /\ proc[p].alias \in Aliases /\ proc[p].to \in Aliases
                   /\ proc[p].seen \in Entry /\ proc[p].seen.uid \in Uids
                   /\ proc[p].op # "add" => ~Present(proc[p].seen.uid)
        BY <3>1 DEF IInv, TypeOK, Idle, Command, Entry, CheckedUnfenced
      <3>2. "none" \notin Uids /\ config \in Config
        BY FenceConstants DEF IInv, TypeOK
      <3>3. CASE EditProfile(p)
        <4>1. /\ config[proc[p].alias].uid = proc[p].seen.uid
              /\ config'[proc[p].alias].uid = proc[p].seen.uid
              /\ \A a \in Aliases \ {proc[p].alias} : config'[a] = config[a]
          BY <3>1, <3>2, <3>3 DEF EditProfile, UpdateAllowed, Config, Entry
        <4>2. QED
          BY <3>1, <3>3, <4>1 DEF EditProfile, UpdateAllowed
      <3>4. CASE RenameProfile(p)
        <4>1. CASE UNCHANGED config
          BY <2>1, <4>1
        <4>2. CASE config' # config
          <5>1. /\ config[proc[p].alias].uid = proc[p].seen.uid
                /\ config[proc[p].to].uid = "none"
                /\ config' = [config EXCEPT ![proc[p].alias] = NoEntry,
                                            ![proc[p].to] = proc[p].seen]
            BY <3>4, <4>2 DEF RenameProfile, UpdateAllowed, NoEntry
          <5>2. \A a \in Aliases : config'[a] # config[a] =>
                  /\ config[a].uid \in {"none", proc[p].seen.uid}
                  /\ config'[a].uid \in {"none", proc[p].seen.uid}
            BY <3>1, <3>2, <3>4, <5>1 DEF RenameProfile, UpdateAllowed, Config, NoEntry
          <5>3. QED
            BY <3>1, <3>2, <3>4, <5>2 DEF RenameProfile, UpdateAllowed
        <4>3. QED
          BY <4>1, <4>2
      <3>5. CASE AddProfile(p)
        <4>1. ~Present(proc[p].seen.uid)
          BY <3>1, <3>5
             DEF AddProfile, UpdateAllowed, IInv, MarkerKnown, Present
        <4>2. \A a \in Aliases : config'[a] # config[a] =>
                  config[a].uid = "none" /\ config'[a].uid = proc[p].seen.uid
          BY <3>1, <3>2, <3>5 DEF AddProfile, UpdateAllowed, Config, NoEntry
        <4>3. QED
          BY <3>2, <4>1, <4>2
      <3>6. CASE RemoveProfile(p)
        <4>1. \A a \in Aliases : config'[a] # config[a] =>
                  config'[a].uid = "none" /\ config[a].uid = proc[p].seen.uid
          BY <3>1, <3>2, <3>6 DEF RemoveProfile, UpdateAllowed, Config, NoEntry
        <4>2. QED
          BY <3>1, <3>2, <3>6, <4>1 DEF RemoveProfile, UpdateAllowed
      <3>7. CASE RestoreRemoved(p)
        <4>1. \A a \in Aliases : config'[a] # config[a] =>
                  config[a].uid = "none" /\ config'[a].uid = proc[p].seen.uid
          BY <3>1, <3>2, <3>7 DEF RestoreRemoved, Config, NoEntry
        <4>2. ~Present(proc[p].seen.uid)
          BY <3>1, <3>7 DEF RestoreRemoved, IInv, CheckedUnfenced
        <4>3. QED
          BY <3>2, <4>1, <4>2
      <3>8. QED
        BY <2>1, <2>2, <3>3, <3>4, <3>5, <3>6, <3>7 DEF OrdinaryStep, Begin,
           AcquireLock, CheckMarker, Use, Leave, fsVars
    <2>3. CASE ServiceNext \/ Crash \/ PowerLoss
      BY <2>1, <2>3, ServiceFrame DEF Crash, PowerLoss, ServiceGone, IInv
    <2>4. QED
      BY <2>2, <2>3 DEF Next, OrdinaryNext, OrdinaryStep
  <1>2. QED
    BY <1>1, Invariance, PTL DEF Spec, FencedFrozen

(* A ready service holds a guard for every marker there is.                *)
THEOREM ReadyMeetsNoOrphan == Spec => []NoOrphanMet
  <1> DEFINE Owned ==
        /\ svc.phase # "down" => \A u \in Uids : Present(u) => guard[u] # "none"
        /\ svc.step = "unsynced" => ~Present(svc.uid)
  <1>1. Init => Owned
    BY DEF Init, SvcDown
  <1>2. IInv /\ Owned /\ [Next]_vars => Owned'
    <2> SUFFICES ASSUME IInv, Owned, [Next]_vars PROVE Owned'
      OBVIOUS
    <2>1. TypeOK /\ GuardStep
      BY DEF IInv
    <2>2. CASE UNCHANGED <<marker, svc, guard>>
      BY <2>2 DEF Present
    <2>3. CASE OrdinaryNext
      <3>1. PICK p \in Procs : OrdinaryStep(p)
        BY <2>3 DEF OrdinaryNext, OrdinaryStep
      <3>2. UNCHANGED <<marker, svc, guard>>
        BY <2>1, <3>1, OrdinaryFrame DEF svcVars
      <3>3. QED
        BY <2>2, <3>2
    <2>4. CASE Crash \/ PowerLoss
      BY <2>4 DEF Crash, PowerLoss, ServiceGone, SvcDown
    <2>5. CASE ServiceNext
      <3>1. /\ SvcRest.phase = svc.phase /\ SvcRest.step = "none"
            /\ SvcDown.phase = "down" /\ SvcDown.step = "none"
            /\ \A s, u, a : /\ SvcAt(s, u, a).phase = svc.phase
                            /\ SvcAt(s, u, a).step = s
                            /\ SvcAt(s, u, a).uid = u
        BY <2>1, SvcTypes DEF TypeOK
      <3>2. svc.step \notin {"none", "recovering"} =>
              svc.uid \in Uids /\ svc.phase # "down"
        BY <2>1 DEF GuardStep
      <3>3. CASE OpenService \/ RecoverFails
        <4>1. svc'.phase = "down" /\ svc'.step # "unsynced"
          BY <3>1, <3>3 DEF OpenService, RecoverFails, SvcDown
        <4>2. QED
          BY <4>1
      <3>4. CASE RecoverFences
        <4>1. svc'.step = "none"
          BY <3>4 DEF RecoverFences, SvcDown
        <4>2. QED
          BY <3>4, <4>1 DEF RecoverFences, Present, fsVars
      <3>5. CASE IntoReady
        <4>1. svc'.step = "none" /\ svc.phase # "down" /\ UNCHANGED <<guard, marker>>
          BY <2>1, <3>5 DEF IntoReady, TypeOK, Service0, fsVars
        <4>2. QED
          BY <4>1 DEF Present
      <3>6. CASE CreateMarker \/ SyncMarker
        BY <2>1, <3>1, <3>2, <3>6
           DEF CreateMarker, SyncMarker, Present, TypeOK, GuardStep
      <3>7. CASE UnlinkMarker \/ SyncUnlink
        BY <2>1, <3>1, <3>2, <3>7 DEF UnlinkMarker, SyncUnlink, Present, TypeOK
      <3>8. ASSUME UNCHANGED marker, svc'.phase = svc.phase,
                   svc'.step # "unsynced",
                   \A u \in Uids : guard[u] # "none" => guard'[u] # "none"
            PROVE  Owned'
        BY <3>8 DEF Present
      <3>9. ASSUME NEW u \in Uids,
                   \/ \E a \in Aliases : Prepare(u, a)
                   \/ BeginClear(u)
            PROVE  Owned'
        BY <3>1, <3>8, <3>9 DEF Prepare, BeginClear, fsVars
      <3>10. CASE PrepareGivesUp \/ Downgrade \/ FenceFails \/ Upgrade \/ ProveBlocked
        BY <2>1, <3>1, <3>2, <3>8, <3>10 DEF PrepareGivesUp, Downgrade,
           FenceFails, Upgrade, ProveBlocked, fsVars, TypeOK
      <3>11. ASSUME \/ RecoverLock \/ PrepareLock
                    \/ \E u \in Uids : CommitLease(u) \/ ResolveLease(u)
             PROVE  Owned'
        BY <2>2, <3>11 DEF RecoverLock, PrepareLock, CommitLease, ResolveLease,
           fsVars, svcVars
      <3>12. QED
        BY <2>5, <3>3, <3>4, <3>5, <3>6, <3>7, <3>9, <3>10, <3>11 DEF ServiceNext
    <2>6. QED
      BY <2>2, <2>3, <2>4, <2>5 DEF Next, vars, fsVars, svcVars
  <1>3. Owned => NoOrphanMet
    BY DEF NoOrphanMet
  <1>4. QED
    BY <1>1, <1>2, <1>3, Invariance, PTL DEF Spec

----------------------------------------------------------------------------
(* What an ordinary command may rely on while other commands run beside it.*)

Checked == {"unfenced", "using", "removed"}

(* A process holds only the locks its command took, each in that command's *)
(* mode, and a command past its check holds every lock it needs.           *)
LocksFit ==
  \A p \in Procs :
    /\ proc[p] = Idle => \A l \in Locks : ~Holds(l, p)
    /\ \A l \in Locks : Holds(l, p) => locks[l][p] = ModeFor(proc[p], l)
    /\ proc[p].at \in Checked => \A l \in Needed(proc[p]) : Holds(l, p)

(* Two processes never share a lock that one of them takes exclusively.    *)
LEMMA HeldAlone ==
  ASSUME IInv, LocksFit, NEW p \in Procs, NEW q \in Procs, NEW l \in Locks,
         Holds(l, p), Holds(l, q), ModeFor(proc[q], l) = "exclusive"
  PROVE  p = q
<1>1. locks[l][q] = "exclusive" /\ locks[l][p] # "none"
  BY DEF LocksFit, Holds
<1> QED BY <1>1 DEF IInv, LocksExclude, Holders

LEMMA CommandLocks ==
  ASSUME IInv, LocksFit, NEW p \in Procs, proc[p].at \in Checked
  PROVE  /\ proc[p] \in Command
         /\ proc[p].op # "add" => Holds(LifecycleLock(proc[p].seen.uid), p)
         /\ proc[p].op \in {"edit", "rename", "remove", "add"} =>
              Holds(AliasLock(proc[p].alias), p)
         /\ proc[p].op = "rename" => Holds(AliasLock(proc[p].to), p)
<1>1. proc[p] \in Command
  BY DEF IInv, TypeOK, Idle, Checked
<1>2. \A l \in Needed(proc[p]) : Holds(l, p)
  BY DEF LocksFit
<1>3. /\ proc[p].op # "add" => LifecycleLock(proc[p].seen.uid) \in Needed(proc[p])
      /\ proc[p].op \in {"edit", "rename", "remove", "add"} =>
           AliasLock(proc[p].alias) \in Needed(proc[p])
      /\ proc[p].op = "rename" => AliasLock(proc[p].to) \in Needed(proc[p])
  BY <1>1, NeededFacts DEF Needed
<1> QED BY <1>1, <1>2, <1>3

(* Management commands take their locks exclusively.                       *)
LEMMA ManagementModes ==
  ASSUME NEW c, c.op \in {"edit", "rename", "remove", "add"}
  PROVE  /\ \A u \in Uids : ModeFor(c, LifecycleLock(u)) = "exclusive"
         /\ \A a \in Aliases : ModeFor(c, AliasLock(a)) = "exclusive"
BY DEF ModeFor, LifecycleLock, AliasLock, UseOps

LEMMA SameCommand ==
  ASSUME NEW c \in Command, NEW at, NEW d, d = [c EXCEPT !.at = at]
  PROVE  /\ Needed(d) = Needed(c)
         /\ \A l : ModeFor(d, l) = ModeFor(c, l)
         /\ d.at = at
BY DEF Needed, ModeFor, Command

LEMMA LocksFitStays ==
  ASSUME IInv, LocksFit, Next
  PROVE  LocksFit'
<1>1. TypeOK /\ GuardStep
  BY DEF IInv
<1>2. ASSUME NEW p \in Procs,
             proc'[p] = proc[p], \A l \in Locks : locks'[l][p] = locks[l][p]
      PROVE  /\ proc'[p] = Idle => \A l \in Locks : ~Holds(l, p)'
             /\ \A l \in Locks : Holds(l, p)' => locks'[l][p] = ModeFor(proc'[p], l)
             /\ proc'[p].at \in Checked => \A l \in Needed(proc'[p]) : Holds(l, p)'
  <2>1. proc[p].at \in Checked => Needed(proc[p]) \subseteq Locks
    BY <1>1, NeededFacts DEF TypeOK, Idle, Checked
  <2> QED BY <1>2, <2>1 DEF LocksFit, Holds
<1>3. ASSUME NEW p \in Procs, OrdinaryStep(p)
      PROVE  /\ proc'[p] = Idle => \A l \in Locks : ~Holds(l, p)'
             /\ \A l \in Locks : Holds(l, p)' => locks'[l][p] = ModeFor(proc'[p], l)
             /\ proc'[p].at \in Checked => \A l \in Needed(proc'[p]) : Holds(l, p)'
  <2>1. CASE DropAll({p}) /\ proc' = [proc EXCEPT ![p] = Idle]
    <3>1. \A l \in Locks : locks'[l][p] = "none"
      BY <2>1 DEF DropAll, Holders
    <3>2. proc'[p] = Idle
      BY <1>1, <2>1 DEF TypeOK
    <3> QED BY <3>1, <3>2 DEF Holds, Idle, Checked
  <2>2. CASE \E op \in Commands, a, to \in Aliases : Begin(p, op, a, to)
    <3>1. proc[p] = Idle /\ UNCHANGED locks /\ proc'[p].at = "locking"
      BY <1>1, <2>2 DEF Begin, TypeOK
    <3>2. \A l \in Locks : ~Holds(l, p)'
      BY <3>1 DEF LocksFit, Holds
    <3> QED BY <3>1, <3>2 DEF Idle, Checked
  <2>3. CASE AcquireLock(p)
    <3>1. proc[p].at = "locking" /\ proc' = proc /\ proc[p] \in Command
      BY <1>1, <2>3 DEF AcquireLock, TypeOK, Idle
    <3>2. PICK l \in Missing(p) : SetLock(l, p, ModeFor(proc[p], l))
      BY <2>3 DEF AcquireLock, First
    <3>3. \A k \in Locks :
            locks'[k][p] = IF k = l THEN ModeFor(proc[p], l) ELSE locks[k][p]
      BY <1>1, <3>2 DEF SetLock, TypeOK, Holders
    <3> QED BY <3>1, <3>3 DEF LocksFit, Holds, Idle, Checked
  <2>4. CASE UNCHANGED locks /\ \E at : /\ proc' = [proc EXCEPT ![p].at = at]
                                        /\ proc[p] \in Command
                                        /\ at # "idle"
                                        /\ \A l \in Needed(proc[p]) : Holds(l, p)
    <3>1. PICK at : /\ proc' = [proc EXCEPT ![p].at = at]
                    /\ proc[p] \in Command /\ at # "idle"
                    /\ \A l \in Needed(proc[p]) : Holds(l, p)
      BY <2>4
    <3>2. proc'[p] = [proc[p] EXCEPT !.at = at]
      BY <1>1, <3>1 DEF TypeOK
    <3>3. /\ Needed(proc'[p]) = Needed(proc[p])
          /\ \A l : ModeFor(proc'[p], l) = ModeFor(proc[p], l)
          /\ proc'[p].at = at
      BY <3>1, <3>2, SameCommand
    <3>4. \A l : Holds(l, p)' <=> Holds(l, p)
      BY <2>4 DEF Holds
    <3> QED BY <2>4, <3>1, <3>3, <3>4 DEF LocksFit, Idle
  <2>5. CASE CheckMarker(p) \/ Use(p) \/ RemoveProfile(p)
    <3>1. /\ proc[p] \in Command /\ UNCHANGED locks
          /\ \E at \in Checked : proc' = [proc EXCEPT ![p].at = at]
      BY <1>1, <2>5 DEF CheckMarker, Use, RemoveProfile, UpdateAllowed, TypeOK,
                        Idle, Checked
    <3>2. \A l \in Needed(proc[p]) : Holds(l, p)
      BY <2>5 DEF CheckMarker, Missing, Use, RemoveProfile, UpdateAllowed,
                  LocksFit, Checked
    <3> QED BY <2>4, <3>1, <3>2 DEF Checked
  <2> QED BY <1>3, <2>1, <2>2, <2>3, <2>5
          DEF OrdinaryStep, Leave, EditProfile, RenameProfile, AddProfile,
              RestoreRemoved
<1>4. CASE OrdinaryNext
  <2>1. PICK p \in Procs : OrdinaryStep(p)
    BY <1>4 DEF OrdinaryNext, OrdinaryStep
  <2>2. \A q \in Procs \ {p} : /\ proc'[q] = proc[q]
                               /\ \A l \in Locks : locks'[l][q] = locks[l][q]
    BY <1>1, <2>1, OrdinaryFrame DEF Holders
  <2> QED BY <1>2, <1>3, <2>1, <2>2 DEF LocksFit
<1>5. CASE ServiceNext \/ Crash
  <2>1. \A q \in Procs : /\ proc'[q] = proc[q]
                         /\ \A l \in Locks : locks'[l][q] = locks[l][q]
    BY <1>1, <1>5, ServiceFrame, FenceConstants DEF Crash, DropAll, Holders
  <2> QED BY <1>2, <2>1 DEF LocksFit
<1>6. CASE PowerLoss
  BY <1>6 DEF PowerLoss, DropAll, Holders, LocksFit, Holds, Idle, Checked
<1> QED BY <1>4, <1>5, <1>6 DEF Next

(* Which entries a command may change, and what it holds when it does.     *)
LEMMA ChangesHeld ==
  ASSUME IInv, LocksFit, NEW q \in Procs, OrdinaryStep(q), NEW a \in Aliases,
         config'[a] # config[a]
  PROVE  /\ proc[q].at \in Checked
         /\ proc[q].op \in {"edit", "rename", "remove", "add"}
         /\ \/ config[a] = proc[q].seen /\ proc[q].op # "add"
            \/ config[a] = NoEntry /\ Holds(AliasLock(a), q)
<1> DEFINE c == proc[q]
<1>1. TypeOK
  BY DEF IInv
<1>2. ~UNCHANGED config
  OBVIOUS
<1>3. ASSUME c.at \in Checked
      PROVE  /\ c \in Command /\ c.alias \in Aliases /\ c.to \in Aliases
             /\ c.op \in {"edit", "rename", "remove", "add"} =>
                  Holds(AliasLock(c.alias), q)
             /\ c.op = "rename" => Holds(AliasLock(c.to), q)
  BY <1>3, CommandLocks DEF Command
<1>4. CASE EditProfile(q)
  BY <1>1, <1>3, <1>4 DEF EditProfile, UpdateAllowed, TypeOK, Config, Checked
<1>5. CASE RenameProfile(q)
  <2>1. /\ c.at \in Checked /\ c.op = "rename" /\ config[c.alias] = c.seen
        /\ config[c.to] = NoEntry
        /\ config' = [config EXCEPT ![c.alias] = NoEntry, ![c.to] = c.seen]
    BY <1>2, <1>5 DEF RenameProfile, UpdateAllowed, Checked
  <2>2. a = c.alias \/ a = c.to
    BY <1>1, <2>1 DEF TypeOK, Config
  <2> QED BY <1>3, <2>1, <2>2
<1>6. CASE AddProfile(q)
  <2>1. /\ c.at \in Checked /\ c.op = "add" /\ config[c.alias] = NoEntry
        /\ a = c.alias
    BY <1>1, <1>6 DEF AddProfile, UpdateAllowed, Checked, TypeOK, Config
  <2> QED BY <1>3, <2>1
<1>7. CASE RemoveProfile(q)
  BY <1>1, <1>7 DEF RemoveProfile, UpdateAllowed, Checked, TypeOK, Config
<1>8. CASE RestoreRemoved(q)
  <2>1. /\ c.at \in Checked /\ c.op = "remove" /\ config[c.alias] = NoEntry
        /\ a = c.alias
    BY <1>1, <1>8
       DEF RestoreRemoved, Checked, TypeOK, Config, IInv, CheckedUnfenced
  <2> QED BY <1>3, <2>1
<1> QED BY <1>2, <1>4, <1>5, <1>6, <1>7, <1>8
        DEF OrdinaryStep, Begin, AcquireLock, CheckMarker, Use, Leave, fsVars

CommandSafe == UseFrozen /\ RollbackPossible

LEMMA OthersStaySafe ==
  ASSUME IInv, LocksFit, CommandSafe, NEW p \in Procs, NEW q \in Procs \ {p},
         OrdinaryStep(q)
  PROVE  /\ proc[p].at = "using" /\ proc[p].op # "doctor"
              => config'[proc[p].alias] = proc[p].seen
         /\ proc[p].at = "removed"
              => config'[proc[p].alias] = NoEntry /\ proc[p].seen.uid \in retired'
<1>1. ASSUME proc[p].at \in Checked
      PROVE  /\ proc[p] \in Command /\ proc[p].alias \in Aliases
             /\ proc[p].seen \in Entry /\ proc[p].seen.uid \in Uids
             /\ proc[p].seen # NoEntry
  BY <1>1, FenceConstants DEF IInv, TypeOK, Command, Entry, Idle, Checked, NoEntry
<1>2. ASSUME proc[p].at \in Checked, proc[p].op # "add",
             proc[q].at \in Checked, proc[q].op \in {"edit", "rename", "remove"},
             proc[q].seen.uid = proc[p].seen.uid
      PROVE  FALSE
  <2>1. LifecycleLock(proc[p].seen.uid) \in Locks
    BY <1>1, <1>2, LockFacts
  <2>2. /\ Holds(LifecycleLock(proc[p].seen.uid), p)
        /\ Holds(LifecycleLock(proc[p].seen.uid), q)
    BY <1>2, CommandLocks
  <2>3. ModeFor(proc[q], LifecycleLock(proc[p].seen.uid)) = "exclusive"
    BY <1>1, <1>2, ManagementModes
  <2> QED BY <2>1, <2>2, <2>3, HeldAlone
<1>3. ASSUME proc[p].at = "using", proc[p].op # "doctor"
      PROVE  config'[proc[p].alias] = proc[p].seen
  <2>1. config[proc[p].alias] = proc[p].seen /\ proc[p].op # "add"
    BY <1>3 DEF CommandSafe, UseFrozen, IInv, CheckedUnfenced, UseOps
  <2>2. SUFFICES ASSUME config'[proc[p].alias] # config[proc[p].alias]
                 PROVE  FALSE
    BY <2>1
  <2>3. /\ proc[q].at \in Checked
        /\ proc[q].op \in {"edit", "rename", "remove"}
        /\ proc[q].seen = proc[p].seen
    BY <1>1, <1>3, <2>1, <2>2, ChangesHeld DEF Checked
  <2> QED BY <1>2, <1>3, <2>1, <2>3 DEF Checked
<1>4. ASSUME proc[p].at = "removed"
      PROVE  config'[proc[p].alias] = NoEntry
  <2>1. config[proc[p].alias] = NoEntry /\ proc[p].op = "remove"
    BY <1>4 DEF CommandSafe, RollbackPossible, IInv, CheckedUnfenced
  <2>2. SUFFICES ASSUME config'[proc[p].alias] # config[proc[p].alias]
                 PROVE  FALSE
    BY <2>1
  <2>3. /\ proc[q].at \in Checked
        /\ proc[q].op \in {"edit", "rename", "remove", "add"}
        /\ \/ proc[q].seen = NoEntry
           \/ Holds(AliasLock(proc[p].alias), q)
    BY <1>1, <1>4, <2>1, <2>2, ChangesHeld DEF Checked
  <2>4. proc[q].seen # NoEntry
    BY <2>3, FenceConstants DEF IInv, TypeOK, Command, Entry, Idle, Checked, NoEntry
  <2>5. Holds(AliasLock(proc[p].alias), p)
    BY <1>4, <2>1, CommandLocks DEF Checked
  <2>6. /\ AliasLock(proc[p].alias) \in Locks
        /\ ModeFor(proc[q], AliasLock(proc[p].alias)) = "exclusive"
    BY <1>1, <1>4, <2>3, LockFacts, ManagementModes DEF Checked
  <2> QED BY <2>3, <2>4, <2>5, <2>6, HeldAlone
<1>5. ASSUME proc[p].at = "removed"
      PROVE  proc[p].seen.uid \in retired'
  <2>1. proc[p].seen.uid \in retired /\ proc[p].op = "remove"
    BY <1>5 DEF CommandSafe, RollbackPossible, IInv, CheckedUnfenced
  <2>2. SUFFICES ASSUME proc[p].seen.uid \notin retired'
                 PROVE  FALSE
    OBVIOUS
  <2>3. RestoreRemoved(q)
    BY <2>1, <2>2 DEF OrdinaryStep, Begin, AcquireLock, CheckMarker, Use, Leave,
       EditProfile, RenameProfile, AddProfile, RemoveProfile, fsVars
  <2>4. /\ proc[q].at = "removed" /\ proc[q].op = "remove"
        /\ proc[q].seen.uid = proc[p].seen.uid
    BY <2>1, <2>2, <2>3 DEF RestoreRemoved, IInv, CheckedUnfenced
  <2> QED BY <1>2, <1>5, <2>1, <2>4 DEF Checked
<1> QED BY <1>3, <1>4, <1>5

LEMMA CommandSafeStays ==
  ASSUME IInv, LocksFit, CommandSafe, Next
  PROVE  CommandSafe'
<1>1. TypeOK /\ GuardStep
  BY DEF IInv
<1>2. CASE OrdinaryNext
  <2>1. PICK q \in Procs : OrdinaryStep(q)
    BY <1>2 DEF OrdinaryNext, OrdinaryStep
  <2>2. \A p \in Procs \ {q} : proc'[p] = proc[p]
    BY <1>1, <2>1, OrdinaryFrame
  <2>3. /\ proc'[q].at = "using" /\ proc'[q].op # "doctor"
             => config'[proc'[q].alias] = proc'[q].seen
        /\ proc'[q].at = "removed" =>
             config'[proc'[q].alias] = NoEntry /\ proc'[q].seen.uid \in retired'
    <3>1. CASE proc' = [proc EXCEPT ![q] = Idle]
      BY <1>1, <3>1 DEF TypeOK, Idle
    <3>2. CASE \/ \E op \in Commands, a, to \in Aliases : Begin(q, op, a, to)
               \/ CheckMarker(q)
      <4>1. proc'[q].at \in {"locking", "unfenced"}
        BY <1>1, <3>2 DEF Begin, CheckMarker, TypeOK, Command, Idle
      <4> QED BY <4>1
    <3>3. CASE AcquireLock(q)
      BY <3>3 DEF AcquireLock
    <3>4. CASE Use(q)
      <4>1. /\ proc'[q] = [proc[q] EXCEPT !.at = "using"] /\ UNCHANGED config
            /\ proc[q] \in Command
            /\ proc[q].op # "doctor" => config[proc[q].alias] = proc[q].seen
        BY <1>1, <3>4 DEF Use, TypeOK, Idle, fsVars
      <4> QED BY <4>1 DEF Command
    <3>5. CASE RemoveProfile(q)
      <4>1. /\ proc'[q] = [proc[q] EXCEPT !.at = "removed"]
            /\ proc[q] \in Command
            /\ config' = [config EXCEPT ![proc[q].alias] = NoEntry]
            /\ retired' = retired \cup {proc[q].seen.uid}
        BY <1>1, <3>5 DEF RemoveProfile, UpdateAllowed, TypeOK, Idle
      <4> QED BY <1>1, <4>1 DEF Command, TypeOK, Config
    <3> QED BY <2>1, <3>1, <3>2, <3>3, <3>4, <3>5
            DEF OrdinaryStep, Leave, EditProfile, RenameProfile, AddProfile,
                RestoreRemoved
  <2> QED BY <2>1, <2>2, <2>3, OthersStaySafe
          DEF CommandSafe, UseFrozen, RollbackPossible
<1>3. CASE ServiceNext \/ Crash
  BY <1>1, <1>3, ServiceFrame
     DEF Crash, ServiceGone, CommandSafe, UseFrozen, RollbackPossible
<1>4. CASE PowerLoss
  BY <1>4 DEF PowerLoss, CommandSafe, UseFrozen, RollbackPossible, Idle
<1> QED BY <1>2, <1>3, <1>4 DEF Next

(* Every reachable state keeps the locks of a command to the ones it took  *)
(* in its modes, and with them both promises commands rely on.             *)
THEOREM CommandInvariance == Spec => [](LocksFit /\ CommandSafe)
<1>1. Init => LocksFit /\ CommandSafe
  BY DEF Init, LocksFit, CommandSafe, UseFrozen, RollbackPossible, Holds,
         Holders, Idle, Checked
<1>2. IInv /\ LocksFit /\ CommandSafe /\ [Next]_vars => (LocksFit /\ CommandSafe)'
  <2>1. CASE UNCHANGED vars
    BY <2>1 DEF vars, fsVars, LocksFit, CommandSafe, UseFrozen,
       RollbackPossible, Holds
  <2> QED BY <2>1, LocksFitStays, CommandSafeStays
<1> QED BY <1>1, <1>2, Invariance, PTL DEF Spec

(* A command that compared its profile with the configuration keeps that   *)
(* profile as it saw it until it ends.                                     *)
THEOREM UseStaysFrozen == Spec => []UseFrozen
<1>1. CommandSafe => UseFrozen
  BY DEF CommandSafe
<1> QED BY <1>1, CommandInvariance, PTL

(* A removal whose cleanup failed can always be taken back.                *)
THEOREM RollbackStaysPossible == Spec => []RollbackPossible
<1>1. CommandSafe => RollbackPossible
  BY DEF CommandSafe
<1> QED BY <1>1, CommandInvariance, PTL
============================================================================
