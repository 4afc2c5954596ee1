---------------------------- MODULE LeaseHistory ----------------------------
(***************************************************************************)
(* One lease as the store commits it: the domain lease of Lease, the row's *)
(* own columns (version, audit sequence, the wall times of its events), the*)
(* append-only audit log, recovery by a later service generation, and      *)
(* retention.  Every transaction first loads the lease, which replays the  *)
(* whole audit log against the row; a lease the loader rejects closes the  *)
(* store, because opening it, acquiring and pruning load every lease.      *)
(*                                                                         *)
(* A mutation presented with another row version than the committed one    *)
(* writes nothing; process rows are written by no code of the repository,  *)
(* so a terminal lease's capacity is always released with it.              *)
(***************************************************************************)
EXTENDS Lease, Sequences, SequencesExt

CONSTANTS
  NotBefore,       \* work_order_authorization.not_before
  Retention,       \* the seven days of records.rs, as wall time units
  PruneWalls,      \* wall times retention runs at
  MaxGeneration,   \* bound: service generations
  MaxPrunes        \* bound: audit.pruned events ever written

ASSUME HistoryConstants ==
  /\ NotBefore \in Nat
  /\ Retention \in Nat \ {0}
  /\ PruneWalls \subseteq Nat
  /\ MaxGeneration \in Nat /\ MaxGeneration >= IssuedGeneration
  /\ MaxPrunes \in Nat

VARIABLES
  row,         \* the lease row's own columns; version 0: no row
  audit,       \* the lease's audit events, in sequence order
  generation,  \* the service generation of the store that is open
  globals,     \* the rows of audit events of no lease
  prunes       \* how many of them were ever written

rowVars == <<row, audit>>
history == <<lease, launch, acked, row, audit, generation, globals, prunes>>

NoTime == -1   \* an empty column; a wall time is never negative
NoRow == [version |-> 0, sequence |-> 0, clock |-> 0, activated |-> NoTime,
          renewed |-> NoTime, acknowledged |-> NoTime, terminal |-> NoTime]

Event(type, outcome, actor, at, l, g) ==
  [type |-> type, outcome |-> outcome, actor |-> actor, at |-> at,
   generation |-> g, status |-> l.status, reason |-> l.reason,
   fencing |-> l.authority.generation, digests |-> l.authority.digests]

RequestedRow == [NoRow EXCEPT !.version = 1, !.sequence = 2, !.clock = 1]
RequestedEvent ==
  Event("requested", "recorded", "caller", IssuedWall, Requested,
        IssuedGeneration)

RefusedRequest == Finished(Requested, "Refused", "None")
RefusedRow == [RequestedRow EXCEPT !.version = 2, !.sequence = 3,
                                   !.terminal = IssuedWall]
RefusedEvent ==
  Event("refused", "refused", "service", IssuedWall, RefusedRequest,
        IssuedGeneration)

(* The types of the committed rows.                                        *)
EventTypes ==
  {"requested", "refused", "activated", "renewing", "renewed", "closed",
   "revoked", "expired", "error"}

WallColumn == Nat \cup {NoTime}
LeaseRow == [version : Nat, sequence : Nat, clock : Nat,
             activated : WallColumn, renewed : WallColumn,
             acknowledged : WallColumn, terminal : WallColumn]
AuditEvent == [type : EventTypes,
               outcome : {"recorded", "succeeded", "refused", "failed"},
               actor : {"service", "caller"}, at : Nat, generation : Nat,
               status : Status, reason : Reasons, fencing : 0 .. MaxFencing,
               digests : SUBSET Digests]
PruneRow == [id : Nat, at : Nat, cutoff : Int, requests : Nat, leases : Nat,
             events : Nat, oldest : Int, newest : Int]

----------------------------------------------------------------------------
(* persist: what one transaction writes for a lease that changed.          *)

EventNames ==
  [Refused |-> "refused", Active |-> "activated", Renewing |-> "renewing",
   Closed |-> "closed", Revoked |-> "revoked", Expired |-> "expired",
   Error |-> "error"]

Transitions ==
  {<<"Requested", "Refused">>, <<"Requested", "Active">>,
   <<"Active", "Renewing">>, <<"Renewing", "Active">>}
    \cup ({"Active", "Renewing"} \X {"Closed", "Error"})
    \cup (Live \X {"Revoked", "Expired"})

TransitionEvent(from, to) ==
  IF from = "Renewing" /\ to = "Active" THEN "renewed" ELSE EventNames[to]

Outcome(type, reason) ==
  IF type = "refused" THEN "refused"
  ELSE IF type = "error" \/ (type = "closed" /\ reason = "WorkerFailed")
    THEN "failed" ELSE "succeeded"

(* An authenticated caller is named only for what it decided itself: a     *)
(* close, or its own revocation; a deadline found first is the service's.  *)
Actor(control, type, reason) ==
  IF control /\ (type = "closed"
                   \/ (type = "revoked" /\ reason = "OperatorRevoked"))
    THEN "caller" ELSE "service"

(* validate_actor: an operator revocation must name the caller.            *)
ActorValid(actor, type, reason) ==
  type = "revoked" /\ reason = "OperatorRevoked" => actor = "caller"

Anchor(l) == <<l.authority.anchorWall, l.authority.anchorMono>>

ClockChanged(before, after) ==
  before.last # after.last \/ Anchor(before) # Anchor(after)

TerminalEvents == {"refused", "closed", "revoked", "expired"}

(* Mutant: a transaction that only moved the clock keeps the row version.  *)
TouchedUnversioned(before, after) ==
  [row EXCEPT !.version = IF before.status = after.status THEN @ ELSE @ + 1,
              !.clock = IF ClockChanged(before, after) THEN @ + 1 ELSE @]

(* update_lease: every transaction that changes the lease.                 *)
Touched(before, after) ==
  [row EXCEPT !.version = @ + 1,
              !.clock = IF ClockChanged(before, after) THEN @ + 1 ELSE @]

(* Mutant: a renewal keeps the acknowledgement of the one before it.       *)
StampedKeepingAcknowledgement(r, type, at) ==
  [r EXCEPT
     !.sequence = @ + 1,
     !.activated = IF type = "activated" THEN at ELSE @,
     !.renewed = IF type = "renewing" THEN at ELSE @,
     !.acknowledged = IF type = "renewed" THEN at ELSE @,
     !.terminal = IF type \in TerminalEvents THEN at ELSE @]

(* update_lease: the wall times a transition records.                      *)
Stamped(r, type, at) ==
  [r EXCEPT
     !.sequence = @ + 1,
     !.activated = IF type = "activated" THEN at ELSE @,
     !.renewed = IF type = "renewing" THEN at ELSE @,
     !.acknowledged = IF type = "renewing" THEN NoTime
                      ELSE IF type = "renewed" THEN at ELSE @,
     !.terminal = IF type \in TerminalEvents THEN at ELSE @]

(* persist commits the lease the operation left, at the wall time of its   *)
(* sample: nothing when nothing changed, a new row version without an event*)
(* when only the clock moved, and one event when the status moved.         *)
Persist(at, control) ==
  \/ /\ lease' = lease
     /\ UNCHANGED rowVars
  \/ /\ lease' = [lease EXCEPT !.last = lease'.last]
     /\ lease' # lease
     /\ row' = Touched(lease, lease')
     /\ UNCHANGED audit
  \/ /\ <<lease.status, lease'.status>> \in Transitions
     /\ LET type == TransitionEvent(lease.status, lease'.status)
            actor == Actor(control, type, lease'.reason)
        IN /\ ActorValid(actor, type, lease'.reason)
           /\ row' = Stamped(Touched(lease, lease'), type, at)
           /\ audit' = Append(audit,
                Event(type, Outcome(type, lease'.reason), actor, at, lease',
                      generation))

----------------------------------------------------------------------------
(* load::lease_by_id: what every transaction demands of the row and of its *)
(* audit log before it touches the lease.                                  *)

(* validate_common and validate_initial.                                   *)
EventShape(e) ==
  /\ e.generation >= IssuedGeneration
  /\ e.outcome \in {"recorded", "succeeded", "refused", "failed"}
  /\ e.actor \in {"service", "caller"}

InitialAccepted(e) == e = RequestedEvent

OutcomeAccepted(e) ==
  /\ e.type = "refused" => e.outcome = "refused"
  /\ e.type = "error" => e.outcome = "failed"
  /\ e.type = "closed" =>
       e.outcome = IF e.reason = "WorkerFailed" THEN "failed" ELSE "succeeded"
  /\ e.type \in {"activated", "renewing", "renewed", "revoked", "expired"} =>
       e.outcome = "succeeded"

ActorAccepted(e) ==
  \/ e.type = "closed"
  \/ e.actor = IF e.type = "revoked" /\ e.reason = "OperatorRevoked"
                 THEN "caller" ELSE "service"

(* Authority is never exercised by another generation than the lease's own.*)
GenerationAccepted(origin, p, e) ==
  /\ e.generation >= p.generation
  /\ e.type \in {"activated", "renewing", "renewed", "closed"} =>
       e.generation = origin

FieldsMatchStatus(e) ==
  /\ (e.fencing # 0) = (e.status \in WithAuthority)
  /\ (e.digests # {}) = (e.status \in WithAuthority)
  /\ e.reason \in CASE e.status = "Closed" -> CloseReasons
                    [] e.status = "Revoked" -> RevocationReasons
                    [] e.status = "Expired" -> ExpiryReasons
                    [] e.status = "Error" -> ErrorReasons
                    [] OTHER -> {"None"}

AuthorityAccepted(p, e) ==
  CASE e.type = "refused" -> e.fencing = 0
    [] e.type = "activated" -> e.fencing = 1
    [] e.type = "renewing" -> e.fencing = p.fencing + 1
    [] OTHER -> e.fencing = p.fencing /\ e.digests = p.digests

PolicyExpected(e) ==
  e.status \in WithAuthority => PinnedDigests \subseteq e.digests

(* validate_transition: the event after p, in the log of a lease requested *)
(* under the generation "origin".                                          *)
TransitionAccepted(origin, p, e) ==
  /\ <<p.status, e.status>> \in Transitions
  /\ e.type = TransitionEvent(p.status, e.status)
  /\ OutcomeAccepted(e)
  /\ ActorAccepted(e)
  /\ GenerationAccepted(origin, p, e)
  /\ FieldsMatchStatus(e)
  /\ AuthorityAccepted(p, e)
  /\ PolicyExpected(e)

ChainAccepted ==
  /\ audit # <<>> /\ row.sequence = Len(audit) + 1
  /\ \A i \in 1 .. Len(audit) : EventShape(audit[i])
  /\ InitialAccepted(audit[1])
  /\ \A i \in 2 .. Len(audit) :
       TransitionAccepted(audit[1].generation, audit[i - 1], audit[i])

(* The projection of the log is the row, and the latest event is the one   *)
(* the row's wall time names.                                              *)
LatestAccepted ==
  LET e == Last(audit) IN
  /\ e.status = lease.status /\ e.reason = lease.reason
  /\ e.fencing = lease.authority.generation
  /\ e.digests = lease.authority.digests

(* unique_event_time: at most one such event, and the row repeats its time.*)
TimeOfUnique(column, found) ==
  IF found = {} THEN column = NoTime
  ELSE \E i \in found : found = {i} /\ audit[i].at = column

Found(types) == {i \in 1 .. Len(audit) : audit[i].type \in types}
OfThisRenewal(type) ==
  {i \in Found({type}) : audit[i].fencing = lease.authority.generation}

PersistedTimes ==
  /\ TimeOfUnique(row.activated, Found({"activated"}))
  /\ TimeOfUnique(row.renewed, OfThisRenewal("renewing"))
  /\ TimeOfUnique(row.acknowledged, OfThisRenewal("renewed"))
  /\ TimeOfUnique(row.terminal, Found(TerminalEvents))

(* validate_optional_audit_timestamps: which wall times a status has, and  *)
(* what they must be short of.  A wall rollback between them is allowed.   *)
RowTimes ==
  LET a == lease.authority
      resolved == lease.status \in WithAuthority
  IN /\ (row.activated # NoTime) = resolved
     /\ (row.terminal # NoTime) = (lease.status \in Terminal)
     /\ resolved => /\ row.activated >= IssuedWall
                    /\ row.activated < a.expires
     /\ ~resolved => row.renewed = NoTime /\ row.acknowledged = NoTime
     /\ row.acknowledged # NoTime => row.renewed # NoTime
     /\ resolved /\ a.generation = 1 =>
          row.renewed = NoTime /\ a.anchorWall = IssuedWall
     /\ resolved /\ a.generation > 1 => row.renewed = a.anchorWall
     /\ lease.status = "Renewing" =>
          row.acknowledged = NoTime /\ a.generation > 1
     /\ lease.status = "Active" /\ a.generation > 1 =>
          row.acknowledged # NoTime
     /\ row.acknowledged # NoTime =>
          row.acknowledged < Min2(a.expires, a.anchorWall + AckTimeout)
     /\ lease.status = "Closed" => row.terminal < a.expires
     /\ (lease.status = "Renewing") = (lease.ack # NoDeadline)

(* validate_terminal_evidence: an expired lease had reached the deadline   *)
(* its reason names, on the wall or on the monotonic clock.                *)
ExpiryEvidence ==
  LET a == lease.authority
      reached(wall, mono) == row.terminal >= wall \/ lease.last >= mono
  IN /\ lease.reason = "LeaseExpired" => reached(a.expires, a.monoDeadline)
     /\ lease.reason = "MaximumLifetimeReached" =>
          reached(a.maxExpires, a.monoMax)

(* validate_authorization(issued_at): a lease with authority was issued    *)
(* while its signed work order was valid.                                  *)
AuthorizedAt(wall) ==
  /\ NotBefore <= wall /\ wall < SignedExpires
  /\ wall + InitialTtl <= SignedExpires

(* persisted_state and resolved_authority rebuild the snapshot of the row. *)
RestoresFromRow == SnapshotRestores(lease)

LeaseLoads ==
  /\ row.clock > 0
  /\ RowTimes
  /\ ExpiryEvidence
  /\ ChainAccepted
  /\ LatestAccepted
  /\ PersistedTimes
  /\ lease.status \in WithAuthority => AuthorizedAt(IssuedWall)
  /\ RestoresFromRow

(* global_audit::validate: what a pruning may have recorded of itself.     *)
PruneRecordLoads(g) ==
  /\ g.at >= Retention /\ g.cutoff = g.at - Retention
  /\ g.requests = g.leases
  /\ g.events > 0 /\ g.events >= 2 * g.leases
  /\ g.oldest <= g.newest /\ g.newest <= g.cutoff

(* validate_all_leases, demanded of opening, acquiring and pruning.        *)
Loads ==
  /\ row.version # 0 => LeaseLoads
  /\ \A g \in globals : PruneRecordLoads(g)

----------------------------------------------------------------------------
(* Transactions.                                                           *)

(* begin_acquire inserts the request, the REQUESTED row and its first event*)
(* in one transaction; a profile the fence refuses is refused in it too.   *)
HistoryInit ==
  /\ launch = NoLaunch /\ acked = 0
  /\ generation = IssuedGeneration
  /\ globals = {} /\ prunes = 0
  /\ \/ /\ lease = Requested
        /\ row = RequestedRow
        /\ audit = <<RequestedEvent>>
     \/ /\ lease = RefusedRequest
        /\ row = RefusedRow
        /\ audit = <<RequestedEvent, RefusedEvent>>

(* mutable_in_generation: a later service generation never resumes a lease.*)
Mutable == row.version # 0 /\ LeaseLoads /\ generation = IssuedGeneration

RefuseRequested(now) ==
  /\ Refuse
  /\ Persist(now.wall, FALSE)

(* evaluate_policy permits the request at the sample it is evaluated with, *)
(* which the service takes after the row was committed.                    *)
Evaluated(now) ==
  \E at \in Samples : at.mono <= now.mono /\ AuthorizedAt(at.wall)

(* activate_requested: capacity that is taken and a profile resource that  *)
(* is busy refuse an activation the domain had prepared.                   *)
ActivateRequested(p, now) ==
  /\ Evaluated(now)
  /\ \/ Activate(p, now)
     \/ /\ lease.status = "Requested"
        /\ ActivationClockAccepted(lease, now)
        /\ ActivationAdmitted(p, now)
        /\ lease' = Finished(Observed(lease, now), "Refused", "None")
        /\ UNCHANGED <<launch, acked>>
  /\ Persist(now.wall, FALSE)

(* begin_renewal: a resource held in another mode, or capacity claimed     *)
(* under other limits, is answered once the deadlines were enforced.       *)
RenewLease(c, p, now) ==
  /\ c.caller
  /\ \/ BeginRenewal(c, p, now)
     \/ /\ ControlMatches(lease, c)
        /\ EnforceDeadlines(now)
  /\ Persist(now.wall, FALSE)

(* A foreign caller reaches only a renewal that awaits its acknowledgement.*)
AcknowledgeLease(c, now) ==
  /\ c.caller \/ lease.status = "Renewing"
  /\ AcknowledgeRenewal(c, now)
  /\ Persist(now.wall, FALSE)

CloseLease(c, reason, now) ==
  /\ Close(c, reason, now)
  /\ Persist(now.wall, TRUE)

RevokeAuthenticated(c, now) ==
  /\ RevokeControlled(c, now)
  /\ Persist(now.wall, TRUE)

ServiceRevocationReasons == RevocationReasons \ {"OperatorRevoked"}

(* enforce_before: the service's own transition is applied only to a lease *)
(* that the clock accepts and whose deadlines still hold.                  *)
AfterService(now, from, reasons, reason, status) ==
  LET e == Enforced(lease, now) IN
  IF /\ reason \in reasons
     /\ RuntimeClockAccepted(lease, now)
     /\ e.status = lease.status
     /\ e.status \in from
    THEN Finished(e, status, reason) ELSE e

RevokeByService(reason, now) ==
  /\ lease' = AfterService(now, Live, ServiceRevocationReasons, reason,
                           "Revoked")
  /\ UNCHANGED <<launch, acked>>
  /\ Persist(now.wall, FALSE)

MarkErrorByService(reason, now) ==
  /\ lease' = AfterService(now, {"Active", "Renewing"}, ErrorReasons, reason,
                           "Error")
  /\ UNCHANGED <<launch, acked>>
  /\ Persist(now.wall, FALSE)

EnforceExpiration(now) ==
  /\ EnforceDeadlines(now)
  /\ Persist(now.wall, FALSE)

(* The service restarts at any moment: its next store opens under the next *)
(* generation, and only recovery may touch what the earlier one left.      *)
Restart ==
  /\ generation < MaxGeneration
  /\ Loads
  /\ generation' = generation + 1
  /\ UNCHANGED <<lease, launch, acked, row, audit, globals, prunes>>

(* terminalize_prior_generation reads a wall time and no lease clock.      *)
TerminalizePriorGeneration(wall) ==
  /\ row.version # 0 /\ LeaseLoads /\ generation > IssuedGeneration
  /\ \/ Refuse
     \/ Revoke("ServiceRecovery")
  /\ Persist(wall, FALSE)
  /\ UNCHANGED <<generation, globals, prunes>>

(* Mutant: the replay record follows the audit retention alone.            *)
AuditHorizon == IssuedWall + Retention

(* replay_retain_until: seven days after issuance, or the signed expiry if *)
(* that is later.                                                          *)
ReplayRetainUntil == Max({IssuedWall + Retention, SignedExpires})

Prunable(now) ==
  /\ row.version # 0
  /\ lease.status \in Terminal
  /\ ReplayRetainUntil <= now
  /\ row.terminal + Retention <= now
  /\ \A i \in 1 .. Len(audit) : audit[i].at + Retention <= now

Times(rows) == {r.at : r \in rows}

PruneRecord(id, now, leases, events, times) ==
  [id |-> id, at |-> now, cutoff |-> now - Retention, requests |-> leases,
   leases |-> leases, events |-> events,
   oldest |-> Min(times), newest |-> Max(times)]

(* prune_retained deletes the old global events and the lease that is no   *)
(* longer needed, and records what it deleted; nothing deleted, no record.  *)
(* It needs a ready store: recovery has ended every earlier lease.          *)
PruneRetained(now) ==
  /\ now >= Retention
  /\ Loads
  /\ generation > IssuedGeneration /\ row.version # 0 =>
       lease.status \notin Live \cup {"Requested"}
  /\ prunes < MaxPrunes
  /\ LET old == {g \in globals : g.at + Retention <= now}
         ended == IF Prunable(now) THEN audit ELSE <<>>
         times == Times(old) \cup Times(Range(ended))
         record == PruneRecord(prunes + 1, now, IF Prunable(now) THEN 1 ELSE 0,
                               Cardinality(old) + Len(ended), times)
     IN /\ times # {}
        /\ globals' = (globals \ old) \cup {record}
  /\ IF Prunable(now)
       THEN row' = NoRow /\ audit' = <<>> /\ lease' = Requested /\ acked' = 0
       ELSE UNCHANGED <<row, audit, lease, acked>>
  /\ prunes' = prunes + 1
  /\ UNCHANGED <<launch, generation>>

(* Every mutation loads the lease in its own transaction first.            *)
Mutation ==
  /\ Mutable
  /\ UNCHANGED <<generation, globals, prunes>>
  /\ \E now \in Samples :
       \/ RefuseRequested(now)
       \/ EnforceExpiration(now)
       \/ \E p \in Policies : ActivateRequested(p, now)
       \/ \E reason \in ReasonInputs :
            RevokeByService(reason, now) \/ MarkErrorByService(reason, now)
       \/ \E c \in Controls :
            \/ AcknowledgeLease(c, now)
            \/ RevokeAuthenticated(c, now)
            \/ \E reason \in ReasonInputs : CloseLease(c, reason, now)
            \/ \E p \in Policies : RenewLease(c, p, now)

HistoryNext ==
  \/ Mutation
  \/ Restart
  \/ \E now \in Samples : TerminalizePriorGeneration(now.wall)
  \/ \E now \in PruneWalls : PruneRetained(now)

HistorySpec == HistoryInit /\ [][HistoryNext]_history

----------------------------------------------------------------------------
(* Properties.                                                             *)

(* The committed rows keep their types.                                    *)
HistoryTypeOK ==
  /\ lease \in LeaseRecord
  /\ row \in LeaseRow
  /\ audit \in Seq(AuditEvent)
  /\ generation \in Nat /\ generation >= IssuedGeneration
  /\ globals \subseteq PruneRow /\ IsFiniteSet(globals)
  /\ \A g \in globals : g.id <= prunes
  /\ prunes \in Nat

(* What makes HistoryLoads inductive: the log is never ahead of the lease's*)
(* fencing generation, nor of the service generation that is open.         *)
LogNotAhead ==
  /\ \A i \in 1 .. Len(audit) : audit[i].fencing <= lease.authority.generation
  /\ audit # <<>> => Last(audit).generation <= generation

HistoryInv ==
  /\ HistoryTypeOK
  /\ SnapshotRestores(lease)
  /\ Loads
  /\ LogNotAhead

(* Whatever operations, clocks, restarts and recoveries produced it, the   *)
(* committed row and its audit log pass the loader's verification, and so  *)
(* do the records pruning leaves: no legal sequence of calls can close the *)
(* store (load/audit.rs, load.rs, load/global_audit.rs).                   *)
HistoryLoads == Loads

(* A row version names one committed state: every transaction that changes *)
(* the lease, its wall times or its log also moves the version, so a retry *)
(* with the version read before writes nothing (lifecycle.rs).             *)
VersionStep ==
  row.version # 0 /\ row'.version # 0 /\ <<lease, row, audit>>' # <<lease, row, audit>>
    => row'.version > row.version
VersionNamesState == [][VersionStep]_history

(* Retention forgets a request only when nothing may still depend on it:   *)
(* its signed work order can no longer be evaluated at the wall clock that *)
(* pruned it, so a replay cannot obtain a second lease from it, and the    *)
(* outcome and every event of the lease are seven days old (retention.rs). *)
ForgetStep ==
  row.version # 0 /\ row'.version = 0 =>
    \E g \in globals' \ globals :
      /\ lease.status \in Terminal
      /\ ~AuthorizedAt(g.at)
      /\ \A i \in 1 .. Len(audit) : audit[i].at <= g.cutoff
ForgottenIsSpent == [][ForgetStep]_history

(* What the documentation promises of a replay: the store reconstructs the *)
(* lease of every request it has recorded, in whatever status it is.       *)
ReplayReconstructs == row.version # 0 => LeaseLoads
============================================================================
