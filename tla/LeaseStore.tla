----------------------------- MODULE LeaseStore -----------------------------
(***************************************************************************)
(* The lease store of the automation service (src/src/automation/store):   *)
(* the SQLite rows and capacity reservations, the fence markers on disk,   *)
(* and the guards and cleanup latches the store keeps in memory.           *)
(*                                                                         *)
(* One process owns the store and runs its operations one at a time, so    *)
(* what makes it hard is failure: a crash between two durable steps of one *)
(* operation, a commit whose outcome is unknown, a lock an ordinary        *)
(* command holds, a read that fails.  An operation with several durable    *)
(* steps is a chain of actions linked by "todo", and Stop may strike       *)
(* between any two of them.                                                *)
(*                                                                         *)
(* Abstracted: clocks and deadlines (module Lease) to the set of outcomes  *)
(* they may have, the marker and lock protocol (module ProfileFence) to    *)
(* its results, row versions (a call with a stale version changes nothing, *)
(* and a lease and the client request it answers are one name here).       *)
(***************************************************************************)
EXTENDS Naturals, FiniteSets

CONSTANTS
  Requests,       \* client requests; each makes at most one lease at a time
  Profiles,       \* immutable profile UIDs
  Policies,       \* effective policies a caller may present
  Dims,           \* capacity dimensions: profile, provider, caller, host
  ProfileOf,      \* the profile UID a request names
  Key,            \* Key[r][d]: the key request r is counted under
  Limit,          \* Limit[p][d]: the policy's limit in dimension d
  ModeOf,         \* the resource mode a policy asks for
  LegacyRequests, \* requests whose rows may predate fence markers
  MaxGeneration   \* bound: how often the store is opened

ASSUME RequestsAssumption == IsFiniteSet(Requests)
ASSUME ProfileAssumption == ProfileOf \in [Requests -> Profiles]
ASSUME PolicyAssumption ==
  /\ ModeOf \in [Policies -> {"exclusive", "shared"}]
  /\ Limit \in [Policies -> [Dims -> Nat]]
  /\ "none" \notin Policies \cup Requests
ASSUME GenerationAssumption == MaxGeneration \in Nat

VARIABLES
  phase,      \* "down", "recovering" (RecoveringStore), "ready" (ReadyStore)
  gen,        \* newest service generation recorded in the database
  row,        \* leases table, by request
  cap,        \* capacity reservations of a lease: "none", "held", "released"
  marker,     \* fence marker present on disk
  fence,      \* in-memory fence guard of a profile
  res,        \* in-memory resource guard of a lease, by its mode
  hard,       \* fence_cleanup_deferred
  retryable,  \* retryable_cleanup_deferred
  uncertain,  \* durability_uncertain
  todo        \* the rest of the operation in progress

durable == <<gen, row, cap, marker>>
guards  == <<fence, res, hard, retryable, uncertain>>
vars == <<phase, durable, guards, todo>>

Live       == {"Active", "Renewing", "Error"}
Unresolved == Live \cup {"Requested"}
Terminal   == {"Refused", "Closed", "Revoked", "Expired"}

Absent == [status |-> "Absent", origin |-> 0, policy |-> "none"]
Idle   == [op |-> "idle", req |-> "none", policy |-> "none", made |-> FALSE]

Rows == [status : Unresolved \cup Terminal \cup {"Absent"},
         origin : 0 .. MaxGeneration,
         policy : Policies \cup {"none"}]

Steps == {"idle", "insert", "refuse", "activate", "terminalize", "cleanup"}

TypeOK ==
  /\ phase \in {"down", "recovering", "ready"}
  /\ gen \in 0 .. MaxGeneration
  /\ row \in [Requests -> Rows]
  /\ cap \in [Requests -> {"none", "held", "released"}]
  /\ marker \in [Profiles -> BOOLEAN]
  /\ fence \in [Profiles -> {"none", "shared", "busy", "deferred"}]
  /\ res \in [Requests -> {"none", "exclusive", "shared"}]
  /\ hard \subseteq Profiles
  /\ retryable \subseteq Profiles
  /\ uncertain \in BOOLEAN
  /\ todo \in [op : Steps, req : Requests \cup {"none"},
               policy : Policies \cup {"none"}, made : BOOLEAN]
  /\ todo.op # "idle" => todo.req \in Requests

LegacyRows ==
  {Absent, [Absent EXCEPT !.status = "Requested"]}
    \cup {[status |-> "Active", origin |-> 0, policy |-> p] : p \in Policies}

Init ==
  /\ phase = "down"
  /\ gen = 0
  /\ row \in [Requests -> LegacyRows]
  /\ \A r \in Requests \ LegacyRequests : row[r] = Absent
  /\ cap = [r \in Requests |->
              IF row[r].status = "Active" THEN "held" ELSE "none"]
  /\ marker = [u \in Profiles |-> FALSE]
  /\ fence = [u \in Profiles |-> "none"]
  /\ res = [r \in Requests |-> "none"]
  /\ hard = {} /\ retryable = {} /\ uncertain = FALSE
  /\ todo = Idle

----------------------------------------------------------------------------
(* What the code asks of the database and of its memory.                   *)

(* profile_has_blocking_state; release_terminal_resource_if_resolved asks  *)
(* the same of one lease.                                                  *)
Blocking(r) == row[r].status \in Unresolved \/ cap[r] = "held"
(* Mutant: a request that waits for activation does not block.             *)
BlockedByLive(u) ==
  \E r \in Requests :
    ProfileOf[r] = u /\ (row[r].status \in Live \/ cap[r] = "held")

Blocked(u) == \E r \in Requests : ProfileOf[r] = u /\ Blocking(r)

(* has_cleanup_deferred.                                                   *)
Deferred ==
  \/ uncertain
  \/ hard # {}
  \/ retryable # {}
  \/ \E u \in Profiles : fence[u] \in {"busy", "deferred"}

HardLatched(u) == uncertain \/ u \in hard \/ fence[u] = "deferred"

Held(u, rs) == {r \in Requests : ProfileOf[r] = u /\ rs[r] # "none"}

(* The leases validate_retained_profile_resources expects guards for.      *)
Expected(u) ==
  {r \in Requests : ProfileOf[r] = u
                    /\ (row[r].status \in Live \/ cap[r] = "held")}

Usage(d, k) == Cardinality({r \in Requests : cap[r] = "held" /\ Key[r][d] = k})

(* Mutant: the last slot is handed out twice.                              *)
AvailablePastLimit(r, p) ==
  \A d \in Dims : Usage(d, Key[r][d]) <= Limit[p][d]

(* reservation_plan: every dimension has room.                             *)
Available(r, p) == \A d \in Dims : Usage(d, Key[r][d]) < Limit[p][d]

(* held_claim_matches: the limits recorded with the claim.                 *)
ClaimMatches(r, p) ==
  \A d \in Dims : Limit[row[r].policy][d] = Limit[p][d]

(* Mutant: a shared lease does not look at the leases already there.       *)
CompatibleIfShared(u, mode) == mode = "exclusive" => Held(u, res) = {}

(* flock on the profile's resource file.                                   *)
Compatible(u, mode) ==
  /\ mode = "exclusive" => Held(u, res) = {}
  /\ \A r \in Held(u, res) : res[r] = "shared"

Ready == phase = "ready" /\ todo = Idle
Current(r) == row[r].origin = gen

Latch(u) == hard' = hard \cup {u}

----------------------------------------------------------------------------
(* try_clear_profile_fence: every outcome it can have for profile u when   *)
(* rs are the resource guards in memory.  An outcome is what is left of    *)
(* the guard, the marker and the latches, and the error reported.          *)

Outcome(u) == [fence |-> fence[u], marker |-> marker[u], hard |-> u \in hard,
               retry |-> u \in retryable, error |-> "none"]

HardOutcome(u, error) == [Outcome(u) EXCEPT !.hard = TRUE, !.error = error]

(* The upgrade met an ordinary command's lock, or lost its own.            *)
BusyOutcome(u, error) ==
  [Outcome(u) EXCEPT !.fence = "busy", !.retry = TRUE, !.error = error]
DeferredOutcome(u) ==
  [Outcome(u) EXCEPT !.fence = "deferred", !.hard = TRUE, !.error = "unsafe"]

(* A resource guard remains, so the lifecycle guard must stay shared.      *)
RetainedOutcomes(u, rs) ==
  IF fence[u] # "shared" THEN {HardOutcome(u, "integrity")}
  ELSE {[Outcome(u) EXCEPT !.retry = TRUE, !.error = "database"]}
       \cup IF Held(u, rs) = Expected(u) /\ Blocked(u)
              THEN {[Outcome(u) EXCEPT !.retry = FALSE]}
              ELSE {HardOutcome(u, "integrity")}

(* No guard to upgrade: only an unblocked profile without marker is clean. *)
UnguardedOutcomes(u) ==
  {HardOutcome(u, "database")}
    \cup IF Blocked(u) \/ marker[u]
           THEN {HardOutcome(u, "recovery")}
           ELSE {[Outcome(u) EXCEPT !.hard = FALSE, !.retry = FALSE]}

ReadFailures(u) ==
  {[Outcome(u) EXCEPT !.fence = "shared", !.retry = TRUE, !.error = "database"],
   BusyOutcome(u, "database"),
   DeferredOutcome(u)}

(* With the lifecycle lock exclusive the blockers are read again: kept, or *)
(* unlinked and synchronized; a failed unlink leaves the marker either way *)
ProvedOutcomes(u) ==
  IF Blocked(u)
    THEN {[Outcome(u) EXCEPT !.fence = "shared", !.retry = FALSE],
          BusyOutcome(u, "busy"), DeferredOutcome(u)}
    ELSE {[Outcome(u) EXCEPT !.fence = "none", !.marker = FALSE,
                             !.hard = FALSE, !.retry = FALSE],
          DeferredOutcome(u),
          [DeferredOutcome(u) EXCEPT !.marker = FALSE]}

ClearOutcomes(u, rs) ==
  IF HardLatched(u) THEN {[Outcome(u) EXCEPT !.error = "recovery"]}
  ELSE IF Held(u, rs) # {} THEN RetainedOutcomes(u, rs)
  ELSE IF fence[u] = "none" THEN UnguardedOutcomes(u)
  ELSE {BusyOutcome(u, "busy"), DeferredOutcome(u)}
         \cup ReadFailures(u) \cup ProvedOutcomes(u)

Member(S, u, in) == IF in THEN S \cup {u} ELSE S \ {u}

Settle(u, o) ==
  /\ fence' = [fence EXCEPT ![u] = o.fence]
  /\ marker' = [marker EXCEPT ![u] = o.marker]
  /\ hard' = Member(hard, u, o.hard)
  /\ retryable' = Member(retryable, u, o.retry)

(* latch_cleanup_failure: a failed read or a busy lock may be retried.     *)
WithLatch(o) ==
  CASE o.error = "none" -> o
    [] o.error \in {"database", "busy"} -> [o EXCEPT !.retry = TRUE]
    [] OTHER -> [o EXCEPT !.hard = TRUE]

(* Mutant: a failed insert leaves the fence it had prepared.               *)
AbandonNothing(u, made) == UNCHANGED <<fence, marker, hard, retryable>>

(* A step that failed before its commit clears the fence it had prepared.  *)
Abandon(u, made) ==
  IF made THEN \E o \in ClearOutcomes(u, res) : Settle(u, o)
          ELSE UNCHANGED <<fence, marker, hard, retryable>>

----------------------------------------------------------------------------
(* Opening, recovery, readiness, loss of the process.                      *)

(* RecoveringStore::open: every marker's locks are taken or nothing opens. *)
Open ==
  /\ phase = "down" /\ gen < MaxGeneration
  /\ phase' = "recovering"
  /\ gen' = gen + 1
  /\ fence' = [u \in Profiles |-> IF marker[u] THEN "shared" ELSE "none"]
  /\ UNCHANGED <<row, cap, marker, res, hard, retryable, uncertain, todo>>

(* A crash, a store that is dropped, or into_ready, which consumes the     *)
(* store, refusing: memory and locks are gone, disk stays.                 *)
Stop ==
  /\ phase # "down" /\ gen < MaxGeneration
  /\ phase' = "down"
  /\ fence' = [u \in Profiles |-> "none"]
  /\ res' = [r \in Requests |-> "none"]
  /\ hard' = {} /\ retryable' = {} /\ uncertain' = FALSE
  /\ todo' = Idle
  /\ UNCHANGED durable

Recovering == phase = "recovering" /\ todo = Idle

Candidate(r) == row[r].status # "Absent" /\ row[r].origin < gen

Terminalizing(r, made) ==
  [op |-> "terminalize", req |-> r, policy |-> "none", made |-> made]

(* ensure_recovery_fence with a guard at hand, or a busy one that turns    *)
(* out to be clearable for blockers; one with no blocker left is a fault.  *)
RecoverFenced(r) ==
  LET u == ProfileOf[r] IN
  /\ Recovering /\ Candidate(r)
  /\ \/ /\ fence[u] = "shared"
        /\ todo' = Terminalizing(r, FALSE)
        /\ UNCHANGED <<marker, guards>>
     \/ /\ fence[u] = "busy"
        /\ \E o \in ClearOutcomes(u, res) :
             IF o.error # "none" THEN Settle(u, o) /\ UNCHANGED todo
             ELSE IF o.fence = "shared"
                    THEN Settle(u, o) /\ todo' = Terminalizing(r, FALSE)
                    ELSE Settle(u, [o EXCEPT !.hard = TRUE]) /\ UNCHANGED todo
        /\ UNCHANGED <<res, uncertain>>
  /\ UNCHANGED <<phase, gen, row, cap>>

(* A row without a fence: only one that never held authority may still be  *)
(* fenced, by prepare_profile_automation_recovery_fence.                   *)
RecoverUnfenced(r) ==
  LET u == ProfileOf[r] IN
  /\ Recovering /\ Candidate(r) /\ fence[u] = "none"
  /\ IF row[r].status \notin {"Requested", "Refused"}
       THEN Latch(u) /\ UNCHANGED <<fence, marker, retryable, todo>>
       ELSE \/ /\ fence' = [fence EXCEPT ![u] = "shared"]
               /\ marker' = [marker EXCEPT ![u] = TRUE]
               /\ todo' = Terminalizing(r, TRUE)
               /\ UNCHANGED <<hard, retryable>>
            \/ /\ \E o \in {BusyOutcome(u, "busy"), DeferredOutcome(u)},
                     published \in BOOLEAN :
                    /\ o.fence = "busy" => published
                    /\ Settle(u, [o EXCEPT !.marker = published])
               /\ UNCHANGED todo
  /\ UNCHANGED <<phase, gen, row, cap, res, uncertain>>

(* extend_recovery_blocker_aliases: a live blocker whose alias the fence   *)
(* does not represent, or an extension that fails halfway.                 *)
RecoveryAliasRefused(r) ==
  LET u == ProfileOf[r] IN
  /\ Recovering /\ Candidate(r) /\ fence[u] = "shared"
  /\ \E left \in {"shared", "deferred"} :
       fence' = [fence EXCEPT ![u] = left]
  /\ Latch(u)
  /\ UNCHANGED <<phase, durable, res, retryable, uncertain, todo>>

Recovered(r) ==
  [row EXCEPT ![r].status =
     CASE row[r].status = "Requested" -> "Refused"
       [] row[r].status \in Live      -> "Revoked"
       [] OTHER                       -> row[r].status]

Released(r) ==
  [cap EXCEPT ![r] = IF cap[r] = "held" THEN "released" ELSE cap[r]]

Cleaning(r) == [Idle EXCEPT !.op = "cleanup", !.req = r]

(* A commit that reported an error: the rows may or may not have changed,  *)
(* and the profile is latched until the process is replaced.               *)
Uncertain(r, newRow, newCap) ==
  /\ \/ row' = newRow /\ cap' = newCap
     \/ UNCHANGED <<row, cap>>
  /\ Latch(ProfileOf[r])
  /\ todo' = Idle
  /\ UNCHANGED <<fence, marker, retryable>>

(* terminalize_prior_generation, after the fence is at hand.               *)
Terminalize ==
  LET r == todo.req IN
  /\ todo.op = "terminalize"
  /\ \/ /\ row' = Recovered(r) /\ cap' = Released(r)
        /\ todo' = Cleaning(r)
        /\ UNCHANGED <<fence, marker, hard, retryable>>
     \/ /\ Abandon(ProfileOf[r], todo.made)
        /\ todo' = Idle
        /\ UNCHANGED <<row, cap>>
     \/ Uncertain(r, Recovered(r), Released(r))
  /\ UNCHANGED <<phase, gen, res, uncertain>>

(* clear_orphan_profile_fence.                                             *)
ClearOrphan(u) ==
  /\ Recovering
  /\ \E o \in ClearOutcomes(u, res) : Settle(u, o)
  /\ UNCHANGED <<phase, gen, row, cap, res, uncertain, todo>>

(* Mutant: readiness asks the guards but not the rows.                     *)
IntoReadyUnresolved ==
  /\ Recovering
  /\ ~Deferred
  /\ \A u \in Profiles : fence[u] = "none"
  /\ phase' = "ready"
  /\ UNCHANGED <<durable, guards, todo>>

IntoReady ==
  /\ Recovering
  /\ \A r \in Requests : ~Blocking(r)
  /\ ~Deferred
  /\ \A u \in Profiles : fence[u] = "none"
  /\ \A r \in Requests : res[r] = "none"
  /\ phase' = "ready"
  /\ UNCHANGED <<durable, guards, todo>>

----------------------------------------------------------------------------
(* post_terminal_cleanup, with the latching its callers add.               *)
PostTerminalCleanup ==
  LET r == todo.req
      u == ProfileOf[r] IN
  /\ todo.op = "cleanup"
  /\ \/ /\ retryable' = retryable \cup {u}
        /\ UNCHANGED <<fence, marker, res, hard>>
     \/ /\ res' = IF Blocking(r) THEN res ELSE [res EXCEPT ![r] = "none"]
        /\ \E o \in ClearOutcomes(u, res') : Settle(u, WithLatch(o))
  /\ todo' = Idle
  /\ UNCHANGED <<phase, gen, row, cap, uncertain>>

(* retry_profile_fence_cleanup: releases what is resolved, one lease at a  *)
(* time, and stops at the first failed read.                               *)
RetryCleanup(u) ==
  LET resolved == {r \in Held(u, res) : ~Blocking(r)}
      without(S) == [r \in Requests |-> IF r \in S THEN "none" ELSE res[r]]
  IN
  /\ Ready
  /\ \/ /\ HardLatched(u)
        /\ UNCHANGED <<fence, marker, res, hard, retryable>>
     \/ /\ ~HardLatched(u)
        /\ \E S \in SUBSET resolved : res' = without(S)
        /\ UNCHANGED <<fence, marker, hard, retryable>>
     \/ /\ ~HardLatched(u)
        /\ res' = without(resolved)
        /\ \E o \in ClearOutcomes(u, res') : Settle(u, o)
  /\ UNCHANGED <<phase, gen, row, cap, uncertain, todo>>

----------------------------------------------------------------------------
(* Acquisition: fence first, then the row.                                 *)

Inserting(r, op, made) ==
  [op |-> op, req |-> r, policy |-> "none", made |-> made]

(* begin_acquire for a new request: a request naming a missing profile or  *)
(* the wrong provider is recorded as refused and makes no fence.           *)
BeginAcquire(r) ==
  LET u == ProfileOf[r] IN
  /\ Ready /\ row[r] = Absent /\ ~Deferred
  /\ \/ /\ todo' = Inserting(r, "refuse", FALSE)
        /\ UNCHANGED <<fence, marker, hard, retryable>>
     \/ /\ fence[u] = "shared"
        /\ todo' = Inserting(r, "insert", FALSE)
        /\ UNCHANGED <<fence, marker, hard, retryable>>
     \/ /\ fence[u] = "none"
        /\ fence' = [fence EXCEPT ![u] = "shared"]
        /\ marker' = [marker EXCEPT ![u] = TRUE]
        /\ todo' = Inserting(r, "insert", TRUE)
        /\ UNCHANGED <<hard, retryable>>
     \/ \* the fence in memory does not validate
        /\ fence[u] = "shared"
        /\ Latch(u)
        /\ UNCHANGED <<fence, marker, retryable, todo>>
     \/ \* preparation failed after it had touched the marker
        /\ fence[u] = "none"
        /\ \E o \in {BusyOutcome(u, "busy"), DeferredOutcome(u)},
              published \in BOOLEAN :
             /\ o.fence = "busy" => published
             /\ Settle(u, [o EXCEPT !.marker = published])
        /\ UNCHANGED todo
  /\ UNCHANGED <<phase, gen, row, cap, res, uncertain>>

NewRow(r, status) ==
  [row EXCEPT ![r] = [status |-> status, origin |-> gen, policy |-> "none"]]

(* persist_acquire_second_phase and finish_acquire_second_phase.           *)
InsertRequested ==
  LET r == todo.req
      new == NewRow(r, IF todo.op = "refuse" THEN "Refused" ELSE "Requested")
  IN
  /\ todo.op \in {"insert", "refuse"}
  /\ \/ /\ row' = new
        /\ todo' = IF todo.op = "refuse" THEN Cleaning(r) ELSE Idle
        /\ UNCHANGED <<cap, fence, marker, hard, retryable>>
     \/ /\ Abandon(ProfileOf[r], todo.made)
        /\ todo' = Idle
        /\ UNCHANGED <<row, cap>>
     \/ Uncertain(r, new, cap)
  /\ UNCHANGED <<phase, gen, res, uncertain>>

----------------------------------------------------------------------------
(* Activation: resource first, then one transaction that recounts capacity *)

Fenced(r) == fence[ProfileOf[r]] = "shared"

(* Guards that are missing or no longer validate (replay, activation,      *)
(* renewal, acknowledgement): latched before anything else is touched.     *)
GuardsRefused(r) ==
  /\ Ready /\ ~Deferred
  /\ Current(r) /\ row[r].status \in Unresolved
  /\ Latch(ProfileOf[r])
  /\ UNCHANGED <<phase, durable, fence, res, retryable, uncertain, todo>>

(* A mutation that persists no more than the clock, its commit uncertain.  *)
ClockUncertain(r) ==
  /\ Ready /\ Current(r) /\ row[r].status # "Absent"
  /\ Latch(ProfileOf[r])
  /\ UNCHANGED <<phase, durable, fence, res, retryable, uncertain, todo>>

(* activate_requested up to the registration of the resource guard; "made" *)
(* says whether the lock was free.                                         *)
BeginActivate(r, p) ==
  LET u == ProfileOf[r] IN
  /\ Ready /\ ~Deferred
  /\ Current(r) /\ row[r].status = "Requested"
  /\ Fenced(r)
  /\ \E registered \in {FALSE, Compatible(u, ModeOf[p])} :
       /\ res' = IF registered THEN [res EXCEPT ![r] = ModeOf[p]] ELSE res
       /\ todo' = [op |-> "activate", req |-> r, policy |-> p,
                   made |-> registered]
  /\ UNCHANGED <<phase, durable, fence, hard, retryable, uncertain>>

Activated(r, p) ==
  IF Available(r, p) /\ todo.made
    THEN [row EXCEPT ![r].status = "Active", ![r].policy = p]
    ELSE [row EXCEPT ![r].status = "Refused"]

Claimed(r, p) ==
  IF Available(r, p) /\ todo.made THEN [cap EXCEPT ![r] = "held"] ELSE cap

WithoutResource(r) == [res EXCEPT ![r] = "none"]

(* Mutant: an uncertain commit is treated as one that was never tried.     *)
ActivateRollsBack ==
  LET r == todo.req
      p == todo.policy IN
  /\ todo.op = "activate"
  /\ \/ /\ row' = Activated(r, p) /\ cap' = Claimed(r, p)
        /\ todo' = IF Available(r, p) /\ todo.made THEN Idle ELSE Cleaning(r)
        /\ res' = IF Available(r, p) /\ todo.made THEN res
                                                 ELSE WithoutResource(r)
        /\ UNCHANGED <<fence, marker, hard, retryable>>
     \/ Uncertain(r, Activated(r, p), Claimed(r, p)) /\ res' = WithoutResource(r)
  /\ UNCHANGED <<phase, gen, uncertain>>

ActivateRequested ==
  LET r == todo.req
      p == todo.policy IN
  /\ todo.op = "activate"
  /\ \/ /\ row' = Activated(r, p) /\ cap' = Claimed(r, p)
        /\ IF Available(r, p) /\ todo.made
             THEN todo' = Idle /\ UNCHANGED res
             ELSE todo' = Cleaning(r) /\ res' = WithoutResource(r)
        /\ UNCHANGED <<fence, marker, hard, retryable>>
     \/ /\ res' = WithoutResource(r)
        /\ todo' = Idle
        /\ UNCHANGED <<row, cap, fence, marker, hard, retryable>>
     \/ Uncertain(r, Activated(r, p), Claimed(r, p)) /\ UNCHANGED res
  /\ UNCHANGED <<phase, gen, uncertain>>

----------------------------------------------------------------------------
(* Mutations of a lease of this generation.                                *)

(* finish_mutation: status and capacity in one transaction, the cleanup    *)
(* after it.                                                               *)
Mutate(r, status) ==
  LET new == [row EXCEPT ![r].status = status]
      left == IF status \in Terminal THEN Released(r) ELSE cap IN
  /\ Ready /\ Current(r)
  /\ \/ /\ row' = new /\ cap' = left
        /\ todo' = IF status \in Terminal THEN Cleaning(r) ELSE Idle
        /\ UNCHANGED <<fence, marker, hard, retryable>>
     \/ Uncertain(r, new, left)
  /\ UNCHANGED <<phase, gen, res, uncertain>>

RefuseRequested(r) == row[r].status = "Requested" /\ Mutate(r, "Refused")

(* Mutant: a deferred cleanup does not stop renewals.                      *)
RenewDespiteLatch(r, p) ==
  /\ Fenced(r) /\ res[r] = ModeOf[p]
  /\ row[r].status = "Active"
  /\ ClaimMatches(r, p)
  /\ Mutate(r, "Renewing")

(* begin_renewal: the mode of the guard and the limits of the claim must   *)
(* be the ones the presented policy asks for.                              *)
BeginRenewal(r, p) ==
  /\ ~Deferred /\ Fenced(r) /\ res[r] # "none"
  /\ row[r].status = "Active"
  /\ res[r] = ModeOf[p]
  /\ ClaimMatches(r, p)
  /\ Mutate(r, "Renewing")

AcknowledgeRenewal(r) ==
  /\ ~Deferred /\ Fenced(r) /\ res[r] # "none"
  /\ row[r].status = "Renewing"
  /\ Mutate(r, "Active")

(* An acknowledgement that does not match, a foreign caller's included,    *)
(* revokes, latches or not.                                                *)
RefuseAcknowledgement(r) == row[r].status = "Renewing" /\ Mutate(r, "Revoked")

CloseLease(r) ==
  row[r].status \in {"Active", "Renewing"} /\ Mutate(r, "Closed")

(* revoke_authenticated, revoke_by_service.                                *)
RevokeLease(r) == row[r].status \in Live /\ Mutate(r, "Revoked")

MarkError(r) ==
  row[r].status \in {"Active", "Renewing"} /\ Mutate(r, "Error")

(* Any operation that meets a deadline.                                    *)
EnforceExpiration(r) == row[r].status \in Live /\ Mutate(r, "Expired")

(* release_terminal_capacity: this generation releases with the terminal   *)
(* commit, so nothing is left to release and the call is left with the     *)
(* cleanup.                                                                *)
ReleaseTerminalCapacity(r) ==
  /\ Ready /\ Current(r) /\ row[r].status \in Terminal
  /\ cap' = Released(r)
  /\ todo' = Cleaning(r)
  /\ UNCHANGED <<phase, gen, row, marker, guards>>

(* prune_retained: S is what is past its retention.                        *)
Prune(S) ==
  LET pruned == [r \in Requests |-> IF r \in S THEN Absent ELSE row[r]]
      left   == [r \in Requests |-> IF r \in S THEN "none" ELSE cap[r]] IN
  /\ Ready /\ ~Deferred
  /\ S # {}
  /\ \A r \in S : row[r].status \in Terminal /\ cap[r] # "held"
  /\ \/ row' = pruned /\ cap' = left /\ UNCHANGED uncertain
     \/ row' = pruned /\ cap' = left /\ uncertain' = TRUE
     \/ UNCHANGED <<row, cap>> /\ uncertain' = TRUE
  /\ UNCHANGED <<phase, gen, marker, fence, res, hard, retryable, todo>>

Next ==
  \/ Open \/ Stop \/ IntoReady
  \/ Terminalize \/ PostTerminalCleanup
  \/ InsertRequested \/ ActivateRequested
  \/ \E u \in Profiles : ClearOrphan(u) \/ RetryCleanup(u)
  \/ \E S \in SUBSET Requests : Prune(S)
  \/ \E r \in Requests :
       \/ RecoverFenced(r) \/ RecoverUnfenced(r) \/ RecoveryAliasRefused(r)
       \/ BeginAcquire(r) \/ GuardsRefused(r) \/ ClockUncertain(r)
       \/ \E p \in Policies : BeginActivate(r, p) \/ BeginRenewal(r, p)
       \/ RefuseRequested(r) \/ AcknowledgeRenewal(r)
       \/ RefuseAcknowledgement(r) \/ CloseLease(r) \/ RevokeLease(r)
       \/ MarkError(r) \/ EnforceExpiration(r) \/ ReleaseTerminalCapacity(r)

Spec == Init /\ [][Next]_vars

----------------------------------------------------------------------------
(* What the store must keep true.                                          *)

(* A lease that could still hold authority, or its capacity, keeps its     *)
(* profile's marker on disk through every crash, unknown commit and failed *)
(* cleanup (try_clear_profile_fence and the order fence, row).  Rows older *)
(* than the markers are the exception recovery deals with.                 *)
BlockersMarked ==
  \A r \in Requests :
    Blocking(r) /\ row[r].origin > 0 => marker[ProfileOf[r]]

(* A row that says a lease of this process is live has the resource guard  *)
(* of its policy's mode and some fence guard in this process's memory: no  *)
(* error path drops a guard the database still counts on                   *)
(* (activate_requested, post_terminal_cleanup).                            *)
LiveGuarded ==
  \A r \in Requests :
    phase = "ready" /\ Current(r) /\ row[r].status \in Live =>
      /\ res[r] = ModeOf[row[r].policy]
      /\ fence[ProfileOf[r]] # "none"

(* Once ready, nothing of an earlier generation is unresolved or counted   *)
(* against capacity (into_ready, terminalize_prior_generation).            *)
ReadyResolved ==
  phase = "ready" =>
    \A r \in Requests : row[r].origin < gen => ~Blocking(r)

(* Between operations, a ready store that reports no deferred cleanup has  *)
(* left no profile fenced for nothing: a marker or guard without a lease   *)
(* that needs it is always latched for cleanup.                            *)
NoLeakedFence ==
  Ready /\ ~Deferred =>
    \A u \in Profiles : marker[u] \/ fence[u] # "none" => Blocked(u)

(* While any cleanup is deferred the store creates no request, grants no   *)
(* authority and prunes nothing; ending leases stays possible.             *)
GrantsUndeferred ==
  [][phase = "ready" /\ Deferred =>
       \A r \in Requests :
         row'[r].status # row[r].status => row'[r].status \in Terminal \cup {"Error"}]_vars

(* The promise of LeaseAuthority, kept through crashes at any point.       *)
Stage(r) ==
  IF row[r] = Absent THEN "absent"
  ELSE IF row[r].status \in Terminal THEN "ended"
  ELSE IF row[r].origin < gen \/ row[r].origin = 0 THEN "doomed"
  ELSE IF row[r].status = "Requested" THEN "pending"
  ELSE "granted"

Authority ==
  INSTANCE LeaseAuthority WITH
    sealed <- {u \in Profiles : marker[u]},
    stage <- [r \in Requests |-> Stage(r)],
    claim <- [r \in Requests |-> row[r].policy]

ImplementsAuthority == Authority!Spec
----------------------------------------------------------------------------
(* What makes them inductive.                                              *)

(* Rows carry a generation that was opened; while a store recovers, all    *)
(* of them come from an earlier one.                                       *)
Generations ==
  /\ phase # "down" => gen > 0
  /\ \A r \in Requests : row[r].origin <= gen
  /\ phase = "recovering" => \A r \in Requests : row[r].origin < gen

RowsFormed ==
  \A r \in Requests :
    /\ row[r].status = "Absent" => row[r] = Absent
    /\ row[r].status \in Live => row[r].policy \in Policies

(* Reservations are claimed and released in the commit of the status.      *)
CapacityLive ==
  \A r \in Requests : cap[r] = "held" <=> row[r].status \in Live

(* Every marker has a guard in the process that is up, and a guard that is *)
(* not deferred has its marker.                                            *)
MarkersGuarded ==
  \A u \in Profiles :
    /\ fence[u] \in {"shared", "busy"} => marker[u]
    /\ phase # "down" /\ marker[u] => fence[u] # "none"

(* What an operation in progress has established before its next step.     *)
StepKnown ==
  /\ todo # Idle => phase # "down"
  /\ todo.op = "terminalize" => phase = "recovering"
  /\ todo.op \in {"insert", "refuse", "activate"} =>
       phase = "ready" /\ ~Deferred
  /\ todo.op \in {"insert", "refuse"} => row[todo.req] = Absent
  /\ todo.op = "insert" => Fenced(todo.req)
  /\ todo.op = "activate" =>
       /\ Current(todo.req) /\ row[todo.req].status = "Requested"
       /\ todo.policy \in Policies
       /\ todo.made =>
            /\ res[todo.req] = ModeOf[todo.policy]
            /\ \A q \in Held(ProfileOf[todo.req], res) \ {todo.req} :
                 ModeOf[todo.policy] = "shared" /\ res[q] = "shared"

(* A fence nobody needs is latched, or the step that made or freed it is   *)
(* still to clear it.                                                      *)
LeaksLatched ==
  phase = "ready" =>
    \A u \in Profiles : marker[u] \/ fence[u] # "none" =>
      \/ Blocked(u) \/ uncertain
      \/ u \in hard \cup retryable \/ fence[u] \in {"busy", "deferred"}
      \/ /\ todo.op = "cleanup" \/ (todo.op = "insert" /\ todo.made)
         /\ ProfileOf[todo.req] = u

IInv ==
  /\ TypeOK /\ Generations /\ RowsFormed /\ CapacityLive
  /\ BlockersMarked /\ LiveGuarded /\ ReadyResolved
  /\ MarkersGuarded /\ StepKnown /\ LeaksLatched
============================================================================
