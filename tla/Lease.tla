------------------------------- MODULE Lease -------------------------------
(***************************************************************************)
(* The pure identity-lease domain of src/automation/lease.rs: one lease    *)
(* aggregate, its transition graph, its wall and monotonic deadlines, and  *)
(* the snapshot validation every load from the store repeats.              *)
(*                                                                         *)
(* Every operation takes one clock sample chosen by the environment: the   *)
(* wall clock may jump either way between two operations, a sample may be  *)
(* applied late (its monotonic moment is then older than the high water    *)
(* mark), and it may come from another service generation.                 *)
(***************************************************************************)
EXTENDS Integers, FiniteSets

CONSTANTS
  IssuedWall, IssuedMono, IssuedGeneration, \* issuance_clock
  InitialTtl,         \* binding.initial_requested_ttl_seconds
  SignedMaxTtl,       \* binding.signed_maximum_ttl_seconds
  SignedMaxSession,   \* binding.signed_maximum_session_seconds
  SignedExpires,      \* binding.signed_authorization_expires_at
  AckTimeout,         \* RENEWAL_ACK_TIMEOUT_SECONDS
  MaxFencing,         \* FencingGeneration::MAXIMUM
  PinnedDigests,      \* {} or {binding.requested_policy_digest}
  Digests,            \* effective policy digests
  Samples,            \* clock samples the service may take
  Policies,           \* effective policies the callers may present
  Controls,           \* control bindings the callers may present
  ReasonInputs        \* reason codes the callers may present

(***************************************************************************)
(* An effective policy as the domain sees it: "bound" says whether all the *)
(* identity fields and the capacity claim agree with the lease binding and *)
(* the resource isolation is consistent, "resolved" whether the resolution *)
(* fits the provider, the auth mode and the isolation class.               *)
(***************************************************************************)
Policy == [ttl : Nat, maxTtl : Nat, maxSession : Nat, signedExpires : Nat,
           digest : Digests, bound : BOOLEAN, resolved : BOOLEAN]

ClockSample == [wall : Nat, mono : Nat, generation : Nat \ {0}]

(* LeaseControl: whether the caller and the tenant, run, role and host     *)
(* agree with the binding, and the fencing generation presented.           *)
LeaseControl == [caller : BOOLEAN, identity : BOOLEAN,
                 generation : 1 .. MaxFencing]

ASSUME LeaseConstants ==
  /\ IssuedWall \in Nat /\ IssuedMono \in Nat
  /\ IssuedGeneration \in Nat \ {0}
  /\ InitialTtl \in Nat /\ SignedMaxTtl \in Nat /\ SignedMaxSession \in Nat
  /\ InitialTtl <= SignedMaxTtl /\ SignedMaxTtl <= SignedMaxSession
  /\ SignedExpires \in Nat
  /\ AckTimeout \in Nat \ {0}
  /\ MaxFencing \in Nat \ {0}
  /\ PinnedDigests \subseteq Digests
  /\ Samples \subseteq ClockSample
  /\ Policies \subseteq Policy
  /\ Controls \subseteq LeaseControl

VARIABLES
  lease,    \* the aggregate
  launch,   \* history: the last execution authorize_launch admitted
  acked     \* history: the highest fencing generation a caller has confirmed

vars == <<lease, launch, acked>>

Min2(a, b) == IF a <= b THEN a ELSE b

Live == {"Active", "Renewing", "Error"}
Terminal == {"Closed", "Revoked", "Expired", "Refused"}
WithAuthority == Live \cup {"Closed", "Revoked", "Expired"}
Status == {"Requested"} \cup Live \cup Terminal

CloseReasons == {"Completed", "WorkerFailed"}
ErrorReasons == {"ProcessUnverifiable", "ServiceRecovery", "InternalError"}
RevocationReasons ==
  {"OperatorRevoked", "PolicyRevoked", "PrincipalMismatch", "HeartbeatLost",
   "ProcessUnverifiable", "GenerationSuperseded",
   "RenewalAcknowledgementFailed", "ServiceRecovery"}
ExpiryReasons == {"MaximumLifetimeReached", "LeaseExpired"}
Reasons == CloseReasons \cup ErrorReasons \cup RevocationReasons
             \cup ExpiryReasons \cup {"None"}

NoDeadline == [wall |-> 0, mono |-> 0]
NoAuthority == [generation |-> 0, expires |-> 0, maxExpires |-> 0,
                anchorWall |-> 0, anchorMono |-> 0, monoDeadline |-> 0,
                monoMax |-> 0, digests |-> {}]

Deadline == [wall : Nat, mono : Nat]
Authority == [generation : 0 .. MaxFencing, expires : Nat, maxExpires : Nat,
              anchorWall : Nat, anchorMono : Nat, monoDeadline : Nat,
              monoMax : Nat, digests : SUBSET Digests]
Launch == [generation : 0 .. MaxFencing, mono : Nat]
NoLaunch == [generation |-> 0, mono |-> 0]
LeaseRecord == [status : Status, reason : Reasons, authority : Authority,
                ack : Deadline, last : Nat]

Requested == [status |-> "Requested", reason |-> "None",
              authority |-> NoAuthority, ack |-> NoDeadline,
              last |-> IssuedMono]

Init ==
  /\ lease = Requested
  /\ launch = NoLaunch
  /\ acked = 0

----------------------------------------------------------------------------
(* Clock observation and deadlines.                                        *)

(* Mutant: a deadline still holds at its own moment.                       *)
DeadlinePassed(now, wall, mono) == now.wall > wall \/ now.mono > mono

DeadlineReached(now, wall, mono) == now.wall >= wall \/ now.mono >= mono

(* Mutant: a sample older than the high water mark is accepted.            *)
AnyClockAccepted(l, now) == now.generation = IssuedGeneration

RuntimeClockAccepted(l, now) ==
  /\ now.generation = IssuedGeneration
  /\ now.mono >= l.last

ActivationClockAccepted(l, now) ==
  /\ RuntimeClockAccepted(l, now)
  /\ now.wall >= IssuedWall

Observed(l, now) == [l EXCEPT !.last = now.mono]

Finished(l, status, reason) ==
  [l EXCEPT !.status = status, !.reason = reason, !.ack = NoDeadline]

(* Mutant: the deadlines are read on the wall clock alone.                 *)
AfterWallDeadlines(l, now) ==
  IF l.status = "Renewing" /\ now.wall >= l.ack.wall
    THEN Finished(l, "Revoked", "RenewalAcknowledgementFailed")
  ELSE IF now.wall >= l.authority.maxExpires
    THEN Finished(l, "Expired", "MaximumLifetimeReached")
  ELSE IF now.wall >= l.authority.expires
    THEN Finished(l, "Expired", "LeaseExpired")
  ELSE l

(* enforce_deadlines, once the clock is accepted and the lease is live: an *)
(* unacknowledged renewal is tested before the maximum lifetime, and that  *)
(* before the interval.                                                    *)
AfterDeadlines(l, now) ==
  LET a == l.authority IN
  IF l.status = "Renewing" /\ DeadlineReached(now, l.ack.wall, l.ack.mono)
    THEN Finished(l, "Revoked", "RenewalAcknowledgementFailed")
  ELSE IF DeadlineReached(now, a.maxExpires, a.monoMax)
    THEN Finished(l, "Expired", "MaximumLifetimeReached")
  ELSE IF DeadlineReached(now, a.expires, a.monoDeadline)
    THEN Finished(l, "Expired", "LeaseExpired")
  ELSE l

Enforced(l, now) ==
  IF ~RuntimeClockAccepted(l, now) THEN l
  ELSE IF l.status \notin Live THEN Observed(l, now)
  ELSE AfterDeadlines(Observed(l, now), now)

----------------------------------------------------------------------------
(* Control and policy binding.                                             *)

ControlMatches(l, c) ==
  /\ c.caller
  /\ c.identity
  /\ l.status \in WithAuthority
  /\ c.generation = l.authority.generation

PolicyBound(p) ==
  /\ p.bound
  /\ PinnedDigests \subseteq {p.digest}
  /\ p.maxTtl <= SignedMaxTtl
  /\ p.maxSession <= SignedMaxSession
  /\ p.ttl <= p.maxTtl
  /\ p.ttl <= p.maxSession
  /\ p.signedExpires = SignedExpires

----------------------------------------------------------------------------
(* Operations.                                                             *)

Refuse ==
  /\ lease.status = "Requested"
  /\ lease' = Finished(lease, "Refused", "None")
  /\ UNCHANGED <<launch, acked>>

InitialMaximum(p) == Min2(p.signedExpires, IssuedWall + p.maxSession)

InitialAuthority(p) ==
  [generation |-> 1,
   expires |-> IssuedWall + p.ttl,
   maxExpires |-> InitialMaximum(p),
   anchorWall |-> IssuedWall,
   anchorMono |-> IssuedMono,
   monoDeadline |-> IssuedMono + p.ttl,
   monoMax |-> IssuedMono + (InitialMaximum(p) - IssuedWall),
   digests |-> {p.digest}]

ActivationAdmitted(p, now) ==
  /\ PolicyBound(p)
  /\ p.ttl = InitialTtl
  /\ p.resolved
  /\ IssuedWall + p.ttl <= InitialMaximum(p)
  /\ p.ttl > 0
  /\ ~DeadlineReached(now, IssuedWall + p.ttl, IssuedMono + p.ttl)
  /\ ~DeadlineReached(now, InitialMaximum(p),
                      IssuedMono + (InitialMaximum(p) - IssuedWall))

(* prepare_activation and activate_prepared: the clock is observed even    *)
(* when the policy is then refused.                                        *)
Activate(p, now) ==
  /\ lease.status = "Requested"
  /\ ActivationClockAccepted(lease, now)
  /\ \/ /\ ActivationAdmitted(p, now)
        /\ lease' = [Observed(lease, now) EXCEPT
                       !.status = "Active", !.authority = InitialAuthority(p)]
        /\ acked' = 1
     \/ /\ ~ActivationAdmitted(p, now)
        /\ lease' = Observed(lease, now)
        /\ UNCHANGED acked
  /\ UNCHANGED launch

(* Mutant: the policy presented at renewal replaces the maximum.           *)
ReplacedMaximum(a, p) == Min2(p.signedExpires, IssuedWall + p.maxSession)

RenewedMaximum(a, p) ==
  Min2(a.maxExpires, Min2(p.signedExpires, IssuedWall + p.maxSession))

RenewedMonoMax(a, p) ==
  Min2(a.monoMax, Min2(IssuedMono + (p.signedExpires - IssuedWall),
                       IssuedMono + p.maxSession))

(* Mutant: renewal at the last fencing generation.                         *)
RenewalPastLastFencing(l, p, now) ==
  LET a == l.authority IN
  /\ l.status = "Active" /\ PolicyBound(p) /\ p.resolved
  /\ now.wall + p.ttl <= RenewedMaximum(a, p)
  /\ now.mono + p.ttl <= RenewedMonoMax(a, p)
  /\ a.expires < now.wall + p.ttl
  /\ a.monoDeadline < now.mono + p.ttl
  /\ a.generation <= MaxFencing

RenewalAdmitted(l, p, now) ==
  LET a == l.authority IN
  /\ l.status = "Active"
  /\ PolicyBound(p)
  /\ p.resolved
  /\ now.wall + p.ttl <= RenewedMaximum(a, p)
  /\ now.mono + p.ttl <= RenewedMonoMax(a, p)
  /\ a.expires < now.wall + p.ttl
  /\ a.monoDeadline < now.mono + p.ttl
  /\ a.generation < MaxFencing

RenewedAuthority(a, p, now) ==
  [generation |-> a.generation + 1,
   expires |-> now.wall + p.ttl,
   maxExpires |-> RenewedMaximum(a, p),
   anchorWall |-> now.wall,
   anchorMono |-> now.mono,
   monoDeadline |-> now.mono + p.ttl,
   monoMax |-> RenewedMonoMax(a, p),
   digests |-> {p.digest}]

AckDeadline(p, now) ==
  [wall |-> Min2(now.wall + AckTimeout, now.wall + p.ttl),
   mono |-> Min2(now.mono + AckTimeout, now.mono + p.ttl)]

Renewed(l, p, now) ==
  [l EXCEPT !.status = "Renewing",
            !.authority = RenewedAuthority(l.authority, p, now),
            !.ack = AckDeadline(p, now)]

(* begin_renewal: a foreign caller returns before anything is observed; a  *)
(* failed control check is reported only after the deadlines were applied. *)
BeginRenewal(c, p, now) ==
  /\ c.caller
  /\ LET e == Enforced(lease, now)
         admitted == /\ ControlMatches(lease, c)
                     /\ RuntimeClockAccepted(lease, now)
                     /\ RenewalAdmitted(e, p, now)
     IN lease' = IF admitted THEN Renewed(e, p, now) ELSE e
  /\ UNCHANGED <<launch, acked>>

(* acknowledge_renewal: any mismatching control, a foreign caller's        *)
(* included, revokes a renewal that is still pending.                      *)
AcknowledgeRenewal(c, now) ==
  LET e == Enforced(lease, now) IN
  /\ \/ /\ ~ControlMatches(lease, c)
        /\ lease' = IF e.status = "Renewing"
                      THEN Finished(e, "Revoked", "RenewalAcknowledgementFailed")
                      ELSE e
        /\ UNCHANGED acked
     \/ /\ ControlMatches(lease, c)
        /\ RuntimeClockAccepted(lease, now)
        /\ e.status = "Renewing"
        /\ lease' = [e EXCEPT !.status = "Active", !.ack = NoDeadline]
        /\ acked' = e.authority.generation
     \/ /\ ControlMatches(lease, c)
        /\ RuntimeClockAccepted(lease, now) => e.status # "Renewing"
        /\ lease' = e
        /\ UNCHANGED acked
  /\ UNCHANGED launch

Close(c, reason, now) ==
  /\ c.caller
  /\ LET e == Enforced(lease, now)
         admitted == /\ ControlMatches(lease, c)
                     /\ reason \in CloseReasons
                     /\ RuntimeClockAccepted(lease, now)
                     /\ e.status \in {"Active", "Renewing"}
     IN lease' = IF admitted THEN Finished(e, "Closed", reason) ELSE e
  /\ UNCHANGED <<launch, acked>>

(* Mutant: revocation reaches leases that are already terminal.            *)
RevokeAnything(reason) ==
  /\ reason \in RevocationReasons
  /\ lease.status # "Requested"
  /\ lease' = Finished(lease, "Revoked", reason)
  /\ UNCHANGED <<launch, acked>>

Revoke(reason) ==
  /\ reason \in RevocationReasons
  /\ lease.status \in Live
  /\ lease' = Finished(lease, "Revoked", reason)
  /\ UNCHANGED <<launch, acked>>

RevokeControlled(c, now) ==
  /\ c.caller
  /\ LET e == Enforced(lease, now)
         admitted == /\ ControlMatches(lease, c)
                     /\ RuntimeClockAccepted(lease, now)
                     /\ e.status \in Live
     IN lease' = IF admitted THEN Finished(e, "Revoked", "OperatorRevoked")
                             ELSE e
  /\ UNCHANGED <<launch, acked>>

MarkError(reason) ==
  /\ reason \in ErrorReasons
  /\ lease.status \in {"Active", "Renewing"}
  /\ lease' = Finished(lease, "Error", reason)
  /\ UNCHANGED <<launch, acked>>

EnforceDeadlines(now) ==
  /\ lease' = Enforced(lease, now)
  /\ UNCHANGED <<launch, acked>>

(* Mutant: a renewal that awaits its acknowledgement may launch.           *)
LaunchWhileRenewing(c, p, now) ==
  LET e == Enforced(lease, now) IN
  /\ c.caller
  /\ RuntimeClockAccepted(lease, now)
  /\ e.status \in {"Active", "Renewing"}
  /\ ControlMatches(e, c)
  /\ PolicyBound(p)
  /\ e.authority.digests = {p.digest}
  /\ lease' = e
  /\ launch' = [generation |-> e.authority.generation, mono |-> now.mono]
  /\ UNCHANGED acked

(* authorize_launch: a changed policy digest revokes the lease instead of  *)
(* handing out the execution handle.                                       *)
AuthorizeLaunch(c, p, now) ==
  LET e == Enforced(lease, now)
      admitted == /\ RuntimeClockAccepted(lease, now)
                  /\ e.status = "Active"
                  /\ ControlMatches(e, c)
                  /\ PolicyBound(p)
  IN
  /\ c.caller
  /\ \/ /\ admitted
        /\ e.authority.digests = {p.digest}
        /\ lease' = e
        /\ launch' = [generation |-> e.authority.generation,
                      mono |-> now.mono]
     \/ /\ admitted
        /\ e.authority.digests # {p.digest}
        /\ lease' = Finished(e, "Revoked", "PolicyRevoked")
        /\ UNCHANGED launch
     \/ /\ ~admitted
        /\ lease' = e
        /\ UNCHANGED launch
  /\ UNCHANGED acked

Next ==
  \/ Refuse
  \/ \E reason \in ReasonInputs : Revoke(reason)
  \/ \E reason \in ReasonInputs : MarkError(reason)
  \/ \E now \in Samples :
       \/ EnforceDeadlines(now)
       \/ \E p \in Policies : Activate(p, now)
       \/ \E c \in Controls :
            \/ AcknowledgeRenewal(c, now)
            \/ RevokeControlled(c, now)
            \/ \E reason \in ReasonInputs : Close(c, reason, now)
            \/ \E p \in Policies : BeginRenewal(c, p, now)
            \/ \E p \in Policies : AuthorizeLaunch(c, p, now)

Spec == Init /\ [][Next]_vars

----------------------------------------------------------------------------
(* Snapshot validation: what LeaseSnapshot::into_lease demands of a row    *)
(* before any operation of the store may touch the lease again.            *)

DeadlinePair(anchorWall, anchorMono, wall, mono) ==
  /\ wall >= anchorWall
  /\ mono >= anchorMono
  /\ wall - anchorWall = mono - anchorMono

AuthorityValid(l) ==
  LET a == l.authority IN
  /\ a.generation >= 1          \* FencingGeneration::new refuses zero
  /\ IssuedWall < a.expires
  /\ a.expires <= a.maxExpires
  /\ a.maxExpires <= SignedExpires
  /\ IssuedMono < a.monoDeadline
  /\ a.monoDeadline <= a.monoMax
  /\ IssuedMono <= a.anchorMono
  /\ a.anchorMono <= l.last
  /\ a.generation = 1 => /\ a.anchorWall = IssuedWall
                         /\ a.anchorMono = IssuedMono
                         /\ a.monoDeadline - a.anchorMono = InitialTtl
  /\ DeadlinePair(a.anchorWall, a.anchorMono, a.expires, a.monoDeadline)
  /\ DeadlinePair(IssuedWall, IssuedMono, a.maxExpires, a.monoMax)
  /\ a.monoDeadline - a.anchorMono <= SignedMaxTtl
  /\ a.monoMax - IssuedMono <= SignedMaxSession

LiveHighWater(l) ==
  /\ l.last < l.authority.monoDeadline
  /\ l.last < l.authority.monoMax

AcknowledgementValid(l) ==
  LET a == l.authority IN
  /\ a.generation # 1
  /\ l.ack.wall <= a.expires
  /\ IssuedMono < l.ack.mono
  /\ l.ack.mono <= a.monoDeadline
  /\ l.last < l.ack.mono
  /\ DeadlinePair(a.anchorWall, a.anchorMono, l.ack.wall, l.ack.mono)
  /\ l.ack.wall - a.anchorWall = Min2(a.expires - a.anchorWall, AckTimeout)

ReasonValid(l) ==
  /\ l.status = "Closed" => l.reason \in CloseReasons
  /\ l.status = "Revoked" => l.reason \in RevocationReasons
  /\ l.status = "Expired" => l.reason \in ExpiryReasons
  /\ l.status = "Error" => l.reason \in ErrorReasons

SnapshotRestores(l) ==
  /\ l.last >= IssuedMono
  /\ l.status \in WithAuthority => AuthorityValid(l)
  /\ l.status \in Live => LiveHighWater(l)
  /\ l.status = "Renewing" => AcknowledgementValid(l)
  /\ ReasonValid(l)

----------------------------------------------------------------------------
(* Properties.                                                             *)

TypeOK ==
  /\ lease \in LeaseRecord
  /\ launch \in Launch
  /\ acked \in 0 .. MaxFencing

(* Whatever sequence of operations, wall clock jumps and late samples led  *)
(* here, the lease the domain produced is one its own snapshot validation  *)
(* accepts: no committed lease can become unloadable, and a live lease's   *)
(* high water mark is always short of every monotonic deadline.            *)
RestoreAccepts == SnapshotRestores(lease)

(* No execution is ever admitted outside the signed authorization: neither *)
(* renewals under changed policies nor setting the wall clock back can move*)
(* a launch past the runtime that the signed session or the time from      *)
(* issuance to signed expiry allows, measured on the monotonic clock.      *)
LaunchCeiling ==
  launch # NoLaunch =>
    /\ launch.mono < IssuedMono + SignedMaxSession
    /\ launch.mono < IssuedMono + (SignedExpires - IssuedWall)

(* A renewed generation executes nothing before its caller acknowledged it:*)
(* the gap between begin_renewal and acknowledge_renewal admits no launch. *)
LaunchAcknowledged == launch.generation <= acked

LaunchStep ==
  launch' # launch => /\ launch'.generation >= launch.generation
                      /\ launch'.mono >= launch.mono

TerminalStep ==
  lease.status \in Terminal => lease' = [lease EXCEPT !.last = lease'.last]

RenewalStep ==
  lease.status \in WithAuthority =>
    LET a == lease.authority
        b == lease'.authority IN
    \/ b = a
    \/ /\ lease.status = "Active" /\ lease'.status = "Renewing"
       /\ b.generation = a.generation + 1
       /\ b.maxExpires <= a.maxExpires /\ b.monoMax <= a.monoMax
       /\ b.expires > a.expires /\ b.monoDeadline > a.monoDeadline

(* Launches are fenced: a later launch never runs under an older fencing   *)
(* generation nor at an earlier monotonic moment than an earlier launch.   *)
LaunchesFenced == [][LaunchStep]_vars

(* A terminal lease keeps its outcome and its last authority for ever; the *)
(* high water mark is all an operation may still advance.                  *)
TerminalImmutable == [][TerminalStep]_vars

(* A policy presented at renewal can only narrow the lease: the maximum    *)
(* deadlines never grow, the generation moves by one exactly when the      *)
(* interval is replaced, and the replacement is strictly longer.           *)
RenewalNarrows == [][RenewalStep]_vars

(* What makes the invariants above inductive: the acknowledged generation  *)
(* follows the authority, and a launch is never ahead of the high water.   *)
AckTracksGeneration ==
  /\ lease.status = "Requested" => acked = 0
  /\ lease.status = "Active" => acked = lease.authority.generation
  /\ lease.status = "Renewing" => acked + 1 = lease.authority.generation

LaunchObserved == launch.mono <= lease.last

IInv ==
  /\ TypeOK
  /\ RestoreAccepts
  /\ LaunchCeiling
  /\ LaunchAcknowledged
  /\ AckTracksGeneration
  /\ LaunchObserved
============================================================================
