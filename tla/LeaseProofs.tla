---------------------------- MODULE LeaseProofs ----------------------------
(***************************************************************************)
(* Lease: its invariants for every binding, policy and clock sample.       *)
(***************************************************************************)
EXTENDS Lease, TLAPS

(* Observing a later moment on a lease that is not live changes nothing    *)
(* snapshot validation looks at but the high water mark.                   *)
LEMMA ObservedValid ==
  ASSUME NEW l \in LeaseRecord, NEW now \in ClockSample,
         SnapshotRestores(l), RuntimeClockAccepted(l, now),
         l.status \notin Live
  PROVE  /\ Observed(l, now) \in LeaseRecord
         /\ SnapshotRestores(Observed(l, now))
  BY LeaseConstants
     DEF LeaseRecord, ClockSample, SnapshotRestores, RuntimeClockAccepted,
         Observed, AuthorityValid, ReasonValid, DeadlinePair, Live,
         WithAuthority, Terminal, Status, Authority

(* Ending a lease that holds an authority leaves a snapshot that loads.    *)
LEMMA FinishedValid ==
  ASSUME NEW l \in LeaseRecord, NEW status, NEW reason,
         SnapshotRestores(l), l.status \in WithAuthority,
         \/ status = "Closed" /\ reason \in CloseReasons
         \/ status = "Revoked" /\ reason \in RevocationReasons
         \/ status = "Expired" /\ reason \in ExpiryReasons
         \/ /\ status = "Error" /\ reason \in ErrorReasons
            /\ l.status \in Live
  PROVE  /\ Finished(l, status, reason) \in LeaseRecord
         /\ SnapshotRestores(Finished(l, status, reason))
  <1>1. Finished(l, status, reason) \in LeaseRecord
    BY DEF Finished, LeaseRecord, Status, Terminal, Live, Reasons, NoDeadline,
           Deadline
  <1>2. QED
    BY <1>1, LeaseConstants
       DEF LeaseRecord, SnapshotRestores, Finished, AuthorityValid,
           LiveHighWater, ReasonValid, DeadlinePair, Live, WithAuthority

(* Applying the deadlines keeps the snapshot loadable and never touches    *)
(* the authority; a lease that stays live is short of every deadline, the  *)
(* acknowledgement deadline of a pending renewal included.                 *)
LEMMA EnforcedValid ==
  ASSUME NEW l \in LeaseRecord, NEW now \in ClockSample,
         SnapshotRestores(l)
  PROVE  /\ Enforced(l, now) \in LeaseRecord
         /\ SnapshotRestores(Enforced(l, now))
         /\ Enforced(l, now).authority = l.authority
         /\ Enforced(l, now).last >= l.last
         /\ RuntimeClockAccepted(l, now) => Enforced(l, now).last = now.mono
         /\ \/ Enforced(l, now).status = l.status
            \/ /\ l.status \in Live
               /\ Enforced(l, now).status \in {"Revoked", "Expired"}
         /\ l.status \notin Live =>
              Enforced(l, now) = [l EXCEPT !.last = Enforced(l, now).last]
  <1> DEFINE o == Observed(l, now)
             a == l.authority
  <1>1. CASE ~RuntimeClockAccepted(l, now)
    BY <1>1 DEF Enforced, LeaseRecord
  <1>2. CASE RuntimeClockAccepted(l, now) /\ l.status \notin Live
    BY <1>2, ObservedValid DEF Enforced, Observed, LeaseRecord,
       RuntimeClockAccepted, ClockSample
  <1>3. CASE RuntimeClockAccepted(l, now) /\ l.status \in Live
    <2>1. /\ o \in LeaseRecord
          /\ o.status = l.status /\ o.authority = a /\ o.ack = l.ack
          /\ o.reason = l.reason
          /\ o.last = now.mono /\ now.mono >= l.last
          /\ now.mono \in Nat /\ now.wall \in Nat /\ l.last \in Nat
      BY <1>3 DEF Observed, LeaseRecord, RuntimeClockAccepted, ClockSample
    <2>2. Enforced(l, now) = AfterDeadlines(o, now)
      BY <1>3 DEF Enforced
    <2>3. /\ AuthorityValid(l) /\ LiveHighWater(l) /\ ReasonValid(l)
          /\ l.status = "Renewing" => AcknowledgementValid(l)
          /\ l.last >= IssuedMono
      BY <1>3 DEF SnapshotRestores, WithAuthority
    <2>4. AuthorityValid(o) /\ ReasonValid(o) /\ o.last >= IssuedMono
      BY <2>1, <2>3, LeaseConstants
         DEF AuthorityValid, ReasonValid, LeaseRecord, Authority
    <2>5. ASSUME NEW s, NEW r,
                 \/ s = "Revoked" /\ r \in RevocationReasons
                 \/ s = "Expired" /\ r \in ExpiryReasons
          PROVE  /\ Finished(o, s, r) \in LeaseRecord
                 /\ SnapshotRestores(Finished(o, s, r))
                 /\ Finished(o, s, r).authority = a
                 /\ Finished(o, s, r).last = now.mono
                 /\ Finished(o, s, r).status = s
      <3>1. Finished(o, s, r) \in LeaseRecord
        BY <2>1, <2>5 DEF Finished, LeaseRecord, Status, Terminal, Live,
           Reasons, NoDeadline, Deadline
      <3>2. /\ Finished(o, s, r).authority = a
            /\ Finished(o, s, r).last = now.mono
            /\ Finished(o, s, r).status = s
            /\ Finished(o, s, r).reason = r
        BY <2>1, <2>5 DEF Finished, LeaseRecord
      <3>3. QED
        BY <3>1, <3>2, <2>1, <2>4, <2>5 DEF SnapshotRestores, AuthorityValid,
           ReasonValid, Live
    <2>6. CASE o.status = "Renewing" /\ DeadlineReached(now, o.ack.wall, o.ack.mono)
      <3>1. Enforced(l, now) = Finished(o, "Revoked", "RenewalAcknowledgementFailed")
        BY <2>2, <2>6 DEF AfterDeadlines
      <3>2. QED
        BY <3>1, <2>5, <2>1, <1>3 DEF RevocationReasons
    <2>7. CASE /\ ~(o.status = "Renewing" /\ DeadlineReached(now, o.ack.wall, o.ack.mono))
               /\ DeadlineReached(now, a.maxExpires, a.monoMax)
      <3>1. Enforced(l, now) = Finished(o, "Expired", "MaximumLifetimeReached")
        BY <2>1, <2>2, <2>7 DEF AfterDeadlines
      <3>2. QED
        BY <3>1, <2>5, <2>1, <1>3 DEF ExpiryReasons
    <2>8. CASE /\ ~(o.status = "Renewing" /\ DeadlineReached(now, o.ack.wall, o.ack.mono))
               /\ ~DeadlineReached(now, a.maxExpires, a.monoMax)
               /\ DeadlineReached(now, a.expires, a.monoDeadline)
      <3>1. Enforced(l, now) = Finished(o, "Expired", "LeaseExpired")
        BY <2>1, <2>2, <2>8 DEF AfterDeadlines
      <3>2. QED
        BY <3>1, <2>5, <2>1, <1>3 DEF ExpiryReasons
    <2>9. CASE /\ ~(o.status = "Renewing" /\ DeadlineReached(now, o.ack.wall, o.ack.mono))
               /\ ~DeadlineReached(now, a.maxExpires, a.monoMax)
               /\ ~DeadlineReached(now, a.expires, a.monoDeadline)
      <3>1. Enforced(l, now) = o
        BY <2>1, <2>2, <2>9 DEF AfterDeadlines
      <3>2. LiveHighWater(o)
        BY <2>1, <2>9 DEF LiveHighWater, DeadlineReached, LeaseRecord, Authority
      <3>3. o.status = "Renewing" => AcknowledgementValid(o)
        BY <2>1, <2>3, <2>9, LeaseConstants
           DEF AcknowledgementValid, DeadlineReached, DeadlinePair, Min2,
               LeaseRecord, Authority, Deadline
      <3>4. QED
        BY <3>1, <3>2, <3>3, <2>1, <2>4, <1>3 DEF SnapshotRestores
    <2>10. QED
      BY <2>6, <2>7, <2>8, <2>9
  <1>4. QED
    BY <1>1, <1>2, <1>3

(* An admitted activation produces a loadable first generation.            *)
LEMMA ActivationValid ==
  ASSUME NEW l \in LeaseRecord, NEW now \in ClockSample, NEW p \in Policy,
         SnapshotRestores(l), l.status = "Requested",
         ActivationClockAccepted(l, now), ActivationAdmitted(p, now)
  PROVE  LET n == [Observed(l, now) EXCEPT !.status = "Active",
                                           !.authority = InitialAuthority(p)]
         IN  n \in LeaseRecord /\ SnapshotRestores(n)
  <1> DEFINE a == InitialAuthority(p)
             n == [Observed(l, now) EXCEPT !.status = "Active",
                                           !.authority = a]
  <1>1. /\ IssuedWall < InitialMaximum(p) /\ InitialMaximum(p) \in Nat
        /\ p.ttl \in Nat /\ p.ttl = InitialTtl /\ p.ttl > 0
        /\ InitialMaximum(p) <= SignedExpires
        /\ InitialMaximum(p) - IssuedWall <= SignedMaxSession
        /\ p.ttl <= SignedMaxTtl
        /\ IssuedWall + p.ttl <= InitialMaximum(p)
    BY LeaseConstants DEF ActivationAdmitted, PolicyBound, Policy,
       InitialMaximum, Min2
  <1>2. a \in Authority
    BY <1>1, LeaseConstants DEF InitialAuthority, Authority, Policy
  <1>3. /\ n \in LeaseRecord
        /\ n.status = "Active" /\ n.authority = a /\ n.last = now.mono
        /\ n.reason = l.reason
    BY <1>2 DEF Observed, LeaseRecord, ClockSample, Status, Live
  <1>4. now.mono >= IssuedMono /\ now.mono \in Nat
    BY LeaseConstants DEF ActivationClockAccepted, RuntimeClockAccepted,
       SnapshotRestores, LeaseRecord, ClockSample
  <1>5. now.mono < IssuedMono + p.ttl
        /\ now.mono < IssuedMono + (InitialMaximum(p) - IssuedWall)
    BY <1>1, <1>4, LeaseConstants
       DEF ActivationAdmitted, DeadlineReached, ClockSample
  <1>6. AuthorityValid(n) /\ LiveHighWater(n)
    BY <1>1, <1>3, <1>4, <1>5, LeaseConstants
       DEF AuthorityValid, LiveHighWater, InitialAuthority, DeadlinePair
  <1>7. QED
    BY <1>3, <1>4, <1>6 DEF SnapshotRestores, ReasonValid

(* An admitted renewal produces a loadable pending generation that narrows *)
(* the maximum deadlines.                                                  *)
LEMMA RenewalValid ==
  ASSUME NEW l \in LeaseRecord, NEW now \in ClockSample, NEW p \in Policy,
         SnapshotRestores(l), l.last = now.mono, RenewalAdmitted(l, p, now)
  PROVE  LET n == Renewed(l, p, now)
             a == l.authority
             b == Renewed(l, p, now).authority
         IN  /\ n \in LeaseRecord
             /\ SnapshotRestores(n)
             /\ n.status = "Renewing" /\ n.last = now.mono
             /\ b.generation = a.generation + 1
             /\ b.maxExpires <= a.maxExpires /\ b.monoMax <= a.monoMax
             /\ b.expires > a.expires /\ b.monoDeadline > a.monoDeadline
  <1> DEFINE a == l.authority
             b == RenewedAuthority(a, p, now)
             n == Renewed(l, p, now)
  <1>1. /\ now.wall \in Nat /\ now.mono \in Nat
        /\ p.ttl \in Nat /\ p.maxSession \in Nat /\ p.digest \in Digests
        /\ a \in Authority /\ l.reason \in Reasons
    BY DEF ClockSample, Policy, LeaseRecord
  <1>2. AuthorityValid(l) /\ LiveHighWater(l) /\ l.last >= IssuedMono
    BY DEF SnapshotRestores, RenewalAdmitted, WithAuthority, Live
  <1>3. /\ p.signedExpires = SignedExpires
        /\ p.maxSession <= SignedMaxSession
        /\ p.ttl <= SignedMaxTtl
        /\ l.status = "Active"
    BY <1>1, LeaseConstants
       DEF RenewalAdmitted, PolicyBound, Policy
  <1>4. /\ RenewedMaximum(a, p) \in Nat /\ RenewedMonoMax(a, p) \in Nat
        /\ RenewedMaximum(a, p) <= a.maxExpires
        /\ RenewedMonoMax(a, p) <= a.monoMax
        /\ RenewedMaximum(a, p) <= SignedExpires
        /\ RenewedMonoMax(a, p) - IssuedMono = RenewedMaximum(a, p) - IssuedWall
    BY <1>1, <1>2, <1>3, LeaseConstants
       DEF RenewedMaximum, RenewedMonoMax, Min2, AuthorityValid, DeadlinePair,
           Authority
  <1>5. /\ now.wall + p.ttl <= RenewedMaximum(a, p)
        /\ now.mono + p.ttl <= RenewedMonoMax(a, p)
        /\ a.expires < now.wall + p.ttl
        /\ a.monoDeadline < now.mono + p.ttl
        /\ a.generation + 1 \in 1 .. MaxFencing
    BY <1>1, LeaseConstants DEF RenewalAdmitted, Authority
  <1>6. b \in Authority
    BY <1>1, <1>4, <1>5 DEF RenewedAuthority, Authority
  <1>7. AckDeadline(p, now) \in Deadline
    BY <1>1, LeaseConstants DEF AckDeadline, Deadline, Min2
  <1>8. /\ n \in LeaseRecord
        /\ n.status = "Renewing" /\ n.last = now.mono /\ n.authority = b
        /\ n.reason = l.reason /\ n.ack = AckDeadline(p, now)
    BY <1>6, <1>7 DEF Renewed, LeaseRecord, Status, Live
  <1>9. a.generation >= 1
    BY <1>2 DEF AuthorityValid
  <1>10. AuthorityValid(n)
    BY <1>1, <1>2, <1>3, <1>4, <1>5, <1>8, <1>9, LeaseConstants
       DEF AuthorityValid, RenewedAuthority, DeadlinePair, Authority
  <1>11. LiveHighWater(n)
    <2>1. now.mono < a.monoDeadline
      BY <1>2 DEF LiveHighWater
    <2>2. b.monoDeadline = now.mono + p.ttl /\ b.monoMax = RenewedMonoMax(a, p)
      BY DEF RenewedAuthority
    <2>3. QED
      BY <2>1, <2>2, <1>1, <1>4, <1>5, <1>8 DEF LiveHighWater, Authority
  <1>12. AcknowledgementValid(n)
    BY <1>1, <1>2, <1>3, <1>5, <1>8, <1>9, LeaseConstants
       DEF AcknowledgementValid, RenewedAuthority, AckDeadline, DeadlinePair,
           Min2, AuthorityValid, LiveHighWater, Authority
  <1>13. QED
    BY <1>4, <1>5, <1>8, <1>10, <1>11, <1>12
       DEF SnapshotRestores, ReasonValid, RenewedAuthority
----------------------------------------------------------------------------
(* A step that admits no launch, confirms no generation and either ends    *)
(* the lease or keeps its status and authority preserves the invariant.    *)
LEMMA QuietStep ==
  ASSUME IInv, lease' \in LeaseRecord, SnapshotRestores(lease'),
         lease'.last >= lease.last, UNCHANGED <<launch, acked>>,
         \/ lease'.status \in Terminal \cup {"Error"}
         \/ lease'.status = lease.status /\ lease'.authority = lease.authority
  PROVE  IInv'
  <1>1. TypeOK' /\ RestoreAccepts' /\ LaunchCeiling' /\ LaunchAcknowledged'
    BY DEF IInv, TypeOK, RestoreAccepts, LaunchCeiling, LaunchAcknowledged
  <1>2. AckTracksGeneration'
    BY DEF IInv, AckTracksGeneration, Terminal
  <1>3. LaunchObserved'
    BY <1>1 DEF IInv, LaunchObserved, TypeOK, Launch, LeaseRecord
  <1>4. QED
    BY <1>1, <1>2, <1>3 DEF IInv

(* What an operation that starts by applying the deadlines may assume.     *)
LEMMA EnforcedFacts ==
  ASSUME IInv, NEW now \in Samples
  PROVE  LET e == Enforced(lease, now) IN
         /\ e \in LeaseRecord /\ SnapshotRestores(e)
         /\ e.authority = lease.authority
         /\ e.last >= lease.last
         /\ RuntimeClockAccepted(lease, now) => e.last = now.mono
         /\ \/ e.status = lease.status
            \/ /\ lease.status \in Live
               /\ e.status \in {"Revoked", "Expired"}
         /\ lease.status \notin Live => e = [lease EXCEPT !.last = e.last]
         /\ now \in ClockSample
  <1>1. now \in ClockSample /\ lease \in LeaseRecord /\ SnapshotRestores(lease)
    BY LeaseConstants DEF IInv, TypeOK, RestoreAccepts
  <1>2. QED
    BY <1>1, EnforcedValid

LEMMA InitInvariant == Init => IInv
  BY LeaseConstants
     DEF Init, IInv, TypeOK, RestoreAccepts, LaunchCeiling, LaunchAcknowledged,
         AckTracksGeneration, LaunchObserved, Requested, NoAuthority,
         NoDeadline, NoLaunch, LeaseRecord, Status, Reasons, Authority,
         Deadline, Launch, SnapshotRestores, ReasonValid, Live, WithAuthority,
         Terminal

LEMMA RefusePreserves == IInv /\ Refuse => IInv'
  <1> SUFFICES ASSUME IInv, Refuse PROVE IInv'
    OBVIOUS
  <1>1. /\ lease' \in LeaseRecord /\ lease'.status = "Refused"
        /\ lease'.last = lease.last
    BY DEF IInv, TypeOK, Refuse, Finished, LeaseRecord, Status, Terminal,
       Reasons, NoDeadline, Deadline
  <1>2. SnapshotRestores(lease')
    BY <1>1 DEF IInv, RestoreAccepts, SnapshotRestores, ReasonValid,
       WithAuthority, Live
  <1>3. QED
    BY <1>1, <1>2, QuietStep DEF Refuse, Terminal, IInv, TypeOK, LeaseRecord

LEMMA ActivatePreserves ==
  ASSUME IInv, NEW p \in Policies, NEW now \in Samples, Activate(p, now)
  PROVE  IInv'
  <1>1. now \in ClockSample /\ p \in Policy /\ lease \in LeaseRecord
        /\ SnapshotRestores(lease) /\ lease.status = "Requested"
        /\ RuntimeClockAccepted(lease, now)
    BY LeaseConstants DEF IInv, TypeOK, RestoreAccepts, Activate,
       ActivationClockAccepted
  <1>2. CASE ActivationAdmitted(p, now)
    <2> DEFINE n == [Observed(lease, now) EXCEPT !.status = "Active",
                                                 !.authority = InitialAuthority(p)]
    <2>a. lease' = n /\ ActivationClockAccepted(lease, now)
      BY <1>2 DEF Activate
    <2>b. n \in LeaseRecord /\ SnapshotRestores(n)
      BY <1>1, <1>2, <2>a, ActivationValid
    <2>1. lease' \in LeaseRecord /\ SnapshotRestores(lease')
      BY <2>a, <2>b
    <2>2. /\ lease'.status = "Active" /\ lease'.last = now.mono
          /\ lease'.authority = InitialAuthority(p)
          /\ acked' = 1 /\ UNCHANGED launch /\ now.mono >= lease.last
      BY <1>1, <1>2 DEF Activate, Observed, LeaseRecord, RuntimeClockAccepted
    <2>3. acked = 0
      BY <1>1 DEF IInv, AckTracksGeneration
    <2>4. TypeOK' /\ RestoreAccepts' /\ LaunchCeiling'
      BY <2>1, <2>2, LeaseConstants DEF IInv, TypeOK, RestoreAccepts, LaunchCeiling
    <2>5. LaunchAcknowledged' /\ AckTracksGeneration'
      BY <2>2, <2>3 DEF IInv, TypeOK, Launch, LaunchAcknowledged,
         AckTracksGeneration, InitialAuthority
    <2>6. LaunchObserved'
      BY <1>1, <2>2 DEF IInv, TypeOK, Launch, LeaseRecord, LaunchObserved,
         ClockSample
    <2>7. QED
      BY <2>4, <2>5, <2>6 DEF IInv
  <1>3. CASE ~ActivationAdmitted(p, now)
    <2>1. lease' = Observed(lease, now) /\ UNCHANGED <<launch, acked>>
      BY <1>3 DEF Activate
    <2>2. lease' \in LeaseRecord /\ SnapshotRestores(lease')
      BY <1>1, <2>1, ObservedValid DEF Live
    <2>3. /\ lease'.status = lease.status /\ lease'.authority = lease.authority
          /\ lease'.last >= lease.last
      BY <1>1, <2>1 DEF Observed, LeaseRecord, RuntimeClockAccepted
    <2>4. QED
      BY <2>1, <2>2, <2>3, QuietStep
  <1>4. QED
    BY <1>2, <1>3

LEMMA BeginRenewalPreserves ==
  ASSUME IInv, NEW c \in Controls, NEW p \in Policies, NEW now \in Samples,
         BeginRenewal(c, p, now)
  PROVE  IInv'
  <1> DEFINE e == Enforced(lease, now)
             n == Renewed(e, p, now)
  <1>1. /\ e \in LeaseRecord /\ SnapshotRestores(e)
        /\ e.authority = lease.authority /\ e.last >= lease.last
        /\ RuntimeClockAccepted(lease, now) => e.last = now.mono
        /\ \/ e.status = lease.status
           \/ e.status \in {"Revoked", "Expired"}
        /\ now \in ClockSample
    BY EnforcedFacts
  <1>2. UNCHANGED <<launch, acked>>
    BY DEF BeginRenewal
  <1>3. CASE lease' = e
    BY <1>1, <1>2, <1>3, QuietStep DEF Terminal
  <1>4. CASE /\ lease' = n /\ RuntimeClockAccepted(lease, now)
             /\ RenewalAdmitted(e, p, now)
    <2>1. p \in Policy
      BY LeaseConstants
    <2>2. /\ n \in LeaseRecord /\ SnapshotRestores(n)
          /\ n.status = "Renewing" /\ n.last = now.mono
          /\ n.authority.generation = e.authority.generation + 1
      BY <1>1, <1>4, <2>1, RenewalValid
    <2>3. lease.status = "Active" /\ acked = lease.authority.generation
      BY <1>1, <1>4 DEF RenewalAdmitted, IInv, AckTracksGeneration
    <2>4. TypeOK' /\ RestoreAccepts' /\ LaunchCeiling' /\ LaunchAcknowledged'
      BY <1>2, <1>4, <2>2 DEF IInv, TypeOK, RestoreAccepts, LaunchCeiling,
         LaunchAcknowledged
    <2>5. AckTracksGeneration'
      BY <1>1, <1>2, <1>4, <2>2, <2>3 DEF AckTracksGeneration
    <2>6. LaunchObserved'
      BY <1>1, <1>2, <1>4, <2>2 DEF IInv, TypeOK, Launch, LeaseRecord,
         LaunchObserved, ClockSample
    <2>7. QED
      BY <2>4, <2>5, <2>6 DEF IInv
  <1>5. QED
    BY <1>3, <1>4 DEF BeginRenewal

(* Operations that end a lease after applying the deadlines.               *)
LEMMA FinishedStep ==
  ASSUME IInv, NEW now \in Samples, NEW status, NEW reason,
         lease' = Finished(Enforced(lease, now), status, reason),
         Enforced(lease, now).status \in Live,
         UNCHANGED <<launch, acked>>,
         \/ status = "Closed" /\ reason \in CloseReasons
         \/ status = "Revoked" /\ reason \in RevocationReasons
  PROVE  IInv'
  <1> DEFINE e == Enforced(lease, now)
  <1>1. e \in LeaseRecord /\ SnapshotRestores(e) /\ e.last >= lease.last
    BY EnforcedFacts
  <1>2. lease' \in LeaseRecord /\ SnapshotRestores(lease')
    BY <1>1, FinishedValid DEF WithAuthority
  <1>3. lease'.last = e.last /\ lease'.status = status
    BY <1>1 DEF Finished, LeaseRecord
  <1>4. QED
    BY <1>1, <1>2, <1>3, QuietStep DEF Terminal

LEMMA EnforcedStep ==
  ASSUME IInv, NEW now \in Samples, lease' = Enforced(lease, now),
         UNCHANGED <<launch, acked>>
  PROVE  IInv'
  BY EnforcedFacts, QuietStep DEF Terminal

LEMMA AcknowledgePreserves ==
  ASSUME IInv, NEW c \in Controls, NEW now \in Samples,
         AcknowledgeRenewal(c, now)
  PROVE  IInv'
  <1> DEFINE e == Enforced(lease, now)
             n == [e EXCEPT !.status = "Active", !.ack = NoDeadline]
  <1>1. UNCHANGED launch
    BY DEF AcknowledgeRenewal
  <1>2. CASE UNCHANGED acked /\ lease' = e
    BY <1>1, <1>2, EnforcedStep
  <1>3. CASE /\ UNCHANGED acked /\ e.status = "Renewing"
             /\ lease' = Finished(e, "Revoked", "RenewalAcknowledgementFailed")
    BY <1>1, <1>3, FinishedStep DEF Live, RevocationReasons
  <1>4. CASE /\ RuntimeClockAccepted(lease, now) /\ e.status = "Renewing"
             /\ lease' = n /\ acked' = e.authority.generation
    <2>1. /\ e \in LeaseRecord /\ SnapshotRestores(e)
          /\ e.authority = lease.authority /\ e.last >= lease.last
          /\ lease.status = "Renewing"
      BY <1>4, EnforcedFacts
    <2>2. /\ n \in LeaseRecord /\ n.status = "Active" /\ n.last = e.last
          /\ n.authority = e.authority /\ n.reason = e.reason
      BY <2>1 DEF LeaseRecord, Status, Live, NoDeadline, Deadline
    <2>3. SnapshotRestores(n)
      BY <1>4, <2>1, <2>2 DEF SnapshotRestores, AuthorityValid, LiveHighWater,
         ReasonValid, WithAuthority, Live
    <2>4. acked + 1 = e.authority.generation /\ acked \in Nat
          /\ e.authority.generation \in 0 .. MaxFencing
      BY <2>1, LeaseConstants DEF IInv, AckTracksGeneration, TypeOK,
         LeaseRecord, Authority
    <2>5. TypeOK' /\ RestoreAccepts' /\ LaunchCeiling'
      BY <1>1, <1>4, <2>2, <2>3, <2>4 DEF IInv, TypeOK, RestoreAccepts,
         LaunchCeiling
    <2>6. LaunchAcknowledged' /\ AckTracksGeneration'
      BY <1>1, <1>4, <2>2, <2>4 DEF IInv, TypeOK, Launch, LaunchAcknowledged,
         AckTracksGeneration
    <2>7. LaunchObserved'
      BY <1>1, <1>4, <2>1, <2>2 DEF IInv, TypeOK, Launch, LeaseRecord,
         LaunchObserved
    <2>8. QED
      BY <2>5, <2>6, <2>7 DEF IInv
  <1>5. QED
    BY <1>2, <1>3, <1>4 DEF AcknowledgeRenewal

LEMMA ClosePreserves ==
  ASSUME IInv, NEW c \in Controls, NEW reason, NEW now \in Samples,
         Close(c, reason, now)
  PROVE  IInv'
  <1> DEFINE e == Enforced(lease, now)
  <1>1. UNCHANGED <<launch, acked>>
    BY DEF Close
  <1>2. CASE lease' = e
    BY <1>1, <1>2, EnforcedStep
  <1>3. CASE /\ lease' = Finished(e, "Closed", reason)
             /\ reason \in CloseReasons /\ e.status \in {"Active", "Renewing"}
    BY <1>1, <1>3, FinishedStep DEF Live
  <1>4. QED
    BY <1>2, <1>3 DEF Close

LEMMA RevokeControlledPreserves ==
  ASSUME IInv, NEW c \in Controls, NEW now \in Samples,
         RevokeControlled(c, now)
  PROVE  IInv'
  <1> DEFINE e == Enforced(lease, now)
  <1>1. UNCHANGED <<launch, acked>>
    BY DEF RevokeControlled
  <1>2. CASE lease' = e
    BY <1>1, <1>2, EnforcedStep
  <1>3. CASE lease' = Finished(e, "Revoked", "OperatorRevoked") /\ e.status \in Live
    BY <1>1, <1>3, FinishedStep DEF RevocationReasons
  <1>4. QED
    BY <1>2, <1>3 DEF RevokeControlled

(* revoke and mark_error consult no clock.                                 *)
LEMMA UntimedPreserves ==
  ASSUME IInv, NEW reason, Revoke(reason) \/ MarkError(reason)
  PROVE  IInv'
  <1> DEFINE status == IF Revoke(reason) THEN "Revoked" ELSE "Error"
  <1>1. /\ lease' = Finished(lease, status, reason)
        /\ lease.status \in Live
        /\ \/ status = "Revoked" /\ reason \in RevocationReasons
           \/ status = "Error" /\ reason \in ErrorReasons
        /\ UNCHANGED <<launch, acked>>
    BY DEF Revoke, MarkError, Live
  <1>2. lease \in LeaseRecord /\ SnapshotRestores(lease)
    BY DEF IInv, TypeOK, RestoreAccepts
  <1>3. lease' \in LeaseRecord /\ SnapshotRestores(lease')
    BY <1>1, <1>2, FinishedValid DEF WithAuthority
  <1>4. /\ lease'.last = lease.last /\ lease.last \in Nat
        /\ lease'.status \in {"Revoked", "Error"}
    BY <1>1, <1>2 DEF Finished, LeaseRecord
  <1>5. QED
    BY <1>1, <1>3, <1>4, QuietStep DEF Terminal

LEMMA AuthorizeLaunchPreserves ==
  ASSUME IInv, NEW c \in Controls, NEW p \in Policies, NEW now \in Samples,
         AuthorizeLaunch(c, p, now)
  PROVE  IInv'
  <1> DEFINE e == Enforced(lease, now)
  <1>1. UNCHANGED acked
    BY DEF AuthorizeLaunch
  <1>2. CASE UNCHANGED launch /\ lease' = e
    BY <1>1, <1>2, EnforcedStep
  <1>3. CASE /\ UNCHANGED launch /\ e.status = "Active"
             /\ lease' = Finished(e, "Revoked", "PolicyRevoked")
    BY <1>1, <1>3, FinishedStep DEF Live, RevocationReasons
  <1>4. CASE /\ RuntimeClockAccepted(lease, now) /\ e.status = "Active"
             /\ lease' = e
             /\ launch' = [generation |-> e.authority.generation,
                           mono |-> now.mono]
    <2>1. /\ e \in LeaseRecord /\ SnapshotRestores(e)
          /\ e.authority = lease.authority /\ e.last = now.mono
          /\ lease.status = "Active" /\ now \in ClockSample
      BY <1>4, EnforcedFacts
    <2>2. AuthorityValid(e) /\ LiveHighWater(e)
      BY <1>4, <2>1 DEF SnapshotRestores, Live, WithAuthority
    <2>3. /\ launch'.generation = e.authority.generation
          /\ launch'.mono = now.mono
          /\ launch' \in Launch
          /\ now.mono \in Nat
      BY <1>4, <2>1 DEF Launch, LeaseRecord, Authority, ClockSample
    <2>4. TypeOK' /\ RestoreAccepts'
      BY <1>1, <1>4, <2>1, <2>3 DEF IInv, TypeOK, RestoreAccepts
    <2>5. LaunchCeiling'
      BY <2>1, <2>2, <2>3, LeaseConstants
         DEF LaunchCeiling, AuthorityValid, LiveHighWater, DeadlinePair,
             LeaseRecord, Authority
    <2>6. acked = lease.authority.generation
      BY <2>1 DEF IInv, AckTracksGeneration
    <2>7. LaunchAcknowledged' /\ AckTracksGeneration'
      BY <1>1, <1>4, <2>1, <2>3, <2>6 DEF IInv, TypeOK, LaunchAcknowledged,
         AckTracksGeneration
    <2>8. LaunchObserved'
      BY <1>4, <2>1, <2>3 DEF LaunchObserved
    <2>9. QED
      BY <2>4, <2>5, <2>7, <2>8 DEF IInv
  <1>5. QED
    BY <1>2, <1>3, <1>4 DEF AuthorizeLaunch

LEMMA NextPreserves == IInv /\ [Next]_vars => IInv'
  <1> SUFFICES ASSUME IInv, [Next]_vars PROVE IInv'
    OBVIOUS
  <1>1. CASE UNCHANGED vars
    BY <1>1 DEF vars, IInv, TypeOK, RestoreAccepts, LaunchCeiling,
       LaunchAcknowledged, AckTracksGeneration, LaunchObserved
  <1>2. CASE Refuse
    BY <1>2, RefusePreserves
  <1>3. CASE \E reason \in ReasonInputs : Revoke(reason) \/ MarkError(reason)
    BY <1>3, UntimedPreserves
  <1>4. ASSUME NEW now \in Samples, EnforceDeadlines(now) PROVE IInv'
    BY <1>4, EnforcedStep DEF EnforceDeadlines
  <1>5. ASSUME NEW now \in Samples, NEW p \in Policies, Activate(p, now)
        PROVE IInv'
    BY <1>5, ActivatePreserves
  <1>6. ASSUME NEW now \in Samples, NEW c \in Controls,
               \/ AcknowledgeRenewal(c, now) \/ RevokeControlled(c, now)
               \/ \E reason \in ReasonInputs : Close(c, reason, now)
               \/ \E p \in Policies : BeginRenewal(c, p, now)
               \/ \E p \in Policies : AuthorizeLaunch(c, p, now)
        PROVE IInv'
    BY <1>6, AcknowledgePreserves, RevokeControlledPreserves, ClosePreserves,
       BeginRenewalPreserves, AuthorizeLaunchPreserves
  <1>7. QED
    BY <1>1, <1>2, <1>3, <1>4, <1>5, <1>6 DEF Next

(* The inductive invariant holds in every reachable state.                 *)
THEOREM Invariance == Spec => []IInv
  <1>1. QED
    BY InitInvariant, NextPreserves, PTL DEF Spec

(* Every variable keeps its type; in particular no fencing generation      *)
(* passes the last representable value.                                    *)
THEOREM LeaseTypeCorrect == Spec => []TypeOK
  BY Invariance, PTL DEF IInv

(* Every reachable lease is one snapshot validation accepts.               *)
THEOREM RestoreAlwaysAccepts == Spec => []RestoreAccepts
  <1>1. IInv => RestoreAccepts
    BY DEF IInv
  <1>2. QED
    BY <1>1, Invariance, PTL

(* No launch is admitted outside the signed session and expiry.            *)
THEOREM LaunchesBounded == Spec => []LaunchCeiling
  <1>1. IInv => LaunchCeiling
    BY DEF IInv
  <1>2. QED
    BY <1>1, Invariance, PTL

(* No launch is admitted under an unacknowledged generation.               *)
THEOREM LaunchesAcknowledged == Spec => []LaunchAcknowledged
  <1>1. IInv => LaunchAcknowledged
    BY DEF IInv
  <1>2. QED
    BY <1>1, Invariance, PTL

----------------------------------------------------------------------------
(* Where the deadlines leave the lease, operation by operation: every      *)
(* clocked operation ends in the enforced lease, in one derived from it by *)
(* finishing or acknowledging it, or in a renewal of it.                   *)
LEMMA LeaseSteps ==
  ASSUME IInv, Next, lease.status \in WithAuthority
  PROVE  \/ lease' = lease
         \/ \E status, reason :
              lease.status \in Live /\ lease' = Finished(lease, status, reason)
         \/ \E now \in Samples :
              LET e == Enforced(lease, now) IN
              \/ lease' = e
              \/ \E status, reason :
                   e.status \in Live /\ lease' = Finished(e, status, reason)
              \/ /\ e.status = "Renewing"
                 /\ lease' = [e EXCEPT !.status = "Active", !.ack = NoDeadline]
              \/ \E p \in Policies :
                   /\ RuntimeClockAccepted(lease, now)
                   /\ RenewalAdmitted(e, p, now)
                   /\ lease' = Renewed(e, p, now)
  <1>1. ~Refuse /\ \A p \in Policies, now \in Samples : ~Activate(p, now)
    BY DEF Refuse, Activate, WithAuthority, Live
  <1>2. ASSUME NEW reason, Revoke(reason) \/ MarkError(reason)
        PROVE  \E s, r : lease.status \in Live /\ lease' = Finished(lease, s, r)
    BY <1>2 DEF Revoke, MarkError, Live
  <1>3. ASSUME NEW now \in Samples, EnforceDeadlines(now)
        PROVE  lease' = Enforced(lease, now)
    BY <1>3 DEF EnforceDeadlines
  <1>4. ASSUME NEW now \in Samples, NEW c \in Controls,
               \/ RevokeControlled(c, now)
               \/ \E reason \in ReasonInputs : Close(c, reason, now)
               \/ \E p \in Policies : AuthorizeLaunch(c, p, now)
        PROVE  LET e == Enforced(lease, now) IN
               \/ lease' = e
               \/ \E s, r : e.status \in Live /\ lease' = Finished(e, s, r)
    BY <1>4 DEF RevokeControlled, Close, AuthorizeLaunch, Live
  <1>5. ASSUME NEW now \in Samples, NEW c \in Controls,
               AcknowledgeRenewal(c, now)
        PROVE  LET e == Enforced(lease, now) IN
               \/ lease' = e
               \/ \E s, r : e.status \in Live /\ lease' = Finished(e, s, r)
               \/ /\ e.status = "Renewing"
                  /\ lease' = [e EXCEPT !.status = "Active", !.ack = NoDeadline]
    BY <1>5 DEF AcknowledgeRenewal, Live
  <1>6. ASSUME NEW now \in Samples, NEW c \in Controls, NEW p \in Policies,
               BeginRenewal(c, p, now)
        PROVE  LET e == Enforced(lease, now) IN
               \/ lease' = e
               \/ /\ RuntimeClockAccepted(lease, now)
                  /\ RenewalAdmitted(e, p, now)
                  /\ lease' = Renewed(e, p, now)
    BY <1>6 DEF BeginRenewal
  <1>7. QED
    BY <1>1, <1>2, <1>3, <1>4, <1>5, <1>6 DEF Next

LEMMA TerminalStepHolds == IInv /\ [Next]_vars => TerminalStep
  <1> SUFFICES ASSUME IInv, [Next]_vars, lease.status \in Terminal
               PROVE  lease' = [lease EXCEPT !.last = lease'.last]
    BY DEF TerminalStep
  <1>1. lease \in LeaseRecord /\ lease.status \notin Live
    BY DEF IInv, TypeOK, Terminal, Live
  <1>2. CASE lease' = lease
    BY <1>1, <1>2 DEF LeaseRecord
  <1>3. CASE lease.status = "Refused" /\ Next
    <2>1. ~Refuse /\ \A reason : ~Revoke(reason) /\ ~MarkError(reason)
      BY <1>3 DEF Refuse, Revoke, MarkError, Live
    <2>2. \A p, now : ~Activate(p, now)
      BY <1>3 DEF Activate
    <2>3. PICK now \in Samples :
            \/ EnforceDeadlines(now)
            \/ \E c \in Controls :
                 \/ AcknowledgeRenewal(c, now) \/ RevokeControlled(c, now)
                 \/ \E reason \in ReasonInputs : Close(c, reason, now)
                 \/ \E p \in Policies : BeginRenewal(c, p, now)
                 \/ \E p \in Policies : AuthorizeLaunch(c, p, now)
      BY <1>3, <2>1, <2>2 DEF Next
    <2>4. /\ Enforced(lease, now) = [lease EXCEPT !.last = Enforced(lease, now).last]
          /\ Enforced(lease, now).status = "Refused"
      BY <1>1, <1>3, EnforcedFacts
    <2>5. lease' = Enforced(lease, now)
      BY <2>3, <2>4 DEF EnforceDeadlines, AcknowledgeRenewal, RevokeControlled,
         Close, BeginRenewal, AuthorizeLaunch, RenewalAdmitted, Live
    <2>6. QED
      BY <2>4, <2>5
  <1>4. CASE lease.status # "Refused" /\ Next
    <2>1. lease.status \in WithAuthority
      BY <1>4 DEF WithAuthority, Terminal
    <2>2. \A now \in Samples :
            /\ Enforced(lease, now) = [lease EXCEPT !.last = Enforced(lease, now).last]
            /\ Enforced(lease, now).status = lease.status
      BY <1>1, EnforcedFacts
    <2>3. \/ lease' = lease
          \/ \E now \in Samples : lease' = Enforced(lease, now)
      BY <1>1, <1>4, <2>1, <2>2, LeaseSteps DEF RenewalAdmitted, Live
    <2>4. QED
      BY <1>2, <2>2, <2>3
  <1>5. QED
    BY <1>2, <1>3, <1>4 DEF vars

(* A terminal lease keeps its outcome and authority.                       *)
THEOREM TerminalNeverChanges == Spec => TerminalImmutable
  <1>1. IInv /\ [Next]_vars => [TerminalStep]_vars
    BY TerminalStepHolds
  <1>2. QED
    BY <1>1, Invariance, PTL DEF Spec, TerminalImmutable

LEMMA RenewalStepHolds == IInv /\ [Next]_vars => RenewalStep
  <1> SUFFICES ASSUME IInv, [Next]_vars, lease.status \in WithAuthority
               PROVE  RenewalStep
    BY DEF RenewalStep
  <1>1. lease \in LeaseRecord
    BY DEF IInv, TypeOK
  <1>2. CASE lease'.authority = lease.authority
    BY <1>2 DEF RenewalStep
  <1>3. ASSUME NEW now \in Samples, NEW p \in Policies,
               RuntimeClockAccepted(lease, now),
               RenewalAdmitted(Enforced(lease, now), p, now),
               lease' = Renewed(Enforced(lease, now), p, now)
        PROVE  RenewalStep
    <2> DEFINE e == Enforced(lease, now)
    <2>1. /\ e \in LeaseRecord /\ SnapshotRestores(e) /\ e.last = now.mono
          /\ e.authority = lease.authority /\ now \in ClockSample
          /\ \/ e.status = lease.status
             \/ e.status \in {"Revoked", "Expired"}
      BY <1>3, EnforcedFacts
    <2>2. p \in Policy
      BY LeaseConstants
    <2>3. lease.status = "Active"
      BY <1>3, <2>1 DEF RenewalAdmitted
    <2>4. QED
      BY <1>3, <2>1, <2>2, <2>3, RenewalValid DEF RenewalStep
  <1>4. ASSUME NEW l \in LeaseRecord, l.authority = lease.authority
        PROVE  /\ \A s, r : Finished(l, s, r).authority = lease.authority
               /\ [l EXCEPT !.status = "Active", !.ack = NoDeadline].authority
                    = lease.authority
    BY <1>4 DEF Finished, LeaseRecord
  <1>5. \A now \in Samples : /\ Enforced(lease, now) \in LeaseRecord
                             /\ Enforced(lease, now).authority = lease.authority
    BY EnforcedFacts
  <1>6. CASE UNCHANGED vars
    BY <1>2, <1>6 DEF vars
  <1>7. CASE Next
    <2>1. \/ lease'.authority = lease.authority
          \/ \E now \in Samples, p \in Policies :
               /\ RuntimeClockAccepted(lease, now)
               /\ RenewalAdmitted(Enforced(lease, now), p, now)
               /\ lease' = Renewed(Enforced(lease, now), p, now)
      <3>1. CASE \/ lease' = lease
                 \/ \E s, r : lease' = Finished(lease, s, r)
        BY <1>1, <1>4, <3>1
      <3>2. ASSUME NEW now \in Samples,
                   \/ lease' = Enforced(lease, now)
                   \/ \E s, r : lease' = Finished(Enforced(lease, now), s, r)
                   \/ lease' = [Enforced(lease, now) EXCEPT
                                  !.status = "Active", !.ack = NoDeadline]
            PROVE  lease'.authority = lease.authority
        <4> DEFINE e == Enforced(lease, now)
        <4>1. e \in LeaseRecord /\ e.authority = lease.authority
          BY <1>5
        <4>2. CASE \E s, r : lease' = Finished(e, s, r)
          BY <1>4, <4>1, <4>2
        <4>3. CASE lease' = [e EXCEPT !.status = "Active", !.ack = NoDeadline]
          BY <4>1, <4>3 DEF LeaseRecord
        <4>4. QED
          BY <3>2, <4>1, <4>2, <4>3
      <3>3. QED
        BY <1>7, <3>1, <3>2, LeaseSteps
    <2>2. QED
      BY <1>2, <1>3, <2>1
  <1>8. QED
    BY <1>6, <1>7

(* A renewal narrows the maximum and replaces the interval by a longer one *)
(* under the next generation; no other step touches the authority.         *)
THEOREM RenewalsNarrow == Spec => RenewalNarrows
  <1>1. IInv /\ [Next]_vars => [RenewalStep]_vars
    BY RenewalStepHolds
  <1>2. QED
    BY <1>1, Invariance, PTL DEF Spec, RenewalNarrows

LEMMA LaunchStepHolds == IInv /\ [Next]_vars => LaunchStep
  <1> SUFFICES ASSUME IInv, [Next]_vars, launch' # launch
               PROVE  /\ launch'.generation >= launch.generation
                      /\ launch'.mono >= launch.mono
    BY DEF LaunchStep
  <1>1. PICK now \in Samples, c \in Controls, p \in Policies :
          AuthorizeLaunch(c, p, now)
    BY DEF Next, vars, Refuse, Revoke, MarkError, EnforceDeadlines, Activate,
       AcknowledgeRenewal, RevokeControlled, Close, BeginRenewal
  <1> DEFINE e == Enforced(lease, now)
  <1>2. /\ e.status = "Active" /\ RuntimeClockAccepted(lease, now)
        /\ launch' = [generation |-> e.authority.generation, mono |-> now.mono]
    BY <1>1 DEF AuthorizeLaunch
  <1>3. e.authority = lease.authority /\ lease.status = "Active"
        /\ now \in ClockSample
    BY <1>2, EnforcedFacts
  <1>4. acked = lease.authority.generation /\ launch.generation <= acked
        /\ launch.mono <= lease.last
    BY <1>3 DEF IInv, AckTracksGeneration, LaunchAcknowledged, LaunchObserved
  <1>5. launch'.generation = acked /\ launch'.mono = now.mono
        /\ now.mono >= lease.last
    BY <1>2, <1>3, <1>4 DEF RuntimeClockAccepted
  <1>6. QED
    BY <1>3, <1>4, <1>5 DEF IInv, TypeOK, Launch, LeaseRecord, ClockSample

(* Launches never go back to an older generation or an earlier moment.     *)
THEOREM LaunchesStayFenced == Spec => LaunchesFenced
  <1>1. IInv /\ [Next]_vars => [LaunchStep]_vars
    BY LaunchStepHolds
  <1>2. QED
    BY <1>1, Invariance, PTL DEF Spec, LaunchesFenced
============================================================================
