------------------------ MODULE LeaseHistoryProofs ------------------------
(***************************************************************************)
(* LeaseHistory: no legal sequence of operations, restarts, recoveries and *)
(* prunings leaves a row or a log the loader rejects, for every binding,   *)
(* policy, clock sample and number of generations.                         *)
(***************************************************************************)
EXTENDS LeaseHistory, LeaseProofs, FiniteSetTheorems, WellFoundedInduction

----------------------------------------------------------------------------
(* What an operation may make of the lease it loaded, at wall time "at".   *)

Ticks(n) == n = [lease EXCEPT !.last = n.last] /\ n.last >= lease.last

Refuses(n) ==
  /\ lease.status = "Requested" /\ n.status = "Refused"
  /\ n.reason = "None" /\ n.ack = NoDeadline /\ n.authority = lease.authority

PolicyPinned(digests) == digests # {} /\ PinnedDigests \subseteq digests

Activates(n, at) ==
  /\ lease.status = "Requested" /\ n.status = "Active"
  /\ n.reason = lease.reason /\ n.ack = lease.ack
  /\ n.authority.generation = 1 /\ n.authority.anchorWall = IssuedWall
  /\ PolicyPinned(n.authority.digests)
  /\ IssuedWall <= at /\ at < n.authority.expires
  /\ IssuedWall + InitialTtl <= SignedExpires

Renews(n, at) ==
  /\ lease.status = "Active" /\ n.status = "Renewing"
  /\ n.reason = lease.reason /\ n.ack # NoDeadline
  /\ n.authority.generation = lease.authority.generation + 1
  /\ n.authority.anchorWall = at
  /\ n.authority.expires > lease.authority.expires
  /\ PolicyPinned(n.authority.digests)

Confirms(n, at) ==
  /\ lease.status = "Renewing" /\ n.status = "Active"
  /\ n.reason = lease.reason /\ n.ack = NoDeadline
  /\ n.authority = lease.authority
  /\ at < n.authority.expires
  /\ at < n.authority.anchorWall + AckTimeout

Ends(n, at, control) ==
  /\ lease.status \in Live
  /\ \/ n.status \in {"Revoked", "Expired"}
     \/ n.status \in {"Closed", "Error"} /\ lease.status # "Error"
  /\ n.authority = lease.authority /\ n.ack = NoDeadline
  /\ n.status = "Closed" => at < n.authority.expires
  /\ n.reason = "LeaseExpired" =>
       at >= n.authority.expires \/ n.last >= n.authority.monoDeadline
  /\ n.reason = "MaximumLifetimeReached" =>
       at >= n.authority.maxExpires \/ n.last >= n.authority.monoMax
  /\ n.reason = "OperatorRevoked" => control

Move(n, at, control) ==
  /\ n \in LeaseRecord /\ SnapshotRestores(n)
  /\ \/ Ticks(n) \/ Refuses(n) \/ Activates(n, at)
     \/ Renews(n, at) \/ Confirms(n, at) \/ Ends(n, at, control)

(* The lease every operation starts from: a valid snapshot whose pending   *)
(* acknowledgement, fields of no authority and reason are consistent.      *)
Loaded == lease \in LeaseRecord /\ SnapshotRestores(lease)

(* Applying the deadlines at a sample either moves the high water mark, and*)
(* then the sample is short of every deadline of a live lease, or ends it. *)
LEMMA EnforcedMoves ==
  ASSUME Loaded, NEW now \in Samples, NEW control
  PROVE  LET e == Enforced(lease, now) IN
         /\ Ticks(e) \/ (e.status \in {"Revoked", "Expired"}
                           /\ Ends(e, now.wall, control))
         /\ Move(e, now.wall, control)
         /\ e.status \in Live => Ticks(e)
         /\ RuntimeClockAccepted(lease, now) /\ e.status \in Live =>
              /\ now.wall < e.authority.expires
              /\ now.mono < e.authority.monoDeadline
              /\ e.status = "Renewing" =>
                   now.wall < e.authority.anchorWall + AckTimeout
         /\ now \in ClockSample
  <1> DEFINE e == Enforced(lease, now)
             o == Observed(lease, now)
             a == lease.authority
  <1>1. now \in ClockSample /\ lease \in LeaseRecord /\ SnapshotRestores(lease)
    BY LeaseConstants DEF Loaded
  <1>2. /\ e \in LeaseRecord /\ SnapshotRestores(e)
        /\ e.authority = a
        /\ e.last >= lease.last
        /\ RuntimeClockAccepted(lease, now) => e.last = now.mono
        /\ \/ e.status = lease.status
           \/ /\ lease.status \in Live
              /\ e.status \in {"Revoked", "Expired"}
        /\ lease.status \notin Live => e = [lease EXCEPT !.last = e.last]
    BY <1>1, EnforcedValid
  <1>3. CASE ~RuntimeClockAccepted(lease, now)
    <2>1. e = lease
      BY <1>3 DEF Enforced
    <2>2. Ticks(e)
      BY <1>1, <2>1 DEF Ticks, LeaseRecord
    <2>3. QED
      BY <1>1, <1>2, <1>3, <2>2 DEF Move
  <1>4. CASE lease.status \notin Live
    <2>1. Ticks(e)
      BY <1>2, <1>4 DEF Ticks
    <2>2. QED
      BY <1>1, <1>2, <1>4, <2>1 DEF Move, Live
  <1>5. CASE RuntimeClockAccepted(lease, now) /\ lease.status \in Live
    <2>1. /\ o \in LeaseRecord
          /\ o.status = lease.status /\ o.authority = a /\ o.ack = lease.ack
          /\ o.reason = lease.reason
          /\ o.last = now.mono /\ now.mono >= lease.last
          /\ o = [lease EXCEPT !.last = o.last]
          /\ now.mono \in Nat /\ now.wall \in Nat /\ lease.last \in Nat
      BY <1>1, <1>5 DEF Observed, LeaseRecord, RuntimeClockAccepted, ClockSample
    <2>2. e = AfterDeadlines(o, now)
      BY <1>5 DEF Enforced
    <2>3. a \in Authority /\ lease.ack \in Deadline
      BY <1>1 DEF LeaseRecord
    <2>4. CASE o.status = "Renewing" /\ DeadlineReached(now, o.ack.wall, o.ack.mono)
      <3>1. e = Finished(o, "Revoked", "RenewalAcknowledgementFailed")
        BY <2>2, <2>4 DEF AfterDeadlines
      <3>2. e.status = "Revoked" /\ e.reason = "RenewalAcknowledgementFailed"
            /\ e.ack = NoDeadline
        BY <3>1, <2>1 DEF Finished, LeaseRecord
      <3>3. Ends(e, now.wall, control)
        BY <3>2, <1>2, <1>5 DEF Ends
      <3>4. QED
        BY <1>1, <1>2, <3>2, <3>3 DEF Move, Live
    <2>5. CASE /\ ~(o.status = "Renewing" /\ DeadlineReached(now, o.ack.wall, o.ack.mono))
               /\ DeadlineReached(now, a.maxExpires, a.monoMax)
      <3>1. e = Finished(o, "Expired", "MaximumLifetimeReached")
        BY <2>1, <2>2, <2>5 DEF AfterDeadlines
      <3>2. e.status = "Expired" /\ e.reason = "MaximumLifetimeReached"
            /\ e.ack = NoDeadline
        BY <3>1, <2>1 DEF Finished, LeaseRecord
      <3>3. Ends(e, now.wall, control)
        BY <3>2, <1>2, <1>5, <2>5 DEF Ends, DeadlineReached
      <3>4. QED
        BY <1>1, <1>2, <3>2, <3>3 DEF Move, Live
    <2>6. CASE /\ ~(o.status = "Renewing" /\ DeadlineReached(now, o.ack.wall, o.ack.mono))
               /\ ~DeadlineReached(now, a.maxExpires, a.monoMax)
               /\ DeadlineReached(now, a.expires, a.monoDeadline)
      <3>1. e = Finished(o, "Expired", "LeaseExpired")
        BY <2>1, <2>2, <2>6 DEF AfterDeadlines
      <3>2. e.status = "Expired" /\ e.reason = "LeaseExpired"
            /\ e.ack = NoDeadline
        BY <3>1, <2>1 DEF Finished, LeaseRecord
      <3>3. Ends(e, now.wall, control)
        BY <3>2, <1>2, <1>5, <2>6 DEF Ends, DeadlineReached
      <3>4. QED
        BY <1>1, <1>2, <3>2, <3>3 DEF Move, Live
    <2>7. CASE /\ ~(o.status = "Renewing" /\ DeadlineReached(now, o.ack.wall, o.ack.mono))
               /\ ~DeadlineReached(now, a.maxExpires, a.monoMax)
               /\ ~DeadlineReached(now, a.expires, a.monoDeadline)
      <3>1. e = o
        BY <2>1, <2>2, <2>7 DEF AfterDeadlines
      <3>2. Ticks(e)
        BY <2>1, <3>1 DEF Ticks
      <3>3. now.wall < a.expires /\ now.mono < a.monoDeadline
        BY <2>1, <2>3, <2>7 DEF DeadlineReached, Authority
      <3>4. e.status = "Renewing" => now.wall < a.anchorWall + AckTimeout
        <4>1. SUFFICES ASSUME lease.status = "Renewing"
                       PROVE  now.wall < a.anchorWall + AckTimeout
          BY <2>1, <3>1
        <4>2. AcknowledgementValid(lease)
          BY <1>1, <4>1 DEF SnapshotRestores
        <4>3. now.wall < lease.ack.wall
          BY <2>1, <2>3, <2>7, <4>1 DEF DeadlineReached, Deadline
        <4>4. QED
          BY <2>1, <2>3, <4>2, <4>3, LeaseConstants
             DEF AcknowledgementValid, Min2, Authority, Deadline
      <3>5. QED
        BY <1>1, <1>2, <3>2, <3>3, <3>4 DEF Move
    <2>8. QED
      BY <2>4, <2>5, <2>6, <2>7
  <1>6. QED
    BY <1>3, <1>4, <1>5

(* Ending a lease that stayed live under the deadlines of the sample.      *)
LEMMA FinishedMoves ==
  ASSUME Loaded, NEW now \in Samples, NEW status, NEW reason, NEW control,
         RuntimeClockAccepted(lease, now),
         Enforced(lease, now).status \in Live,
         \/ status = "Revoked" /\ reason \in RevocationReasons
         \/ /\ \/ status = "Closed" /\ reason \in CloseReasons
               \/ status = "Error" /\ reason \in ErrorReasons
            /\ Enforced(lease, now).status # "Error",
         reason = "OperatorRevoked" => control
  PROVE  Move(Finished(Enforced(lease, now), status, reason), now.wall, control)
  <1> DEFINE e == Enforced(lease, now)
             n == Finished(e, status, reason)
  <1>1. /\ Ticks(e) /\ Move(e, now.wall, control)
        /\ now.wall < e.authority.expires
    BY EnforcedMoves
  <1>2. e \in LeaseRecord /\ SnapshotRestores(e) /\ lease \in LeaseRecord
    BY <1>1 DEF Move, Loaded
  <1>3. n \in LeaseRecord /\ SnapshotRestores(n)
    BY <1>2, FinishedValid DEF WithAuthority
  <1>4. e.authority = lease.authority /\ e.status = lease.status
    BY <1>1, <1>2 DEF Ticks, LeaseRecord
  <1>5. /\ n.status = status /\ n.reason = reason /\ n.ack = NoDeadline
        /\ n.authority = lease.authority
    BY <1>2, <1>4 DEF Finished, LeaseRecord
  <1>6. /\ n.reason # "LeaseExpired" /\ n.reason # "MaximumLifetimeReached"
        /\ n.status \in {"Closed", "Revoked", "Error"}
        /\ n.status \in {"Closed", "Error"} => lease.status # "Error"
    BY <1>4, <1>5 DEF CloseReasons, RevocationReasons, ErrorReasons
  <1>7. Ends(n, now.wall, control)
    BY <1>1, <1>4, <1>5, <1>6 DEF Ends
  <1>8. QED
    BY <1>3, <1>7 DEF Move

LEMMA RefusedMoves ==
  ASSUME Loaded, lease.status = "Requested", NEW at, NEW control,
         NEW l \in LeaseRecord, SnapshotRestores(l), Ticks(l)
  PROVE  Move(Finished(l, "Refused", "None"), at, control)
  <1> DEFINE n == Finished(l, "Refused", "None")
  <1>1. /\ n \in LeaseRecord /\ n.status = "Refused" /\ n.reason = "None"
        /\ n.ack = NoDeadline /\ n.authority = l.authority /\ n.last = l.last
        /\ l.authority = lease.authority
    BY DEF Finished, LeaseRecord, Status, Terminal, Reasons, NoDeadline,
       Deadline, Ticks, Loaded
  <1>2. SnapshotRestores(n)
    BY <1>1 DEF SnapshotRestores, ReasonValid, WithAuthority, Live
  <1>3. QED
    BY <1>1, <1>2 DEF Move, Refuses

----------------------------------------------------------------------------
(* Each operation makes one of these moves.                                *)

LEMMA RefuseMoves ==
  ASSUME Loaded, Refuse, NEW at, NEW control
  PROVE  Move(lease', at, control)
  <1>1. Ticks(lease) /\ lease \in LeaseRecord /\ SnapshotRestores(lease)
    BY DEF Loaded, Ticks, LeaseRecord
  <1>2. QED
    BY <1>1, RefusedMoves DEF Refuse

LEMMA ObservedMoves ==
  ASSUME Loaded, NEW now \in Samples, lease.status = "Requested",
         RuntimeClockAccepted(lease, now)
  PROVE  LET o == Observed(lease, now) IN
         o \in LeaseRecord /\ SnapshotRestores(o) /\ Ticks(o)
  <1>1. now \in ClockSample
    BY LeaseConstants
  <1>2. QED
    BY <1>1, ObservedValid DEF Loaded, Ticks, Observed, LeaseRecord, ClockSample,
       RuntimeClockAccepted, Live

LEMMA ActivateMoves ==
  ASSUME Loaded, NEW p \in Policies, NEW now \in Samples, NEW control,
         \/ Activate(p, now)
         \/ /\ lease.status = "Requested"
            /\ ActivationClockAccepted(lease, now)
            /\ lease' = Finished(Observed(lease, now), "Refused", "None")
  PROVE  Move(lease', now.wall, control)
  <1> DEFINE o == Observed(lease, now)
             a == InitialAuthority(p)
             n == [o EXCEPT !.status = "Active", !.authority = a]
  <1>1. /\ lease.status = "Requested" /\ ActivationClockAccepted(lease, now)
        /\ RuntimeClockAccepted(lease, now) /\ IssuedWall <= now.wall
        /\ now \in ClockSample /\ p \in Policy
    BY LeaseConstants DEF Activate, ActivationClockAccepted, ClockSample
  <1>2. o \in LeaseRecord /\ SnapshotRestores(o) /\ Ticks(o)
    BY <1>1, ObservedMoves
  <1>3. CASE lease' = o
    BY <1>2, <1>3 DEF Move
  <1>4. CASE lease' = Finished(o, "Refused", "None")
    BY <1>1, <1>2, <1>4, RefusedMoves
  <1>5. CASE lease' = n /\ ActivationAdmitted(p, now)
    <2>1. n \in LeaseRecord /\ SnapshotRestores(n)
      BY <1>1, <1>5, ActivationValid DEF Loaded
    <2>2. /\ n.status = "Active" /\ n.authority = a
          /\ n.reason = lease.reason /\ n.ack = lease.ack
      BY <1>2 DEF Ticks, LeaseRecord, Loaded
    <2>3. /\ a.generation = 1 /\ a.anchorWall = IssuedWall
          /\ a.digests = {p.digest} /\ a.expires = IssuedWall + p.ttl
      BY DEF InitialAuthority
    <2>4. PinnedDigests \subseteq {p.digest}
      BY <1>5 DEF ActivationAdmitted, PolicyBound
    <2>5. now.wall < IssuedWall + p.ttl
      BY <1>1, <1>5, LeaseConstants
         DEF ActivationAdmitted, DeadlineReached, ClockSample, Policy
    <2>6. IssuedWall + InitialTtl <= SignedExpires
      BY <1>1, <1>5, LeaseConstants
         DEF ActivationAdmitted, PolicyBound, InitialMaximum, Min2, Policy
    <2>7. Activates(n, now.wall)
      BY <1>1, <2>2, <2>3, <2>4, <2>5, <2>6 DEF Activates, PolicyPinned
    <2>8. QED
      BY <1>5, <2>1, <2>7 DEF Move
  <1>6. QED
    BY <1>3, <1>4, <1>5 DEF Activate

LEMMA RenewMoves ==
  ASSUME Loaded, NEW p \in Policies, NEW now \in Samples, NEW control,
         RuntimeClockAccepted(lease, now),
         RenewalAdmitted(Enforced(lease, now), p, now)
  PROVE  Move(Renewed(Enforced(lease, now), p, now), now.wall, control)
  <1> DEFINE e == Enforced(lease, now)
             n == Renewed(e, p, now)
  <1>1. e.status = "Active" /\ p \in Policy /\ PinnedDigests \subseteq {p.digest}
    BY LeaseConstants DEF RenewalAdmitted, PolicyBound
  <1>2. Ticks(e) /\ now \in ClockSample
        /\ e \in LeaseRecord /\ SnapshotRestores(e) /\ e.last = now.mono
    <2>1. Ticks(e) /\ Move(e, now.wall, control) /\ now \in ClockSample
      BY <1>1, EnforcedMoves DEF Live
    <2>2. QED
      BY <2>1, EnforcedValid DEF Move, Loaded
  <1>3. /\ n \in LeaseRecord /\ SnapshotRestores(n)
        /\ n.status = "Renewing"
        /\ n.authority.generation = e.authority.generation + 1
        /\ n.authority.expires > e.authority.expires
    BY <1>1, <1>2, RenewalValid
  <1>4. /\ n.authority = RenewedAuthority(e.authority, p, now)
        /\ n.reason = e.reason
    BY <1>2 DEF Renewed, LeaseRecord
  <1>5. n.authority.anchorWall = now.wall /\ n.authority.digests = {p.digest}
    BY <1>4 DEF RenewedAuthority
  <1>6. /\ lease.status = "Active" /\ e.authority = lease.authority
        /\ e.reason = lease.reason
    BY <1>1, <1>2 DEF Ticks, Loaded, LeaseRecord
  <1>7. n.ack # NoDeadline
    <2>1. AcknowledgementValid(n)
      BY <1>3 DEF SnapshotRestores
    <2>2. IssuedMono < n.ack.mono
      BY <2>1 DEF AcknowledgementValid
    <2>3. QED
      BY <2>2, LeaseConstants DEF NoDeadline
  <1>8. Renews(n, now.wall)
    BY <1>1, <1>3, <1>4, <1>5, <1>6, <1>7 DEF Renews, PolicyPinned
  <1>9. QED
    BY <1>3, <1>8 DEF Move

LEMMA AcknowledgeMoves ==
  ASSUME Loaded, NEW c \in Controls, NEW now \in Samples, NEW control,
         AcknowledgeRenewal(c, now)
  PROVE  Move(lease', now.wall, control)
  <1> DEFINE e == Enforced(lease, now)
             n == [e EXCEPT !.status = "Active", !.ack = NoDeadline]
  <1>1. CASE lease' = e
    BY <1>1, EnforcedMoves
  <1>2. CASE /\ e.status = "Renewing" /\ RuntimeClockAccepted(lease, now)
             /\ lease' = Finished(e, "Revoked", "RenewalAcknowledgementFailed")
    BY <1>2, FinishedMoves DEF Live, RevocationReasons
  <1>3. CASE /\ e.status = "Renewing" /\ RuntimeClockAccepted(lease, now)
             /\ lease' = n
    <2>1. /\ Ticks(e) /\ Move(e, now.wall, control)
          /\ now.wall < e.authority.expires
          /\ now.wall < e.authority.anchorWall + AckTimeout
      BY <1>3, EnforcedMoves DEF Live
    <2>2. e \in LeaseRecord /\ SnapshotRestores(e) /\ lease \in LeaseRecord
      BY <2>1 DEF Move, Loaded
    <2>3. /\ n \in LeaseRecord /\ n.status = "Active" /\ n.last = e.last
          /\ n.authority = e.authority /\ n.reason = e.reason
          /\ n.ack = NoDeadline
      BY <2>2 DEF LeaseRecord, Status, Live, NoDeadline, Deadline
    <2>4. SnapshotRestores(n)
      BY <1>3, <2>2, <2>3 DEF SnapshotRestores, AuthorityValid, LiveHighWater,
         ReasonValid, WithAuthority, Live
    <2>5. /\ lease.status = "Renewing" /\ e.authority = lease.authority
          /\ e.reason = lease.reason
      BY <1>3, <2>1, <2>2 DEF Ticks, LeaseRecord
    <2>6. Confirms(n, now.wall)
      BY <2>1, <2>3, <2>5 DEF Confirms
    <2>7. QED
      BY <1>3, <2>3, <2>4, <2>6 DEF Move
  <1>4. CASE /\ e.status = "Renewing" /\ ~RuntimeClockAccepted(lease, now)
             /\ lease' = Finished(e, "Revoked", "RenewalAcknowledgementFailed")
    <2>1. e = lease
      BY <1>4 DEF Enforced
    <2>2. lease \in LeaseRecord /\ SnapshotRestores(lease) /\ lease.status = "Renewing"
      BY <1>4, <2>1 DEF Loaded
    <2>3. lease' \in LeaseRecord /\ SnapshotRestores(lease')
      BY <1>4, <2>1, <2>2, FinishedValid DEF WithAuthority, Live,
         RevocationReasons
    <2>4. /\ lease'.status = "Revoked" /\ lease'.authority = lease.authority
          /\ lease'.reason = "RenewalAcknowledgementFailed"
          /\ lease'.ack = NoDeadline
      BY <1>4, <2>1, <2>2 DEF Finished, LeaseRecord
    <2>5. Ends(lease', now.wall, control)
      BY <2>2, <2>4 DEF Ends, Live
    <2>6. QED
      BY <2>3, <2>5 DEF Move
  <1>5. QED
    BY <1>1, <1>2, <1>3, <1>4 DEF AcknowledgeRenewal

LEMMA DeadlineMoves ==
  ASSUME Loaded, NEW now \in Samples, NEW control,
         lease' = Enforced(lease, now)
  PROVE  Move(lease', now.wall, control)
  BY EnforcedMoves

LEMMA RenewLeaseMoves ==
  ASSUME Loaded, NEW c \in Controls, NEW p \in Policies, NEW now \in Samples,
         NEW control,
         BeginRenewal(c, p, now) \/ EnforceDeadlines(now)
  PROVE  Move(lease', now.wall, control)
  <1>1. CASE lease' = Enforced(lease, now)
    BY <1>1, DeadlineMoves
  <1>2. CASE /\ RuntimeClockAccepted(lease, now)
             /\ RenewalAdmitted(Enforced(lease, now), p, now)
             /\ lease' = Renewed(Enforced(lease, now), p, now)
    BY <1>2, RenewMoves
  <1>3. QED
    BY <1>1, <1>2 DEF BeginRenewal, EnforceDeadlines

LEMMA CloseMoves ==
  ASSUME Loaded, NEW c \in Controls, NEW reason, NEW now \in Samples,
         Close(c, reason, now)
  PROVE  Move(lease', now.wall, TRUE)
  <1>1. CASE lease' = Enforced(lease, now)
    BY <1>1, DeadlineMoves
  <1>2. CASE /\ reason \in CloseReasons /\ RuntimeClockAccepted(lease, now)
             /\ Enforced(lease, now).status \in {"Active", "Renewing"}
             /\ lease' = Finished(Enforced(lease, now), "Closed", reason)
    BY <1>2, FinishedMoves DEF Live
  <1>3. QED
    BY <1>1, <1>2 DEF Close

LEMMA RevokeMoves ==
  ASSUME Loaded, NEW c \in Controls, NEW now \in Samples,
         RevokeControlled(c, now)
  PROVE  Move(lease', now.wall, TRUE)
  <1>1. CASE lease' = Enforced(lease, now)
    BY <1>1, DeadlineMoves
  <1>2. CASE /\ RuntimeClockAccepted(lease, now)
             /\ Enforced(lease, now).status \in Live
             /\ lease' = Finished(Enforced(lease, now), "Revoked", "OperatorRevoked")
    BY <1>2, FinishedMoves DEF RevocationReasons
  <1>3. QED
    BY <1>1, <1>2 DEF RevokeControlled

LEMMA ServiceMoves ==
  ASSUME Loaded, NEW reason, NEW now \in Samples,
         \/ lease' = AfterService(now, Live, ServiceRevocationReasons, reason,
                                  "Revoked")
         \/ lease' = AfterService(now, {"Active", "Renewing"}, ErrorReasons,
                                  reason, "Error")
  PROVE  Move(lease', now.wall, FALSE)
  <1> DEFINE e == Enforced(lease, now)
  <1>1. CASE lease' = e
    BY <1>1, DeadlineMoves
  <1>2. CASE /\ reason \in ServiceRevocationReasons
             /\ RuntimeClockAccepted(lease, now) /\ e.status \in Live
             /\ lease' = Finished(e, "Revoked", reason)
    BY <1>2, FinishedMoves DEF ServiceRevocationReasons
  <1>3. CASE /\ reason \in ErrorReasons
             /\ RuntimeClockAccepted(lease, now)
             /\ e.status \in {"Active", "Renewing"}
             /\ lease' = Finished(e, "Error", reason)
    BY <1>3, FinishedMoves DEF ErrorReasons, Live
  <1>4. QED
    BY <1>1, <1>2, <1>3 DEF AfterService

(* Recovery ends a lease of an earlier generation without reading a clock. *)
LEMMA RecoveryMoves ==
  ASSUME Loaded, NEW at, Refuse \/ Revoke("ServiceRecovery")
  PROVE  /\ Move(lease', at, FALSE)
         /\ lease'.status \in {"Refused", "Revoked"}
  <1>1. CASE Refuse
    <2>1. lease'.status = "Refused"
      BY <1>1 DEF Refuse, Finished, Loaded, LeaseRecord
    <2>2. QED
      BY <1>1, <2>1, RefuseMoves
  <1>2. CASE Revoke("ServiceRecovery")
    <2>1. lease.status \in Live
          /\ lease' = Finished(lease, "Revoked", "ServiceRecovery")
      BY <1>2 DEF Revoke
    <2>2. lease' \in LeaseRecord /\ SnapshotRestores(lease')
      BY <2>1, FinishedValid DEF Loaded, WithAuthority, RevocationReasons
    <2>3. /\ lease'.status = "Revoked" /\ lease'.reason = "ServiceRecovery"
          /\ lease'.ack = NoDeadline /\ lease'.authority = lease.authority
      BY <2>1 DEF Finished, Loaded, LeaseRecord
    <2>4. Ends(lease', at, FALSE)
      BY <2>1, <2>3 DEF Ends
    <2>5. QED
      BY <2>2, <2>3, <2>4 DEF Move
  <1>3. QED
    BY <1>1, <1>2

(* A mutation is a move of the lease it loaded, committed at the wall time *)
(* of one sample.                                                          *)
LEMMA MutationMoves ==
  ASSUME Loaded, Mutation
  PROVE  /\ Mutable /\ UNCHANGED <<generation, globals, prunes>>
         /\ \E now \in Samples, control \in BOOLEAN :
              Move(lease', now.wall, control) /\ Persist(now.wall, control)
  <1>1. PICK now \in Samples :
          \/ RefuseRequested(now)
          \/ EnforceExpiration(now)
          \/ \E p \in Policies : ActivateRequested(p, now)
          \/ \E reason \in ReasonInputs :
               RevokeByService(reason, now) \/ MarkErrorByService(reason, now)
          \/ \E c \in Controls :
               \/ AcknowledgeLease(c, now)
               \/ RevokeAuthenticated(c, now)
               \/ \E reason \in ReasonInputs : CloseLease(c, reason, now)
               \/ \E p \in Policies : RenewLease(c, p, now)
    BY DEF Mutation
  <1>2. SUFFICES \E control \in BOOLEAN :
                   Move(lease', now.wall, control) /\ Persist(now.wall, control)
    BY DEF Mutation
  <1>3. CASE RefuseRequested(now)
    BY <1>3, RefuseMoves DEF RefuseRequested
  <1>4. CASE EnforceExpiration(now)
    BY <1>4, DeadlineMoves DEF EnforceExpiration, EnforceDeadlines
  <1>5. ASSUME NEW p \in Policies, ActivateRequested(p, now)
        PROVE  Move(lease', now.wall, FALSE) /\ Persist(now.wall, FALSE)
    BY <1>5, ActivateMoves DEF ActivateRequested
  <1>6. ASSUME NEW reason \in ReasonInputs,
               RevokeByService(reason, now) \/ MarkErrorByService(reason, now)
        PROVE  Move(lease', now.wall, FALSE) /\ Persist(now.wall, FALSE)
    BY <1>6, ServiceMoves DEF RevokeByService, MarkErrorByService
  <1>7. ASSUME NEW c \in Controls, AcknowledgeLease(c, now)
        PROVE  Move(lease', now.wall, FALSE) /\ Persist(now.wall, FALSE)
    BY <1>7, AcknowledgeMoves DEF AcknowledgeLease
  <1>8. ASSUME NEW c \in Controls, RevokeAuthenticated(c, now)
        PROVE  Move(lease', now.wall, TRUE) /\ Persist(now.wall, TRUE)
    BY <1>8, RevokeMoves DEF RevokeAuthenticated
  <1>9. ASSUME NEW c \in Controls, NEW reason \in ReasonInputs,
               CloseLease(c, reason, now)
        PROVE  Move(lease', now.wall, TRUE) /\ Persist(now.wall, TRUE)
    BY <1>9, CloseMoves DEF CloseLease
  <1>10. ASSUME NEW c \in Controls, NEW p \in Policies, RenewLease(c, p, now)
         PROVE  Move(lease', now.wall, FALSE) /\ Persist(now.wall, FALSE)
    BY <1>10, RenewLeaseMoves DEF RenewLease
  <1>11. QED
    BY <1>1, <1>3, <1>4, <1>5, <1>6, <1>7, <1>8, <1>9, <1>10

LEMMA EventTypeFacts ==
  /\ TransitionEvent("Requested", "Refused") = "refused"
  /\ TransitionEvent("Requested", "Active") = "activated"
  /\ TransitionEvent("Active", "Renewing") = "renewing"
  /\ TransitionEvent("Renewing", "Active") = "renewed"
  /\ \A from \in Live : /\ TransitionEvent(from, "Closed") = "closed"
                        /\ TransitionEvent(from, "Revoked") = "revoked"
                        /\ TransitionEvent(from, "Expired") = "expired"
                        /\ TransitionEvent(from, "Error") = "error"
  BY DEF TransitionEvent, EventNames, Live

(* persist never refuses what the domain did: every move is one of the     *)
(* changes it commits, under an actor it accepts.                          *)
LEMMA MovesArePersistable ==
  ASSUME Loaded, NEW at, NEW control \in BOOLEAN, Move(lease', at, control)
  PROVE  \/ lease' = [lease EXCEPT !.last = lease'.last]
         \/ /\ <<lease.status, lease'.status>> \in Transitions
            /\ LET type == TransitionEvent(lease.status, lease'.status)
               IN  ActorValid(Actor(control, type, lease'.reason), type,
                              lease'.reason)
  <1> DEFINE type == TransitionEvent(lease.status, lease'.status)
  <1>1. CASE Ticks(lease')
    BY <1>1 DEF Ticks
  <1>2. CASE Refuses(lease')
    BY <1>2, EventTypeFacts DEF Refuses, Transitions, ActorValid
  <1>3. CASE Activates(lease', at)
    BY <1>3, EventTypeFacts DEF Activates, Transitions, ActorValid
  <1>4. CASE Renews(lease', at)
    BY <1>4, EventTypeFacts DEF Renews, Transitions, ActorValid
  <1>5. CASE Confirms(lease', at)
    BY <1>5, EventTypeFacts DEF Confirms, Transitions, ActorValid
  <1>6. CASE Ends(lease', at, control)
    <2>1. <<lease.status, lease'.status>> \in Transitions
      BY <1>6 DEF Ends, Transitions, Live
    <2>2. ASSUME type = "revoked", lease'.reason = "OperatorRevoked"
          PROVE  Actor(control, type, lease'.reason) = "caller"
      BY <1>6, <2>2 DEF Ends, Actor
    <2>3. QED
      BY <2>1, <2>2 DEF ActorValid
  <1>7. QED
    BY <1>1, <1>2, <1>3, <1>4, <1>5, <1>6 DEF Move

LEMMA TerminalizeMoves ==
  ASSUME Loaded, NEW at, TerminalizePriorGeneration(at)
  PROVE  /\ row.version # 0 /\ UNCHANGED <<generation, globals, prunes>>
         /\ lease'.status \in {"Refused", "Revoked"}
         /\ Move(lease', at, FALSE) /\ Persist(at, FALSE)
  BY RecoveryMoves DEF TerminalizePriorGeneration

----------------------------------------------------------------------------
(* What the committed log says of the lease before the move.               *)

LEMMA SecondOnward == \A k \in Nat \ {0} : k # 1 => k \in 2 .. k
  OBVIOUS

LEMMA LatestFacts ==
  ASSUME HistoryInv, row.version # 0
  PROVE  LET e == Last(audit) IN
         /\ audit \in Seq(AuditEvent) /\ Len(audit) \in Nat \ {0}
         /\ e = audit[Len(audit)] /\ e \in AuditEvent
         /\ audit[1] = RequestedEvent
         /\ FieldsMatchStatus(e)
         /\ e.status = lease.status /\ e.reason = lease.reason
         /\ e.fencing = lease.authority.generation
         /\ e.digests = lease.authority.digests
         /\ e.generation <= generation /\ e.generation >= IssuedGeneration
  <1> DEFINE e == Last(audit)
  <1>1. /\ audit \in Seq(AuditEvent) /\ ChainAccepted /\ LatestAccepted
        /\ audit # <<>> /\ LogNotAhead
    BY DEF HistoryInv, HistoryTypeOK, Loads, LeaseLoads, ChainAccepted
  <1>2. Len(audit) \in Nat \ {0} /\ e = audit[Len(audit)] /\ e \in AuditEvent
    BY <1>1 DEF Last
  <1>3. audit[1] = RequestedEvent
    BY <1>1 DEF ChainAccepted, InitialAccepted
  <1>4. FieldsMatchStatus(e)
    <2>1. CASE Len(audit) = 1
      <3>1. e = RequestedEvent
        BY <1>2, <1>3, <2>1
      <3>2. /\ e.status = "Requested" /\ e.reason = "None" /\ e.fencing = 0
            /\ e.digests = {}
        BY <3>1 DEF RequestedEvent, Event, Requested, NoAuthority
      <3>3. QED
        BY <3>2 DEF FieldsMatchStatus, WithAuthority, Live
    <2>2. CASE Len(audit) # 1
      <3>1. Len(audit) \in 2 .. Len(audit)
        BY <1>2, <2>2, SecondOnward
      <3>2. TransitionAccepted(audit[1].generation, audit[Len(audit) - 1], e)
        BY <1>1, <1>2, <3>1 DEF ChainAccepted
      <3>3. QED
        BY <3>2 DEF TransitionAccepted
    <2>3. QED
      BY <2>1, <2>2
  <1>5. EventShape(e)
    BY <1>1, <1>2 DEF ChainAccepted
  <1>6. QED
    BY <1>1, <1>2, <1>3, <1>4, <1>5 DEF LatestAccepted, LogNotAhead, EventShape

(* A lease has a fencing generation exactly when its status grants one, and*)
(* no reason before it ends or fails.                                      *)
LEMMA FieldFacts ==
  ASSUME HistoryInv, row.version # 0
  PROVE  /\ lease \in LeaseRecord /\ SnapshotRestores(lease) /\ Loaded
         /\ (lease.authority.generation # 0) = (lease.status \in WithAuthority)
         /\ (lease.authority.digests # {}) = (lease.status \in WithAuthority)
         /\ lease.status \in {"Requested", "Active", "Renewing"} =>
              lease.reason = "None"
         /\ lease.status \in WithAuthority =>
              PinnedDigests \subseteq lease.authority.digests
  <1>1. lease \in LeaseRecord /\ SnapshotRestores(lease) /\ Loaded
    BY DEF HistoryInv, HistoryTypeOK, Loaded
  <1>2. (lease.authority.generation # 0) = (lease.status \in WithAuthority)
        /\ (lease.authority.digests # {}) = (lease.status \in WithAuthority)
    BY LatestFacts DEF FieldsMatchStatus
  <1>3. lease.status \in {"Requested", "Active", "Renewing"} =>
          lease.reason = "None"
    BY LatestFacts DEF FieldsMatchStatus
  <1>4. lease.status \in WithAuthority =>
          PinnedDigests \subseteq lease.authority.digests
    <2>1. CASE Len(audit) = 1
      <3>1. Last(audit).status = "Requested"
        BY <2>1, LatestFacts DEF RequestedEvent, Event, Requested
      <3>2. QED
        BY <3>1, LatestFacts DEF WithAuthority, Live
    <2>2. CASE Len(audit) # 1
      <3>1. Len(audit) \in 2 .. Len(audit)
        BY <2>2, LatestFacts, SecondOnward
      <3>2. TransitionAccepted(audit[1].generation, audit[Len(audit) - 1],
                               Last(audit))
        BY <3>1, LatestFacts DEF HistoryInv, Loads, LeaseLoads, ChainAccepted
      <3>3. QED
        BY <3>2, LatestFacts DEF TransitionAccepted, PolicyExpected
    <2>3. QED
      BY <2>1, <2>2
  <1>5. QED
    BY <1>1, <1>2, <1>3, <1>4

(* The event of a move is one the loader accepts after the latest one.     *)
MoveEvent(at, control) ==
  LET type == TransitionEvent(lease.status, lease'.status)
  IN  Event(type, Outcome(type, lease'.reason),
            Actor(control, type, lease'.reason), at, lease', generation)

LEMMA EventFields ==
  ASSUME NEW at, NEW control
  PROVE  LET e == MoveEvent(at, control)
             type == TransitionEvent(lease.status, lease'.status)
         IN  /\ e.type = type /\ e.at = at /\ e.generation = generation
             /\ e.outcome = Outcome(type, lease'.reason)
             /\ e.actor = Actor(control, type, lease'.reason)
             /\ e.status = lease'.status /\ e.reason = lease'.reason
             /\ e.fencing = lease'.authority.generation
             /\ e.digests = lease'.authority.digests
  BY DEF MoveEvent, Event

LEMMA OutcomeFacts ==
  ASSUME NEW type, NEW reason, NEW control
  PROVE  /\ Outcome(type, reason) \in {"succeeded", "refused", "failed"}
         /\ Actor(control, type, reason) \in {"service", "caller"}
         /\ type = "refused" => Outcome(type, reason) = "refused"
         /\ type = "error" => Outcome(type, reason) = "failed"
         /\ type = "closed" => Outcome(type, reason) =
              IF reason = "WorkerFailed" THEN "failed" ELSE "succeeded"
         /\ type \in {"activated", "renewing", "renewed", "revoked", "expired"}
              => Outcome(type, reason) = "succeeded"
         /\ type # "closed" /\ ~(type = "revoked" /\ reason = "OperatorRevoked")
              => Actor(control, type, reason) = "service"
  BY DEF Outcome, Actor

LEMMA EventTyped ==
  ASSUME NEW at \in Nat, NEW control, generation \in Nat,
         Move(lease', at, control), ~Ticks(lease')
  PROVE  MoveEvent(at, control) \in AuditEvent
  <1> DEFINE type == TransitionEvent(lease.status, lease'.status)
  <1>1. type \in EventTypes
    BY EventTypeFacts DEF Move, Refuses, Activates, Renews, Confirms, Ends,
       EventTypes
  <1>2. /\ lease'.status \in Status /\ lease'.reason \in Reasons
        /\ lease'.authority \in Authority
    BY DEF Move, LeaseRecord
  <1>3. /\ lease'.authority.generation \in 0 .. MaxFencing
        /\ lease'.authority.digests \in SUBSET Digests
    BY <1>2 DEF Authority
  <1>4. /\ Outcome(type, lease'.reason) \in {"succeeded", "refused", "failed"}
        /\ Actor(control, type, lease'.reason) \in {"service", "caller"}
    BY OutcomeFacts
  <1>5. QED
    BY <1>1, <1>2, <1>3, <1>4 DEF MoveEvent, Event, AuditEvent

LEMMA EventAccepted ==
  ASSUME HistoryInv, row.version # 0, NEW at \in Nat, NEW control \in BOOLEAN,
         Move(lease', at, control), ~Ticks(lease'),
         generation = IssuedGeneration
           \/ lease'.status \in {"Refused", "Revoked"},
         ActorValid(Actor(control,
                          TransitionEvent(lease.status, lease'.status),
                          lease'.reason),
                    TransitionEvent(lease.status, lease'.status),
                    lease'.reason)
  PROVE  LET e == MoveEvent(at, control) IN
         /\ e \in AuditEvent /\ EventShape(e)
         /\ TransitionAccepted(IssuedGeneration, Last(audit), e)
  <1> DEFINE e == MoveEvent(at, control)
             p == Last(audit)
             type == TransitionEvent(lease.status, lease'.status)
  <1>1. /\ e.type = type /\ e.at = at /\ e.generation = generation
        /\ e.outcome = Outcome(type, lease'.reason)
        /\ e.actor = Actor(control, type, lease'.reason)
        /\ e.status = lease'.status /\ e.reason = lease'.reason
        /\ e.fencing = lease'.authority.generation
        /\ e.digests = lease'.authority.digests
    BY EventFields
  <1>2. /\ p.status = lease.status /\ p.fencing = lease.authority.generation
        /\ p.digests = lease.authority.digests
        /\ p.generation <= generation /\ generation >= IssuedGeneration
        /\ generation \in Nat
        /\ audit[1].generation = IssuedGeneration
    BY LatestFacts DEF HistoryInv, HistoryTypeOK, RequestedEvent, Event
  <1>3. lease' \in LeaseRecord /\ SnapshotRestores(lease')
    BY DEF Move
  <1>4. /\ lease \in LeaseRecord /\ SnapshotRestores(lease)
        /\ (lease.authority.generation # 0) = (lease.status \in WithAuthority)
        /\ (lease.authority.digests # {}) = (lease.status \in WithAuthority)
        /\ lease.status \in {"Requested", "Active", "Renewing"} =>
             lease.reason = "None"
        /\ lease.status \in WithAuthority =>
             PinnedDigests \subseteq lease.authority.digests
    BY FieldFacts
  <1>5. <<lease.status, lease'.status>> \in Transitions
    BY <1>4, MovesArePersistable DEF Loaded, Ticks, Move, Refuses, Activates,
       Renews, Confirms, Ends, Transitions, Live
  <1>7. e \in AuditEvent
    BY <1>2, EventTyped
  <1>8. EventShape(e)
    BY <1>1, <1>2, OutcomeFacts DEF EventShape
  <1>9. OutcomeAccepted(e)
    BY <1>1, OutcomeFacts DEF OutcomeAccepted
  <1>10. ActorAccepted(e)
    BY <1>1, OutcomeFacts DEF ActorAccepted, ActorValid
  <1>11. GenerationAccepted(IssuedGeneration, p, e)
    <2>1. type \in {"activated", "renewing", "renewed", "closed"} =>
            generation = IssuedGeneration
      BY EventTypeFacts DEF Move, Refuses, Activates, Renews, Confirms, Ends
    <2>2. QED
      BY <1>1, <1>2, <2>1 DEF GenerationAccepted
  <1>12. /\ FieldsMatchStatus(e) /\ AuthorityAccepted(p, e) /\ PolicyExpected(e)
    <2>1. CASE Refuses(lease')
      BY <1>1, <1>2, <1>4, <2>1, EventTypeFacts DEF Refuses, FieldsMatchStatus,
         AuthorityAccepted, PolicyExpected, WithAuthority, Live
    <2>2. CASE Activates(lease', at)
      BY <1>1, <1>2, <1>4, <2>2, EventTypeFacts DEF Activates, PolicyPinned,
         FieldsMatchStatus, AuthorityAccepted, PolicyExpected, WithAuthority,
         Live
    <2>3. CASE Renews(lease', at)
      <3>1. lease.authority.generation \in Nat
        BY <1>4 DEF LeaseRecord, Authority
      <3>2. QED
        BY <1>1, <1>2, <1>4, <2>3, <3>1, EventTypeFacts DEF Renews, PolicyPinned,
           FieldsMatchStatus, AuthorityAccepted, PolicyExpected, WithAuthority,
           Live
    <2>4. CASE Confirms(lease', at)
      BY <1>1, <1>2, <1>4, <2>4, EventTypeFacts DEF Confirms,
         FieldsMatchStatus, AuthorityAccepted, PolicyExpected, WithAuthority,
         Live
    <2>5. CASE Ends(lease', at, control)
      <3>1. ReasonValid(lease') /\ lease.status \in Live
        BY <1>3, <2>5 DEF SnapshotRestores, Ends
      <3>2. FieldsMatchStatus(e)
        BY <1>1, <1>4, <2>5, <3>1 DEF Ends, FieldsMatchStatus, ReasonValid,
           WithAuthority, Live
      <3>3. AuthorityAccepted(p, e) /\ PolicyExpected(e)
        BY <1>1, <1>2, <1>4, <2>5, <3>1, EventTypeFacts DEF Ends,
           AuthorityAccepted, PolicyExpected, WithAuthority
      <3>4. QED
        BY <3>2, <3>3
    <2>6. QED
      BY <2>1, <2>2, <2>3, <2>4, <2>5 DEF Move
  <1>13. QED
    BY <1>1, <1>2, <1>5, <1>7, <1>8, <1>9, <1>10, <1>11, <1>12
       DEF TransitionAccepted

----------------------------------------------------------------------------
(* What persist writes into the row.                                       *)

LEMMA TouchedFields ==
  ASSUME row \in LeaseRow, NEW after
  PROVE  LET t == Touched(lease, after) IN
         /\ t \in LeaseRow
         /\ t.version = row.version + 1 /\ t.sequence = row.sequence
         /\ t.clock >= row.clock
         /\ t.activated = row.activated /\ t.renewed = row.renewed
         /\ t.acknowledged = row.acknowledged /\ t.terminal = row.terminal
  <1> DEFINE clock == IF ClockChanged(lease, after) THEN row.clock + 1
                      ELSE row.clock
  <1>1. clock \in Nat /\ clock >= row.clock /\ row.version + 1 \in Nat
    BY DEF LeaseRow
  <1>2. Touched(lease, after) =
          [row EXCEPT !.version = row.version + 1, !.clock = clock]
    BY DEF Touched
  <1> HIDE DEF clock
  <1>3. /\ Touched(lease, after) \in LeaseRow
        /\ Touched(lease, after).version = row.version + 1
        /\ Touched(lease, after).sequence = row.sequence
        /\ Touched(lease, after).clock = clock
        /\ Touched(lease, after).activated = row.activated
        /\ Touched(lease, after).renewed = row.renewed
        /\ Touched(lease, after).acknowledged = row.acknowledged
        /\ Touched(lease, after).terminal = row.terminal
    BY <1>1, <1>2 DEF LeaseRow, WallColumn, NoTime
  <1>4. QED
    BY <1>1, <1>3

LEMMA StampedFields ==
  ASSUME NEW r \in LeaseRow, NEW type, NEW at \in Nat
  PROVE  LET t == Stamped(r, type, at) IN
         /\ t \in LeaseRow
         /\ t.version = r.version /\ t.sequence = r.sequence + 1
         /\ t.clock = r.clock
         /\ t.activated = IF type = "activated" THEN at ELSE r.activated
         /\ t.renewed = IF type = "renewing" THEN at ELSE r.renewed
         /\ t.acknowledged = IF type = "renewing" THEN NoTime
                             ELSE IF type = "renewed" THEN at ELSE r.acknowledged
         /\ t.terminal = IF type \in TerminalEvents THEN at ELSE r.terminal
  <1> DEFINE activated == IF type = "activated" THEN at ELSE r.activated
             renewed == IF type = "renewing" THEN at ELSE r.renewed
             acknowledged == IF type = "renewing" THEN NoTime
                             ELSE IF type = "renewed" THEN at ELSE r.acknowledged
             terminal == IF type \in TerminalEvents THEN at ELSE r.terminal
  <1>1. /\ activated \in WallColumn /\ renewed \in WallColumn
        /\ acknowledged \in WallColumn /\ terminal \in WallColumn
    BY DEF LeaseRow, WallColumn
  <1>2. Stamped(r, type, at) =
          [r EXCEPT !.sequence = r.sequence + 1, !.activated = activated,
                    !.renewed = renewed, !.acknowledged = acknowledged,
                    !.terminal = terminal]
    BY DEF Stamped
  <1> HIDE DEF activated, renewed, acknowledged, terminal
  <1>3. r.sequence + 1 \in Nat
    BY DEF LeaseRow
  <1>4. /\ Stamped(r, type, at) \in LeaseRow
        /\ Stamped(r, type, at).version = r.version
        /\ Stamped(r, type, at).sequence = r.sequence + 1
        /\ Stamped(r, type, at).clock = r.clock
        /\ Stamped(r, type, at).activated = activated
        /\ Stamped(r, type, at).renewed = renewed
        /\ Stamped(r, type, at).acknowledged = acknowledged
        /\ Stamped(r, type, at).terminal = terminal
    BY <1>1, <1>2, <1>3 DEF LeaseRow, WallColumn, NoTime
  <1>5. QED
    BY <1>4 DEF activated, renewed, acknowledged, terminal

(* A commit writes nothing, the clock alone, or one event and its columns. *)
LEMMA CommitCases ==
  ASSUME lease \in LeaseRecord, NEW at \in Nat, NEW control \in BOOLEAN,
         Move(lease', at, control), Persist(at, control)
  PROVE  \/ lease' = lease /\ row' = row /\ audit' = audit
         \/ Ticks(lease') /\ row' = Touched(lease, lease') /\ audit' = audit
         \/ /\ ~Ticks(lease')
            /\ row' = Stamped(Touched(lease, lease'),
                              TransitionEvent(lease.status, lease'.status), at)
            /\ audit' = Append(audit, MoveEvent(at, control))
            /\ ActorValid(Actor(control,
                                TransitionEvent(lease.status, lease'.status),
                                lease'.reason),
                          TransitionEvent(lease.status, lease'.status),
                          lease'.reason)
  <1>1. lease \in LeaseRecord /\ lease' \in LeaseRecord
    BY DEF Move
  <1>2. CASE lease' = lease /\ UNCHANGED rowVars
    BY <1>2 DEF rowVars
  <1>3. CASE /\ lease' = [lease EXCEPT !.last = lease'.last]
             /\ row' = Touched(lease, lease')
             /\ UNCHANGED audit
    <2>1. lease'.status = lease.status
      BY <1>1, <1>3 DEF LeaseRecord
    <2>2. Ticks(lease')
      BY <2>1 DEF Move, Refuses, Activates, Renews, Confirms, Ends, Live
    <2>3. QED
      BY <1>3, <2>2
  <1>4. CASE /\ <<lease.status, lease'.status>> \in Transitions
             /\ LET type == TransitionEvent(lease.status, lease'.status)
                    actor == Actor(control, type, lease'.reason)
                IN /\ ActorValid(actor, type, lease'.reason)
                   /\ row' = Stamped(Touched(lease, lease'), type, at)
                   /\ audit' = Append(audit,
                        Event(type, Outcome(type, lease'.reason), actor, at,
                              lease', generation))
    <2>1. lease'.status # lease.status
      BY <1>4 DEF Transitions, Live
    <2>2. ~Ticks(lease')
      BY <1>1, <2>1 DEF Ticks, LeaseRecord
    <2>3. QED
      BY <1>4, <2>2 DEF MoveEvent
  <1>5. QED
    BY <1>2, <1>3, <1>4 DEF Persist

----------------------------------------------------------------------------
(* The log after one more event.                                           *)

LEMMA AppendFacts ==
  ASSUME NEW s \in Seq(AuditEvent), NEW e \in AuditEvent
  PROVE  LET t == Append(s, e) IN
         /\ t \in Seq(AuditEvent) /\ t # <<>>
         /\ Len(t) = Len(s) + 1 /\ Len(s) \in Nat
         /\ Last(t) = e /\ t[Len(s) + 1] = e
         /\ \A i \in 1 .. Len(s) : t[i] = s[i]
  BY DEF Last

LEMMA ChainGrows ==
  ASSUME HistoryInv, row.version # 0, NEW e \in AuditEvent, EventShape(e),
         TransitionAccepted(IssuedGeneration, Last(audit), e),
         audit' = Append(audit, e), row'.sequence = row.sequence + 1
  PROVE  ChainAccepted'
  <1>1. /\ audit \in Seq(AuditEvent) /\ Len(audit) \in Nat \ {0}
        /\ Last(audit) = audit[Len(audit)]
    BY LatestFacts
  <1>2. /\ audit' # <<>> /\ Len(audit') = Len(audit) + 1
        /\ audit'[Len(audit) + 1] = e
        /\ \A i \in 1 .. Len(audit) : audit'[i] = audit[i]
    BY <1>1, AppendFacts
  <1>3. ChainAccepted
    BY DEF HistoryInv, Loads, LeaseLoads
  <1>4. audit'[1] = audit[1]
    BY <1>1, <1>2
  <1>5. row'.sequence = Len(audit') + 1
    BY <1>1, <1>2, <1>3 DEF ChainAccepted
  <1>6. \A i \in 1 .. Len(audit') : EventShape(audit'[i])
    <2>1. TAKE i \in 1 .. Len(audit')
    <2>2. CASE i = Len(audit) + 1
      BY <1>2, <2>2
    <2>3. CASE i # Len(audit) + 1
      <3>1. i \in 1 .. Len(audit)
        BY <1>1, <1>2, <2>3
      <3>2. QED
        BY <1>2, <1>3, <3>1 DEF ChainAccepted
    <2>4. QED
      BY <2>2, <2>3
  <1>7. audit[1].generation = IssuedGeneration
    BY LatestFacts DEF RequestedEvent, Event
  <1>8. \A i \in 2 .. Len(audit') :
          TransitionAccepted(IssuedGeneration, audit'[i - 1], audit'[i])
    <2>1. TAKE i \in 2 .. Len(audit')
    <2>2. CASE i = Len(audit) + 1
      <3>1. i - 1 = Len(audit) /\ Len(audit) \in 1 .. Len(audit)
        BY <1>1, <2>2
      <3>2. audit'[i - 1] = Last(audit) /\ audit'[i] = e
        BY <1>1, <1>2, <2>2, <3>1
      <3>3. QED
        BY <3>2
    <2>3. CASE i # Len(audit) + 1
      <3>1. i \in 2 .. Len(audit) /\ i \in 1 .. Len(audit)
            /\ i - 1 \in 1 .. Len(audit)
        BY <1>1, <1>2, <2>3
      <3>2. audit'[i - 1] = audit[i - 1] /\ audit'[i] = audit[i]
        BY <1>2, <3>1
      <3>3. TransitionAccepted(IssuedGeneration, audit[i - 1], audit[i])
        BY <1>3, <1>7, <3>1 DEF ChainAccepted
      <3>4. QED
        BY <3>2, <3>3
    <2>4. QED
      BY <2>2, <2>3
  <1>9. InitialAccepted(audit'[1])
    BY <1>3, <1>4 DEF ChainAccepted, InitialAccepted
  <1>10. QED
    BY <1>2, <1>4, <1>5, <1>6, <1>7, <1>8, <1>9 DEF ChainAccepted

----------------------------------------------------------------------------
(* The wall times the loader looks up in the log, before and after one     *)
(* more event.                                                             *)

Matching(log, types, gens) ==
  {i \in 1 .. Len(log) : log[i].type \in types /\ log[i].fencing \in gens}

TimeIn(log, column, found) ==
  IF found = {} THEN column = NoTime
  ELSE \E i \in found : found = {i} /\ log[i].at = column

LEMMA MatchingGrows ==
  ASSUME NEW log \in Seq(AuditEvent), NEW e \in AuditEvent, NEW types, NEW gens
  PROVE  LET old == Matching(log, types, gens)
             new == Matching(Append(log, e), types, gens)
         IN  /\ old \subseteq 1 .. Len(log)
             /\ IF e.type \in types /\ e.fencing \in gens
                  THEN new = old \cup {Len(log) + 1} ELSE new = old
  <1> DEFINE t == Append(log, e)
  <1>1. /\ Len(t) = Len(log) + 1 /\ Len(log) \in Nat
        /\ t[Len(log) + 1] = e
        /\ \A i \in 1 .. Len(log) : t[i] = log[i]
    BY AppendFacts
  <1>2. 1 .. Len(t) = (1 .. Len(log)) \cup {Len(log) + 1}
    BY <1>1
  <1> HIDE DEF t
  <1>3. QED
    BY <1>1, <1>2 DEF Matching, t

LEMMA TimesAppend ==
  ASSUME NEW log \in Seq(AuditEvent), NEW e \in AuditEvent, NEW types, NEW gens,
         NEW before, TimeIn(log, before, Matching(log, types, gens)),
         NEW column,
         IF e.type \in types /\ e.fencing \in gens
           THEN before = NoTime /\ column = e.at ELSE column = before
  PROVE  TimeIn(Append(log, e), column, Matching(Append(log, e), types, gens))
  <1> DEFINE t == Append(log, e)
             old == Matching(log, types, gens)
             new == Matching(t, types, gens)
  <1>1. /\ t[Len(log) + 1] = e
        /\ \A i \in 1 .. Len(log) : t[i] = log[i]
    BY AppendFacts
  <1>2. /\ old \subseteq 1 .. Len(log)
        /\ IF e.type \in types /\ e.fencing \in gens
             THEN new = old \cup {Len(log) + 1} ELSE new = old
    BY MatchingGrows
  <1>3. \A i \in 1 .. Len(log) : log[i].at # NoTime
    <2>1. TAKE i \in 1 .. Len(log)
    <2>2. log[i] \in AuditEvent
      OBVIOUS
    <2>3. log[i].at \in Nat
      BY <2>2 DEF AuditEvent
    <2>4. QED
      BY <2>3 DEF NoTime
  <1> HIDE DEF t, old, new
  <1>4. TimeIn(log, before, old)
    BY DEF old
  <1>5. CASE e.type \in types /\ e.fencing \in gens
    <2>1. old = {}
      BY <1>2, <1>3, <1>4, <1>5 DEF TimeIn
    <2>2. new = {Len(log) + 1} /\ column = e.at
      BY <1>2, <1>5, <2>1
    <2>3. TimeIn(t, column, new)
      BY <1>1, <2>2 DEF TimeIn
    <2>4. QED
      BY <2>3 DEF t, new
  <1>6. CASE ~(e.type \in types /\ e.fencing \in gens)
    <2>1. new = old /\ column = before
      BY <1>2, <1>6
    <2>2. TimeIn(t, column, new)
      BY <1>1, <1>2, <1>4, <2>1 DEF TimeIn
    <2>3. QED
      BY <2>2 DEF t, new
  <1>7. QED
    BY <1>5, <1>6

LEMMA NoneYet ==
  ASSUME NEW log \in Seq(AuditEvent), NEW types, NEW g \in Int,
         \A i \in 1 .. Len(log) : log[i].fencing < g
  PROVE  TimeIn(log, NoTime, Matching(log, types, {g}))
  <1>1. \A i \in 1 .. Len(log) : log[i].fencing # g
    <2>1. TAKE i \in 1 .. Len(log)
    <2>2. log[i] \in AuditEvent
      OBVIOUS
    <2>3. log[i].fencing \in Int
      BY <2>2 DEF AuditEvent
    <2>4. QED
      BY <2>3
  <1>2. Matching(log, types, {g}) = {}
    BY <1>1 DEF Matching
  <1>3. QED
    BY <1>2 DEF TimeIn

Fencings == 0 .. MaxFencing

(* PersistedTimes over any log, row and fencing generation.                *)
TimesOf(log, r, g) ==
  /\ TimeIn(log, r.activated, Matching(log, {"activated"}, Fencings))
  /\ TimeIn(log, r.renewed, Matching(log, {"renewing"}, {g}))
  /\ TimeIn(log, r.acknowledged, Matching(log, {"renewed"}, {g}))
  /\ TimeIn(log, r.terminal, Matching(log, TerminalEvents, Fencings))

LEMMA FoundIsMatching ==
  ASSUME NEW log \in Seq(AuditEvent), NEW types
  PROVE  {i \in 1 .. Len(log) : log[i].type \in types} =
           Matching(log, types, Fencings)
  <1>1. \A i \in 1 .. Len(log) : log[i].fencing \in Fencings
    <2>1. TAKE i \in 1 .. Len(log)
    <2>2. log[i] \in AuditEvent
      OBVIOUS
    <2>3. QED
      BY <2>2 DEF AuditEvent, Fencings
  <1>2. QED
    BY <1>1 DEF Matching

LEMMA TimesAreMatching ==
  ASSUME audit \in Seq(AuditEvent)
  PROVE  PersistedTimes = TimesOf(audit, row, lease.authority.generation)
  <1>1. \A types : Found(types) = Matching(audit, types, Fencings)
    BY FoundIsMatching DEF Found
  <1>2. \A type : OfThisRenewal(type) =
          Matching(audit, {type}, {lease.authority.generation})
    BY DEF Found, Matching, OfThisRenewal
  <1>3. \A column, found : TimeOfUnique(column, found) = TimeIn(audit, column, found)
    BY DEF TimeOfUnique, TimeIn
  <1>4. QED
    BY <1>1, <1>2, <1>3 DEF PersistedTimes, TimesOf

LEMMA TimesAreMatchingNext ==
  ASSUME audit' \in Seq(AuditEvent)
  PROVE  PersistedTimes' = TimesOf(audit', row', lease'.authority.generation)
  <1>1. \A types : Found(types)' = Matching(audit', types, Fencings)
    BY FoundIsMatching DEF Found
  <1>2. \A type : OfThisRenewal(type)' =
          Matching(audit', {type}, {lease'.authority.generation})
    BY DEF Found, Matching, OfThisRenewal
  <1>3. \A column, found :
          TimeOfUnique(column, found)' = TimeIn(audit', column, found)
    BY DEF TimeOfUnique, TimeIn
  <1>4. QED
    BY <1>1, <1>2, <1>3 DEF PersistedTimes, TimesOf

----------------------------------------------------------------------------
(* A commit with an event.                                                 *)

Committed(at, control) ==
  LET type == TransitionEvent(lease.status, lease'.status) IN
  /\ Move(lease', at, control) /\ ~Ticks(lease')
  /\ row' = Stamped(Touched(lease, lease'), type, at)
  /\ audit' = Append(audit, MoveEvent(at, control))
  /\ MoveEvent(at, control) \in AuditEvent

(* The columns of the row that is committed, and those of the row it came  *)
(* from, as the loader accepted them.                                      *)
LEMMA CommittedRow ==
  ASSUME HistoryInv, row.version # 0, NEW at \in Nat, NEW control,
         Committed(at, control)
  PROVE  LET type == TransitionEvent(lease.status, lease'.status) IN
         /\ row' \in LeaseRow
         /\ row'.version = row.version + 1 /\ row'.sequence = row.sequence + 1
         /\ row'.clock > 0
         /\ row'.activated = IF type = "activated" THEN at ELSE row.activated
         /\ row'.renewed = IF type = "renewing" THEN at ELSE row.renewed
         /\ row'.acknowledged = IF type = "renewing" THEN NoTime
                                ELSE IF type = "renewed" THEN at
                                ELSE row.acknowledged
         /\ row'.terminal = IF type \in TerminalEvents THEN at ELSE row.terminal
  <1> DEFINE t == Touched(lease, lease')
             type == TransitionEvent(lease.status, lease'.status)
  <1>1. row \in LeaseRow /\ row.clock > 0
    BY DEF HistoryInv, HistoryTypeOK, Loads, LeaseLoads
  <1>2. /\ t \in LeaseRow
        /\ t.version = row.version + 1 /\ t.sequence = row.sequence
        /\ t.clock >= row.clock
        /\ t.activated = row.activated /\ t.renewed = row.renewed
        /\ t.acknowledged = row.acknowledged /\ t.terminal = row.terminal
    BY <1>1, TouchedFields
  <1>3. row' = Stamped(t, type, at)
    BY DEF Committed
  <1> HIDE DEF t, type
  <1>4. /\ row' \in LeaseRow
        /\ row'.version = t.version /\ row'.sequence = t.sequence + 1
        /\ row'.clock = t.clock
        /\ row'.activated = IF type = "activated" THEN at ELSE t.activated
        /\ row'.renewed = IF type = "renewing" THEN at ELSE t.renewed
        /\ row'.acknowledged = IF type = "renewing" THEN NoTime
                               ELSE IF type = "renewed" THEN at
                               ELSE t.acknowledged
        /\ row'.terminal = IF type \in TerminalEvents THEN at ELSE t.terminal
    BY <1>2, <1>3, StampedFields
  <1>5. row'.clock > 0
    BY <1>1, <1>2, <1>4 DEF LeaseRow
  <1>6. QED
    BY <1>2, <1>4, <1>5 DEF type

LEMMA CommittedRowTimes ==
  ASSUME HistoryInv, row.version # 0, NEW at \in Nat, NEW control,
         Committed(at, control)
  PROVE  RowTimes'
  <1> DEFINE type == TransitionEvent(lease.status, lease'.status)
  <1>1. /\ row'.activated = IF type = "activated" THEN at ELSE row.activated
        /\ row'.renewed = IF type = "renewing" THEN at ELSE row.renewed
        /\ row'.acknowledged = IF type = "renewing" THEN NoTime
                               ELSE IF type = "renewed" THEN at
                               ELSE row.acknowledged
        /\ row'.terminal = IF type \in TerminalEvents THEN at ELSE row.terminal
    BY CommittedRow
  <1>2. /\ RowTimes /\ row \in LeaseRow
        /\ lease \in LeaseRecord /\ SnapshotRestores(lease)
    BY DEF HistoryInv, HistoryTypeOK, Loads, LeaseLoads
  <1>3. /\ lease' \in LeaseRecord /\ SnapshotRestores(lease') /\ at # NoTime
    BY DEF Committed, Move, NoTime
  <1>4. /\ lease.authority \in Authority /\ lease'.authority \in Authority
        /\ row.activated \in WallColumn /\ row.renewed \in WallColumn
        /\ row.acknowledged \in WallColumn /\ row.terminal \in WallColumn
    BY <1>2, <1>3 DEF LeaseRecord, LeaseRow
  <1>5. CASE Refuses(lease')
    <2>1. type = "refused"
      BY <1>5, EventTypeFacts DEF Refuses
    <2>2. /\ row'.activated = row.activated /\ row'.renewed = row.renewed
          /\ row'.acknowledged = row.acknowledged /\ row'.terminal = at
      BY <1>1, <2>1 DEF TerminalEvents
    <2>3. /\ row.activated = NoTime /\ row.renewed = NoTime
          /\ row.acknowledged = NoTime
      BY <1>2, <1>5 DEF Refuses, RowTimes, WithAuthority, Live
    <2>4. QED
      BY <1>3, <1>5, <2>2, <2>3 DEF Refuses, RowTimes, WithAuthority, Live,
         Terminal
  <1>6. CASE Activates(lease', at)
    <2>1. type = "activated"
      BY <1>6, EventTypeFacts DEF Activates
    <2>2. /\ row'.activated = at /\ row'.renewed = row.renewed
          /\ row'.acknowledged = row.acknowledged /\ row'.terminal = row.terminal
      BY <1>1, <2>1 DEF TerminalEvents
    <2>3. /\ row.renewed = NoTime /\ row.acknowledged = NoTime
          /\ row.terminal = NoTime /\ lease.ack = NoDeadline
      BY <1>2, <1>6 DEF Activates, RowTimes, WithAuthority, Live, Terminal
    <2>4. QED
      BY <1>3, <1>6, <2>2, <2>3, LeaseConstants DEF Activates, RowTimes,
         WithAuthority, Live, Terminal
  <1>7. CASE Renews(lease', at)
    <2>1. type = "renewing"
      BY <1>7, EventTypeFacts DEF Renews
    <2>2. /\ row'.activated = row.activated /\ row'.renewed = at
          /\ row'.acknowledged = NoTime /\ row'.terminal = row.terminal
      BY <1>1, <2>1 DEF TerminalEvents
    <2>3. /\ row.activated # NoTime /\ row.activated >= IssuedWall
          /\ row.activated < lease.authority.expires
          /\ row.terminal = NoTime
      BY <1>2, <1>7 DEF Renews, RowTimes, WithAuthority, Live, Terminal
    <2>4. lease.authority.generation >= 1
      BY <1>2, <1>7 DEF Renews, SnapshotRestores, AuthorityValid, WithAuthority,
         Live
    <2>5. /\ lease'.authority.generation > 1 /\ lease'.authority.generation # 1
          /\ row.activated < lease'.authority.expires
      BY <1>4, <1>7, <2>3, <2>4 DEF Renews, Authority, WallColumn, NoTime
    <2>6. QED
      BY <1>3, <1>7, <2>2, <2>3, <2>5 DEF Renews, RowTimes,
         WithAuthority, Live, Terminal
  <1>8. CASE Confirms(lease', at)
    <2>1. type = "renewed"
      BY <1>8, EventTypeFacts DEF Confirms
    <2>2. /\ row'.activated = row.activated /\ row'.renewed = row.renewed
          /\ row'.acknowledged = at /\ row'.terminal = row.terminal
      BY <1>1, <2>1 DEF TerminalEvents
    <2>3. /\ row.activated # NoTime /\ row.activated >= IssuedWall
          /\ row.activated < lease.authority.expires
          /\ row.terminal = NoTime /\ lease.authority.generation > 1
          /\ row.renewed = lease.authority.anchorWall
      BY <1>2, <1>8 DEF Confirms, RowTimes, WithAuthority, Live, Terminal
    <2>4. /\ row.renewed # NoTime /\ lease.authority.generation # 1
          /\ at < Min2(lease'.authority.expires,
                       lease'.authority.anchorWall + AckTimeout)
      BY <1>4, <1>8, <2>3, LeaseConstants DEF Confirms, Authority, NoTime, Min2
    <2>5. QED
      BY <1>3, <1>8, <2>2, <2>3, <2>4 DEF Confirms, RowTimes, WithAuthority,
         Live, Terminal
  <1>9. CASE Ends(lease', at, control)
    <2>1. /\ type # "activated" /\ type # "renewing" /\ type # "renewed"
          /\ type \in TerminalEvents <=> lease'.status \in Terminal
      BY <1>9, EventTypeFacts DEF Ends, TerminalEvents, Terminal
    <2>2. /\ row'.activated = row.activated /\ row'.renewed = row.renewed
          /\ row'.acknowledged = row.acknowledged
          /\ row'.terminal = IF lease'.status \in Terminal THEN at
                             ELSE row.terminal
      BY <1>1, <2>1
    <2>3. /\ lease.status \in WithAuthority /\ lease'.status \in WithAuthority
          /\ row.terminal = NoTime /\ lease'.status \notin {"Renewing", "Active"}
          /\ lease'.authority = lease.authority /\ lease'.ack = NoDeadline
          /\ lease'.status = "Closed" => at < lease'.authority.expires
      BY <1>2, <1>9 DEF Ends, RowTimes, WithAuthority, Live, Terminal
    <2>4. QED
      BY <1>2, <1>3, <2>2, <2>3 DEF RowTimes, Terminal
  <1>10. QED
    BY <1>5, <1>6, <1>7, <1>8, <1>9 DEF Committed, Move

LEMMA CommittedTimes ==
  ASSUME HistoryInv, row.version # 0, NEW at \in Nat, NEW control,
         Committed(at, control)
  PROVE  PersistedTimes'
  <1> DEFINE e == MoveEvent(at, control)
             g == lease.authority.generation
             h == lease'.authority.generation
             type == TransitionEvent(lease.status, lease'.status)
             now == Append(audit, e)
  <1>1. /\ e \in AuditEvent /\ e.type = type /\ e.at = at /\ e.fencing = h
        /\ audit' = now
    BY EventFields DEF Committed
  <1>2. /\ row'.activated = IF type = "activated" THEN at ELSE row.activated
        /\ row'.renewed = IF type = "renewing" THEN at ELSE row.renewed
        /\ row'.acknowledged = IF type = "renewing" THEN NoTime
                               ELSE IF type = "renewed" THEN at
                               ELSE row.acknowledged
        /\ row'.terminal = IF type \in TerminalEvents THEN at ELSE row.terminal
    BY CommittedRow
  <1>3. /\ audit \in Seq(AuditEvent) /\ RowTimes /\ PersistedTimes /\ LogNotAhead
        /\ lease \in LeaseRecord /\ SnapshotRestores(lease)
    BY DEF HistoryInv, HistoryTypeOK, Loads, LeaseLoads
  <1>4. lease' \in LeaseRecord
    BY DEF Committed, Move
  <1>5. g \in Nat /\ h \in Nat /\ h \in Fencings
    <2>1. lease.authority \in Authority /\ lease'.authority \in Authority
      BY <1>3, <1>4, Zenon DEF LeaseRecord
    <2>2. g \in 0 .. MaxFencing /\ h \in 0 .. MaxFencing
      BY <2>1 DEF Authority
    <2> QED
      BY <2>2, LeaseConstants DEF Fencings
  <1>6. /\ TimeIn(audit, row.activated,
                  Matching(audit, {"activated"}, Fencings))
        /\ TimeIn(audit, row.renewed, Matching(audit, {"renewing"}, {g}))
        /\ TimeIn(audit, row.acknowledged, Matching(audit, {"renewed"}, {g}))
        /\ TimeIn(audit, row.terminal,
                  Matching(audit, TerminalEvents, Fencings))
    BY <1>3, TimesAreMatching DEF TimesOf
  <1>7. \/ h = g /\ lease.status \in {"Requested", "Renewing"} \cup Live
             /\ type \notin {"activated", "renewing"}
        \/ h > g /\ lease.status = "Requested" /\ type = "activated"
        \/ h > g /\ lease.status = "Active" /\ type = "renewing"
    BY <1>3, <1>5, EventTypeFacts, FieldFacts DEF Committed, Move, Refuses,
       Activates, Renews, Confirms, Ends, WithAuthority, Live
  <1>8. type = "renewed" => lease.status = "Renewing"
    BY EventTypeFacts DEF Committed, Move, Refuses, Activates, Renews, Confirms,
       Ends
  <1>9. /\ lease.status = "Requested" => /\ row.activated = NoTime
                                         /\ row.renewed = NoTime
                                         /\ row.acknowledged = NoTime
        /\ lease.status = "Renewing" => row.acknowledged = NoTime
        /\ row.terminal = NoTime
    BY <1>3, <1>7 DEF RowTimes, WithAuthority, Live, Terminal
  <1>10. h > g => \A i \in 1 .. Len(audit) : audit[i].fencing < h
    <2>1. SUFFICES ASSUME h > g, NEW i \in 1 .. Len(audit)
                   PROVE  audit[i].fencing < h
      OBVIOUS
    <2>2. audit[i] \in AuditEvent /\ audit[i].fencing <= g
      BY <1>3 DEF LogNotAhead
    <2>3. audit[i].fencing \in Int
      BY <2>2 DEF AuditEvent
    <2>4. QED
      BY <1>5, <2>1, <2>2, <2>3
  <1> HIDE DEF e, g, h, type, now
  <1>11. \A types : h > g => TimeIn(audit, NoTime, Matching(audit, types, {h}))
    BY <1>3, <1>5, <1>10, NoneYet
  <1>12. TimeIn(now, row'.activated, Matching(now, {"activated"}, Fencings))
    <2>1. IF e.type \in {"activated"} /\ e.fencing \in Fencings
            THEN row.activated = NoTime /\ row'.activated = e.at
            ELSE row'.activated = row.activated
      BY <1>1, <1>2, <1>5, <1>7, <1>9
    <2>2. QED
      BY <1>1, <1>3, <1>6, <2>1, TimesAppend DEF now
  <1>13. TimeIn(now, row'.terminal, Matching(now, TerminalEvents, Fencings))
    <2>1. IF e.type \in TerminalEvents /\ e.fencing \in Fencings
            THEN row.terminal = NoTime /\ row'.terminal = e.at
            ELSE row'.terminal = row.terminal
      BY <1>1, <1>2, <1>5, <1>9
    <2>2. QED
      BY <1>1, <1>3, <1>6, <2>1, TimesAppend DEF now
  <1>14. TimeIn(now, row'.renewed, Matching(now, {"renewing"}, {h}))
    <2>1. CASE h = g
      <3>1. TimeIn(audit, row.renewed, Matching(audit, {"renewing"}, {h}))
        BY <1>6, <2>1
      <3>2. IF e.type \in {"renewing"} /\ e.fencing \in {h}
              THEN row.renewed = NoTime /\ row'.renewed = e.at
              ELSE row'.renewed = row.renewed
        BY <1>1, <1>2, <1>5, <1>7, <2>1
      <3>3. QED
        BY <1>1, <1>3, <3>1, <3>2, TimesAppend DEF now
    <2>2. CASE h > g
      <3>1. TimeIn(audit, NoTime, Matching(audit, {"renewing"}, {h}))
        BY <1>11, <2>2
      <3>2. IF e.type \in {"renewing"} /\ e.fencing \in {h}
              THEN NoTime = NoTime /\ row'.renewed = e.at
              ELSE row'.renewed = NoTime
        BY <1>1, <1>2, <1>5, <1>7, <1>9, <2>2
      <3>3. QED
        BY <1>1, <1>3, <3>1, <3>2, TimesAppend DEF now
    <2>3. QED
      BY <1>7, <2>1, <2>2
  <1>15. TimeIn(now, row'.acknowledged, Matching(now, {"renewed"}, {h}))
    <2>1. CASE h = g
      <3>1. TimeIn(audit, row.acknowledged, Matching(audit, {"renewed"}, {h}))
        BY <1>6, <2>1
      <3>2. IF e.type \in {"renewed"} /\ e.fencing \in {h}
              THEN row.acknowledged = NoTime /\ row'.acknowledged = e.at
              ELSE row'.acknowledged = row.acknowledged
        BY <1>1, <1>2, <1>5, <1>7, <1>8, <1>9, <2>1
      <3>3. QED
        BY <1>1, <1>3, <3>1, <3>2, TimesAppend DEF now
    <2>2. CASE h > g
      <3>1. TimeIn(audit, NoTime, Matching(audit, {"renewed"}, {h}))
        BY <1>11, <2>2
      <3>2. IF e.type \in {"renewed"} /\ e.fencing \in {h}
              THEN NoTime = NoTime /\ row'.acknowledged = e.at
              ELSE row'.acknowledged = NoTime
        BY <1>1, <1>2, <1>5, <1>7, <1>9, <2>2
      <3>3. QED
        BY <1>1, <1>3, <3>1, <3>2, TimesAppend DEF now
    <2>3. QED
      BY <1>7, <2>1, <2>2
  <1>16. now \in Seq(AuditEvent)
    BY <1>1, <1>3, AppendFacts DEF now
  <1>17. QED
    <2>1. audit' \in Seq(AuditEvent)
      BY <1>1, <1>16
    <2>2. PersistedTimes' = TimesOf(audit', row', h)
      BY <2>1, TimesAreMatchingNext DEF h
    <2>3. QED
      BY <1>1, <1>12, <1>13, <1>14, <1>15, <2>2 DEF TimesOf

(* The actor of the event of a move is one persist accepts.                *)
ActorNamed(at, control) ==
  LET type == TransitionEvent(lease.status, lease'.status) IN
  ActorValid(Actor(control, type, lease'.reason), type, lease'.reason)

(* A work order that was valid when the lease was issued: what an          *)
(* activation needs and the policy's evaluation does not demand.           *)
IssuedInTime == NotBefore <= IssuedWall

LEMMA CommittedAuthorized ==
  ASSUME IssuedInTime, HistoryInv, row.version # 0, NEW at, NEW control,
         Move(lease', at, control), lease'.status \in WithAuthority
  PROVE  AuthorizedAt(IssuedWall)
  <1>1. CASE lease.status \in WithAuthority
    BY <1>1 DEF HistoryInv, Loads, LeaseLoads
  <1>2. CASE lease.status \notin WithAuthority
    <2>1. lease \in LeaseRecord
      BY DEF HistoryInv, HistoryTypeOK
    <2>2. Activates(lease', at)
      BY <1>2, <2>1 DEF Move, Ticks, Refuses, Renews, Confirms, Ends,
         WithAuthority, Live, LeaseRecord
    <2>3. /\ lease' \in LeaseRecord /\ AuthorityValid(lease')
      BY DEF Move, SnapshotRestores
    <2>4. lease'.authority \in Authority
      BY <2>3 DEF LeaseRecord
    <2>5. IssuedWall < SignedExpires
      BY <2>3, <2>4, LeaseConstants DEF AuthorityValid, Authority
    <2>6. QED
      BY <2>2, <2>5 DEF IssuedInTime, Activates, AuthorizedAt
  <1>3. QED
    BY <1>1, <1>2

LEMMA CommittedExpiry ==
  ASSUME HistoryInv, row.version # 0, NEW at \in Nat, NEW control,
         Committed(at, control)
  PROVE  ExpiryEvidence'
  <1>1. /\ SnapshotRestores(lease')
        /\ lease.status \in {"Requested", "Active", "Renewing"} =>
             lease.reason = "None"
    BY FieldFacts DEF Committed, Move
  <1>2. CASE Ends(lease', at, control)
    <2>1. SUFFICES ASSUME lease'.reason \in {"LeaseExpired", "MaximumLifetimeReached"}
                   PROVE  ExpiryEvidence'
      BY DEF ExpiryEvidence
    <2>2. lease'.status = "Expired"
      BY <1>1, <1>2, <2>1 DEF Ends, SnapshotRestores, ReasonValid, CloseReasons,
         RevocationReasons, ErrorReasons
    <2>3. row'.terminal = at
      BY <1>2, <2>2, CommittedRow, EventTypeFacts DEF Ends, TerminalEvents
    <2>4. QED
      BY <1>2, <2>3 DEF Ends, ExpiryEvidence
  <1>3. CASE ~Ends(lease', at, control)
    <2>1. lease'.reason = "None"
      BY <1>1, <1>3, FieldFacts DEF Committed, Move, Refuses, Activates, Renews,
         Confirms
    <2>2. QED
      BY <2>1 DEF ExpiryEvidence
  <1>4. QED
    BY <1>2, <1>3

LEMMA CommittedPreserves ==
  ASSUME IssuedInTime, HistoryInv, row.version # 0,
         NEW at \in Nat, NEW control \in BOOLEAN,
         Move(lease', at, control), ~Ticks(lease'),
         row' = Stamped(Touched(lease, lease'),
                        TransitionEvent(lease.status, lease'.status), at),
         audit' = Append(audit, MoveEvent(at, control)),
         generation = IssuedGeneration \/ lease'.status \in {"Refused", "Revoked"},
         ActorNamed(at, control),
         UNCHANGED <<generation, globals, prunes>>
  PROVE  HistoryInv'
  <1> DEFINE e == MoveEvent(at, control)
  <1>1. /\ e \in AuditEvent /\ EventShape(e)
        /\ TransitionAccepted(IssuedGeneration, Last(audit), e)
    BY EventAccepted DEF ActorNamed
  <1>2. Committed(at, control)
    BY <1>1 DEF Committed
  <1>3. /\ HistoryTypeOK /\ SnapshotRestores(lease) /\ Loads /\ LogNotAhead
        /\ audit \in Seq(AuditEvent) /\ lease \in LeaseRecord
    BY DEF HistoryInv, HistoryTypeOK
  <1>4. /\ row' \in LeaseRow /\ row'.version = row.version + 1
        /\ row'.sequence = row.sequence + 1 /\ row'.clock > 0
    BY <1>2, CommittedRow
  <1>5. /\ audit' \in Seq(AuditEvent) /\ audit' # <<>>
        /\ Len(audit') = Len(audit) + 1 /\ Len(audit) \in Nat
        /\ Last(audit') = e /\ audit'[Len(audit) + 1] = e
        /\ \A i \in 1 .. Len(audit) : audit'[i] = audit[i]
    BY <1>1, <1>3, AppendFacts
  <1>6. lease' \in LeaseRecord /\ SnapshotRestores(lease')
    BY DEF Move
  <1>7. HistoryTypeOK'
    BY <1>3, <1>4, <1>5, <1>6 DEF HistoryTypeOK
  <1>8. /\ e.status = lease'.status /\ e.reason = lease'.reason
        /\ e.fencing = lease'.authority.generation
        /\ e.digests = lease'.authority.digests
        /\ e.generation = generation
    BY EventFields
  <1> HIDE DEF e
  <1>9. ChainAccepted'
    BY <1>1, <1>4, ChainGrows DEF e
  <1>10. LatestAccepted'
    BY <1>5, <1>8 DEF LatestAccepted
  <1>11. RowTimes' /\ PersistedTimes' /\ ExpiryEvidence'
    BY <1>2, CommittedRowTimes, CommittedTimes, CommittedExpiry
  <1>12. (lease.status \in WithAuthority => AuthorizedAt(IssuedWall))'
    BY CommittedAuthorized DEF AuthorizedAt
  <1>13. Loads'
    BY <1>3, <1>4, <1>6, <1>9, <1>10, <1>11, <1>12 DEF Loads, LeaseLoads,
       RestoresFromRow, PruneRecordLoads
  <1>14. LogNotAhead'
    <2>1. lease.authority.generation <= lease'.authority.generation
      <3>1. lease.authority.generation \in Nat
        BY <1>3 DEF LeaseRecord, Authority
      <3>2. lease.status = "Requested" => lease.authority.generation = 0
        BY FieldFacts DEF WithAuthority, Live
      <3>3. QED
        BY <3>1, <3>2 DEF Move, Refuses, Activates, Renews, Confirms, Ends
    <2>2. ASSUME NEW i \in 1 .. Len(audit')
          PROVE  audit'[i].fencing <= lease'.authority.generation
      <3>1. CASE i = Len(audit) + 1
        <4>1. lease'.authority.generation \in Nat
          BY <1>6 DEF LeaseRecord, Authority
        <4>2. QED
          BY <1>5, <1>8, <3>1, <4>1
      <3>2. CASE i # Len(audit) + 1
        <4>1. i \in 1 .. Len(audit)
          BY <1>5, <2>2, <3>2
        <4>2. /\ audit'[i] = audit[i] /\ audit[i] \in AuditEvent
              /\ audit[i].fencing <= lease.authority.generation
          BY <1>3, <1>5, <4>1 DEF LogNotAhead
        <4>3. audit[i].fencing \in Int
          BY <4>2 DEF AuditEvent
        <4>4. /\ lease.authority.generation \in Int
              /\ lease'.authority.generation \in Int
          BY <1>3, <1>6 DEF LeaseRecord, Authority
        <4>5. QED
          BY <2>1, <4>2, <4>3, <4>4
      <3>3. QED
        BY <3>1, <3>2
    <2>3. Last(audit').generation <= generation'
      BY <1>3, <1>5, <1>8 DEF HistoryTypeOK
    <2>4. QED
      BY <2>2, <2>3 DEF LogNotAhead
  <1>15. QED
    BY <1>6, <1>7, <1>13, <1>14 DEF HistoryInv

LEMMA TickPreserves ==
  ASSUME HistoryInv, row.version # 0, Ticks(lease'),
         lease' \in LeaseRecord, SnapshotRestores(lease'),
         row' = Touched(lease, lease'), audit' = audit,
         UNCHANGED <<generation, globals, prunes>>
  PROVE  HistoryInv'
  <1>1. /\ HistoryTypeOK /\ Loads /\ LeaseLoads /\ LogNotAhead
        /\ row \in LeaseRow /\ lease \in LeaseRecord
    BY DEF HistoryInv, HistoryTypeOK, Loads
  <1>2. /\ row' \in LeaseRow
        /\ row'.version = row.version + 1 /\ row'.sequence = row.sequence
        /\ row'.clock >= row.clock
        /\ row'.activated = row.activated /\ row'.renewed = row.renewed
        /\ row'.acknowledged = row.acknowledged /\ row'.terminal = row.terminal
    BY <1>1, TouchedFields
  <1>3. row'.clock > 0
    BY <1>1, <1>2 DEF LeaseLoads, LeaseRow
  <1>4. /\ lease'.status = lease.status /\ lease'.reason = lease.reason
        /\ lease'.authority = lease.authority /\ lease'.ack = lease.ack
        /\ lease'.last >= lease.last
    BY <1>1 DEF Ticks, LeaseRecord
  <1>5. HistoryTypeOK'
    BY <1>1, <1>2 DEF HistoryTypeOK
  <1>6. RowTimes'
    BY <1>1, <1>2, <1>4 DEF LeaseLoads, RowTimes
  <1>7. ExpiryEvidence'
    <2>1. /\ lease.last \in Nat /\ lease'.last \in Nat
          /\ lease.authority \in Authority
      BY <1>1 DEF LeaseRecord
    <2>2. QED
      BY <1>1, <1>2, <1>4, <2>1 DEF LeaseLoads, ExpiryEvidence, Authority
  <1>8. ChainAccepted' /\ LatestAccepted'
    BY <1>1, <1>2, <1>4 DEF LeaseLoads, ChainAccepted, LatestAccepted,
       InitialAccepted
  <1>9. PersistedTimes'
    BY <1>1, <1>2, <1>4, TimesAreMatching, TimesAreMatchingNext
       DEF HistoryTypeOK, LeaseLoads, TimesOf
  <1>10. (lease.status \in WithAuthority => AuthorizedAt(IssuedWall))'
    BY <1>1, <1>4 DEF LeaseLoads, AuthorizedAt
  <1>11. Loads'
    BY <1>1, <1>3, <1>6, <1>7, <1>8, <1>9, <1>10 DEF Loads, LeaseLoads,
       RestoresFromRow, PruneRecordLoads
  <1>12. LogNotAhead'
    BY <1>1, <1>4 DEF LogNotAhead
  <1>13. QED
    BY <1>5, <1>11, <1>12 DEF HistoryInv

LEMMA LoadsKept ==
  ASSUME UNCHANGED <<lease, row, audit>>
  PROVE  LeaseLoads' = LeaseLoads
  <1>1. RowTimes' = RowTimes /\ ExpiryEvidence' = ExpiryEvidence
    BY DEF RowTimes, ExpiryEvidence
  <1>2. ChainAccepted' = ChainAccepted /\ LatestAccepted' = LatestAccepted
    BY DEF ChainAccepted, LatestAccepted
  <1>3. PersistedTimes' = PersistedTimes
    BY DEF PersistedTimes, TimeOfUnique, Found, OfThisRenewal
  <1>4. QED
    BY <1>1, <1>2, <1>3 DEF LeaseLoads, RestoresFromRow, AuthorizedAt

LEMMA KeptPreserves ==
  ASSUME HistoryInv, UNCHANGED <<lease, row, audit, globals, prunes>>,
         generation' \in Nat, generation' >= generation
  PROVE  HistoryInv'
  <1>1. HistoryTypeOK'
    BY LeaseConstants DEF HistoryInv, HistoryTypeOK
  <1>2. LogNotAhead'
    <2>1. audit # <<>> => Last(audit) \in AuditEvent
      BY DEF HistoryInv, HistoryTypeOK, Last
    <2>2. audit # <<>> => Last(audit).generation \in Nat
      BY <2>1 DEF AuditEvent
    <2>3. generation \in Nat
      BY DEF HistoryInv, HistoryTypeOK
    <2>4. QED
      BY <2>2, <2>3 DEF HistoryInv, LogNotAhead
  <1>3. Loads'
    BY LoadsKept DEF HistoryInv, Loads, PruneRecordLoads
  <1>4. QED
    BY <1>1, <1>2, <1>3 DEF HistoryInv

LEMMA CommitPreserves ==
  ASSUME IssuedInTime, HistoryInv, row.version # 0,
         NEW at \in Nat, NEW control \in BOOLEAN,
         Move(lease', at, control), Persist(at, control),
         generation = IssuedGeneration \/ lease'.status \in {"Refused", "Revoked"},
         UNCHANGED <<generation, globals, prunes>>
  PROVE  HistoryInv'
  <1>1. CASE lease' = lease /\ row' = row /\ audit' = audit
    BY <1>1, KeptPreserves DEF HistoryInv, HistoryTypeOK
  <1>2. CASE Ticks(lease') /\ row' = Touched(lease, lease') /\ audit' = audit
    BY <1>2, TickPreserves DEF Move
  <1>3. CASE /\ ~Ticks(lease')
             /\ row' = Stamped(Touched(lease, lease'),
                               TransitionEvent(lease.status, lease'.status), at)
             /\ audit' = Append(audit, MoveEvent(at, control))
             /\ ActorNamed(at, control)
    BY <1>3, CommittedPreserves
  <1>4. QED
    BY <1>1, <1>2, <1>3, CommitCases DEF ActorNamed, HistoryInv, HistoryTypeOK

----------------------------------------------------------------------------
(* The types hold whatever the order of the operations.                    *)

(* What every transaction that mutates the lease makes of it.              *)
Commit ==
  /\ UNCHANGED <<generation, globals, prunes>>
  /\ row.version # 0 /\ LeaseLoads
  /\ generation = IssuedGeneration \/ lease'.status \in {"Refused", "Revoked"}
  /\ \E at \in Nat, control \in BOOLEAN :
       Move(lease', at, control) /\ Persist(at, control)

LEMMA NextCases ==
  ASSUME HistoryTypeOK, HistoryNext
  PROVE  Commit \/ Restart \/ \E now \in PruneWalls : PruneRetained(now)
  <1>1. CASE Mutation
    <2>1. Mutable /\ UNCHANGED <<generation, globals, prunes>>
      BY <1>1 DEF Mutation
    <2>2. Loaded
      BY <2>1 DEF Mutable, LeaseLoads, RestoresFromRow, HistoryTypeOK, Loaded
    <2>3. PICK now \in Samples, control \in BOOLEAN :
            Move(lease', now.wall, control) /\ Persist(now.wall, control)
      BY <1>1, <2>2, MutationMoves
    <2>4. now.wall \in Nat
      BY LeaseConstants DEF ClockSample
    <2>5. QED
      BY <2>1, <2>3, <2>4 DEF Commit, Mutable
  <1>2. ASSUME NEW now \in Samples, TerminalizePriorGeneration(now.wall)
        PROVE  Commit
    <2>1. Loaded /\ LeaseLoads
      BY <1>2 DEF TerminalizePriorGeneration, LeaseLoads, RestoresFromRow,
         HistoryTypeOK, Loaded
    <2>2. now.wall \in Nat
      BY LeaseConstants DEF ClockSample
    <2>3. QED
      BY <1>2, <2>1, <2>2, TerminalizeMoves DEF Commit
  <1>3. QED
    BY <1>1, <1>2 DEF HistoryNext

LEMMA CommitTypes ==
  ASSUME HistoryTypeOK, Commit
  PROVE  /\ HistoryTypeOK'
         /\ <<lease, row, audit>>' # <<lease, row, audit>> =>
              row'.version = row.version + 1
  <1>1. PICK at \in Nat, control \in BOOLEAN :
          Move(lease', at, control) /\ Persist(at, control)
    BY DEF Commit
  <1>2. /\ lease \in LeaseRecord /\ lease' \in LeaseRecord /\ row \in LeaseRow
        /\ generation \in Nat /\ audit \in Seq(AuditEvent)
    BY <1>1 DEF HistoryTypeOK, Move
  <1>3. CASE lease' = lease /\ row' = row /\ audit' = audit
    BY <1>3 DEF HistoryTypeOK, Commit
  <1>4. CASE Ticks(lease') /\ row' = Touched(lease, lease') /\ audit' = audit
    <2>1. row' \in LeaseRow /\ row'.version = row.version + 1
      BY <1>2, <1>4, TouchedFields
    <2>2. QED
      BY <1>2, <1>4, <2>1 DEF HistoryTypeOK, Commit
  <1>5. CASE /\ ~Ticks(lease')
             /\ row' = Stamped(Touched(lease, lease'),
                               TransitionEvent(lease.status, lease'.status), at)
             /\ audit' = Append(audit, MoveEvent(at, control))
    <2>1. /\ Touched(lease, lease') \in LeaseRow
          /\ Touched(lease, lease').version = row.version + 1
      BY <1>2, TouchedFields
    <2>2. row' \in LeaseRow /\ row'.version = row.version + 1
      BY <1>5, <2>1, StampedFields
    <2>3. MoveEvent(at, control) \in AuditEvent
      BY <1>1, <1>2, <1>5, EventTyped
    <2>4. audit' \in Seq(AuditEvent)
      BY <1>2, <1>5, <2>3, AppendFacts
    <2>5. QED
      BY <1>2, <2>2, <2>4 DEF HistoryTypeOK, Commit
  <1>6. QED
    BY <1>1, <1>2, <1>3, <1>4, <1>5, CommitCases

LEMMA RequestedTyped ==
  /\ Requested \in LeaseRecord /\ SnapshotRestores(Requested)
  /\ NoRow \in LeaseRow /\ RequestedRow \in LeaseRow
  /\ RequestedEvent \in AuditEvent
  <1>1. Requested \in LeaseRecord
    BY LeaseConstants DEF Requested, NoAuthority, NoDeadline, LeaseRecord, Status,
       Reasons, Authority, Deadline
  <1>2. SnapshotRestores(Requested)
    BY LeaseConstants DEF Requested, SnapshotRestores, ReasonValid, WithAuthority,
       Live
  <1>3. NoRow \in LeaseRow /\ RequestedRow \in LeaseRow
    BY DEF NoRow, RequestedRow, LeaseRow, WallColumn, NoTime
  <1>4. RequestedEvent \in AuditEvent
    BY LeaseConstants DEF RequestedEvent, Event, Requested, NoAuthority,
       AuditEvent, EventTypes, Status, Reasons
  <1>5. QED
    BY <1>1, <1>2, <1>3, <1>4

----------------------------------------------------------------------------
(* What a pruning records: the least and the greatest of the times it      *)
(* deletes.                                                                *)

LEMMA LeastNat ==
  ASSUME NEW T \in SUBSET Nat, T # {}
  PROVE  \E n \in T : \A m \in T : n <= m
  <1> DEFINE R == OpToRel(<, Nat)
  <1>1. IsWellFoundedOn(R, Nat)
    BY NatLessThanWellFounded
  <1>2. \A x \in Nat : \A y \in Nat : y < x => <<y, x>> \in R
    BY DEF OpToRel
  <1> HIDE DEF R
  <1>3. PICK x \in T : \A y \in T : ~ (<<y, x>> \in R)
    BY <1>1, WFMin
  <1>4. ASSUME NEW y \in T
        PROVE  x <= y
    <2>1. x \in Nat /\ y \in Nat
      OBVIOUS
    <2>2. ~ (y < x)
      BY <1>2, <1>3, <2>1, Zenon
    <2>3. QED
      BY <2>1, <2>2
  <1>5. QED
    BY <1>4

LEMMA TimeBounds ==
  ASSUME NEW S \in SUBSET Nat, S # {}, NEW bound \in Nat, \A t \in S : t <= bound
  PROVE  /\ Min(S) \in Nat /\ Max(S) \in Nat
         /\ Min(S) <= Max(S) /\ Max(S) <= bound
  <1>1. Min(S) \in S /\ \A t \in S : Min(S) <= t
    BY LeastNat DEF Min
  <1>2. \E m \in S : \A t \in S : m >= t
    <2> DEFINE U == {n \in Nat : \A t \in S : t <= n}
    <2>1. U \in SUBSET Nat /\ U # {}
      OBVIOUS
    <2>2. PICK m \in U : \A n \in U : m <= n
      BY <2>1, LeastNat
    <2>3. CASE m \in S
      BY <2>3
    <2>4. CASE m \notin S
      <3>1. PICK s \in S : TRUE
        OBVIOUS
      <3>2. \A t \in S : t <= m - 1
        BY <2>2, <2>4
      <3>3. m - 1 \in Nat
        BY <2>2, <3>1, <3>2
      <3>4. m - 1 \in U
        BY <3>2, <3>3
      <3>5. m <= m - 1
        BY <2>2, <3>4
      <3>6. QED
        BY <2>2, <3>5
    <2>5. QED
      BY <2>3, <2>4
  <1>3. Max(S) \in S /\ \A t \in S : Max(S) >= t
    BY <1>2 DEF Max
  <1>4. QED
    BY <1>1, <1>3

(* A pruning's record is one the loader accepts and one of a new row.      *)
Pruned(now, old, record) ==
  /\ globals' = (globals \ old) \cup {record}
  /\ record.id = prunes + 1 /\ record.at = now
  /\ record.cutoff = now - Retention
  /\ record.oldest <= record.newest /\ record.newest <= record.cutoff
  /\ record.requests = record.leases
  /\ record.leases = IF Prunable(now) THEN 1 ELSE 0
  /\ record.events = Cardinality(old)
                       + (IF Prunable(now) THEN Len(audit) ELSE 0)
  /\ Cardinality(old) \in Nat
  /\ old # {} \/ Prunable(now)
  /\ old # {} => Cardinality(old) > 0

LEMMA PruneFacts ==
  ASSUME HistoryTypeOK, NEW now \in PruneWalls, PruneRetained(now)
  PROVE  \E old \in SUBSET globals, record \in PruneRow :
           Pruned(now, old, record)
  <1> DEFINE old == {g \in globals : g.at + Retention <= now}
             ended == IF Prunable(now) THEN audit ELSE <<>>
             times == Times(old) \cup Times(Range(ended))
             leases == IF Prunable(now) THEN 1 ELSE 0
             events == Cardinality(old) + Len(ended)
             record == PruneRecord(prunes + 1, now, leases, events, times)
  <1>1. /\ times # {} /\ globals' = (globals \ old) \cup {record}
        /\ now >= Retention
    BY DEF PruneRetained
  <1>2. /\ now \in Nat /\ Retention \in Nat /\ prunes \in Nat
        /\ now - Retention \in Nat
    BY <1>1, HistoryConstants DEF HistoryTypeOK
  <1>3. /\ IsFiniteSet(old) /\ Cardinality(old) \in Nat
        /\ old # {} => Cardinality(old) > 0
    <2>1. IsFiniteSet(globals) /\ old \in SUBSET globals
      BY DEF HistoryTypeOK
    <2>2. IsFiniteSet(old)
      BY <2>1, FS_Subset
    <2>3. Cardinality(old) \in Nat /\ (Cardinality(old) = 0 <=> old = {})
      BY <2>2, FS_CardinalityType, FS_EmptySet
    <2>4. QED
      BY <2>2, <2>3
  <1>4. ended \in Seq(AuditEvent) /\ Len(ended) \in Nat
        /\ Len(ended) = IF Prunable(now) THEN Len(audit) ELSE 0
    BY DEF HistoryTypeOK
  <1>5. \A t \in Times(old) : t \in Nat /\ t <= now - Retention
    <2>1. SUFFICES ASSUME NEW g \in old
                   PROVE  g.at \in Nat /\ g.at <= now - Retention
      BY DEF Times
    <2>2. g \in PruneRow
      BY DEF HistoryTypeOK
    <2>3. g.at \in Nat
      BY <2>2 DEF PruneRow
    <2>4. QED
      BY <1>2, <2>1, <2>3
  <1>6. \A t \in Times(Range(ended)) : t \in Nat /\ t <= now - Retention
    <2>1. SUFFICES ASSUME NEW i \in 1 .. Len(ended)
                   PROVE  /\ ended[i].at \in Nat
                          /\ ended[i].at <= now - Retention
      BY <1>4 DEF Times, Range
    <2>2. Prunable(now) /\ ended = audit
      BY <2>1
    <2>3. audit[i] \in AuditEvent /\ audit[i].at + Retention <= now
      BY <2>1, <2>2 DEF Prunable, HistoryTypeOK
    <2>4. audit[i].at \in Nat
      BY <2>3 DEF AuditEvent
    <2>5. QED
      BY <1>2, <2>2, <2>3, <2>4
  <1>7. times \in SUBSET Nat /\ \A t \in times : t <= now - Retention
    BY <1>5, <1>6
  <1>8. old # {} \/ Prunable(now)
    BY <1>1 DEF Times, Range
  <1>9. /\ leases \in Nat /\ leases = IF Prunable(now) THEN 1 ELSE 0
        /\ events \in Nat
        /\ events = Cardinality(old)
                      + (IF Prunable(now) THEN Len(audit) ELSE 0)
    BY <1>3, <1>4
  <1>10. old \in SUBSET globals
    OBVIOUS
  <1> HIDE DEF times, old, leases, events
  <1>11. /\ Min(times) \in Nat /\ Max(times) \in Nat
         /\ Min(times) <= Max(times) /\ Max(times) <= now - Retention
    BY <1>1, <1>2, <1>7, TimeBounds
  <1>12. /\ record \in PruneRow
         /\ record.id = prunes + 1 /\ record.at = now
         /\ record.cutoff = now - Retention
         /\ record.oldest = Min(times) /\ record.newest = Max(times)
         /\ record.requests = leases /\ record.leases = leases
         /\ record.events = events
    BY <1>2, <1>9, <1>11 DEF PruneRecord, PruneRow
  <1> HIDE DEF record
  <1>13. QED
    BY <1>1, <1>3, <1>8, <1>9, <1>10, <1>11, <1>12 DEF Pruned

LEMMA PruneTypes ==
  ASSUME HistoryTypeOK, NEW now \in PruneWalls, PruneRetained(now)
  PROVE  HistoryTypeOK'
  <1>1. PICK old \in SUBSET globals, record \in PruneRow :
          Pruned(now, old, record)
    BY PruneFacts
  <1>2. /\ prunes' = prunes + 1 /\ generation' = generation
        /\ \/ row' = NoRow /\ audit' = <<>> /\ lease' = Requested
           \/ UNCHANGED <<row, audit, lease>>
    BY DEF PruneRetained
  <1>3. /\ lease' \in LeaseRecord /\ row' \in LeaseRow
        /\ audit' \in Seq(AuditEvent)
    <2>1. CASE row' = NoRow /\ audit' = <<>> /\ lease' = Requested
      BY <2>1, RequestedTyped
    <2>2. CASE UNCHANGED <<row, audit, lease>>
      BY <2>2 DEF HistoryTypeOK
    <2>3. QED
      BY <1>2, <2>1, <2>2
  <1>4. IsFiniteSet(globals')
    <2>1. IsFiniteSet(globals \ old)
      BY FS_Subset DEF HistoryTypeOK
    <2>2. QED
      BY <1>1, <2>1, FS_AddElement DEF Pruned
  <1>5. \A g \in globals' : g \in PruneRow /\ g.id <= prunes'
    <2>1. TAKE g \in globals'
    <2>2. CASE g = record
      BY <1>1, <1>2, <2>2 DEF HistoryTypeOK, Pruned
    <2>3. CASE g \in globals
      <3>1. g \in PruneRow /\ g.id <= prunes /\ prunes \in Nat
        BY <2>3 DEF HistoryTypeOK
      <3>2. g.id \in Nat
        BY <3>1 DEF PruneRow
      <3>3. QED
        BY <1>2, <3>1, <3>2
    <2>4. QED
      BY <1>1, <2>2, <2>3 DEF Pruned
  <1>6. QED
    BY <1>2, <1>3, <1>4, <1>5 DEF HistoryTypeOK

(* The record of a pruning passes the loader's check, because a lease that *)
(* is pruned has its request's event and the one that ended it.            *)
LEMMA PrunePreserves ==
  ASSUME HistoryInv, NEW now \in PruneWalls, PruneRetained(now)
  PROVE  HistoryInv'
  <1>1. HistoryTypeOK /\ HistoryTypeOK'
    BY PruneTypes DEF HistoryInv
  <1>2. PICK old \in SUBSET globals, record \in PruneRow :
          Pruned(now, old, record)
    BY <1>1, PruneFacts
  <1>3. Prunable(now) => Len(audit) >= 2
    <2>1. SUFFICES ASSUME Prunable(now)
                   PROVE  Len(audit) >= 2
      OBVIOUS
    <2>2. row.version # 0 /\ lease.status \in Terminal
      BY <2>1 DEF Prunable
    <2>3. Len(audit) # 1
      <3>1. SUFFICES ASSUME Len(audit) = 1
                     PROVE  FALSE
        OBVIOUS
      <3>2. Last(audit).status = "Requested"
        BY <2>2, <3>1, LatestFacts DEF RequestedEvent, Event, Requested
      <3>3. QED
        BY <2>2, <3>2, LatestFacts DEF Terminal
    <2>4. Len(audit) \in Nat \ {0}
      BY <2>2, LatestFacts
    <2>5. \A k \in Nat \ {0} : k # 1 => k >= 2
      OBVIOUS
    <2>6. QED
      BY <2>3, <2>4, <2>5
  <1>4. PruneRecordLoads(record)
    <2>1. now >= Retention
      BY DEF PruneRetained
    <2>2. Len(audit) \in Nat
      BY <1>1 DEF HistoryTypeOK
    <2>3. record.events > 0 /\ record.events >= 2 * record.leases
      BY <1>2, <1>3, <2>2 DEF Pruned
    <2>4. QED
      BY <1>2, <2>1, <2>3 DEF Pruned, PruneRecordLoads
  <1>5. \A g \in globals' : PruneRecordLoads(g)
    BY <1>2, <1>4 DEF HistoryInv, Loads, Pruned
  <1>6. CASE Prunable(now)
    <2>1. row' = NoRow /\ audit' = <<>> /\ lease' = Requested
      BY <1>6 DEF PruneRetained
    <2>2. row'.version = 0
      BY <2>1 DEF NoRow
    <2>3. Loads'
      BY <1>5, <2>2 DEF Loads, PruneRecordLoads
    <2>4. LogNotAhead'
      BY <2>1 DEF LogNotAhead
    <2>5. QED
      BY <1>1, <2>1, <2>3, <2>4, RequestedTyped DEF HistoryInv
  <1>7. CASE ~Prunable(now)
    <2>1. UNCHANGED <<row, audit, lease, generation>>
      BY <1>7 DEF PruneRetained
    <2>2. LeaseLoads' = LeaseLoads
      BY <2>1, LoadsKept
    <2>3. Loads'
      BY <1>5, <2>1, <2>2 DEF HistoryInv, Loads, PruneRecordLoads
    <2>4. LogNotAhead'
      BY <2>1 DEF HistoryInv, LogNotAhead
    <2>5. QED
      BY <1>1, <2>1, <2>3, <2>4 DEF HistoryInv
  <1>8. QED
    BY <1>6, <1>7

----------------------------------------------------------------------------
(* begin_acquire's two outcomes.                                           *)

LEMMA RequestedLoads ==
  ASSUME lease = Requested, row = RequestedRow, audit = <<RequestedEvent>>
  PROVE  LeaseLoads
  <1>1. /\ lease.status = "Requested" /\ lease.reason = "None"
        /\ lease.ack = NoDeadline /\ lease.authority = NoAuthority
        /\ NoAuthority.generation = 0 /\ NoAuthority.digests = {}
    BY DEF Requested, NoAuthority
  <1>2. /\ row.sequence = 2 /\ row.clock = 1 /\ row.activated = NoTime
        /\ row.renewed = NoTime /\ row.acknowledged = NoTime
        /\ row.terminal = NoTime
    BY DEF RequestedRow, NoRow
  <1>3. /\ Len(audit) = 1 /\ audit[1] = RequestedEvent /\ audit # <<>>
        /\ Last(audit) = RequestedEvent
    BY DEF Last
  <1>4. /\ RequestedEvent.type = "requested" /\ RequestedEvent.at = IssuedWall
        /\ RequestedEvent.status = "Requested" /\ RequestedEvent.reason = "None"
        /\ RequestedEvent.fencing = 0 /\ RequestedEvent.digests = {}
        /\ RequestedEvent.generation = IssuedGeneration
        /\ RequestedEvent.outcome = "recorded"
        /\ RequestedEvent.actor = "caller"
    BY <1>1 DEF RequestedEvent, Event, Requested
  <1>5. ChainAccepted
    <2>1. EventShape(RequestedEvent)
      BY <1>4, LeaseConstants DEF EventShape
    <2>2. QED
      BY <1>2, <1>3, <2>1 DEF ChainAccepted, InitialAccepted
  <1>6. LatestAccepted
    BY <1>1, <1>3, <1>4 DEF LatestAccepted
  <1>7. PersistedTimes
    <2>1. Found({"activated"}) = {} /\ Found({"renewing"}) = {}
          /\ Found({"renewed"}) = {} /\ Found(TerminalEvents) = {}
      BY <1>3, <1>4 DEF Found, TerminalEvents
    <2>2. QED
      BY <1>2, <2>1 DEF PersistedTimes, TimeOfUnique, OfThisRenewal
  <1>8. RowTimes
    BY <1>1, <1>2 DEF RowTimes, WithAuthority, Live, Terminal
  <1>9. ExpiryEvidence
    BY <1>1 DEF ExpiryEvidence
  <1>10. RestoresFromRow
    BY RequestedTyped DEF RestoresFromRow
  <1>11. QED
    BY <1>1, <1>2, <1>5, <1>6, <1>7, <1>8, <1>9, <1>10 DEF LeaseLoads,
       WithAuthority, Live

LEMMA RefusedLoads ==
  ASSUME lease = RefusedRequest, row = RefusedRow,
         audit = <<RequestedEvent, RefusedEvent>>
  PROVE  LeaseLoads /\ lease \in LeaseRecord /\ SnapshotRestores(lease)
  <1>1. /\ lease.status = "Refused" /\ lease.reason = "None"
        /\ lease.ack = NoDeadline /\ lease.authority = NoAuthority
        /\ lease.last = IssuedMono
        /\ NoAuthority.generation = 0 /\ NoAuthority.digests = {}
    BY DEF RefusedRequest, Finished, Requested, NoAuthority
  <1>2. /\ row.sequence = 3 /\ row.clock = 1 /\ row.activated = NoTime
        /\ row.renewed = NoTime /\ row.acknowledged = NoTime
        /\ row.terminal = IssuedWall /\ IssuedWall # NoTime
    BY LeaseConstants DEF RefusedRow, RequestedRow, NoRow, NoTime
  <1>3. /\ Len(audit) = 2 /\ audit[1] = RequestedEvent
        /\ audit[2] = RefusedEvent /\ audit # <<>>
        /\ Last(audit) = RefusedEvent
    BY DEF Last
  <1>4. /\ RequestedEvent.type = "requested"
        /\ RequestedEvent.status = "Requested"
        /\ RequestedEvent.fencing = 0 /\ RequestedEvent.digests = {}
        /\ RequestedEvent.generation = IssuedGeneration
        /\ RequestedEvent.outcome = "recorded"
        /\ RequestedEvent.actor = "caller"
    BY <1>1 DEF RequestedEvent, Event, Requested
  <1>5. /\ RefusedEvent.type = "refused" /\ RefusedEvent.at = IssuedWall
        /\ RefusedEvent.status = "Refused" /\ RefusedEvent.reason = "None"
        /\ RefusedEvent.fencing = 0 /\ RefusedEvent.digests = {}
        /\ RefusedEvent.generation = IssuedGeneration
        /\ RefusedEvent.outcome = "refused"
        /\ RefusedEvent.actor = "service"
    BY <1>1 DEF RefusedEvent, Event, RefusedRequest
  <1>6. lease \in LeaseRecord /\ SnapshotRestores(lease)
    <2>1. lease \in LeaseRecord
      BY RequestedTyped DEF RefusedRequest, Finished, LeaseRecord, Status, Terminal, Reasons,
         NoDeadline, Deadline
    <2>2. QED
      BY <1>1, <2>1, LeaseConstants DEF SnapshotRestores, ReasonValid,
         WithAuthority, Live
  <1>7. ChainAccepted
    <2>1. EventShape(RequestedEvent) /\ EventShape(RefusedEvent)
      BY <1>4, <1>5, LeaseConstants DEF EventShape
    <2>2. TransitionAccepted(IssuedGeneration, RequestedEvent, RefusedEvent)
      <3>1. /\ <<RequestedEvent.status, RefusedEvent.status>> \in Transitions
            /\ RefusedEvent.type =
                 TransitionEvent(RequestedEvent.status, RefusedEvent.status)
        BY <1>4, <1>5, EventTypeFacts DEF Transitions
      <3>2. OutcomeAccepted(RefusedEvent) /\ ActorAccepted(RefusedEvent)
        BY <1>5 DEF OutcomeAccepted, ActorAccepted
      <3>3. /\ GenerationAccepted(IssuedGeneration, RequestedEvent, RefusedEvent)
            /\ AuthorityAccepted(RequestedEvent, RefusedEvent)
        BY <1>4, <1>5, LeaseConstants DEF GenerationAccepted, AuthorityAccepted
      <3>4. FieldsMatchStatus(RefusedEvent) /\ PolicyExpected(RefusedEvent)
        BY <1>5 DEF FieldsMatchStatus, PolicyExpected, WithAuthority, Live
      <3>5. QED
        BY <3>1, <3>2, <3>3, <3>4 DEF TransitionAccepted
    <2>3. \A i \in 1 .. Len(audit) : EventShape(audit[i])
      BY <1>3, <2>1
    <2>4. \A i \in 2 .. Len(audit) :
            TransitionAccepted(IssuedGeneration, audit[i - 1], audit[i])
      <3>1. \A i \in 2 .. Len(audit) : i = 2
        BY <1>3
      <3>2. audit[2 - 1] = RequestedEvent
        BY <1>3
      <3>3. QED
        BY <1>3, <2>2, <3>1, <3>2
    <2>5. audit[1].generation = IssuedGeneration
      BY <1>3, <1>4
    <2>6. QED
      BY <1>2, <1>3, <2>3, <2>4, <2>5 DEF ChainAccepted, InitialAccepted
  <1>8. LatestAccepted
    BY <1>1, <1>3, <1>5 DEF LatestAccepted
  <1>9. PersistedTimes
    <2>1. /\ Found({"activated"}) = {} /\ Found({"renewing"}) = {}
          /\ Found({"renewed"}) = {}
      BY <1>3, <1>4, <1>5 DEF Found
    <2>2. Found(TerminalEvents) = {2}
      BY <1>3, <1>4, <1>5 DEF Found, TerminalEvents
    <2>3. QED
      BY <1>2, <1>3, <1>5, <2>1, <2>2 DEF PersistedTimes, TimeOfUnique,
         OfThisRenewal
  <1>10. RowTimes
    BY <1>1, <1>2 DEF RowTimes, WithAuthority, Live, Terminal
  <1>11. ExpiryEvidence
    BY <1>1 DEF ExpiryEvidence
  <1>12. QED
    BY <1>1, <1>2, <1>6, <1>7, <1>8, <1>9, <1>10, <1>11 DEF LeaseLoads,
       WithAuthority, Live, RestoresFromRow

LEMMA InitTypes == HistoryInit => HistoryTypeOK /\ HistoryInv
  <1>1. SUFFICES ASSUME HistoryInit
                 PROVE  HistoryTypeOK /\ HistoryInv
    OBVIOUS
  <1>2. /\ globals = {} /\ prunes = 0 /\ generation = IssuedGeneration
        /\ IsFiniteSet({})
    BY <1>1, FS_EmptySet DEF HistoryInit
  <1>3. CASE lease = Requested /\ row = RequestedRow /\ audit = <<RequestedEvent>>
    <2>1. /\ lease \in LeaseRecord /\ SnapshotRestores(lease)
          /\ row \in LeaseRow /\ audit \in Seq(AuditEvent) /\ LeaseLoads
      BY <1>3, RequestedTyped, RequestedLoads
    <2>2. HistoryTypeOK
      BY <1>2, <2>1, LeaseConstants DEF HistoryTypeOK
    <2>3. /\ audit[1] = RequestedEvent /\ Len(audit) = 1
          /\ Last(audit) = RequestedEvent
      BY <1>3 DEF Last
    <2>4. LogNotAhead
      BY <1>2, <1>3, <2>3, LeaseConstants DEF LogNotAhead, RequestedEvent,
         Event, Requested, NoAuthority
    <2>5. QED
      BY <1>2, <2>1, <2>2, <2>4 DEF HistoryInv, Loads
  <1>4. CASE /\ lease = RefusedRequest /\ row = RefusedRow
             /\ audit = <<RequestedEvent, RefusedEvent>>
    <2>1. LeaseLoads /\ lease \in LeaseRecord /\ SnapshotRestores(lease)
      BY <1>4, RefusedLoads
    <2>2. row \in LeaseRow
      BY <1>4, RequestedTyped, LeaseConstants DEF RefusedRow, LeaseRow, WallColumn,
         NoTime
    <2>3. RefusedEvent \in AuditEvent
      <3>1. /\ lease.status \in Status /\ lease.reason \in Reasons
            /\ lease.authority.generation \in 0 .. MaxFencing
            /\ lease.authority.digests \in SUBSET Digests
        BY <2>1 DEF LeaseRecord, Authority
      <3>2. QED
        BY <1>4, <3>1, LeaseConstants DEF RefusedEvent, Event, AuditEvent, EventTypes
    <2>4. /\ audit \in Seq(AuditEvent) /\ Len(audit) = 2
          /\ audit[1] = RequestedEvent /\ audit[2] = RefusedEvent
          /\ Last(audit) = RefusedEvent
      BY <1>4, <2>3, RequestedTyped DEF Last
    <2>5. HistoryTypeOK
      BY <1>2, <2>1, <2>2, <2>4, LeaseConstants DEF HistoryTypeOK
    <2>6. LogNotAhead
      <3>1. /\ RequestedEvent.fencing = 0 /\ RefusedEvent.fencing = 0
            /\ RefusedEvent.generation = IssuedGeneration
            /\ lease.authority.generation = 0
        BY <1>4 DEF RequestedEvent, RefusedEvent, Event, Requested, NoAuthority,
           RefusedRequest, Finished
      <3>2. QED
        BY <1>2, <2>4, <3>1, LeaseConstants DEF LogNotAhead
    <2>7. QED
      BY <1>2, <2>1, <2>5, <2>6 DEF HistoryInv, Loads
  <1>5. QED
    BY <1>1, <1>3, <1>4 DEF HistoryInit

----------------------------------------------------------------------------
(* The theorems.                                                           *)

LEMMA TypesPreserved == HistoryTypeOK /\ [HistoryNext]_history => HistoryTypeOK'
  <1>1. SUFFICES ASSUME HistoryTypeOK, [HistoryNext]_history
                 PROVE  HistoryTypeOK'
    OBVIOUS
  <1>2. CASE HistoryNext
    <2>1. CASE Commit
      BY <1>1, <2>1, CommitTypes
    <2>2. CASE Restart
      BY <1>1, <2>2, LeaseConstants DEF Restart, HistoryTypeOK
    <2>3. CASE \E now \in PruneWalls : PruneRetained(now)
      BY <1>1, <2>3, PruneTypes
    <2>4. QED
      BY <1>1, <1>2, <2>1, <2>2, <2>3, NextCases
  <1>3. CASE UNCHANGED history
    BY <1>1, <1>3 DEF history, HistoryTypeOK
  <1>4. QED
    BY <1>1, <1>2, <1>3

(* The committed rows keep their types, even in a store whose loader       *)
(* rejects the lease and so never touches it again.                        *)
THEOREM HistoryTypeCorrect == HistorySpec => []HistoryTypeOK
  BY InitTypes, TypesPreserved, PTL DEF HistorySpec

LEMMA InvPreserved ==
  ASSUME IssuedInTime
  PROVE  HistoryInv /\ [HistoryNext]_history => HistoryInv'
  <1>1. SUFFICES ASSUME HistoryInv, [HistoryNext]_history
                 PROVE  HistoryInv'
    OBVIOUS
  <1>2. HistoryTypeOK
    BY <1>1 DEF HistoryInv
  <1>3. CASE Commit
    <2>1. PICK at \in Nat, control \in BOOLEAN :
            Move(lease', at, control) /\ Persist(at, control)
      BY <1>3 DEF Commit
    <2>2. /\ row.version # 0 /\ UNCHANGED <<generation, globals, prunes>>
          /\ generation = IssuedGeneration
               \/ lease'.status \in {"Refused", "Revoked"}
      BY <1>3 DEF Commit
    <2>3. QED
      BY <1>1, <2>1, <2>2, CommitPreserves
  <1>4. CASE Restart
    BY <1>1, <1>2, <1>4, KeptPreserves DEF Restart, HistoryTypeOK
  <1>5. CASE \E now \in PruneWalls : PruneRetained(now)
    BY <1>1, <1>5, PrunePreserves
  <1>6. CASE UNCHANGED history
    BY <1>1, <1>2, <1>6, KeptPreserves DEF history, HistoryTypeOK
  <1>7. QED
    BY <1>1, <1>2, <1>3, <1>4, <1>5, <1>6, NextCases

(* No order of operations, clock samples, restarts, recoveries and prunings*)
(* makes a row or a log that the loader rejects, when the work order was   *)
(* already valid at the moment the lease was issued.                       *)
THEOREM HistoryInvariance == HistorySpec => [](IssuedInTime => HistoryInv)
  <1>1. HistoryInit => (IssuedInTime => HistoryInv)
    BY InitTypes
  <1>2. (IssuedInTime => HistoryInv) /\ [HistoryNext]_history
          => (IssuedInTime => HistoryInv)'
    BY InvPreserved DEF IssuedInTime
  <1>3. QED
    BY <1>1, <1>2, PTL DEF HistorySpec

(* So the store can always be opened, and every recorded request is        *)
(* answered by the lease that was recorded for it.                         *)
THEOREM HistoryAlwaysLoads ==
  HistorySpec => [](IssuedInTime => HistoryLoads)
  <1>1. (IssuedInTime => HistoryInv) => (IssuedInTime => HistoryLoads)
    BY DEF HistoryInv, HistoryLoads
  <1>2. QED
    BY <1>1, HistoryInvariance, PTL

(* A row version names one committed state of the lease, its wall times    *)
(* and its log.                                                            *)
THEOREM VersionsNameStates == HistorySpec => VersionNamesState
  <1>1. HistoryTypeOK /\ [HistoryNext]_history => [VersionStep]_history
    <2>1. SUFFICES ASSUME HistoryTypeOK, HistoryNext, row.version # 0,
                          row'.version # 0,
                          <<lease, row, audit>>' # <<lease, row, audit>>
                   PROVE  row'.version > row.version
      BY DEF VersionStep
    <2>2. row.version \in Nat
      BY <2>1 DEF HistoryTypeOK, LeaseRow
    <2>3. CASE Commit
      BY <2>1, <2>2, <2>3, CommitTypes
    <2>4. CASE Restart
      BY <2>1, <2>4 DEF Restart
    <2>5. CASE \E now \in PruneWalls : PruneRetained(now)
      <3>1. PICK now \in PruneWalls : PruneRetained(now)
        BY <2>5
      <3>2. CASE Prunable(now)
        BY <2>1, <3>1, <3>2 DEF PruneRetained, NoRow
      <3>3. CASE ~Prunable(now)
        BY <2>1, <3>1, <3>3 DEF PruneRetained
      <3>4. QED
        BY <3>2, <3>3
    <2>6. QED
      BY <2>1, <2>3, <2>4, <2>5, NextCases
  <1>2. QED
    BY <1>1, HistoryTypeCorrect, PTL DEF HistorySpec, VersionNamesState

LEMMA RetainLater ==
  ReplayRetainUntil \in Nat /\ SignedExpires <= ReplayRetainUntil
  <1> DEFINE S == {IssuedWall + Retention, SignedExpires}
  <1>1. IssuedWall + Retention \in Nat /\ SignedExpires \in Nat
    BY LeaseConstants, HistoryConstants
  <1>2. \E m \in S : \A t \in S : m >= t
    BY <1>1
  <1>3. Max(S) \in S /\ \A t \in S : Max(S) >= t
    BY <1>2 DEF Max
  <1>4. QED
    BY <1>1, <1>3 DEF ReplayRetainUntil

(* Retention forgets a lease only when its work order can no longer be     *)
(* evaluated and every event of it is past the audit retention.            *)
THEOREM ForgottenLeasesAreSpent == HistorySpec => ForgottenIsSpent
  <1>1. HistoryTypeOK /\ [HistoryNext]_history => [ForgetStep]_history
    <2>1. SUFFICES ASSUME HistoryTypeOK, HistoryNext, row.version # 0,
                          row'.version = 0
                   PROVE  \E g \in globals' \ globals :
                            /\ lease.status \in Terminal
                            /\ ~AuthorizedAt(g.at)
                            /\ \A i \in 1 .. Len(audit) : audit[i].at <= g.cutoff
      BY DEF ForgetStep
    <2>2. ~Commit
      <3>1. row.version \in Nat
        BY <2>1 DEF HistoryTypeOK, LeaseRow
      <3>2. QED
        BY <2>1, <3>1, CommitTypes
    <2>3. ~Restart
      BY <2>1 DEF Restart
    <2>4. PICK now \in PruneWalls : PruneRetained(now)
      BY <2>1, <2>2, <2>3, NextCases
    <2>5. Prunable(now)
      BY <2>1, <2>4 DEF PruneRetained
    <2>6. PICK old \in SUBSET globals, record \in PruneRow :
            Pruned(now, old, record)
      BY <2>1, <2>4, PruneFacts
    <2>7. record \in globals' \ globals
      <3>1. \A g \in globals : g.id <= prunes
        BY <2>1 DEF HistoryTypeOK
      <3>2. record.id = prunes + 1 /\ prunes \in Nat
        BY <2>1, <2>6 DEF HistoryTypeOK, Pruned
      <3>3. record \notin globals
        BY <3>1, <3>2
      <3>4. QED
        BY <2>6, <3>3 DEF Pruned
    <2>8. record.at = now /\ record.cutoff = now - Retention /\ now \in Nat
      BY <2>6, HistoryConstants DEF Pruned
    <2>9. ~AuthorizedAt(record.at)
      BY <2>5, <2>8, RetainLater, LeaseConstants DEF Prunable, AuthorizedAt
    <2>10. \A i \in 1 .. Len(audit) : audit[i].at <= record.cutoff
      <3>1. TAKE i \in 1 .. Len(audit)
      <3>2. audit[i] \in AuditEvent /\ audit[i].at + Retention <= now
        BY <2>1, <2>5 DEF HistoryTypeOK, Prunable
      <3>3. audit[i].at \in Nat
        BY <3>2 DEF AuditEvent
      <3>4. QED
        BY <2>8, <3>2, <3>3, HistoryConstants
    <2>11. lease.status \in Terminal
      BY <2>5 DEF Prunable
    <2>12. QED
      BY <2>7, <2>9, <2>10, <2>11
  <1>2. QED
    BY <1>1, HistoryTypeCorrect, PTL DEF HistorySpec, ForgottenIsSpent
============================================================================
