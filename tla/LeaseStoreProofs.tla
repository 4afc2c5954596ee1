-------------------------- MODULE LeaseStoreProofs --------------------------
(***************************************************************************)
(* Proofs about LeaseStore for any number of requests, profiles, policies, *)
(* dimensions and service generations: the inductive invariant, what it    *)
(* implies, and that the store implements LeaseAuthority.                  *)
(***************************************************************************)
EXTENDS LeaseStore, FiniteSetTheorems, TLAPS

Errors == {"none", "database", "integrity", "recovery", "busy", "unsafe"}
OutcomeRecords ==
  [fence : {"none", "shared", "busy", "deferred"}, marker : BOOLEAN,
   hard : BOOLEAN, retry : BOOLEAN, error : Errors]
(* What any outcome of clearing u's fence respects when rs are the resource*)
(* guards kept.                                                            *)
Tidy(u, rs, o) ==
  /\ o \in OutcomeRecords
  /\ o.marker => marker[u]
  /\ marker[u] /\ ~o.marker => ~Blocked(u)
  /\ o.fence \in {"shared", "busy"} => o.marker
  /\ phase # "down" /\ o.marker => o.fence # "none"
  /\ Held(u, rs) # {} => o.fence = fence[u]
  /\ o.marker \/ o.fence # "none" =>
       \/ Blocked(u) \/ uncertain
       \/ o.hard \/ o.retry \/ o.fence \in {"busy", "deferred"}

(* Every way try_clear_profile_fence may end is tidy.                      *)
LEMMA OutcomeFields ==
  ASSUME TypeOK, NEW u \in Profiles
  PROVE  /\ Outcome(u) \in OutcomeRecords
         /\ Outcome(u).fence = fence[u] /\ Outcome(u).marker = marker[u]
         /\ Outcome(u).hard <=> u \in hard
         /\ Outcome(u).retry <=> u \in retryable
<1>1. Outcome(u) \in OutcomeRecords
  BY DEF Outcome, OutcomeRecords, Errors, TypeOK
<1> QED BY <1>1 DEF Outcome

LEMMA ClearTidies ==
  ASSUME TypeOK, MarkersGuarded, NEW u \in Profiles, NEW rs,
         NEW o \in ClearOutcomes(u, rs)
  PROVE  Tidy(u, rs, o)
<1>0. /\ fence[u] \in {"none", "shared", "busy", "deferred"}
      /\ fence[u] \in {"shared", "busy"} => marker[u]
      /\ phase # "down" /\ marker[u] => fence[u] # "none"
  BY DEF TypeOK, MarkersGuarded
<1>f. /\ Outcome(u) \in OutcomeRecords
      /\ Outcome(u).fence = fence[u] /\ Outcome(u).marker = marker[u]
      /\ Outcome(u).hard <=> u \in hard
      /\ Outcome(u).retry <=> u \in retryable
  BY OutcomeFields
<1> USE <1>0, <1>f DEF Tidy, OutcomeRecords, Errors
<1>1. CASE HardLatched(u)
  BY <1>1 DEF ClearOutcomes, HardLatched
<1>2. CASE ~HardLatched(u) /\ Held(u, rs) # {}
  <2>1. CASE fence[u] # "shared"
    BY <1>2, <2>1 DEF ClearOutcomes, RetainedOutcomes, HardOutcome
  <2>2. CASE fence[u] = "shared"
    BY <1>2, <2>2 DEF ClearOutcomes, RetainedOutcomes, HardOutcome
  <2> QED BY <2>1, <2>2
<1>3. CASE ~HardLatched(u) /\ Held(u, rs) = {} /\ fence[u] = "none"
  BY <1>3 DEF ClearOutcomes, UnguardedOutcomes, HardOutcome
<1>4. CASE ~HardLatched(u) /\ Held(u, rs) = {} /\ fence[u] # "none"
  <2>1. fence[u] \in {"shared", "busy"} /\ marker[u]
    BY <1>4 DEF HardLatched
  <2>2. CASE o \in {BusyOutcome(u, "busy"), DeferredOutcome(u)} \cup ReadFailures(u)
    BY <1>4, <2>1, <2>2 DEF BusyOutcome, DeferredOutcome, ReadFailures
  <2>3. CASE o \in ProvedOutcomes(u)
    <3>1. CASE Blocked(u)
      <4>1. CASE o \in {BusyOutcome(u, "busy"), DeferredOutcome(u)}
        BY <2>2, <4>1
      <4>2. CASE o = [Outcome(u) EXCEPT !.fence = "shared", !.retry = FALSE]
        BY <1>4, <2>1, <3>1, <4>2
      <4> QED BY <2>3, <3>1, <4>1, <4>2 DEF ProvedOutcomes
    <3>2. CASE ~Blocked(u)
      <4>1. CASE o = [Outcome(u) EXCEPT !.fence = "none", !.marker = FALSE,
                                        !.hard = FALSE, !.retry = FALSE]
        BY <1>4, <3>2, <4>1
      <4>2. CASE o = DeferredOutcome(u)
        BY <2>2, <4>2
      <4>3. CASE o = [DeferredOutcome(u) EXCEPT !.marker = FALSE]
        BY <1>4, <2>1, <3>2, <4>3 DEF DeferredOutcome
      <4> QED BY <2>3, <3>2, <4>1, <4>2, <4>3 DEF ProvedOutcomes
    <3> QED BY <3>1, <3>2
  <2> QED BY <1>4, <2>2, <2>3 DEF ClearOutcomes
<1> QED BY <1>1, <1>2, <1>3, <1>4

LEMMA LatchTidies ==
  ASSUME NEW u \in Profiles, NEW rs, NEW o, Tidy(u, rs, o)
  PROVE  Tidy(u, rs, WithLatch(o)) /\ Tidy(u, rs, [o EXCEPT !.hard = TRUE])
BY DEF Tidy, OutcomeRecords, Errors, WithLatch

LEMMA Settled ==
  ASSUME TypeOK, NEW u \in Profiles, NEW o \in OutcomeRecords, Settle(u, o)
  PROVE  /\ fence' \in [Profiles -> {"none", "shared", "busy", "deferred"}]
         /\ marker' \in [Profiles -> BOOLEAN]
         /\ hard' \subseteq Profiles /\ retryable' \subseteq Profiles
         /\ fence'[u] = o.fence /\ marker'[u] = o.marker
         /\ u \in hard' <=> o.hard
         /\ u \in retryable' <=> o.retry
         /\ \A v \in Profiles \ {u} :
              /\ fence'[v] = fence[v] /\ marker'[v] = marker[v]
              /\ v \in hard' <=> v \in hard
              /\ v \in retryable' <=> v \in retryable
BY DEF TypeOK, OutcomeRecords, Settle, Member


TodoRecords == [op : Steps, req : Requests \cup {"none"},
                policy : Policies \cup {"none"}, made : BOOLEAN]

(* What a step may leave to do when it neither grants nor inserts.         *)
Waiting(t) ==
  \/ t = Idle
  \/ phase # "down" /\ \E r \in Requests : t = Cleaning(r)
  \/ /\ phase = "recovering"
     /\ \E r \in Requests, made \in BOOLEAN : t = Terminalizing(r, made)

LEMMA WaitingKnown ==
  ASSUME NEW t, Waiting(t)
  PROVE  /\ t \in TodoRecords
         /\ t.op # "idle" => t.req \in Requests
         /\ t # Idle => phase # "down"
         /\ t.op = "terminalize" => phase = "recovering"
         /\ t.op \notin {"insert", "refuse", "activate"}
<1>1. CASE t = Idle
  BY <1>1 DEF TodoRecords, Steps, Idle
<1>2. CASE phase # "down" /\ \E r \in Requests : t = Cleaning(r)
  BY <1>2 DEF TodoRecords, Steps, Idle, Cleaning
<1>3. CASE /\ phase = "recovering"
           /\ \E r \in Requests, made \in BOOLEAN : t = Terminalizing(r, made)
  BY <1>3 DEF TodoRecords, Steps, Terminalizing
<1> QED BY <1>1, <1>2, <1>3 DEF Waiting

(* A step that only moves guards, markers and latches of one profile.      *)
LEMMA SettleKeeps ==
  ASSUME IInv, NEW u \in Profiles, NEW o, Tidy(u, res', o), Settle(u, o),
         UNCHANGED <<phase, gen, row, cap, uncertain>>,
         phase # "down",
         res' \in [Requests -> {"none", "exclusive", "shared"}],
         \A r \in Requests : row[r].status \in Live => res'[r] = res[r],
         Waiting(todo'),
         todo = Idle \/ ProfileOf[todo.req] = u
  PROVE  IInv'
<1>0. o \in OutcomeRecords /\ TypeOK
  BY DEF Tidy, IInv
<1>1. /\ fence' \in [Profiles -> {"none", "shared", "busy", "deferred"}]
      /\ marker' \in [Profiles -> BOOLEAN]
      /\ hard' \subseteq Profiles /\ retryable' \subseteq Profiles
      /\ fence'[u] = o.fence /\ marker'[u] = o.marker
      /\ u \in hard' <=> o.hard
      /\ u \in retryable' <=> o.retry
  BY <1>0, Settled
<1>2. \A v \in Profiles \ {u} :
        /\ fence'[v] = fence[v] /\ marker'[v] = marker[v]
        /\ v \in hard' <=> v \in hard
        /\ v \in retryable' <=> v \in retryable
  BY <1>0, Settled
<1>3. /\ todo' \in TodoRecords
      /\ todo'.op # "idle" => todo'.req \in Requests
      /\ todo' # Idle => phase # "down"
      /\ todo'.op = "terminalize" => phase = "recovering"
      /\ todo'.op \notin {"insert", "refuse", "activate"}
  BY WaitingKnown
<1>4. TypeOK'
  BY <1>0, <1>1, <1>3 DEF TypeOK, TodoRecords
<1>5. (Generations /\ RowsFormed /\ CapacityLive /\ ReadyResolved)'
  BY DEF IInv, Generations, RowsFormed, CapacityLive, ReadyResolved, Blocking
<1>6. BlockersMarked'
  BY <1>1, <1>2, ProfileAssumption
     DEF IInv, BlockersMarked, Blocking, Blocked, Tidy
<1>7. LiveGuarded'
  <2> SUFFICES ASSUME NEW r \in Requests, phase = "ready", Current(r),
                      row[r].status \in Live
               PROVE  res'[r] = ModeOf[row[r].policy]
                      /\ fence'[ProfileOf[r]] # "none"
    BY DEF LiveGuarded, Current
  <2>1. res'[r] = ModeOf[row[r].policy] /\ fence[ProfileOf[r]] # "none"
    BY DEF IInv, LiveGuarded
  <2>2. CASE ProfileOf[r] # u
    BY <2>1, <2>2, <1>2, ProfileAssumption
  <2>3. CASE ProfileOf[r] = u
    <3>1. r \in Held(u, res')
      BY <2>1, <2>3, PolicyAssumption DEF Held, IInv, RowsFormed
    <3> QED BY <2>1, <2>3, <3>1, <1>1 DEF Tidy
  <2> QED BY <2>2, <2>3
<1>8. MarkersGuarded'
  BY <1>1, <1>2 DEF IInv, MarkersGuarded, Tidy
<1>9. StepKnown'
  BY <1>3 DEF StepKnown
<1>10. LeaksLatched'
  BY <1>1, <1>2 DEF IInv, LeaksLatched, Tidy, Blocked, Blocking, Idle
<1> QED BY <1>4, <1>5, <1>6, <1>7, <1>8, <1>9, <1>10 DEF IInv

(* What the commit of a step may make of the row and the reservations of r.*)
RowKept(r) ==
  /\ row' \in [Requests -> Rows]
  /\ cap' \in [Requests -> {"none", "held", "released"}]
  /\ \A q \in Requests \ {r} : row'[q] = row[q] /\ cap'[q] = cap[q]
  /\ cap'[r] = "held" <=> row'[r].status \in Live
  /\ row'[r].status = "Absent" => row'[r] = Absent
  /\ row'[r].status \in Live => row'[r].policy \in Policies
  /\ row'[r].origin <= gen
  /\ phase = "recovering" => row'[r].origin < gen
  /\ phase = "ready" /\ row'[r].origin < gen => row'[r].status \notin Unresolved
  /\ row'[r].status \in Unresolved /\ row'[r].origin > 0 => marker[ProfileOf[r]]

(* A step that commits, or may have committed, a change of one row.        *)
LEMMA CommitKeeps ==
  ASSUME IInv, NEW r \in Requests, RowKept(r),
         UNCHANGED <<phase, gen, fence, marker, retryable, uncertain>>,
         phase # "down",
         hard \subseteq hard', hard' \subseteq Profiles,
         res' \in [Requests -> {"none", "exclusive", "shared"}],
         \A q \in Requests \ {r} : res'[q] = res[q],
         phase = "ready" /\ row'[r].origin = gen /\ row'[r].status \in Live =>
           res'[r] = ModeOf[row'[r].policy] /\ fence[ProfileOf[r]] # "none",
         todo' \in {Idle, Cleaning(r)},
         \/ row'[r].status \in Unresolved \/ todo' = Cleaning(r)
         \/ ProfileOf[r] \in hard' \/ Blocking(r)' = Blocking(r),
         todo = Idle \/ (todo.req = r /\ todo.op # "cleanup"),
         todo.op = "insert" /\ todo.made =>
           row'[r].status \in Unresolved \/ ProfileOf[r] \in hard'
  PROVE  IInv'
<1>0. /\ todo' \in TodoRecords
      /\ todo'.op # "idle" => todo'.req \in Requests
      /\ todo' # Idle => phase # "down"
      /\ todo'.op = "terminalize" => phase = "recovering"
      /\ todo'.op \notin {"insert", "refuse", "activate"}
  BY WaitingKnown DEF Waiting
<1>1. TypeOK'
  BY <1>0 DEF IInv, TypeOK, RowKept, TodoRecords
<1>2. /\ \A q \in Requests \ {r} : row'[q] = row[q] /\ cap'[q] = cap[q]
      /\ cap'[r] = "held" <=> row'[r].status \in Live
  BY DEF RowKept
<1>3. Generations' /\ RowsFormed'
  BY DEF IInv, Generations, RowsFormed, RowKept
<1>4. CapacityLive'
  BY <1>2 DEF IInv, CapacityLive
<1>5. ReadyResolved'
  BY DEF IInv, ReadyResolved, Blocking, Unresolved, RowKept
<1>6. BlockersMarked'
  BY DEF IInv, BlockersMarked, Blocking, Unresolved, RowKept
<1>7. LiveGuarded'
  BY <1>2 DEF IInv, LiveGuarded, Current
<1>8. MarkersGuarded'
  BY DEF IInv, MarkersGuarded
<1>9. StepKnown'
  BY <1>0 DEF StepKnown
<1>10. LeaksLatched'
  <2> SUFFICES ASSUME phase = "ready", NEW u \in Profiles,
                      marker[u] \/ fence[u] # "none",
                      ~uncertain, u \notin hard' \cup retryable,
                      fence[u] \notin {"busy", "deferred"},
                      ~(todo' = Cleaning(r) /\ ProfileOf[r] = u)
               PROVE  Blocked(u)'
    BY DEF LeaksLatched, Idle, Cleaning
  <2>1. \/ Blocked(u)
        \/ /\ todo.op = "insert" /\ todo.made
           /\ ProfileOf[todo.req] = u
    BY DEF IInv, LeaksLatched, Idle
  <2>2. row'[r].status \in Unresolved => Blocking(r)'
    BY DEF Blocking
  <2>3. CASE todo.op = "insert" /\ todo.made /\ ProfileOf[todo.req] = u
    BY <2>2, <2>3 DEF Blocked, Blocking, Idle
  <2>4. CASE Blocked(u)
    <3>1. PICK q \in Requests : ProfileOf[q] = u /\ Blocking(q)
      BY <2>4 DEF Blocked, Blocking
    <3>2. CASE q # r
      BY <3>1, <3>2, <1>2 DEF Blocked, Blocking
    <3>3. CASE q = r
      BY <3>1, <3>3, <2>2 DEF Blocked, Blocking
    <3> QED BY <3>2, <3>3
  <2> QED BY <2>1, <2>3, <2>4
<1> QED BY <1>1, <1>3, <1>4, <1>5, <1>6, <1>7, <1>8, <1>9, <1>10 DEF IInv

(* A step that latches a profile and touches nothing else.                 *)
LEMMA LatchKeeps ==
  ASSUME IInv, NEW u \in Profiles, Latch(u), todo = Idle,
         UNCHANGED <<phase, durable, fence, res, retryable, uncertain, todo>>
  PROVE  IInv'
<1>1. hard' = hard \cup {u}
  BY DEF Latch
<1>2. /\ TypeOK' /\ Generations' /\ RowsFormed' /\ CapacityLive'
      /\ MarkersGuarded' /\ StepKnown'
  BY <1>1 DEF IInv, durable, TypeOK, Generations, RowsFormed, CapacityLive,
              MarkersGuarded, StepKnown, Idle
<1>3. BlockersMarked' /\ LiveGuarded' /\ ReadyResolved'
  BY DEF IInv, durable, BlockersMarked, LiveGuarded, ReadyResolved, Blocking,
         Current
<1>4. LeaksLatched'
  BY <1>1 DEF IInv, durable, LeaksLatched, Blocked, Blocking
<1> QED BY <1>2, <1>3, <1>4 DEF IInv

(* A step that makes a fence, or fails while it makes one.                 *)
LEMMA PrepareKeeps ==
  ASSUME IInv, NEW u \in Profiles, phase # "down", todo = Idle,
         fence[u] = "none",
         UNCHANGED <<phase, gen, row, cap, res, uncertain>>,
         TypeOK', StepKnown',
         fence'[u] # "none", fence'[u] \in {"shared", "busy"} => marker'[u],
         \A v \in Profiles \ {u} :
           /\ fence'[v] = fence[v] /\ marker'[v] = marker[v]
           /\ v \in hard => v \in hard'
           /\ v \in retryable => v \in retryable',
         phase = "ready" =>
           \/ u \in hard' \cup retryable' \/ fence'[u] \in {"busy", "deferred"}
           \/ /\ todo'.op = "insert" /\ todo'.made
              /\ ProfileOf[todo'.req] = u
  PROVE  IInv'
<1>1. (Generations /\ RowsFormed /\ CapacityLive /\ ReadyResolved)'
  BY DEF IInv, Generations, RowsFormed, CapacityLive, ReadyResolved, Blocking
<1>2. ~marker[u]
  BY DEF IInv, MarkersGuarded
<1>3. BlockersMarked'
  BY <1>2, ProfileAssumption DEF IInv, BlockersMarked, Blocking
<1>4. LiveGuarded'
  BY ProfileAssumption DEF IInv, LiveGuarded, Current
<1>5. MarkersGuarded'
  BY DEF IInv, MarkersGuarded
<1>6. LeaksLatched'
  BY DEF IInv, LeaksLatched, Blocked, Blocking, Idle
<1> QED BY <1>1, <1>3, <1>4, <1>5, <1>6 DEF IInv

LEMMA OpenKeeps ==
  ASSUME IInv, Open
  PROVE  IInv'
<1> USE DEF Open
<1>1. TypeOK' /\ gen' > gen /\ gen' > 0
  BY GenerationAssumption DEF IInv, TypeOK
<1>2. todo = Idle
  BY DEF IInv, StepKnown
<1>3. Generations'
  BY <1>1, GenerationAssumption DEF IInv, TypeOK, Generations, Rows
<1>4. (RowsFormed /\ CapacityLive /\ BlockersMarked)'
  BY DEF IInv, RowsFormed, CapacityLive, BlockersMarked, Blocking
<1>5. MarkersGuarded'
  BY DEF IInv, TypeOK, MarkersGuarded
<1>6. (LiveGuarded /\ ReadyResolved /\ StepKnown /\ LeaksLatched)'
  BY <1>2 DEF LiveGuarded, ReadyResolved, StepKnown, LeaksLatched, Idle
<1> QED BY <1>1, <1>3, <1>4, <1>5, <1>6 DEF IInv

LEMMA StopKeeps ==
  ASSUME IInv, Stop
  PROVE  IInv'
<1> USE DEF Stop, durable
<1>1. TypeOK'
  BY DEF IInv, TypeOK, Idle, Steps
<1>2. (Generations /\ RowsFormed /\ CapacityLive /\ BlockersMarked)'
  BY DEF IInv, Generations, RowsFormed, CapacityLive, BlockersMarked, Blocking
<1>3. (LiveGuarded /\ ReadyResolved /\ MarkersGuarded)'
  BY DEF LiveGuarded, ReadyResolved, MarkersGuarded
<1>4. (StepKnown /\ LeaksLatched)'
  BY DEF StepKnown, LeaksLatched, Idle
<1> QED BY <1>1, <1>2, <1>3, <1>4 DEF IInv

LEMMA IntoReadyKeeps ==
  ASSUME IInv, IntoReady
  PROVE  IInv'
<1> USE DEF IntoReady, Recovering, durable, guards
<1>1. (TypeOK /\ Generations /\ RowsFormed /\ CapacityLive)'
  BY DEF IInv, TypeOK, Generations, RowsFormed, CapacityLive
<1>2. (BlockersMarked /\ ReadyResolved /\ MarkersGuarded)'
  BY DEF IInv, BlockersMarked, ReadyResolved, MarkersGuarded, Blocking
<1>3. LiveGuarded'
  BY DEF LiveGuarded, Blocking, Current, Unresolved
<1>4. StepKnown'
  BY DEF StepKnown, Idle
<1>5. LeaksLatched'
  BY DEF IInv, LeaksLatched, MarkersGuarded
<1> QED BY <1>1, <1>2, <1>3, <1>4, <1>5 DEF IInv


(* A preparation that failed leaves a busy guard with its marker, or a     *)
(* deferred one.                                                           *)
LEMMA FailedPreparation ==
  ASSUME TypeOK, NEW u \in Profiles,
         NEW o \in {BusyOutcome(u, "busy"), DeferredOutcome(u)},
         NEW published \in BOOLEAN, o.fence = "busy" => published
  PROVE  LET p == [o EXCEPT !.marker = published] IN
         /\ p \in OutcomeRecords
         /\ p.fence = "deferred" \/ (p.fence = "busy" /\ p.marker)
<1>1. Outcome(u) \in OutcomeRecords
  BY OutcomeFields
<1>2. CASE o = BusyOutcome(u, "busy")
  BY <1>1, <1>2 DEF BusyOutcome, OutcomeRecords, Errors
<1>3. CASE o = DeferredOutcome(u)
  BY <1>1, <1>3 DEF DeferredOutcome, OutcomeRecords, Errors
<1> QED BY <1>2, <1>3

LEMMA RecoverFencedKeeps ==
  ASSUME IInv, NEW r \in Requests, RecoverFenced(r)
  PROVE  IInv'
<1> DEFINE u == ProfileOf[r]
<1>1. u \in Profiles /\ TypeOK /\ MarkersGuarded
  BY ProfileAssumption DEF IInv
<1>2. /\ phase = "recovering" /\ todo = Idle
      /\ UNCHANGED <<phase, gen, row, cap>>
  BY DEF RecoverFenced, Recovering
<1>3. CASE /\ todo' = Terminalizing(r, FALSE)
           /\ UNCHANGED <<marker, guards>>
  <2>1. Waiting(todo')
    BY <1>2, <1>3 DEF Waiting
  <2>2. /\ todo' \in TodoRecords
        /\ todo'.op # "idle" => todo'.req \in Requests
        /\ todo' # Idle => phase # "down"
        /\ todo'.op = "terminalize" => phase = "recovering"
        /\ todo'.op \notin {"insert", "refuse", "activate"}
    BY <2>1, WaitingKnown
  <2>3. TypeOK' /\ StepKnown'
    BY <1>1, <1>2, <1>3, <2>2 DEF TypeOK, TodoRecords, guards, StepKnown
  <2>4. (Generations /\ RowsFormed /\ CapacityLive /\ BlockersMarked)'
    BY <1>2, <1>3 DEF IInv, guards, Generations, RowsFormed, CapacityLive,
                      BlockersMarked, Blocking
  <2>5. (LiveGuarded /\ ReadyResolved /\ MarkersGuarded /\ LeaksLatched)'
    BY <1>2, <1>3 DEF IInv, guards, LiveGuarded, ReadyResolved,
                      MarkersGuarded, LeaksLatched
  <2> QED BY <2>3, <2>4, <2>5 DEF IInv
<1>4. CASE /\ \E o \in ClearOutcomes(u, res) :
                IF o.error # "none" THEN Settle(u, o) /\ UNCHANGED todo
                ELSE IF o.fence = "shared"
                       THEN Settle(u, o) /\ todo' = Terminalizing(r, FALSE)
                       ELSE Settle(u, [o EXCEPT !.hard = TRUE])
                            /\ UNCHANGED todo
           /\ UNCHANGED <<res, uncertain>>
  <2>1. PICK o \in ClearOutcomes(u, res) :
               /\ \/ Settle(u, o) \/ Settle(u, [o EXCEPT !.hard = TRUE])
               /\ todo' = todo \/ todo' = Terminalizing(r, FALSE)
    BY <1>4
  <2>2. Tidy(u, res, o) /\ Tidy(u, res, [o EXCEPT !.hard = TRUE])
    BY <1>1, ClearTidies, LatchTidies
  <2>3. PICK p : Tidy(u, res', p) /\ Settle(u, p)
    BY <1>4, <2>1, <2>2
  <2>4. Waiting(todo')
    BY <1>2, <2>1 DEF Waiting
  <2>5. res' \in [Requests -> {"none", "exclusive", "shared"}]
        /\ \A q \in Requests : res'[q] = res[q]
    BY <1>1, <1>4 DEF TypeOK
  <2> QED BY <1>1, <1>2, <1>4, <2>3, <2>4, <2>5, SettleKeeps
<1> QED BY <1>3, <1>4 DEF RecoverFenced

LEMMA RecoverUnfencedKeeps ==
  ASSUME IInv, NEW r \in Requests, RecoverUnfenced(r)
  PROVE  IInv'
<1> DEFINE u == ProfileOf[r]
<1>1. u \in Profiles /\ TypeOK /\ fence[u] = "none"
  BY ProfileAssumption DEF IInv, RecoverUnfenced
<1>2. /\ phase = "recovering" /\ todo = Idle
      /\ UNCHANGED <<phase, gen, row, cap, res, uncertain>>
  BY DEF RecoverUnfenced, Recovering
<1>3. CASE Latch(u) /\ UNCHANGED <<fence, marker, retryable, todo>>
  BY <1>1, <1>2, <1>3, LatchKeeps DEF durable
<1>4. CASE /\ fence' = [fence EXCEPT ![u] = "shared"]
           /\ marker' = [marker EXCEPT ![u] = TRUE]
           /\ todo' = Terminalizing(r, TRUE)
           /\ UNCHANGED <<hard, retryable>>
  <2>1. /\ todo' \in TodoRecords
        /\ todo'.op # "idle" => todo'.req \in Requests
        /\ todo' # Idle => phase # "down"
        /\ todo'.op = "terminalize" => phase = "recovering"
        /\ todo'.op \notin {"insert", "refuse", "activate"}
    BY <1>2, <1>4, WaitingKnown DEF Waiting
  <2>2. TypeOK' /\ StepKnown'
    BY <1>1, <1>2, <1>4, <2>1 DEF TypeOK, TodoRecords, StepKnown
  <2>3. /\ fence'[u] = "shared" /\ marker'[u]
        /\ \A v \in Profiles \ {u} :
             /\ fence'[v] = fence[v] /\ marker'[v] = marker[v]
             /\ v \in hard => v \in hard'
             /\ v \in retryable => v \in retryable'
    BY <1>1, <1>4 DEF TypeOK
  <2> QED BY <1>1, <1>2, <2>2, <2>3, PrepareKeeps
<1>5. CASE /\ \E o \in {BusyOutcome(u, "busy"), DeferredOutcome(u)},
                 published \in BOOLEAN :
                /\ o.fence = "busy" => published
                /\ Settle(u, [o EXCEPT !.marker = published])
           /\ UNCHANGED todo
  <2>1. PICK o \in OutcomeRecords :
               /\ Settle(u, o)
               /\ o.fence = "deferred" \/ (o.fence = "busy" /\ o.marker)
    BY <1>1, <1>5, FailedPreparation
  <2>2. /\ fence' \in [Profiles -> {"none", "shared", "busy", "deferred"}]
        /\ marker' \in [Profiles -> BOOLEAN]
        /\ hard' \subseteq Profiles /\ retryable' \subseteq Profiles
        /\ fence'[u] = o.fence /\ marker'[u] = o.marker
        /\ \A v \in Profiles \ {u} :
             /\ fence'[v] = fence[v] /\ marker'[v] = marker[v]
             /\ v \in hard => v \in hard'
             /\ v \in retryable => v \in retryable'
    BY <1>1, <2>1, Settled
  <2>3. TypeOK' /\ StepKnown'
    BY <1>1, <1>2, <1>5, <2>2 DEF TypeOK, StepKnown, Idle
  <2> QED BY <1>1, <1>2, <2>1, <2>2, <2>3, PrepareKeeps
<1> QED BY <1>3, <1>4, <1>5 DEF RecoverUnfenced

LEMMA RecoveryAliasRefusedKeeps ==
  ASSUME IInv, NEW r \in Requests, RecoveryAliasRefused(r)
  PROVE  IInv'
<1>1. /\ phase = "recovering" /\ todo = Idle /\ fence[ProfileOf[r]] = "shared"
      /\ UNCHANGED <<phase, gen, row, cap, marker, res, retryable, uncertain>>
      /\ todo' = Idle /\ hard' = hard \cup {ProfileOf[r]}
      /\ \E left \in {"shared", "deferred"} :
           fence' = [fence EXCEPT ![ProfileOf[r]] = left]
  BY DEF RecoveryAliasRefused, Recovering, durable, Latch
<1>2. TypeOK' /\ StepKnown'
  BY <1>1, ProfileAssumption DEF IInv, TypeOK, StepKnown, Idle
<1>3. (Generations /\ RowsFormed /\ CapacityLive /\ BlockersMarked)'
  BY <1>1 DEF IInv, Generations, RowsFormed, CapacityLive, BlockersMarked,
              Blocking
<1>4. MarkersGuarded'
  BY <1>1, ProfileAssumption DEF IInv, TypeOK, MarkersGuarded
<1>5. (LiveGuarded /\ ReadyResolved /\ LeaksLatched)'
  BY <1>1 DEF LiveGuarded, ReadyResolved, LeaksLatched
<1> QED BY <1>2, <1>3, <1>4, <1>5 DEF IInv

LEMMA ClearOrphanKeeps ==
  ASSUME IInv, NEW u \in Profiles, ClearOrphan(u)
  PROVE  IInv'
<1>1. /\ phase = "recovering" /\ todo = Idle /\ todo' = Idle
      /\ UNCHANGED <<phase, gen, row, cap, res, uncertain>>
  BY DEF ClearOrphan, Recovering
<1>2. PICK o \in ClearOutcomes(u, res) : Settle(u, o)
  BY DEF ClearOrphan
<1>3. Tidy(u, res, o)
  BY ClearTidies DEF IInv
<1>4. Tidy(u, res', o)
  BY <1>1, <1>3
<1>5. res' \in [Requests -> {"none", "exclusive", "shared"}]
      /\ \A q \in Requests : res'[q] = res[q]
  BY <1>1 DEF IInv, TypeOK
<1>6. Waiting(todo')
  BY <1>1 DEF Waiting
<1> QED BY <1>1, <1>2, <1>4, <1>5, <1>6, SettleKeeps

LEMMA SameRowKept ==
  ASSUME IInv, NEW r \in Requests, UNCHANGED <<row, cap>>
  PROVE  RowKept(r)
BY DEF IInv, TypeOK, RowKept, CapacityLive, RowsFormed, Generations,
       ReadyResolved, BlockersMarked, Blocking

(* A step that failed before its commit and clears the fence it had made.  *)
LEMMA AbandonKeeps ==
  ASSUME IInv, phase # "down", todo.op \in {"insert", "refuse", "terminalize"},
         Abandon(ProfileOf[todo.req], todo.made), todo' = Idle,
         UNCHANGED <<phase, gen, row, cap, res, uncertain>>
  PROVE  IInv'
<1> DEFINE u == ProfileOf[todo.req]
<1>1. todo.req \in Requests /\ u \in Profiles /\ todo.made \in BOOLEAN
  BY ProfileAssumption DEF IInv, TypeOK
<1>2. res' \in [Requests -> {"none", "exclusive", "shared"}]
      /\ \A q \in Requests : res'[q] = res[q]
  BY DEF IInv, TypeOK
<1>3. CASE todo.made
  <2>1. PICK o \in ClearOutcomes(u, res) : Settle(u, o)
    BY <1>3 DEF Abandon
  <2>2. Tidy(u, res, o)
    BY <1>1, ClearTidies DEF IInv
  <2>3. Tidy(u, res', o)
    BY <2>2
  <2> QED BY <1>1, <1>2, <2>1, <2>3, SettleKeeps DEF Waiting
<1>4. CASE ~todo.made
  <2>1. UNCHANGED <<fence, marker, hard, retryable>>
    BY <1>4 DEF Abandon
  <2>2. TypeOK' /\ StepKnown'
    BY <2>1 DEF IInv, TypeOK, Idle, Steps, StepKnown
  <2>3. (Generations /\ RowsFormed /\ CapacityLive /\ BlockersMarked)'
    BY <2>1 DEF IInv, Generations, RowsFormed, CapacityLive, BlockersMarked,
                Blocking
  <2>4. (LiveGuarded /\ ReadyResolved /\ MarkersGuarded)'
    BY <2>1 DEF IInv, LiveGuarded, ReadyResolved, MarkersGuarded, Blocking,
                Current
  <2>5. LeaksLatched'
    BY <1>4, <2>1 DEF IInv, LeaksLatched, Blocked, Blocking
  <2> QED BY <2>2, <2>3, <2>4, <2>5 DEF IInv
<1> QED BY <1>1, <1>3, <1>4

LEMMA TerminalizeKeeps ==
  ASSUME IInv, Terminalize
  PROVE  IInv'
<1> DEFINE r == todo.req
<1>1. /\ todo.op = "terminalize" /\ phase = "recovering"
      /\ UNCHANGED <<phase, gen, res, uncertain>>
  BY DEF Terminalize, IInv, StepKnown
<1>2. /\ r \in Requests /\ ProfileOf[r] \in Profiles /\ hard \subseteq Profiles
      /\ res' \in [Requests -> {"none", "exclusive", "shared"}]
      /\ \A q \in Requests : res'[q] = res[q]
  BY <1>1, ProfileAssumption DEF IInv, TypeOK
<1>3. row' = Recovered(r) /\ cap' = Released(r) => RowKept(r)
  <2> SUFFICES ASSUME row' = Recovered(r), cap' = Released(r)
               PROVE  RowKept(r)
    OBVIOUS
  <2>1. row[r] \in Rows /\ cap[r] \in {"none", "held", "released"}
    BY <1>2 DEF IInv, TypeOK
  <2>2. /\ row' \in [Requests -> Rows]
        /\ cap' \in [Requests -> {"none", "held", "released"}]
        /\ \A q \in Requests \ {r} : row'[q] = row[q] /\ cap'[q] = cap[q]
        /\ row'[r].origin = row[r].origin
        /\ cap'[r] = IF cap[r] = "held" THEN "released" ELSE cap[r]
        /\ row'[r].status = CASE row[r].status = "Requested" -> "Refused"
                              [] row[r].status \in Live      -> "Revoked"
                              [] OTHER                       -> row[r].status
        /\ row[r].status = "Absent" => row'[r] = Absent
    BY <1>2, <2>1 DEF IInv, TypeOK, Recovered, Released, Rows, Terminal, Live,
                      Unresolved, RowsFormed, Absent
  <2>3. row'[r].status \notin Unresolved
    BY <2>1, <2>2 DEF Rows, Unresolved, Live, Terminal
  <2> QED BY <1>1, <1>2, <2>2, <2>3
          DEF RowKept, IInv, Generations, Unresolved, Live
<1>4. CASE /\ row' = Recovered(r) /\ cap' = Released(r)
           /\ todo' = Cleaning(r)
           /\ UNCHANGED <<fence, marker, hard, retryable>>
  BY <1>1, <1>2, <1>3, <1>4, CommitKeeps
<1>5. CASE /\ Abandon(ProfileOf[r], todo.made)
           /\ todo' = Idle
           /\ UNCHANGED <<row, cap>>
  BY <1>1, <1>5, AbandonKeeps
<1>6. CASE Uncertain(r, Recovered(r), Released(r))
  <2>1. RowKept(r)
    BY <1>2, <1>3, <1>6, SameRowKept DEF Uncertain
  <2> QED BY <1>1, <1>2, <1>6, <2>1, CommitKeeps DEF Uncertain, Latch
<1> QED BY <1>4, <1>5, <1>6 DEF Terminalize

LEMMA PostTerminalCleanupKeeps ==
  ASSUME IInv, PostTerminalCleanup
  PROVE  IInv'
<1> DEFINE r == todo.req  u == ProfileOf[r]
<1>1. /\ todo.op = "cleanup" /\ todo' = Idle
      /\ UNCHANGED <<phase, gen, row, cap, uncertain>>
  BY DEF PostTerminalCleanup
<1>2. r \in Requests /\ u \in Profiles /\ phase # "down"
  BY <1>1, ProfileAssumption DEF IInv, TypeOK, StepKnown, Idle
<1>3. CASE /\ retryable' = retryable \cup {u}
           /\ UNCHANGED <<fence, marker, res, hard>>
  <2>1. TypeOK' /\ StepKnown'
    BY <1>1, <1>2, <1>3 DEF IInv, TypeOK, Idle, Steps, StepKnown
  <2>2. (Generations /\ RowsFormed /\ CapacityLive /\ BlockersMarked)'
    BY <1>1, <1>3 DEF IInv, Generations, RowsFormed, CapacityLive,
                      BlockersMarked, Blocking
  <2>3. (LiveGuarded /\ ReadyResolved /\ MarkersGuarded)'
    BY <1>1, <1>3 DEF IInv, LiveGuarded, ReadyResolved, MarkersGuarded,
                      Blocking, Current
  <2>4. LeaksLatched'
    BY <1>1, <1>3 DEF IInv, LeaksLatched, Blocked, Blocking
  <2> QED BY <2>1, <2>2, <2>3, <2>4 DEF IInv
<1>4. CASE /\ res' = IF Blocking(r) THEN res ELSE [res EXCEPT ![r] = "none"]
           /\ \E o \in ClearOutcomes(u, res') : Settle(u, WithLatch(o))
  <2>1. PICK o \in ClearOutcomes(u, res') : Settle(u, WithLatch(o))
    BY <1>4
  <2>2. Tidy(u, res', WithLatch(o))
    BY <1>2, ClearTidies, LatchTidies DEF IInv
  <2>3. /\ res' \in [Requests -> {"none", "exclusive", "shared"}]
        /\ \A q \in Requests : row[q].status \in Live => res'[q] = res[q]
    BY <1>2, <1>4 DEF IInv, TypeOK, Blocking, Unresolved
  <2> QED BY <1>1, <1>2, <2>1, <2>2, <2>3, SettleKeeps DEF Waiting
<1> QED BY <1>3, <1>4 DEF PostTerminalCleanup

LEMMA RetryCleanupKeeps ==
  ASSUME IInv, NEW u \in Profiles, RetryCleanup(u)
  PROVE  IInv'
<1> DEFINE resolved == {r \in Held(u, res) : ~Blocking(r)}
           without(S) == [r \in Requests |-> IF r \in S THEN "none" ELSE res[r]]
<1>1. /\ phase = "ready" /\ todo = Idle /\ todo' = Idle
      /\ UNCHANGED <<phase, gen, row, cap, uncertain>>
  BY DEF RetryCleanup, Ready
<1>2. ASSUME NEW S \in SUBSET resolved, res' = without(S)
      PROVE  /\ res' \in [Requests -> {"none", "exclusive", "shared"}]
             /\ \A q \in Requests : row[q].status \in Live => res'[q] = res[q]
  BY <1>2 DEF IInv, TypeOK, Blocking, Unresolved
<1>3. CASE /\ UNCHANGED <<fence, marker, hard, retryable>>
           /\ \/ UNCHANGED res
              \/ \E S \in SUBSET resolved : res' = without(S)
  <2>1. /\ res' \in [Requests -> {"none", "exclusive", "shared"}]
        /\ \A q \in Requests : row[q].status \in Live => res'[q] = res[q]
    BY <1>2, <1>3 DEF IInv, TypeOK
  <2>2. TypeOK' /\ StepKnown'
    BY <1>1, <1>3, <2>1 DEF IInv, TypeOK, StepKnown, Idle
  <2>3. (Generations /\ RowsFormed /\ CapacityLive /\ BlockersMarked)'
    BY <1>1, <1>3 DEF IInv, Generations, RowsFormed, CapacityLive,
                      BlockersMarked, Blocking
  <2>4. (LiveGuarded /\ ReadyResolved /\ MarkersGuarded)'
    BY <1>1, <1>3, <2>1 DEF IInv, LiveGuarded, ReadyResolved, MarkersGuarded,
                            Blocking, Current
  <2>5. LeaksLatched'
    BY <1>1, <1>3 DEF IInv, LeaksLatched, Blocked, Blocking
  <2> QED BY <2>2, <2>3, <2>4, <2>5 DEF IInv
<1>4. CASE /\ res' = without(resolved)
           /\ \E o \in ClearOutcomes(u, res') : Settle(u, o)
  <2>1. PICK o \in ClearOutcomes(u, res') : Settle(u, o)
    BY <1>4
  <2>2. Tidy(u, res', o)
    BY ClearTidies DEF IInv
  <2>3. /\ res' \in [Requests -> {"none", "exclusive", "shared"}]
        /\ \A q \in Requests : row[q].status \in Live => res'[q] = res[q]
    BY <1>2, <1>4
  <2> QED BY <1>1, <2>1, <2>2, <2>3, SettleKeeps DEF Waiting
<1> QED BY <1>3, <1>4 DEF RetryCleanup

LEMMA BeginAcquireKeeps ==
  ASSUME IInv, NEW r \in Requests, BeginAcquire(r)
  PROVE  IInv'
<1> DEFINE u == ProfileOf[r]
<1>1. /\ phase = "ready" /\ todo = Idle /\ row[r] = Absent /\ ~Deferred
      /\ u \in Profiles /\ TypeOK
      /\ UNCHANGED <<phase, gen, row, cap, res, uncertain>>
  BY ProfileAssumption DEF IInv, BeginAcquire, Ready
<1>2. ASSUME NEW op \in {"insert", "refuse"}, NEW made \in BOOLEAN,
             todo' = Inserting(r, op, made)
      PROVE  /\ todo' \in TodoRecords /\ todo'.req = r /\ todo'.op = op
             /\ todo'.made = made
  BY <1>2 DEF Inserting, TodoRecords, Steps
<1>3. CASE /\ \/ todo' = Inserting(r, "refuse", FALSE)
              \/ todo' = Inserting(r, "insert", FALSE) /\ fence[u] = "shared"
           /\ UNCHANGED <<fence, marker, hard, retryable>>
  <2>1. /\ todo' \in TodoRecords /\ todo'.req = r
        /\ todo'.op \in {"insert", "refuse"}
        /\ todo'.op = "insert" => fence[u] = "shared"
    BY <1>2, <1>3
  <2>2. TypeOK' /\ StepKnown'
    BY <1>1, <1>3, <2>1
       DEF TypeOK, TodoRecords, StepKnown, Deferred, Fenced
  <2>3. (Generations /\ RowsFormed /\ CapacityLive /\ BlockersMarked)'
    BY <1>1, <1>3 DEF IInv, Generations, RowsFormed, CapacityLive,
                      BlockersMarked, Blocking
  <2>4. (LiveGuarded /\ ReadyResolved /\ MarkersGuarded)'
    BY <1>1, <1>3 DEF IInv, LiveGuarded, ReadyResolved, MarkersGuarded,
                      Blocking, Current
  <2>5. LeaksLatched'
    BY <1>1, <1>3 DEF IInv, LeaksLatched, Blocked, Blocking, Idle
  <2> QED BY <2>2, <2>3, <2>4, <2>5 DEF IInv
<1>4. CASE /\ fence[u] = "none"
           /\ fence' = [fence EXCEPT ![u] = "shared"]
           /\ marker' = [marker EXCEPT ![u] = TRUE]
           /\ todo' = Inserting(r, "insert", TRUE)
           /\ UNCHANGED <<hard, retryable>>
  <2>1. /\ todo' \in TodoRecords /\ todo'.req = r
        /\ todo'.op = "insert" /\ todo'.made
    BY <1>2, <1>4
  <2>2. /\ fence'[u] = "shared" /\ marker'[u]
        /\ \A v \in Profiles \ {u} :
             /\ fence'[v] = fence[v] /\ marker'[v] = marker[v]
             /\ v \in hard => v \in hard'
             /\ v \in retryable => v \in retryable'
    BY <1>1, <1>4 DEF TypeOK
  <2>3. TypeOK'
    BY <1>1, <1>4, <2>1 DEF TypeOK, TodoRecords
  <2>4. ~Deferred'
    BY <1>1, <1>4, <2>2 DEF Deferred
  <2>5. StepKnown'
    BY <1>1, <2>1, <2>2, <2>4 DEF StepKnown, Fenced
  <2> QED BY <1>1, <1>4, <2>1, <2>2, <2>3, <2>5, PrepareKeeps
<1>5. CASE Latch(u) /\ UNCHANGED <<fence, marker, retryable, todo>>
  BY <1>1, <1>5, LatchKeeps DEF durable
<1>6. CASE /\ fence[u] = "none"
           /\ \E o \in {BusyOutcome(u, "busy"), DeferredOutcome(u)},
                 published \in BOOLEAN :
                /\ o.fence = "busy" => published
                /\ Settle(u, [o EXCEPT !.marker = published])
           /\ UNCHANGED todo
  <2>1. PICK o \in OutcomeRecords :
               /\ Settle(u, o)
               /\ o.fence = "deferred" \/ (o.fence = "busy" /\ o.marker)
    BY <1>1, <1>6, FailedPreparation
  <2>2. /\ fence' \in [Profiles -> {"none", "shared", "busy", "deferred"}]
        /\ marker' \in [Profiles -> BOOLEAN]
        /\ hard' \subseteq Profiles /\ retryable' \subseteq Profiles
        /\ fence'[u] = o.fence /\ marker'[u] = o.marker
        /\ \A v \in Profiles \ {u} :
             /\ fence'[v] = fence[v] /\ marker'[v] = marker[v]
             /\ v \in hard => v \in hard'
             /\ v \in retryable => v \in retryable'
    BY <1>1, <2>1, Settled
  <2>3. TypeOK' /\ StepKnown'
    BY <1>1, <1>6, <2>2 DEF TypeOK, StepKnown, Idle
  <2> QED BY <1>1, <1>6, <2>1, <2>2, <2>3, PrepareKeeps
<1> QED BY <1>3, <1>4, <1>5, <1>6 DEF BeginAcquire

LEMMA InsertRequestedKeeps ==
  ASSUME IInv, InsertRequested
  PROVE  IInv'
<1> DEFINE r == todo.req
           status == IF todo.op = "refuse" THEN "Refused" ELSE "Requested"
<1>1. /\ todo.op \in {"insert", "refuse"} /\ phase = "ready"
      /\ row[r] = Absent
      /\ todo.op = "insert" => fence[ProfileOf[r]] = "shared"
      /\ UNCHANGED <<phase, gen, res, uncertain>>
  BY DEF InsertRequested, IInv, StepKnown, Fenced
<1>2. /\ r \in Requests /\ ProfileOf[r] \in Profiles /\ hard \subseteq Profiles
      /\ res' \in [Requests -> {"none", "exclusive", "shared"}]
      /\ \A q \in Requests : res'[q] = res[q]
      /\ gen \in 0 .. MaxGeneration /\ gen > 0
  BY <1>1, ProfileAssumption DEF IInv, TypeOK, Generations
<1>3. row' = NewRow(r, status) /\ cap' = cap =>
        RowKept(r) /\ row'[r].status = status
  <2> SUFFICES ASSUME row' = NewRow(r, status), cap' = cap
               PROVE  RowKept(r) /\ row'[r].status = status
    OBVIOUS
  <2>1. /\ row' \in [Requests -> Rows]
        /\ \A q \in Requests \ {r} : row'[q] = row[q]
        /\ row'[r] = [status |-> status, origin |-> gen, policy |-> "none"]
    BY <1>2 DEF IInv, TypeOK, NewRow, Rows, Unresolved, Terminal
  <2>2. cap[r] # "held"
    BY <1>1, <1>2 DEF IInv, CapacityLive, Absent, Live
  <2>3. status = "Requested" => marker[ProfileOf[r]]
    BY <1>1, <1>2 DEF IInv, MarkersGuarded
  <2> QED BY <1>1, <1>2, <2>1, <2>2, <2>3, GenerationAssumption
          DEF RowKept, IInv, TypeOK, Live, Unresolved
<1>4. status \in Unresolved \/ todo.op = "refuse"
  BY DEF Unresolved
<1>5. status \notin Live
  BY DEF Live
<1>6. CASE /\ row' = NewRow(r, status)
           /\ todo' = IF todo.op = "refuse" THEN Cleaning(r) ELSE Idle
           /\ UNCHANGED <<cap, fence, marker, hard, retryable>>
  BY <1>1, <1>2, <1>3, <1>4, <1>5, <1>6, CommitKeeps
<1>7. CASE /\ Abandon(ProfileOf[r], todo.made)
           /\ todo' = Idle
           /\ UNCHANGED <<row, cap>>
  BY <1>1, <1>7, AbandonKeeps
<1>8. CASE Uncertain(r, NewRow(r, status), cap)
  <2>1. RowKept(r) /\ row'[r].status \notin Live
    BY <1>1, <1>2, <1>3, <1>5, <1>8, SameRowKept DEF Uncertain, Absent, Live
  <2> QED BY <1>1, <1>2, <1>8, <2>1, CommitKeeps DEF Uncertain, Latch
<1> QED BY <1>6, <1>7, <1>8 DEF InsertRequested

LEMMA RefusalsKeep ==
  ASSUME IInv, NEW r \in Requests, GuardsRefused(r) \/ ClockUncertain(r)
  PROVE  IInv'
<1>1. /\ ProfileOf[r] \in Profiles /\ Latch(ProfileOf[r]) /\ todo = Idle
      /\ UNCHANGED <<phase, durable, fence, res, retryable, uncertain, todo>>
  BY ProfileAssumption DEF GuardsRefused, ClockUncertain, Ready
<1> QED BY <1>1, LatchKeeps

LEMMA BeginActivateKeeps ==
  ASSUME IInv, NEW r \in Requests, NEW p \in Policies, BeginActivate(r, p)
  PROVE  IInv'
<1> DEFINE u == ProfileOf[r]
<1>1. /\ phase = "ready" /\ todo = Idle /\ ~Deferred
      /\ Current(r) /\ row[r].status = "Requested" /\ fence[u] = "shared"
      /\ UNCHANGED <<phase, durable, fence, hard, retryable, uncertain>>
      /\ u \in Profiles /\ ModeOf[p] \in {"exclusive", "shared"}
  BY ProfileAssumption, PolicyAssumption DEF BeginActivate, Ready, Fenced
<1>2. PICK registered \in {FALSE, Compatible(u, ModeOf[p])} :
        /\ res' = IF registered THEN [res EXCEPT ![r] = ModeOf[p]] ELSE res
        /\ todo' = [op |-> "activate", req |-> r, policy |-> p,
                    made |-> registered]
  BY DEF BeginActivate
<1>3. registered \in BOOLEAN /\ (registered => Compatible(u, ModeOf[p]))
  BY DEF Compatible
<1>4. /\ todo' \in TodoRecords /\ todo'.op = "activate" /\ todo'.req = r
      /\ todo'.policy = p /\ (todo'.made <=> registered)
  BY <1>2, <1>3 DEF TodoRecords, Steps
<1>5. /\ res' \in [Requests -> {"none", "exclusive", "shared"}]
      /\ \A q \in Requests \ {r} : res'[q] = res[q]
      /\ registered => res'[r] = ModeOf[p]
  BY <1>1, <1>2 DEF IInv, TypeOK
<1>6. TypeOK'
  BY <1>1, <1>4, <1>5 DEF IInv, TypeOK, durable, TodoRecords
<1>7. StepKnown'
  <2>1. registered => \A q \in Held(u, res') \ {r} :
          ModeOf[p] = "shared" /\ res'[q] = "shared"
    BY <1>1, <1>3, <1>5 DEF Held, Compatible
  <2>2. ~Deferred' /\ Current(r)' /\ row'[r].status = "Requested"
    BY <1>1 DEF Deferred, Current, durable
  <2> QED BY <1>1, <1>4, <1>5, <2>1, <2>2 DEF StepKnown, Held
<1>8. (Generations /\ RowsFormed /\ CapacityLive /\ BlockersMarked)'
  BY <1>1 DEF IInv, durable, Generations, RowsFormed, CapacityLive,
              BlockersMarked, Blocking
<1>9. (ReadyResolved /\ MarkersGuarded)'
  BY <1>1 DEF IInv, durable, ReadyResolved, MarkersGuarded, Blocking
<1>10. LiveGuarded'
  BY <1>1, <1>5 DEF IInv, durable, LiveGuarded, Current, Live
<1>11. LeaksLatched'
  BY <1>1 DEF IInv, durable, LeaksLatched, Blocked, Blocking, Idle
<1> QED BY <1>6, <1>7, <1>8, <1>9, <1>10, <1>11 DEF IInv

LEMMA ActivateRequestedKeeps ==
  ASSUME IInv, ActivateRequested
  PROVE  IInv'
<1> DEFINE r == todo.req  p == todo.policy
           granted == Available(r, p) /\ todo.made
<1>1. /\ todo.op = "activate" /\ phase = "ready" /\ p \in Policies
      /\ Current(r) /\ row[r].status = "Requested"
      /\ todo.made => res[r] = ModeOf[p]
      /\ UNCHANGED <<phase, gen, uncertain>>
  BY DEF ActivateRequested, IInv, StepKnown
<1>2. /\ r \in Requests /\ ProfileOf[r] \in Profiles /\ hard \subseteq Profiles
      /\ TypeOK /\ gen > 0 /\ row[r] \in Rows /\ todo.made \in BOOLEAN
  BY <1>1, ProfileAssumption DEF IInv, TypeOK, Generations
<1>3. /\ marker[ProfileOf[r]] /\ fence[ProfileOf[r]] # "none"
      /\ cap[r] # "held"
  BY <1>1, <1>2 DEF IInv, BlockersMarked, Blocking, Unresolved, Live, Current,
                    MarkersGuarded, CapacityLive, Generations
<1>4. WithoutResource(r) \in [Requests -> {"none", "exclusive", "shared"}]
      /\ \A q \in Requests \ {r} : WithoutResource(r)[q] = res[q]
  BY <1>2 DEF TypeOK, WithoutResource
<1>5. ASSUME row' = Activated(r, p), cap' = Claimed(r, p)
      PROVE  /\ RowKept(r)
             /\ granted => row'[r].status = "Active" /\ row'[r].policy = p
             /\ ~granted => row'[r].status = "Refused"
  <2>1. CASE granted
    <3>1. /\ row' = [row EXCEPT ![r].status = "Active", ![r].policy = p]
          /\ cap' = [cap EXCEPT ![r] = "held"]
      BY <1>5, <2>1 DEF Activated, Claimed
    <3>2. /\ row' \in [Requests -> Rows]
          /\ cap' \in [Requests -> {"none", "held", "released"}]
          /\ \A q \in Requests \ {r} : row'[q] = row[q] /\ cap'[q] = cap[q]
          /\ row'[r].status = "Active" /\ row'[r].policy = p
          /\ row'[r].origin = row[r].origin /\ cap'[r] = "held"
      BY <1>1, <1>2, <3>1 DEF TypeOK, Rows, Unresolved, Live
    <3> QED BY <1>1, <1>2, <1>3, <2>1, <3>2
            DEF RowKept, Live, Current, TypeOK
  <2>2. CASE ~granted
    <3>1. row' = [row EXCEPT ![r].status = "Refused"] /\ cap' = cap
      BY <1>5, <2>2 DEF Activated, Claimed
    <3>2. /\ row' \in [Requests -> Rows]
          /\ cap' \in [Requests -> {"none", "held", "released"}]
          /\ \A q \in Requests \ {r} : row'[q] = row[q] /\ cap'[q] = cap[q]
          /\ row'[r].status = "Refused" /\ row'[r].origin = row[r].origin
          /\ cap'[r] # "held"
      BY <1>1, <1>2, <1>3, <3>1 DEF TypeOK, Rows, Terminal
    <3> QED BY <1>1, <1>2, <2>2, <3>2
            DEF RowKept, Live, Unresolved, Current, TypeOK
  <2> QED BY <2>1, <2>2
<1>6. CASE /\ row' = Activated(r, p) /\ cap' = Claimed(r, p)
           /\ IF Available(r, p) /\ todo.made
                THEN todo' = Idle /\ UNCHANGED res
                ELSE todo' = Cleaning(r) /\ res' = WithoutResource(r)
           /\ UNCHANGED <<fence, marker, hard, retryable>>
  <2>1. CASE granted
    BY <1>1, <1>2, <1>3, <1>5, <1>6, <2>1, CommitKeeps
       DEF TypeOK, Unresolved, Live
  <2>2. CASE ~granted
    BY <1>1, <1>2, <1>4, <1>5, <1>6, <2>2, CommitKeeps DEF Live
  <2> QED BY <2>1, <2>2
<1>7. CASE /\ res' = WithoutResource(r)
           /\ todo' = Idle
           /\ UNCHANGED <<row, cap, fence, marker, hard, retryable>>
  BY <1>1, <1>2, <1>4, <1>7, SameRowKept, CommitKeeps DEF Live, Unresolved
<1>8. CASE Uncertain(r, Activated(r, p), Claimed(r, p)) /\ UNCHANGED res
  <2>1. /\ UNCHANGED <<fence, marker, retryable>> /\ todo' = Idle
        /\ hard' = hard \cup {ProfileOf[r]}
    BY <1>8 DEF Uncertain, Latch
  <2>2. CASE row' = Activated(r, p) /\ cap' = Claimed(r, p)
    BY <1>1, <1>2, <1>3, <1>5, <1>8, <2>1, <2>2, CommitKeeps DEF TypeOK, Live
  <2>3. CASE UNCHANGED <<row, cap>>
    BY <1>1, <1>2, <1>8, <2>1, <2>3, SameRowKept, CommitKeeps DEF TypeOK, Live
  <2> QED BY <1>8, <2>2, <2>3 DEF Uncertain
<1> QED BY <1>6, <1>7, <1>8 DEF ActivateRequested

(* A mutation takes a row of this generation to another status: a terminal *)
(* one, or from one live status to another.                                *)
LEMMA MutateKeeps ==
  ASSUME IInv, NEW r \in Requests, NEW status, Mutate(r, status),
         row[r].status \in Unresolved,
         \/ status \in Terminal
         \/ row[r].status \in Live /\ status \in Live
  PROVE  IInv'
<1> DEFINE new  == [row EXCEPT ![r].status = status]
           left == IF status \in Terminal THEN Released(r) ELSE cap
<1>1. /\ phase = "ready" /\ todo = Idle /\ row[r].origin = gen
      /\ UNCHANGED <<phase, gen, res, uncertain>>
  BY DEF Mutate, Ready, Current
<1>2. /\ TypeOK /\ gen > 0 /\ row[r] \in Rows /\ ProfileOf[r] \in Profiles
      /\ hard \subseteq Profiles
      /\ cap[r] \in {"none", "held", "released"}
  BY <1>1, ProfileAssumption DEF IInv, TypeOK, Generations
<1>3. /\ marker[ProfileOf[r]] /\ fence[ProfileOf[r]] # "none"
      /\ cap[r] = "held" <=> row[r].status \in Live
      /\ row[r].status \in Live =>
           row[r].policy \in Policies /\ res[r] = ModeOf[row[r].policy]
  BY <1>1, <1>2 DEF IInv, BlockersMarked, Blocking, MarkersGuarded, LiveGuarded,
                    CapacityLive, RowsFormed, Current
<1>4. ASSUME row' = new, cap' = left
      PROVE  /\ RowKept(r) /\ row'[r].status = status
             /\ row'[r].policy = row[r].policy
  <2>1. /\ row' \in [Requests -> Rows]
        /\ \A q \in Requests \ {r} : row'[q] = row[q]
        /\ row'[r].status = status /\ row'[r].policy = row[r].policy
        /\ row'[r].origin = row[r].origin
    BY <1>2, <1>4 DEF TypeOK, Rows, Unresolved
  <2>2. /\ cap' \in [Requests -> {"none", "held", "released"}]
        /\ \A q \in Requests \ {r} : cap'[q] = cap[q]
        /\ cap'[r] = "held" <=> status \in Live
    BY <1>2, <1>3, <1>4 DEF TypeOK, Released, Terminal, Live
  <2>3. status # "Absent"
    BY DEF Terminal, Live
  <2> QED BY <1>1, <1>2, <1>3, <2>1, <2>2, <2>3
          DEF RowKept, Unresolved, Terminal, Live, TypeOK
<1>5. CASE /\ row' = new /\ cap' = left
           /\ todo' = IF status \in Terminal THEN Cleaning(r) ELSE Idle
           /\ UNCHANGED <<fence, marker, hard, retryable>>
  BY <1>1, <1>2, <1>3, <1>4, <1>5, CommitKeeps
     DEF TypeOK, Unresolved, Terminal, Live, Idle
<1>6. CASE Uncertain(r, new, left)
  <2>1. /\ UNCHANGED <<fence, marker, retryable>> /\ todo' = Idle
        /\ hard' = hard \cup {ProfileOf[r]}
    BY <1>6 DEF Uncertain, Latch
  <2>2. CASE row' = new /\ cap' = left
    BY <1>1, <1>2, <1>3, <1>4, <2>1, <2>2, CommitKeeps
       DEF TypeOK, Terminal, Live, Idle
  <2>3. CASE UNCHANGED <<row, cap>>
    BY <1>1, <1>2, <1>3, <2>1, <2>3, SameRowKept, CommitKeeps DEF TypeOK, Idle
  <2> QED BY <1>6, <2>2, <2>3 DEF Uncertain
<1> QED BY <1>5, <1>6 DEF Mutate

Mutations(r) ==
  \/ \E p \in Policies : BeginRenewal(r, p)
  \/ RefuseRequested(r) \/ AcknowledgeRenewal(r)
  \/ RefuseAcknowledgement(r) \/ CloseLease(r) \/ RevokeLease(r)
  \/ MarkError(r) \/ EnforceExpiration(r)

(* What a mutation asks of the row it changes.                             *)
LEMMA MutationsMutate ==
  ASSUME NEW r \in Requests, Mutations(r)
  PROVE  \E status :
           /\ Mutate(r, status)
           /\ row[r].status \in Unresolved
           /\ \/ status \in Terminal
              \/ row[r].status \in Live /\ status \in Live
<1>1. CASE \E p \in Policies : BeginRenewal(r, p)
  BY <1>1 DEF BeginRenewal, Unresolved, Live
<1>2. CASE RefuseRequested(r)
  BY <1>2 DEF RefuseRequested, Unresolved, Terminal
<1>3. CASE AcknowledgeRenewal(r)
  BY <1>3 DEF AcknowledgeRenewal, Unresolved, Live
<1>4. CASE RefuseAcknowledgement(r)
  BY <1>4 DEF RefuseAcknowledgement, Unresolved, Live, Terminal
<1>5. CASE CloseLease(r)
  BY <1>5 DEF CloseLease, Unresolved, Live, Terminal
<1>6. CASE RevokeLease(r)
  BY <1>6 DEF RevokeLease, Unresolved, Live, Terminal
<1>7. CASE MarkError(r)
  BY <1>7 DEF MarkError, Unresolved, Live
<1>8. CASE EnforceExpiration(r)
  BY <1>8 DEF EnforceExpiration, Unresolved, Live, Terminal
<1> QED BY <1>1, <1>2, <1>3, <1>4, <1>5, <1>6, <1>7, <1>8 DEF Mutations

LEMMA ReleaseTerminalCapacityKeeps ==
  ASSUME IInv, NEW r \in Requests, ReleaseTerminalCapacity(r)
  PROVE  IInv'
<1>1. /\ phase = "ready" /\ todo = Idle /\ row[r].status \in Terminal
      /\ cap' = Released(r) /\ todo' = Cleaning(r)
      /\ UNCHANGED <<phase, gen, row, marker, guards>>
  BY DEF ReleaseTerminalCapacity, Ready
<1>2. row[r].status \notin Live /\ cap[r] # "held"
  BY <1>1 DEF IInv, CapacityLive, Terminal, Live
<1>3. cap' = cap
  BY <1>1, <1>2 DEF Released, IInv, TypeOK
<1>4. RowKept(r)
  BY <1>1, <1>3, SameRowKept
<1> QED BY <1>1, <1>2, <1>4, CommitKeeps DEF guards, IInv, TypeOK, Idle

LEMMA PruneKeeps ==
  ASSUME IInv, NEW S \in SUBSET Requests, Prune(S)
  PROVE  IInv'
<1> DEFINE pruned == [r \in Requests |-> IF r \in S THEN Absent ELSE row[r]]
           left   == [r \in Requests |-> IF r \in S THEN "none" ELSE cap[r]]
<1>1. /\ phase = "ready" /\ todo = Idle
      /\ \A r \in S : row[r].status \in Terminal /\ cap[r] # "held"
      /\ UNCHANGED <<phase, gen, marker, fence, res, hard, retryable, todo>>
      /\ uncertain' \in {uncertain, TRUE}
      /\ \/ row' = pruned /\ cap' = left
         \/ UNCHANGED <<row, cap>>
  BY DEF Prune, Ready
<1>2. /\ row' \in [Requests -> Rows]
      /\ cap' \in [Requests -> {"none", "held", "released"}]
      /\ \A r \in Requests \ S : row'[r] = row[r] /\ cap'[r] = cap[r]
      /\ \A r \in S : \/ row'[r] = row[r] /\ cap'[r] = cap[r]
                      \/ row'[r] = Absent /\ cap'[r] = "none"
  BY <1>1, GenerationAssumption DEF IInv, TypeOK, Rows, Absent
<1>3. /\ Absent.status = "Absent" /\ Absent.origin = 0
      /\ Absent.status \notin Unresolved /\ Absent.status \notin Live
  BY DEF Absent, Unresolved, Live
<1>4. \A r \in Requests : Blocking(r)' <=> Blocking(r)
  BY <1>1, <1>2, <1>3 DEF Blocking, Unresolved, Live, Terminal
<1>5. TypeOK'
  BY <1>1, <1>2 DEF IInv, TypeOK
<1>6. Generations'
  BY <1>1, <1>2, <1>3 DEF IInv, Generations, TypeOK
<1>7. RowsFormed' /\ CapacityLive'
  BY <1>2, <1>3 DEF IInv, RowsFormed, CapacityLive
<1>8. BlockersMarked'
  BY <1>1, <1>2, <1>3, <1>4 DEF IInv, BlockersMarked
<1>9. ReadyResolved'
  BY <1>1, <1>2, <1>3, <1>4 DEF IInv, ReadyResolved, Blocking
<1>10. LiveGuarded' /\ MarkersGuarded'
  BY <1>1, <1>2, <1>3 DEF IInv, LiveGuarded, MarkersGuarded, Current
<1>11. StepKnown'
  BY <1>1 DEF StepKnown, Idle
<1>12. LeaksLatched'
  <2>1. \A u \in Profiles : Blocked(u)' <=> Blocked(u)
    BY <1>4 DEF Blocked
  <2>2. uncertain => uncertain'
    BY <1>1
  <2> QED BY <1>1, <2>1, <2>2 DEF IInv, LeaksLatched
<1> QED BY <1>5, <1>6, <1>7, <1>8, <1>9, <1>10, <1>11, <1>12 DEF IInv

LEMMA InitIInv ==
  ASSUME Init
  PROVE  IInv
<1> USE DEF Init
<1>1. \A r \in Requests :
        /\ row[r] \in Rows /\ row[r].origin = 0
        /\ row[r].status = "Absent" => row[r] = Absent
        /\ row[r].status \in Live <=> row[r].status = "Active"
        /\ row[r].status = "Active" => row[r].policy \in Policies
  <2> SUFFICES ASSUME NEW r \in Requests
               PROVE  /\ row[r] \in Rows /\ row[r].origin = 0
                      /\ row[r].status = "Absent" => row[r] = Absent
                      /\ row[r].status \in Live <=> row[r].status = "Active"
                      /\ row[r].status = "Active" => row[r].policy \in Policies
    OBVIOUS
  <2>1. row[r] \in LegacyRows
    OBVIOUS
  <2> QED BY <2>1, GenerationAssumption
          DEF LegacyRows, Rows, Absent, Live, Unresolved
<1>2. TypeOK
  <2>1. row \in [Requests -> Rows]
    BY <1>1
  <2>2. todo \in TodoRecords /\ todo.op = "idle"
    BY DEF Idle, TodoRecords, Steps
  <2>3. /\ cap \in [Requests -> {"none", "held", "released"}]
        /\ fence \in [Profiles -> {"none", "shared", "busy", "deferred"}]
        /\ res \in [Requests -> {"none", "exclusive", "shared"}]
        /\ marker \in [Profiles -> BOOLEAN]
    OBVIOUS
  <2>4. /\ phase \in {"down", "recovering", "ready"}
        /\ hard \subseteq Profiles /\ retryable \subseteq Profiles
    OBVIOUS
  <2>5. gen \in 0 .. MaxGeneration
    BY GenerationAssumption
  <2>6. uncertain \in BOOLEAN
    BY Zenon
  <2> QED BY <2>1, <2>2, <2>3, <2>4, <2>5, <2>6
     DEF TypeOK, TodoRecords
<1>3. Generations /\ RowsFormed /\ CapacityLive
  BY <1>1 DEF Generations, RowsFormed, CapacityLive
<1>4. BlockersMarked
  BY <1>1 DEF BlockersMarked
<1>5. /\ LiveGuarded /\ ReadyResolved /\ MarkersGuarded /\ StepKnown
      /\ LeaksLatched
  BY DEF LiveGuarded, ReadyResolved, MarkersGuarded, StepKnown, LeaksLatched,
         Idle
<1> QED BY <1>2, <1>3, <1>4, <1>5 DEF IInv

LEMMA StutterKeeps ==
  ASSUME IInv, UNCHANGED vars
  PROVE  IInv'
<1> USE DEF vars, durable, guards
<1>1. (TypeOK /\ Generations /\ RowsFormed /\ CapacityLive /\ MarkersGuarded)'
  BY DEF IInv, TypeOK, Generations, RowsFormed, CapacityLive, MarkersGuarded
<1>2. (BlockersMarked /\ LiveGuarded /\ ReadyResolved)'
  BY DEF IInv, BlockersMarked, LiveGuarded, ReadyResolved, Blocking, Current
<1>3. StepKnown'
  BY DEF IInv, StepKnown, Deferred, Fenced, Current, Held
<1>4. LeaksLatched'
  BY DEF IInv, LeaksLatched, Blocked, Blocking
<1> QED BY <1>1, <1>2, <1>3, <1>4 DEF IInv

LEMMA NextKeeps ==
  ASSUME IInv, Next
  PROVE  IInv'
<1>1. CASE Open \/ Stop \/ IntoReady
  BY <1>1, OpenKeeps, StopKeeps, IntoReadyKeeps
<1>2. CASE Terminalize \/ PostTerminalCleanup
  BY <1>2, TerminalizeKeeps, PostTerminalCleanupKeeps
<1>3. CASE InsertRequested \/ ActivateRequested
  BY <1>3, InsertRequestedKeeps, ActivateRequestedKeeps
<1>4. CASE \E u \in Profiles : ClearOrphan(u) \/ RetryCleanup(u)
  BY <1>4, ClearOrphanKeeps, RetryCleanupKeeps
<1>5. CASE \E S \in SUBSET Requests : Prune(S)
  BY <1>5, PruneKeeps
<1>6. ASSUME NEW r \in Requests,
             \/ RecoverFenced(r) \/ RecoverUnfenced(r) \/ RecoveryAliasRefused(r)
      PROVE  IInv'
  BY <1>6, RecoverFencedKeeps, RecoverUnfencedKeeps, RecoveryAliasRefusedKeeps
<1>7. ASSUME NEW r \in Requests,
             \/ BeginAcquire(r) \/ GuardsRefused(r) \/ ClockUncertain(r)
             \/ ReleaseTerminalCapacity(r)
             \/ \E p \in Policies : BeginActivate(r, p)
      PROVE  IInv'
  BY <1>7, BeginAcquireKeeps, RefusalsKeep, BeginActivateKeeps,
     ReleaseTerminalCapacityKeeps
<1>8. ASSUME NEW r \in Requests, Mutations(r)
      PROVE  IInv'
  BY <1>8, MutationsMutate, MutateKeeps
<1> QED BY <1>1, <1>2, <1>3, <1>4, <1>5, <1>6, <1>7, <1>8 DEF Next, Mutations

(* IInv holds in every state the store can reach, by whatever crashes,     *)
(* unknown commits and failed cleanups it got there.                       *)
THEOREM Invariance == Spec => []IInv
<1>1. Init => IInv
  BY InitIInv
<1>2. IInv /\ [Next]_vars => IInv'
  BY NextKeeps, StutterKeeps
<1> QED BY <1>1, <1>2, PTL DEF Spec

(* Every variable keeps its type.                                          *)
THEOREM StoreTypeCorrect == Spec => []TypeOK
<1>1. IInv => TypeOK
  BY DEF IInv
<1> QED BY <1>1, Invariance, PTL

(* A lease that blocks its profile has the profile's marker on disk.       *)
THEOREM BlockersStayMarked == Spec => []BlockersMarked
<1>1. IInv => BlockersMarked
  BY DEF IInv
<1> QED BY <1>1, Invariance, PTL

(* A live lease of this process keeps its resource and fence guards.       *)
THEOREM LiveStaysGuarded == Spec => []LiveGuarded
<1>1. IInv => LiveGuarded
  BY DEF IInv
<1> QED BY <1>1, Invariance, PTL

(* A ready store has resolved every lease of earlier generations.          *)
THEOREM ReadyIsResolved == Spec => []ReadyResolved
<1>1. IInv => ReadyResolved
  BY DEF IInv
<1> QED BY <1>1, Invariance, PTL

(* A ready store with nothing deferred has no fence without a blocker.     *)
THEOREM NoFenceLeaks == Spec => []NoLeakedFence
<1>1. IInv => NoLeakedFence
  BY DEF IInv, LeaksLatched, NoLeakedFence, Ready, Deferred, Idle
<1> QED BY <1>1, Invariance, PTL

(* While a cleanup is deferred, statuses change only towards an end.       *)
LEMMA DeferredStep ==
  ASSUME IInv, Next, phase = "ready", Deferred,
         NEW r \in Requests, row'[r].status # row[r].status
  PROVE  row'[r].status \in Terminal \cup {"Error"}
<1>1. todo.op \notin {"insert", "refuse", "activate", "terminalize"}
  BY DEF IInv, StepKnown
<1>2. ASSUME NEW q \in Requests, NEW status \in Terminal \cup {"Error"},
             Mutate(q, status)
      PROVE  row'[r].status \in Terminal \cup {"Error"}
  <2>1. row' = [row EXCEPT ![q].status = status] \/ UNCHANGED row
    BY <1>2 DEF Mutate, Uncertain
  <2> QED BY <2>1 DEF IInv, TypeOK, Rows
<1>3. ~UNCHANGED row
  OBVIOUS
<1>4. \A q \in Requests :
        \/ RefuseRequested(q) \/ RefuseAcknowledgement(q) \/ CloseLease(q)
        \/ RevokeLease(q) \/ MarkError(q) \/ EnforceExpiration(q)
        => \E status \in Terminal \cup {"Error"} : Mutate(q, status)
  BY DEF RefuseRequested, RefuseAcknowledgement, CloseLease, RevokeLease,
         MarkError, EnforceExpiration, Terminal
<1>5. CASE Open \/ Stop \/ IntoReady \/ Terminalize \/ PostTerminalCleanup
  BY <1>1, <1>3, <1>5
     DEF Open, Stop, IntoReady, Terminalize, PostTerminalCleanup, durable
<1>6. CASE \/ InsertRequested \/ ActivateRequested
           \/ \E u \in Profiles : ClearOrphan(u) \/ RetryCleanup(u)
           \/ \E S \in SUBSET Requests : Prune(S)
  BY <1>1, <1>3, <1>6
     DEF InsertRequested, ActivateRequested, ClearOrphan, RetryCleanup, Prune
<1>7. ASSUME NEW q \in Requests,
             \/ RecoverFenced(q) \/ RecoverUnfenced(q) \/ RecoveryAliasRefused(q)
             \/ BeginAcquire(q) \/ GuardsRefused(q) \/ ClockUncertain(q)
             \/ \E p \in Policies : BeginActivate(q, p) \/ BeginRenewal(q, p)
             \/ AcknowledgeRenewal(q) \/ ReleaseTerminalCapacity(q)
      PROVE  FALSE
  BY <1>3, <1>7
     DEF RecoverFenced, RecoverUnfenced, RecoveryAliasRefused, BeginAcquire,
         GuardsRefused, ClockUncertain, BeginActivate, BeginRenewal,
         AcknowledgeRenewal, ReleaseTerminalCapacity, durable
<1> QED BY <1>2, <1>4, <1>5, <1>6, <1>7 DEF Next

(* While any cleanup is deferred no request is recorded, no lease is       *)
(* granted or renewed and no row is pruned.                                *)
THEOREM GrantsNeedCleanState == Spec => GrantsUndeferred
<1>1. ASSUME IInv, [Next]_vars
      PROVE  [phase = "ready" /\ Deferred =>
                \A r \in Requests :
                  row'[r].status # row[r].status =>
                    row'[r].status \in Terminal \cup {"Error"}]_vars
  BY <1>1, DeferredStep
<1> QED BY <1>1, Invariance, PTL DEF Spec, GrantsUndeferred

(***************************************************************************)
(* The store implements LeaseAuthority.                                    *)
(***************************************************************************)

(* A step that may move the marker of profile u and no row.                *)
OneMarker(u) ==
  /\ UNCHANGED <<gen, row>>
  /\ \A v \in Profiles \ {u} : marker'[v] = marker[v]
  /\ marker[u] /\ ~marker'[u] => ~Blocked(u)
  /\ marker'[u] \in BOOLEAN

(* How far a request has come, read off its row.                           *)
LEMMA StageOver ==
  ASSUME NEW r \in Requests
  PROVE  /\ row[r] = Absent => Stage(r) = "absent"
         /\ row[r].status \in Terminal => Stage(r) = "ended"
<1>1. Absent.status = "Absent" /\ "Absent" \notin Terminal
  BY DEF Absent, Terminal
<1>2. CASE row[r] = Absent
  BY <1>1, <1>2 DEF Stage
<1>3. CASE row[r] # Absent
  BY <1>1, <1>3 DEF Stage
<1> QED BY <1>2, <1>3

LEMMA SettleMoves ==
  ASSUME TypeOK, NEW u \in Profiles, NEW rs, NEW o, Tidy(u, rs, o),
         Settle(u, o), UNCHANGED <<gen, row>>
  PROVE  OneMarker(u)
<1>1. o \in OutcomeRecords
  BY DEF Tidy
<1>2. marker'[u] = o.marker /\ \A v \in Profiles \ {u} : marker'[v] = marker[v]
  BY <1>1, Settled
<1> QED BY <1>1, <1>2 DEF OneMarker, Tidy, OutcomeRecords

LEMMA AbandonMoves ==
  ASSUME TypeOK, MarkersGuarded, NEW u \in Profiles, NEW made,
         Abandon(u, made), UNCHANGED <<gen, row>>
  PROVE  OneMarker(u)
<1>1. CASE made
  BY <1>1, ClearTidies, SettleMoves DEF Abandon
<1>2. CASE ~made
  BY <1>2 DEF Abandon, OneMarker, TypeOK
<1> QED BY <1>1, <1>2

LEMMA MarkerRefines ==
  ASSUME IInv, NEW u \in Profiles, OneMarker(u)
  PROVE  [Authority!Next]_(Authority!vars)
<1>1. \A r \in Requests : Stage(r)' = Stage(r) /\ row'[r] = row[r]
  BY DEF OneMarker, Stage
<1>2. UNCHANGED [r \in Requests |-> Stage(r)]
  BY <1>1
<1>3. UNCHANGED [r \in Requests |-> row[r].policy]
  BY <1>1
<1>4. marker[u] \in BOOLEAN /\ marker'[u] \in BOOLEAN
  BY DEF IInv, TypeOK, OneMarker
<1>5. CASE marker'[u] = marker[u]
  <2>1. UNCHANGED {v \in Profiles : marker[v]}
    BY <1>5 DEF OneMarker
  <2> QED BY <1>2, <1>3, <2>1 DEF Authority!vars
<1>6. CASE marker'[u] /\ ~marker[u]
  <2>1. {v \in Profiles : marker[v]}' = {v \in Profiles : marker[v]} \cup {u}
    BY <1>6 DEF OneMarker
  <2>2. Authority!Seal(u)
    BY <1>2, <1>3, <2>1 DEF Authority!Seal
  <2> QED BY <2>2 DEF Authority!Next
<1>7. CASE ~marker'[u] /\ marker[u]
  <2>1. {v \in Profiles : marker[v]}' = {v \in Profiles : marker[v]} \ {u}
    BY <1>7 DEF OneMarker
  <2>2. ASSUME NEW r \in Requests, ProfileOf[r] = u
        PROVE  Stage(r) \notin {"pending", "granted", "doomed"}
    <3>1. row[r].status \notin Unresolved /\ row[r] \in Rows
      BY <1>7, <2>2 DEF OneMarker, Blocked, Blocking, IInv, TypeOK
    <3>2. row[r] = Absent \/ row[r].status \in Terminal
      BY <3>1 DEF IInv, RowsFormed, Rows
    <3>3. Stage(r) \in {"absent", "ended"}
      BY <3>2, StageOver
    <3> QED BY <3>3
  <2>3. Authority!Unseal(u)
    BY <1>2, <1>3, <2>1, <2>2 DEF Authority!Unseal, Authority!Unended
  <2> QED BY <2>3 DEF Authority!Next
<1> QED BY <1>4, <1>5, <1>6, <1>7

(* A step that may change the row of r and no marker.                      *)
OneRow(r) ==
  /\ UNCHANGED <<gen, marker>>
  /\ \A q \in Requests \ {r} : row'[q] = row[q]

LEMMA RowMoves ==
  ASSUME NEW r \in Requests, OneRow(r)
  PROVE  /\ UNCHANGED {u \in Profiles : marker[u]}
         /\ [q \in Requests |-> Stage(q)]' =
              [[q \in Requests |-> Stage(q)] EXCEPT ![r] = Stage(r)']
         /\ [q \in Requests |-> row[q].policy]' =
              [[q \in Requests |-> row[q].policy] EXCEPT ![r] = row'[r].policy]
<1>1. \A q \in Requests \ {r} :
        Stage(q)' = Stage(q) /\ row'[q].policy = row[q].policy
  BY DEF OneRow, Stage
<1>2. UNCHANGED {u \in Profiles : marker[u]}
  BY DEF OneRow
<1>3. [q \in Requests |-> Stage(q)]' =
        [[q \in Requests |-> Stage(q)] EXCEPT ![r] = Stage(r)']
  BY <1>1
<1>4. [q \in Requests |-> row[q].policy]' =
        [[q \in Requests |-> row[q].policy] EXCEPT ![r] = row'[r].policy]
  BY <1>1
<1> QED BY <1>2, <1>3, <1>4

LEMMA StayRefines ==
  ASSUME NEW r \in Requests, OneRow(r),
         Stage(r)' = Stage(r), row'[r].policy = row[r].policy
  PROVE  UNCHANGED Authority!vars
<1>1. UNCHANGED [q \in Requests |-> Stage(q)]
  BY DEF OneRow, Stage
<1>2. UNCHANGED [q \in Requests |-> row[q].policy]
  BY DEF OneRow
<1>3. UNCHANGED {u \in Profiles : marker[u]}
  BY DEF OneRow
<1> QED BY <1>1, <1>2, <1>3 DEF Authority!vars

LEMMA EndRefines ==
  ASSUME NEW r \in Requests, OneRow(r),
         row'[r].status \in Terminal, row[r].status \notin Terminal,
         row'[r].policy \in {row[r].policy, "none"}
  PROVE  Authority!Next
<1>1. Stage(r)' = "ended" /\ Stage(r) # "ended"
  BY DEF Stage, Absent, Terminal
<1>2. [q \in Requests |-> row[q].policy]' \in
        {[q \in Requests |-> row[q].policy],
         [[q \in Requests |-> row[q].policy] EXCEPT ![r] = "none"]}
  <2>1. CASE row'[r].policy = "none"
    BY <2>1, RowMoves
  <2>2. CASE row'[r].policy = row[r].policy
    BY <2>2 DEF OneRow
  <2> QED BY <2>1, <2>2
<1>3. Authority!End(r)
  BY <1>1, <1>2, RowMoves DEF Authority!End
<1> QED BY <1>3 DEF Authority!Next

LEMMA TerminalizeRefines ==
  ASSUME IInv, Terminalize
  PROVE  [Authority!Next]_(Authority!vars)
<1> DEFINE r == todo.req
<1>1. /\ todo.op = "terminalize" /\ UNCHANGED gen
      /\ r \in Requests /\ ProfileOf[r] \in Profiles /\ TypeOK
  BY ProfileAssumption DEF IInv, TypeOK, Terminalize
<1>2. CASE row' = Recovered(r) /\ UNCHANGED marker
  <2>1. /\ OneRow(r) /\ row'[r].policy = row[r].policy
        /\ row'[r].origin = row[r].origin
        /\ row'[r].status = CASE row[r].status = "Requested" -> "Refused"
                              [] row[r].status \in Live      -> "Revoked"
                              [] OTHER                       -> row[r].status
    BY <1>1, <1>2 DEF OneRow, Recovered, TypeOK, Rows
  <2>2. CASE row[r].status \in Unresolved
    <3>1. row'[r].status \in Terminal /\ row[r].status \notin Terminal
      BY <2>1, <2>2 DEF Unresolved, Live, Terminal
    <3> QED BY <1>1, <2>1, <3>1, EndRefines
  <2>3. CASE row[r].status \notin Unresolved
    <3>1. row' = row
      BY <1>1, <1>2, <2>3 DEF Recovered, TypeOK, Rows, Unresolved, Live
    <3> QED BY <1>1, <2>1, <3>1, StayRefines DEF Stage
  <2> QED BY <2>2, <2>3
<1>3. CASE Abandon(ProfileOf[r], todo.made) /\ UNCHANGED row
  BY <1>1, <1>3, AbandonMoves, MarkerRefines DEF IInv
<1>4. CASE UNCHANGED <<row, marker>>
  BY <1>1, <1>4, StayRefines DEF OneRow, Stage
<1> QED BY <1>2, <1>3, <1>4 DEF Terminalize, Uncertain

LEMMA InsertRequestedRefines ==
  ASSUME IInv, InsertRequested
  PROVE  [Authority!Next]_(Authority!vars)
<1>0. PICK r \in Requests : r = todo.req
  BY DEF InsertRequested, IInv, TypeOK
<1> DEFINE status == IF todo.op = "refuse" THEN "Refused" ELSE "Requested"
<1>1. /\ todo.op \in {"insert", "refuse"} /\ phase = "ready"
      /\ row[r] = Absent /\ UNCHANGED gen
      /\ todo.op = "insert" => fence[ProfileOf[r]] = "shared"
  BY <1>0 DEF InsertRequested, IInv, StepKnown, Fenced
<1>2. /\ ProfileOf[r] \in Profiles /\ TypeOK
      /\ gen \in Nat /\ gen > 0
  BY <1>1, ProfileAssumption, GenerationAssumption
     DEF IInv, TypeOK, Generations
<1>3. CASE row' = NewRow(r, status) /\ UNCHANGED marker
  <2>1. /\ OneRow(r)
        /\ row'[r] = [status |-> status, origin |-> gen, policy |-> "none"]
    BY <1>1, <1>2, <1>3 DEF OneRow, NewRow, TypeOK
  <2>2. CASE todo.op = "refuse"
    BY <1>1, <1>2, <2>1, <2>2, EndRefines DEF Terminal, Absent
  <2>3. CASE todo.op = "insert"
    <3>1. ProfileOf[r] \in {u \in Profiles : marker[u]}
      BY <1>1, <1>2, <2>3 DEF IInv, MarkersGuarded
    <3>2. Stage(r) = "absent" /\ Stage(r)' = "pending"
      BY <1>1, <1>2, <2>1, <2>3 DEF Stage, Absent, Terminal, OneRow
    <3>3. row'[r].policy = "none"
      BY <2>1
    <3>4. Authority!Request(r)
      BY <2>1, <3>1, <3>2, <3>3, RowMoves DEF Authority!Request
    <3> QED BY <3>4 DEF Authority!Next
  <2> QED BY <1>1, <2>2, <2>3
<1>4. CASE Abandon(ProfileOf[r], todo.made) /\ UNCHANGED row
  BY <1>1, <1>2, <1>4, AbandonMoves, MarkerRefines DEF IInv
<1>5. CASE UNCHANGED <<row, marker>>
  BY <1>1, <1>2, <1>5, StayRefines DEF OneRow, Stage
<1> QED BY <1>0, <1>3, <1>4, <1>5 DEF InsertRequested, Uncertain

(* The instance carries its own name for the library's operator.           *)
LEMMA SameCardinality ==
  ASSUME NEW S
  PROVE  Authority!Cardinality(S) = Cardinality(S)
BY DEF Authority!Cardinality, Cardinality

LEMMA SharingCounted ==
  ASSUME IInv, NEW r \in Requests, NEW p \in Policies, Available(r, p)
  PROVE  \A d \in Dims : Cardinality(Authority!Sharing(r, d)) < Limit[p][d]
<1> SUFFICES ASSUME NEW d \in Dims
             PROVE  Cardinality(Authority!Sharing(r, d)) < Limit[p][d]
  OBVIOUS
<1> DEFINE held == {q \in Requests : cap[q] = "held" /\ Key[q][d] = Key[r][d]}
<1>1. ASSUME NEW q \in Requests, Stage(q) = "granted"
      PROVE  cap[q] = "held"
  <2>1. row[q] # Absent /\ row[q].status \notin Terminal \cup {"Requested"}
    BY <1>1 DEF Stage
  <2>2. row[q] \in Rows /\ row[q].status # "Absent"
    BY <2>1 DEF IInv, TypeOK, RowsFormed
  <2>3. row[q].status \in Live
    BY <2>1, <2>2 DEF Rows, Unresolved
  <2> QED BY <2>3 DEF IInv, CapacityLive
<1>2. Authority!Sharing(r, d) \subseteq held
  BY <1>1 DEF Authority!Sharing
<1>3. IsFiniteSet(held)
  BY RequestsAssumption, FS_Subset
<1>4. /\ IsFiniteSet(Authority!Sharing(r, d))
      /\ Cardinality(Authority!Sharing(r, d)) <= Cardinality(held)
  BY <1>2, <1>3, FS_Subset
<1>5. /\ Cardinality(Authority!Sharing(r, d)) \in Nat
      /\ Cardinality(held) \in Nat
  BY <1>3, <1>4, FS_CardinalityType
<1>6. Cardinality(held) < Limit[p][d] /\ Limit[p][d] \in Nat
  BY PolicyAssumption DEF Available, Usage
<1> QED BY <1>4, <1>5, <1>6

LEMMA ActivateRequestedRefines ==
  ASSUME IInv, ActivateRequested
  PROVE  [Authority!Next]_(Authority!vars)
<1>0. PICK r \in Requests, p \in Policies : r = todo.req /\ p = todo.policy
  BY DEF ActivateRequested, IInv, TypeOK, StepKnown
<1> DEFINE granted == Available(r, p) /\ todo.made
<1>1. /\ todo.op = "activate" /\ phase = "ready"
      /\ row[r].status = "Requested" /\ row[r].origin = gen
      /\ UNCHANGED gen
      /\ todo.made =>
           \A q \in Held(ProfileOf[r], res) \ {r} :
             ModeOf[p] = "shared" /\ res[q] = "shared"
  BY <1>0 DEF ActivateRequested, IInv, StepKnown, Current
<1>2. /\ ProfileOf[r] \in Profiles /\ TypeOK
      /\ gen \in Nat /\ gen > 0 /\ row[r] \in Rows
      /\ ModeOf \in [Policies -> {"exclusive", "shared"}]
  BY <1>1, ProfileAssumption, PolicyAssumption, GenerationAssumption
     DEF IInv, TypeOK, Generations
<1>3. CASE row' = Activated(r, p) /\ UNCHANGED marker
  <2>1. CASE granted
    <3>1. row' = [row EXCEPT ![r].status = "Active", ![r].policy = p]
      BY <1>3, <2>1 DEF Activated
    <3>2. /\ OneRow(r)
          /\ row'[r].status = "Active" /\ row'[r].policy = p
          /\ row'[r].origin = gen
      BY <1>1, <1>2, <1>3, <3>1 DEF OneRow, TypeOK, Rows
    <3>3. ProfileOf[r] \in {u \in Profiles : marker[u]}
      BY <1>1, <1>2 DEF IInv, BlockersMarked, Blocking, Unresolved
    <3>4. Stage(r) = "pending" /\ Stage(r)' = "granted"
      BY <1>1, <1>2, <3>2 DEF Stage, Absent, Terminal, OneRow
    <3>5. ASSUME NEW q \in Authority!Granted(ProfileOf[r])
          PROVE  ModeOf[p] = "shared" /\ ModeOf[row[q].policy] = "shared"
      <4>1. q \in Requests /\ ProfileOf[q] = ProfileOf[r] /\ Stage(q) = "granted"
        BY DEF Authority!Granted
      <4>2. /\ row[q] # Absent /\ row[q].status \notin Terminal \cup {"Requested"}
            /\ ~(row[q].origin < gen)
        BY <4>1 DEF Stage
      <4>3. row[q] \in Rows /\ row[q].status # "Absent" /\ row[q].origin <= gen
        BY <4>1, <4>2 DEF IInv, TypeOK, RowsFormed, Generations
      <4>4. row[q].status \in Live /\ Current(q)
        BY <1>2, <4>2, <4>3, GenerationAssumption
           DEF Rows, Unresolved, Current
      <4>5. res[q] = ModeOf[row[q].policy] /\ row[q].policy \in Policies
        BY <1>1, <4>1, <4>4 DEF IInv, LiveGuarded, RowsFormed
      <4>6. q \in Held(ProfileOf[r], res) \ {r}
        BY <1>1, <1>2, <4>1, <4>2, <4>5 DEF Held
      <4> QED BY <1>1, <2>1, <4>5, <4>6
    <3>6. \A q \in Authority!Granted(ProfileOf[r]) :
            /\ ModeOf[p] = "shared"
            /\ ModeOf[[s \in Requests |-> row[s].policy][q]] = "shared"
      <4>1. \A q \in Authority!Granted(ProfileOf[r]) : q \in Requests
        BY DEF Authority!Granted
      <4> QED BY <3>5, <4>1
    <3>7. \A d \in Dims :
            Authority!Cardinality(Authority!Sharing(r, d)) < Limit[p][d]
      BY <2>1, SharingCounted, SameCardinality
    <3>8. /\ UNCHANGED {u \in Profiles : marker[u]}
          /\ [q \in Requests |-> Stage(q)]' =
               [[q \in Requests |-> Stage(q)] EXCEPT ![r] = "granted"]
          /\ [q \in Requests |-> row[q].policy]' =
               [[q \in Requests |-> row[q].policy] EXCEPT ![r] = p]
      BY <3>2, <3>4, RowMoves
    <3>9. [q \in Requests |-> Stage(q)][r] = "pending"
      BY <3>4
    <3>10. Authority!Grant(r, p)
      BY <3>3, <3>6, <3>7, <3>8, <3>9 DEF Authority!Grant
    <3> QED BY <3>10 DEF Authority!Next
  <2>2. CASE ~granted
    <3>1. row' = [row EXCEPT ![r].status = "Refused"]
      BY <1>3, <2>2 DEF Activated
    <3>2. /\ OneRow(r)
          /\ row'[r].status = "Refused" /\ row'[r].policy = row[r].policy
      BY <1>1, <1>2, <1>3, <3>1 DEF OneRow, TypeOK, Rows
    <3> QED BY <1>1, <1>2, <3>2, EndRefines DEF Terminal
  <2> QED BY <2>1, <2>2
<1>4. CASE UNCHANGED <<row, marker>>
  BY <1>1, <1>2, <1>4, StayRefines DEF OneRow, Stage
<1> QED BY <1>0, <1>3, <1>4 DEF ActivateRequested, Uncertain

LEMMA MutateRefines ==
  ASSUME IInv, NEW r \in Requests, NEW status, Mutate(r, status),
         row[r].status \in Unresolved,
         \/ status \in Terminal
         \/ row[r].status \in Live /\ status \in Live
  PROVE  [Authority!Next]_(Authority!vars)
<1>1. row[r] \in Rows /\ UNCHANGED gen
  BY DEF IInv, TypeOK, Mutate
<1>2. CASE row' = [row EXCEPT ![r].status = status] /\ UNCHANGED marker
  <2>1. /\ OneRow(r) /\ row'[r].status = status
        /\ row'[r].policy = row[r].policy /\ row'[r].origin = row[r].origin
    BY <1>1, <1>2 DEF OneRow, IInv, TypeOK, Rows
  <2>2. CASE status \in Terminal
    <3>1. row[r].status \notin Terminal
      BY DEF Unresolved, Live, Terminal
    <3> QED BY <2>1, <2>2, <3>1, EndRefines
  <2>3. CASE row[r].status \in Live /\ status \in Live
    <3>1. row[r] # Absent /\ row'[r] # Absent
      BY <2>1, <2>3 DEF Absent, Live
    <3>2. Stage(r)' = Stage(r)
      BY <2>1, <2>3, <3>1 DEF Stage, OneRow, Live, Terminal
    <3> QED BY <2>1, <3>2, StayRefines
  <2> QED BY <2>2, <2>3
<1>3. CASE UNCHANGED <<row, marker>>
  BY <1>1, <1>3, StayRefines DEF OneRow, Stage
<1> QED BY <1>2, <1>3 DEF Mutate, Uncertain

LEMMA PruneRefines ==
  ASSUME IInv, NEW S \in SUBSET Requests, Prune(S)
  PROVE  [Authority!Next]_(Authority!vars)
<1>1. /\ \A r \in S : row[r].status \in Terminal
      /\ UNCHANGED <<gen, marker>>
  BY DEF Prune
<1>2. UNCHANGED {u \in Profiles : marker[u]}
  BY <1>1
<1>3. CASE row' = [r \in Requests |-> IF r \in S THEN Absent ELSE row[r]]
  <2>1. \A r \in Requests \ S :
          Stage(r)' = Stage(r) /\ row'[r].policy = row[r].policy
    BY <1>1, <1>3 DEF Stage
  <2>2. \A r \in S : Stage(r) = "ended"
    BY <1>1, StageOver
  <2>3. \A r \in S : Stage(r)' = "absent" /\ row'[r].policy = "none"
    BY <1>3 DEF Stage, Absent
  <2>4. [r \in Requests |-> Stage(r)]' =
          [r \in Requests |->
             IF r \in S THEN "absent" ELSE [q \in Requests |-> Stage(q)][r]]
    BY <2>1, <2>3
  <2>5. [r \in Requests |-> row[r].policy]' =
          [r \in Requests |->
             IF r \in S THEN "none" ELSE [q \in Requests |-> row[q].policy][r]]
    BY <2>1, <2>3
  <2>6. Authority!Forget(S)
    BY <1>2, <2>2, <2>4, <2>5 DEF Authority!Forget
  <2> QED BY <2>6 DEF Authority!Next
<1>4. CASE UNCHANGED row
  <2>1. UNCHANGED [r \in Requests |-> Stage(r)]
    BY <1>1, <1>4 DEF Stage
  <2>2. UNCHANGED [r \in Requests |-> row[r].policy]
    BY <1>4
  <2> QED BY <1>2, <2>1, <2>2 DEF Authority!vars
<1> QED BY <1>3, <1>4 DEF Prune

LEMMA OpenRefines ==
  ASSUME IInv, Open
  PROVE  [Authority!Next]_(Authority!vars)
<1>1. UNCHANGED <<row, marker>> /\ gen' = gen + 1 /\ gen \in Nat
  BY GenerationAssumption DEF Open, IInv, TypeOK
<1>2. \A r \in Requests :
        Stage(r)' = IF Stage(r) \in {"pending", "granted", "doomed"}
                      THEN "doomed" ELSE Stage(r)
  <2> SUFFICES ASSUME NEW r \in Requests
               PROVE  Stage(r)' = IF Stage(r) \in {"pending", "granted", "doomed"}
                                    THEN "doomed" ELSE Stage(r)
    OBVIOUS
  <2>1. row[r].origin <= gen /\ row[r].origin \in Nat
    BY GenerationAssumption DEF IInv, Generations, TypeOK, Rows
  <2>2. row[r].origin < gen'
    BY <1>1, <2>1
  <2>3. CASE row[r] = Absent \/ row[r].status \in Terminal
    BY <1>1, <2>3 DEF Stage
  <2>4. CASE row[r] # Absent /\ row[r].status \notin Terminal
    <3>1. Stage(r) \in {"pending", "granted", "doomed"}
      BY <2>4 DEF Stage
    <3>2. Stage(r)' = "doomed"
      BY <1>1, <2>2, <2>4 DEF Stage
    <3> QED BY <3>1, <3>2
  <2> QED BY <2>3, <2>4
<1>3. [r \in Requests |-> Stage(r)]' =
        [r \in Requests |->
           IF [q \in Requests |-> Stage(q)][r] \in {"pending", "granted", "doomed"}
             THEN "doomed" ELSE [q \in Requests |-> Stage(q)][r]]
  BY <1>2
<1>4. Authority!Restart
  BY <1>1, <1>3 DEF Authority!Restart, Authority!Unended
<1> QED BY <1>4 DEF Authority!Next

(* Steps that change neither a row nor the generation move at most the     *)
(* marker of one profile.                                                  *)
LEMMA QuietRefines ==
  ASSUME IInv, UNCHANGED <<gen, row, marker>>
  PROVE  UNCHANGED Authority!vars
<1>1. UNCHANGED [r \in Requests |-> Stage(r)]
  BY DEF Stage
<1>2. UNCHANGED [r \in Requests |-> row[r].policy]
  OBVIOUS
<1>3. UNCHANGED {u \in Profiles : marker[u]}
  OBVIOUS
<1> QED BY <1>1, <1>2, <1>3 DEF Authority!vars

LEMMA FailedPreparationMoves ==
  ASSUME IInv, NEW u \in Profiles, fence[u] = "none", phase # "down",
         UNCHANGED <<gen, row>>,
         \E o \in {BusyOutcome(u, "busy"), DeferredOutcome(u)},
            published \in BOOLEAN :
           /\ o.fence = "busy" => published
           /\ Settle(u, [o EXCEPT !.marker = published])
  PROVE  OneMarker(u)
<1>1. PICK o \in OutcomeRecords :
        /\ Settle(u, o)
        /\ o.fence = "deferred" \/ (o.fence = "busy" /\ o.marker)
  BY FailedPreparation DEF IInv
<1>2. ~marker[u]
  BY DEF IInv, MarkersGuarded
<1> QED BY <1>1, <1>2, Settled DEF OneMarker, IInv, OutcomeRecords

LEMMA CleanupMoves ==
  ASSUME IInv, NEW u \in Profiles, ClearOrphan(u) \/ RetryCleanup(u)
  PROVE  OneMarker(u)
<1>1. UNCHANGED <<gen, row>>
  BY DEF ClearOrphan, RetryCleanup
<1>2. \/ UNCHANGED marker
      \/ \E rs, o : Tidy(u, rs, o) /\ Settle(u, o)
  BY ClearTidies, LatchTidies DEF ClearOrphan, RetryCleanup, IInv
<1>3. CASE UNCHANGED marker
  BY <1>1, <1>3 DEF OneMarker, IInv, TypeOK
<1> QED BY <1>1, <1>2, <1>3, SettleMoves DEF IInv

LEMMA PostTerminalCleanupMoves ==
  ASSUME IInv, PostTerminalCleanup
  PROVE  \E u \in Profiles : OneMarker(u)
<1>0. PICK u \in Profiles : u = ProfileOf[todo.req]
  BY ProfileAssumption DEF PostTerminalCleanup, IInv, TypeOK
<1>1. UNCHANGED <<gen, row>>
  BY DEF PostTerminalCleanup
<1>2. \/ UNCHANGED marker
      \/ \E rs, o : Tidy(u, rs, o) /\ Settle(u, o)
  BY <1>0, ClearTidies, LatchTidies DEF PostTerminalCleanup, IInv
<1>3. CASE UNCHANGED marker
  BY <1>1, <1>3 DEF OneMarker, IInv, TypeOK
<1> QED BY <1>1, <1>2, <1>3, SettleMoves DEF IInv

LEMMA FenceStepsMove ==
  ASSUME IInv, NEW r \in Requests,
         RecoverFenced(r) \/ RecoverUnfenced(r) \/ BeginAcquire(r)
  PROVE  OneMarker(ProfileOf[r])
<1> DEFINE u == ProfileOf[r]
<1>1. u \in Profiles /\ UNCHANGED <<gen, row>> /\ phase # "down"
  BY ProfileAssumption
     DEF RecoverFenced, RecoverUnfenced, BeginAcquire, Recovering, Ready
<1>2. UNCHANGED marker => OneMarker(u)
  BY <1>1 DEF OneMarker, IInv, TypeOK
<1>3. marker' = [marker EXCEPT ![u] = TRUE] => OneMarker(u)
  BY <1>1 DEF OneMarker, IInv, TypeOK
<1>4. CASE RecoverFenced(r)
  <2>1. \/ UNCHANGED marker
        \/ \E o : Tidy(u, res, o) /\ Settle(u, o)
    BY <1>1, <1>4, ClearTidies, LatchTidies DEF RecoverFenced, IInv
  <2> QED BY <1>1, <1>2, <2>1, SettleMoves DEF IInv
<1>5. CASE RecoverUnfenced(r)
  BY <1>1, <1>2, <1>3, <1>5, FailedPreparationMoves DEF RecoverUnfenced
<1>6. CASE BeginAcquire(r)
  BY <1>1, <1>2, <1>3, <1>6, FailedPreparationMoves DEF BeginAcquire
<1> QED BY <1>4, <1>5, <1>6

LEMMA StepRefines ==
  ASSUME IInv, [Next]_vars
  PROVE  [Authority!Next]_(Authority!vars)
<1>1. CASE Open
  BY <1>1, OpenRefines
<1>2. CASE Stop \/ IntoReady \/ UNCHANGED vars
  BY <1>2, QuietRefines DEF Stop, IntoReady, vars, durable
<1>3. CASE Terminalize \/ InsertRequested \/ ActivateRequested
  BY <1>3, TerminalizeRefines, InsertRequestedRefines, ActivateRequestedRefines
<1>4. CASE PostTerminalCleanup
  BY <1>4, PostTerminalCleanupMoves, MarkerRefines
<1>5. ASSUME NEW u \in Profiles, ClearOrphan(u) \/ RetryCleanup(u)
      PROVE  [Authority!Next]_(Authority!vars)
  BY <1>5, CleanupMoves, MarkerRefines
<1>6. ASSUME NEW S \in SUBSET Requests, Prune(S)
      PROVE  [Authority!Next]_(Authority!vars)
  BY <1>6, PruneRefines
<1>7. ASSUME NEW r \in Requests,
             RecoverFenced(r) \/ RecoverUnfenced(r) \/ BeginAcquire(r)
      PROVE  [Authority!Next]_(Authority!vars)
  BY <1>7, FenceStepsMove, MarkerRefines, ProfileAssumption
<1>8. ASSUME NEW r \in Requests,
             \/ RecoveryAliasRefused(r) \/ GuardsRefused(r) \/ ClockUncertain(r)
             \/ ReleaseTerminalCapacity(r)
             \/ \E p \in Policies : BeginActivate(r, p)
      PROVE  [Authority!Next]_(Authority!vars)
  BY <1>8, QuietRefines
     DEF RecoveryAliasRefused, GuardsRefused, ClockUncertain,
         ReleaseTerminalCapacity, BeginActivate, durable
<1>9. ASSUME NEW r \in Requests, Mutations(r)
      PROVE  [Authority!Next]_(Authority!vars)
  BY <1>9, MutationsMutate, MutateRefines
<1> QED BY <1>1, <1>2, <1>3, <1>4, <1>5, <1>6, <1>7, <1>8, <1>9
        DEF Next, Mutations

LEMMA InitRefines ==
  ASSUME Init
  PROVE  Authority!Init
<1>1. IInv
  BY InitIInv
<1>2. {u \in Profiles : marker[u]} = {}
  BY DEF Init
<1>3. [r \in Requests |-> Stage(r)] \in [Requests -> {"absent", "doomed"}]
  <2> SUFFICES ASSUME NEW r \in Requests
               PROVE  Stage(r) \in {"absent", "doomed"}
    OBVIOUS
  <2>1. CASE row[r] = Absent
    BY <2>1, StageOver
  <2>2. CASE row[r] # Absent
    <3>1. row[r] \in LegacyRows
      BY DEF Init
    <3>2. row[r].status \notin Terminal /\ row[r].origin = 0
      BY <2>2, <3>1 DEF LegacyRows, Absent, Terminal
    <3> QED BY <2>2, <3>2 DEF Stage
  <2> QED BY <2>1, <2>2
<1>4. [r \in Requests |-> row[r].policy] \in [Requests -> Policies \cup {"none"}]
  BY <1>1 DEF IInv, TypeOK, Rows
<1> QED BY <1>2, <1>3, <1>4 DEF Authority!Init

(* The store keeps LeaseAuthority's promise: a profile is sealed before a  *)
(* request for it exists and until its last lease has ended, a grant fits  *)
(* the modes and capacity already granted, and no crash, unknown commit or *)
(* failed cleanup gives a lease of an earlier process authority again.     *)
THEOREM StoreImplementsAuthority == Spec => ImplementsAuthority
<1>1. Init => Authority!Init
  BY InitRefines
<1>2. IInv /\ [Next]_vars => [Authority!Next]_(Authority!vars)
  BY StepRefines
<1> QED BY <1>1, <1>2, Invariance, PTL
        DEF Spec, ImplementsAuthority, Authority!Spec
============================================================================
