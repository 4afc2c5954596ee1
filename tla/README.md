# Formal models of ctxlane

`ctxlane` (crate `aictx`) switches and isolates Claude Code and Codex accounts. Beside the
ordinary command line it carries a sealed *automation identity plane*: a service that leases an
account to an automated worker for a bounded time. The two meet in one place, the profile: while
a lease on a profile may still hold authority, no ordinary command may use or change that profile.

Around them stand the metadata store, the copy-only migration from the previous layout, and the
commands that keep a profile's credential in the operating system's keyring and hand it to a vendor's
program.

These modules specify those parts, model-check them with TLC on small instances and prove the main
safety properties of the automation plane with TLAPS for every instance. Paths below are relative to `src/src/`.

## The system

| Component | State | Operations | What is hard |
|---|---|---|---|
| Lease domain (`automation/lease*`) | one lease: status, authority (generation, wall and monotonic deadlines), high-water clock | activate, begin/acknowledge renewal, close, revoke, mark error, enforce deadlines, authorize launch, snapshot/restore | two clocks that disagree, late samples, acknowledgement racing expiry, policies that change at renewal |
| Profile locks and fences (`config/storage.rs`, `config/profile_fence*`) | advisory locks per alias, UID lifecycle and UID resource; one marker file per UID | ordered acquisition, conversion, prepare, recover, upgrade, clear | conversions that are not atomic, crashes and power loss between create, sync and unlink |
| Profile management and commands (`management.rs`, `runner.rs`, `commands.rs`, `doctor.rs`) | shared configuration, retired UIDs | add, edit, rename, remove (with rollback), run, login, logout, env, doctor | decisions on an entry read before the locks |
| Lease store (`automation/store/`) | SQLite rows and capacity reservations; fence guards, resource guards and cleanup latches in memory | open, recover, ready, acquire, activate, mutate, release, retry cleanup, prune | several durable steps per operation, commits of unknown outcome, leases of dead generations |
| Store loading and audit (`store/load*`, `records.rs`) | none; re-derives a lease from its row and audit log | load, verify history | writers and verifier must agree on every history |
| Retention, recovery enumeration (`store/retention.rs`, `store/recovery.rs`) | cutoff, cursor | prune, paginate | boundary of the cutoff, a replay after the pruning |
| Policy (`automation/policy*`) | none | intersection of signed order, authority, profile | every limit must be a minimum |
| Authority, attestation, contracts (`automation/authority*`, `attestation*`, `contracts*`) | loaded configuration; process identity | verify signature, attest a caller, parse | process identity that is reused, expiry |
| Configuration store, contexts, activation (`config.rs`, `config/upgrade.rs`, `management.rs`, `activation.rs`, `resolver.rs`, `model*`, forms of `tui.rs`) | `config.toml`, `state.toml`: profiles, contexts, bindings, the active context | initialize, load with upgrade, edit, rename, remove, bind, use | two files and one crash, decisions made on a snapshot, references by name |
| Migration (`migration*`) | journal of a copy from the v0.1 store, staged, target and archived trees | inspect, execute, roll back, recover | crashes between copy steps, other programs at the target, a legacy store that changes |
| Vendor commands and secrets (`runner.rs`, `commands.rs`, `secret.rs`) | keyring entry, vendor login, child processes, terminal modes | run, login, logout, check, prompt | a keyring and a vendor that fail apart, deadlines, signals, a wrapper that is killed, hidden input |
| CLI, shell text, binary lookup, drawing, doctor's checks | none | parse, render, look up | presentation |

How they interact: an ordinary command reads the configuration, takes the alias, lifecycle and
resource lock of its profile, looks for the marker, compares the profile with the configuration
again and then works with the locks held. The service takes the alias and the lifecycle lock of a
profile exclusively, publishes its marker, converts the lifecycle lock to shared and only then
commits a lease row. A lease ends by a commit that ends the row and its capacity reservation
together; after it the store converts the lifecycle lock back to exclusive, reads the blockers again
and unlinks the marker. When a service dies, the next one takes over the locks of every marker it
finds, ends what earlier generations left, and becomes ready when nothing is left.

What makes each part correct:

- lease: authority never outlives the signed session on the monotonic clock, a renewed generation is
  not used before it is acknowledged, a terminal lease stays what it is, and the domain never produces
  a state its own restore refuses;
- fence: unresolved lease state implies a durable marker; no command uses such a profile, and its
  configuration entry does not move;
- store: rows, reservations, markers and guards agree through every failure; authority is granted
  only within mode and capacity, and never under a deferred cleanup; the loader accepts every history the
  writers commit, and retention forgets only what cannot be used again;
- metadata: the two files fit each other at every moment, identities are persisted before they are used,
  and the active context changes only as the operator was shown;
- migration: a command sees no store or a whole one, what another program keeps at a target stays, the journal
  knows what is on disk;
- vendor commands: a result that says success is true of keyring and vendor, a stored credential is not
  replaced unasked, no child and no wait is left behind, the terminal comes back.

## Modules

| Module | Models | Kind |
|---|---|---|
| `Lease` | `lease.rs`, `lease/{clock,activation,snapshot,snapshot/validate}.rs` | one lease, one action per operation |
| `LeaseProofs` | | theorems about `Lease` |
| `MCLease` | | instance for TLC |
| `ProfileFence` | `config/storage.rs`, `config/profile_fence*`, `management.rs`, and the locking part of `runner.rs`, `commands.rs`, `doctor.rs` | processes, locks, markers, crashes |
| `ProfileFenceProofs` | | theorems about `ProfileFence`, with and without what commands rely on |
| `MCProfileFence` | | instance for TLC |
| `LeaseAuthority` | what the store promises | abstract specification |
| `LeaseStore` | `store/{sqlite,sqlite/insert,fence,capacity,activation,lifecycle,ownership,recovery_mutation,retention}.rs` | the store with its failures; implements `LeaseAuthority` |
| `LeaseStoreProofs` | | theorems about `LeaseStore` |
| `MCLeaseStore` | | instance for TLC |
| `LeaseHistory` | `store/{load,load_parse,load/audit,records,lifecycle,lifecycle/persist,activation,recovery_mutation,retention}.rs` | extends `Lease` by the committed row, its audit log, recovery and retention |
| `LeaseHistoryProofs` | | theorems about `LeaseHistory` |
| `MCLeaseHistory` | | instance for TLC |
| `Metadata` | `config.rs`, `config/upgrade.rs`, `model/validation.rs`, `management.rs`, `activation.rs`, `resolver.rs`, callers in `commands.rs`, `tui.rs` | two files, several processes |
| `MetadataProofs` | | theorems about `Metadata` |
| `MCMetadata` | | instance for TLC |
| `MigrationContract` | what a migration promises to commands | abstract specification |
| `Migration` | `migration.rs`, `migration/{journal,recovery,filesystem}.rs` | one migration with crashes; implements `MigrationContract` |
| `MigrationProofs` | | theorems about `Migration` |
| `MCMigration` | | instance for TLC |
| `VendorRun` | `runner.rs`, `commands.rs`, `SecretManager` of `secret.rs` | processes and their vendor children |
| `VendorRunProofs` | | theorems about `VendorRun` |
| `MCVendorRun` | | instance for TLC |
| `SetupTokenPrompt` | the hidden prompt of `secret.rs` | one prompt and its terminal |
| `MCSetupTokenPrompt` | | instance for TLC |
| `SetupTokenPromptProofs` | | that the terminal is always restored and an accepted token is what was entered |

### `Lease`

`lease` is the `Lease` struct without its immutable binding: status, reason, high water (`last`) and
`ResolvedAuthority`. An operation that fails leaves the clock it observed, as the code does, so each
action is `Enforced` (the deadline check that may end the lease first) composed with the operation's own
effect. Time is in whole seconds and every operation takes an arbitrary sample, so wall clocks jump in
both directions and samples arrive late; the service generation of a sample may be wrong.
`PolicyBound` stands for the equality of all the fields `validate_policy_binding` compares. Two ghosts,
`launch` (the last admitted launch) and `acked`, let properties speak of history. `SnapshotRestores` is
`LeaseSnapshot::into_lease` with the checks of `snapshot/validate.rs`.

### `ProfileFence`

An ordinary process goes through `Begin` (reads the configuration with no lock), `AcquireLock` (one lock
per step, in the code's path order), `CheckMarker`, `Use` or the operation itself, `Leave`. The service
goes through the steps of `prepare`, `try_upgrade_for_clear`, `downgrade`, `clear` and recovery. flock
conversion is two steps because the kernel drops the old mode first (`storage.rs` 245-283). A marker is
`dirty` until it and its directory are synced, and `PowerLoss` decides what of it was written. A lease is
only a UID in `blockers`. `doctor` never compares its entry again, and its report promises nothing, so
`UseFrozen` leaves it out. A command's use ends with its process: a vendor child that outlives a killed
parent (`runner.rs` `spawn_inherited`) is outside the model, and so is the resource lock's use by the
service, which `LeaseStore` has.

### `LeaseStore` and `LeaseAuthority`

`phase` is the typestate `RecoveringStore`/`ReadyStore`; `row`, `cap`, `marker` and `gen` survive `Stop`,
`fence`, `res`, `hard`, `retryable` and `uncertain` do not. One process runs one operation at a time, so an
operation with several durable steps is a chain of actions linked by `todo`, and `Stop` may fall between
them. `ClearOutcomes` is `try_clear_profile_fence` with all its branches: for each it gives what is left of
the guard, the marker and the latches. `Uncertain` is a commit that returned an error: the rows may or may
not have changed. `into_ready` consumes the store, so its refusal is `Stop`. Clock and deadline decisions are
left to `Lease`: an operation that could meet a deadline may here end the lease as `Expired`. A lease and its
client request are one name. Row versions are left out here; they are in `LeaseHistory`.

`LeaseAuthority` has three variables: the sealed profiles, how far each request has come, the policy of
each grant. The mapping takes the markers on disk for `sealed` and derives the stage of a request from its
row and the newest generation.

### `LeaseHistory`

`lease` and its operations come from `Lease`; this module adds what a transaction writes with them. `row` has the
row's own columns (version, audit sequence, clock sequence and the wall times of its events), `audit` is the
append-only log, `globals` the rows of the audit records of no lease (a set, as the loader checks each by itself).
A wall time that a row does not have is `NoTime`, which no clock shows. `Persist` is `persist.rs`: a new version when the lease
or its clock changed, an event for the transition, the time columns it stamps. `LeaseLoads` is the loader: it
restores the domain lease, replays the log from its first event (`InitialAccepted`, `TransitionAccepted`,
`ActorAccepted`, `GenerationAccepted`) and compares the last event and all times with the row. Every mutation
loads first, so a row that does not load can never be repaired through the store. `Restart` and
`TerminalizePriorGeneration` are recovery, `PruneRetained` is retention. A call with another row version writes
nothing and has no action. Refusal codes are one outcome; process rows, the recovery states REQUIRED and
RECONCILING, quarantine and failed caller authentication are columns and events no code of the repository writes.

### `Metadata`

`config` and `state` are the two files. Every coordinated operation holds the metadata lock from its first
read to its last write, so one that writes one file is one action; `update_metadata` writes the configuration and
then the state, and a death or an error falls between (`WriteState`, and `Idle` again without it). A command is an
`Ask` (it reads, upgrades if needed, and shows something to the operator) and a commit under the lock, on whatever
is there by then; `held` is the installation identity a process was last given. A file of the first schema decodes to
a new identity each time (`Decoded`), which is what `IdentityPersisted` is about. Names are numbers because removal
picks the first by order. Left out: the load for diagnostics, the drawing of the dashboard, names that collide after
case folding, duplicate bindings in a file, checks of a profile's own fields, the recorded paths of binaries, and
`load_state`/`update_state`, which only tests call.

### `Migration` and `MigrationContract`

The target layout is a sequence of anchors; each has a staged, a target and an archived tree. Every file
operation a crash may separate from the next is an action: creating the journal and writing it, creating a staging
directory and marking it, copying, renaming, recording the rename, verifying, removing the markers, removing the
journal; the same for the rollback (archive names are recorded before the rename) and for recovery. `mem` is the
journal in memory, `journal` the one on disk. `FileError` fails the step that is next, `WriteError` the rewriting of the
journal; either leads to the rollback as in the code. `Crash` is the death of the process, not a loss of power: the code syncs files, and a
lost directory entry is not modelled. One process runs at a time (the operation lock), commands hold the startup
guard. Any change of the legacy store is taken to be visible to the fingerprint.
Another program may make a directory at a target path (`MakeForeign`, kind `empty`) and put something into it (`FillForeign`, kind
`foreign`). The rename of a commit is a plain `fs::rename` after one check of all targets: on Unix it replaces a directory that is
still empty and fails on one that holds something (elsewhere it may fail on both, which is the second case at once). Other programs are
taken not to write inside a directory the migration itself has placed. `MigrationContract` is what a
command may see: `unmigrated`, `closed`, `migrated`; a partly committed target is none of them.

### `VendorRun`

The locks and checks of a command are in `ProfileFence`; here a lock is held or busy and a check may refuse.
`proc` is the command and how far it is, `child` its vendor child until it is reaped, `key` the keyring entry, `cache`
what the vendor keeps of a login. A preflight (`claude auth status`, the routing check) has a deadline and, when its output is
read, a reader thread; a foreground child is waited for and gets the wrapper's signals. `Kill` ends the wrapper
alone: the locks go, the child becomes an orphan that may still write the vendor's cache; `strayed` remembers that a
login or logout did, and the two properties about the cache except it, because no code can prevent it. An orphan of a `run` is
forgotten: that it goes on using a credential which a later login or logout replaces is a hazard no property covers. `Wait` is the
return of the wait for a foreground child, `WaitFails` its error; likewise `PollStatus` and `TryWaitFails` for a preflight. The
keyring entry is taken to be this profile's alone: the validation lets two profiles name one entry with `--secret-ref`, their
locks then differ, and the properties say nothing of them. `Situations` and the three
operators after it are the settings checks by what they decide, not by their texts. A child that got a signal is assumed to
end. Left out: a keyring edited by other programs, the environment's contents, vendor versions,
`ensure_codex_config`, Claude's project definitions, and a SIGTERM that arrives between the prompt's handler being dropped
and the forwarder being installed (the signal library swallows it).

### `SetupTokenPrompt`

Text is a sequence of marks (visible, quote, blank, newline, foreign). The terminal queues events and the prompt
polls; each mode change may fail; a panic may come at any point, and the guard's drop is an action. `TokenValid`,
`PasteAccepted` and the editing operators are the acceptance rules, and `DrainEvent` the look for further input after the
end. A drain is taken to poll at least once before its 250 ms pass. Labels and UTF-8 are left out; `prompt_secret` for
other credentials reads a line with a library and is not here.

## Runs

| Run | Configuration | Shows | Distinct states |
|---|---|---|---|
| `lease` | `MCLease.cfg` | the lease under every order of operations, samples, policies | 4,342 |
| `fence_failures` | `MCProfileFence.cfg` | one process against the service with crashes and power loss | 270,292 |
| `ordinary_race` | `MCProfileOrdinary.cfg` | two processes, all commands, no service | 258,486 |
| `store_one_profile` | `MCLeaseStore.cfg` | two leases of one profile, one possibly legacy; refinement | 62,798 |
| `store_two_profiles` | `MCTwoProfiles.cfg` | two profiles sharing a host dimension; refinement | 183,469 |
| `lease_history` | `MCLeaseHistory.cfg` | row, audit log, recovery, retention of one lease | 65,214 |
| `lease_history_early` | `MCLeaseHistoryEarly.cfg` | violation: a lease recorded before `not_before` | |
| `metadata` | `MCMetadata.cfg` | two processes over both metadata files | 360,377 |
| `migration` | `MCMigration.cfg` | three anchors, two deaths, one fault, one directory another program makes and may fill; refinement, liveness | 367,124 |
| `migration_interrupted` | `MCMigrationInterrupted.cfg` | violation: a death inside a step | |
| `vendor_commands` | `MCVendorRun.cfg` | two processes on one profile, one killed; liveness | 144,940 |
| `setup_token_prompt` | `MCSetupTokenPrompt.cfg` | every prompt of up to four events | 17,362,811 |

Bounds and why they are enough:

- `lease`: wall times 1..7 and monotonic times 1..6 enclose issuance (2, 1), every deadline the
  policies can produce and a moment past each; `MaxFencing` 3 lets two renewals happen and the third meet the
  end of the range, so exhaustion is reached. The four policies differ in ttl, session maximum, digest and
  binding: each branch of renewal is taken.
- `fence_failures`: one UID with a marker at a time is what a marker conflict needs, a second alias and UID
  make rename and add meaningful; `login` locks as `run` does but for the alias mode and `doctor` is not
  part of what is checked here.
- `ordinary_race`: the constraint keeps the service down because its interplay is the other run's subject;
  processes are symmetric (no action or property names one).
- `store_one_profile`: two leases are what a shared mode, a retained resource and a full dimension need;
  `MaxGeneration` 3 lets a lease made by one process be recovered by a second and the profile be used
  by a third. `LegacyRequests` makes one row predate the markers. `MaxGeneration` also bounds `Stop`, so that
  the last process runs on.
- `store_two_profiles`: the host dimension counts both profiles, each of its own fence; two generations.
- `lease_history`: issuance at wall 2 and monotonic 1, ttl 2 in a session of 4, the signed expiry at 6; the wall clock
  falls behind by two while the lease runs and jumps ahead to the signed expiry. `MaxFencing` 3 gives two
  renewals, `MaxGeneration` 2 one recovery, `MaxPrunes` 2 a record of a record; a retention of 2 with prunings at 4, 6
  and 8 puts events on both sides of the cutoff and on it, before and after the signed expiry.
- `lease_history_early` is the same under steady clocks with `not_before` one after issuance.
- `metadata`: three commands are what a decision, a change of what it was made on and its commit need; two
  profiles and two contexts give every reference something else to point to, nested directories give bindings precedence.
  The store at first is none or one of schema 1, which the first command turns into one of schema 2. Confirmation is on: off, every
  activation counts as confirmed.
- `migration`: three anchors are a first, a middle and a last commit; two deaths hit an execution and its
  recovery; two transactions let a second migration meet what the first left. One directory of another program is met at each anchor in
  turn, empty or filled.
- `vendor_commands`: two processes and two secrets are a login against a login; one kill. Every way of
  authentication is an initial state.
- `setup_token_prompt`: four events and one queued hold an entry, a correction, an end and something after it; a secret of at
  most three marks is reached and passed by the pastes. Esc and Ctrl-C end the loop as a signal or an error does and are left out.

Every action and every disjunct of a next-state relation fires in some run.

**Fairness.** `LeaseStore`, `ProfileFence` and `Lease` assume none and claim no liveness: the repository has no service loop, every
operation of the store is called by a future service, and no code here promises that a cleanup is retried.
`VendorRun` assumes weak fairness of the wrapper's own loops (`PollStatus`, `PollOutput`, `PollDeadline`, `Forward`, `Wait`),
of time (`Late`) and of the end of a child that was signalled; none of a vendor's child otherwise, nor of a pipe reaching its end, nor
of a failing wait (`WaitFails`, `TryWaitFails`). `Wait` is enabled only once the child has ended, so a foreground wait without a signal
may last for ever, as in the code: what ends is a preflight (`PreflightsEnd`) and a wait whose wrapper got a signal (`SignalEndsWait`).
`Migration` assumes weak fairness of the running process (`Execute`, `Resolve`) and that the operator runs `migrate recover` while
a journal is there (`Recover`), which is what the guard's error message tells them to do; none of crashes, faults or
commands.

**Symmetry and deadlock.** `ordinary_race` permutes its processes, `metadata` processes and installation identities; both check
only safety. Deadlock is not checked in the runs that end: `lease_history`, `metadata` and `migration` by their bounds, `setup_token_prompt`
because a prompt ends. It is checked in all others.

### What the two violation runs show

- `migration_interrupted`: `migration.rs` 262 says "A non-secret journal makes interruption recoverable." It does unless the
  death falls inside a step: between creating the journal file and writing it, between creating a staging
  directory and its owner marker (`migration/journal.rs` 260), or midway in `remove_dir_all` (`migration/recovery.rs` 298).
  Then `migrate recover` refuses every time and commands stay locked out. `IntactIsResolved` is what does hold.
- `lease_history_early`: `docs/automation-identity-plane.md` 347 says the store "reconstructs every status on exact replay".
  `begin_acquire` does not compare the moment of issuance with the signed `not_before`, policy evaluation does at its own later
  moment, and the loader asks again whether the order was valid at issuance (`store/load.rs` 423). A lease recorded early
  and activated later is committed and can never be loaded, which closes the store. `lease_history` has `not_before` at
  issuance, and there every history loads.

## Proofs

Eight modules, one for each of `Lease`, `LeaseHistory`, `ProfileFence`, `LeaseStore`, `Metadata`, `Migration`, `VendorRun` and
`SetupTokenPrompt`, prove each invariant, each action property of the form `[][A]_vars` and each refinement that the passing runs
check, for every value of the constants under the named assumptions in the modules.

- **Lease.** `IInv` is the types, snapshot validity, the launch ceiling, the acknowledged generation and two
  strengthenings: the acknowledged generation follows the authority's (equal when `Active`, one behind when
  `Renewing`), and a launch is never ahead of the high water. Snapshot validity carries the argument: it keeps
  both maxima below the signed bounds, which a renewal can only lower. Each operation is the deadline check
  followed by its own effect, so lemmas about the check are proved once.
- **LeaseHistory.** A load compares the log with the row, so a row is safe only if what each transaction appends is what
  the replay would have accepted: nothing here follows from one writer alone. The argument has two halves that meet in
  `Move`. The lemmas named `...Moves` say that every operation of the domain, at any sample, only ticks the clock, refuses,
  activates, renews, confirms or ends, and what each of these gives (the deadline the sample was short of, or the one it had
  reached). `CommittedPreserves` and its lemmas say that the event, the columns and the log of such a move load again. In
  between stands `MovesArePersistable`: `persist` rejects none of them. `HistoryInv` adds to `HistoryLoads` the types and
  `LogNotAhead`: no event carries a fencing generation newer than the lease's, which is why a renewal's time is unique,
  and none a service generation newer than the open store's. `HistoryInvariance` has the premise `IssuedInTime`, the work
  order's `not_before` is no later than the issuance; `lease_history_early` shows that the code does not ensure it, and
  the proof that nothing else is missing. `VersionNamesState` and `ForgottenIsSpent` hold without it. That the least and
  the greatest time a pruning records exist and are in order (`TimeBounds`) is again the well-foundedness of the naturals.
- **ProfileFence.** `IInv` adds lock exclusion, that a process which checked the marker under a lifecycle
  lock still sees none, that each guard of the service implies the locks it retains, what each step of a fence
  operation implies about marker and locks, and that a present marker names its alias. The window in a lock
  conversion is why `NoOverlap` needs the process's own marker check as well as the lock.
- **Commands.** The second half of `ProfileFenceProofs` proves `UseFrozen` and `RollbackPossible` with or without a service (the run checks them
  while it is down). Two commands that could disturb each other share a lock that one of them holds
  exclusively: `LocksFit` says that each lock is held in the mode its command asks for, and that a checked command holds
  all it needs; `ChangesHeld` says which lock a change of an entry is made under.
- **LeaseStore.** The properties are not inductive alone, because an operation is cut in two wherever it has two
  durable steps. `IInv` adds what holds between the steps: generations in rows never run ahead of the database
  (`Generations`), a reservation is held exactly while its row is live (`CapacityLive`), markers and guards go
  together while a process is up (`MarkersGuarded`), the step that waits in `todo` still finds what the
  one before it established (`StepKnown`), and a fence nobody needs is latched or about to be cleared
  (`LeaksLatched`). The proof is one lemma for what any outcome of clearing a fence respects (`ClearTidies`), one
  for steps that move guards and markers (`SettleKeeps`), one for commits (`CommitKeeps`), and a short lemma per
  action that meets their hypotheses. `StoreImplementsAuthority` maps each step: opening to `Restart`, marker
  steps to `Seal` or `Unseal`, the two commits of an acquisition to `Request` and `Grant`, ends to `End`, pruning to
  `Forget`, all else to stuttering. `Grant` is where it needs the most: the modes in memory are those of
  the rows (`LiveGuarded`) and every granted lease holds a reservation (`CapacityLive`), so that the count the
  transaction makes bounds the number of grants; that count is the one place that needs `Requests` finite.

- **Metadata.** `IInv` says that the files fit now (`Files`), that at most one process is between them (`Alone`), that what
  it has still to write fits what it has written (`Between`), and that a request keeps what its confirmation was given on
  (`Asked`). Every operation is one of two writes with other fields changed, so `ConfigKeeps` and `MetadataKeeps` carry the
  step. `ConfirmedShown` is the heart of `SelectionsConfirmed`: the confirmation compared under the lock is the change made.
  `AlwaysLoadable` needs a longest binding to exist, which is the well-foundedness of the naturals.
- **Migration.** Between two file operations `IInv` ties the place of the process to the trees: what a transaction has staged
  and placed (`Staging`, `Committing`), how far a rollback or a finalization is (`Resolving`), that the journal, on disk and in
  memory, matches the trees (`Consistent`), that every copy is of one version (`Uniform`), and that without a journal the
  target is unmigrated or complete (`Whole`). `TransactionStep`, `FailKeeps`, `ResolveStep` and `RestKeeps` say once what a
  step, a failure, a step of a rollback and an end have to show. `ContractStep` maps the only moments a command sees.
- **VendorRun.** All processes but the holder of the profile lock are at rest (`Holding`). For the holder, its place fixes
  which child may be alive (`ChildPlaced`), which credential it holds (`KeyHeld`) and what a child that ended well has
  left in the vendor's cache (`CacheHeld`); `MainHasStored` and `ResultsTrue` follow from these only together.
- **Prompt.** `PromptInv` says for each place of the prompt which modes are on and which failed exits were already
  tried; the terminal's restoration follows for a prompt of any length. `AcceptedIsEntered` compares the value with the text of
  all events, so `EntryInv` splits the events sent into those read and those queued (`sent = done \o queue`) and says of
  those read what the input keeps of them: unless something was rejected, the value is their visible characters, up to
  one for each correction (`Entered`), and the state of the input tells whether the line they end on may go on (`Placed`).
  `Placed` is what the property needs to be inductive: a blank is harmless when it comes and only the character after it
  makes a gap. `EditedKeeps` carries both over one event, with a lemma for each kind. Between the end of reading and the
  restoration an ignored event counts as read, any other as extra (`ReadWell`). What the texts are is computed by
  `Joined`, a recursive function: `JoinsExists`, `JoinedLast` and `JoinedConcat` say what it computes.

The assumptions are the named ones of the modules and nothing else: `LeaseStore` wants finitely many requests, a profile for
each, a mode and limits for each policy; `Metadata` wants paths that are sequences and initial files that decode to valid
configurations; `VendorRun` wants its absent credential and process to be none of the real ones; `SetupTokenPrompt` wants pastes to
be sequences of marks.

Only model-checked: the liveness properties `PreflightsEnd`, `SignalEndsWait` and `IntactIsResolved`. Liveness under fairness and `ENABLED` are out of the
prover's reach, and so are `RECURSIVE` operators and the library's theorems of induction. Where a proof needs induction (`Joined`,
`TimeBounds`, the longest binding of `Metadata`), it takes the least number that fails, which exists because the naturals are well founded.
The two properties that `lease_history_early` and `migration_interrupted` violate are not theorems, of course.

## Observations

- `Migration`: the refusal at `migration/filesystem.rs` 371 says "migration never overwrites a target". The targets are checked
  once (`migration/journal.rs` 305) and each staged tree is then renamed with `fs::rename` (309), which on Unix replaces an
  empty directory. One that another program makes in between is replaced, and the migration goes on and succeeds
  (`MakeForeign`, then `CommitRename`). What does hold is `ForeignUntouched`: what another program has put into such a directory
  is never moved, changed or removed.
- `ProfileFence`: an add needs no lifecycle lock, because a UID that is neither configured nor retired
  cannot have a marker with a lease behind it.
- `LeaseStore`: a failed read during the cleanup of one shared lease leaves its guard in memory; closing a
  sibling then finds guards that differ from the rows and latches hard until restart. Conservative, and no
  document says otherwise.
- `LeaseStore`: a retryable latch may exist for a profile without a fence guard; the next retry clears it.
- `Metadata`: `docs/command-reference.md` 43 says of `context edit` "A changed account selection uses the same confirmation policy as
  `ctxlane use`." The edit compares the context's profile names with those that were shown (`management.rs` 318, `tui.rs` 484) and
  `use` also their fingerprints: a profile edited between review and confirmation goes through an edit where `use` refuses.
- `Metadata`: a death after `initialize` and before the paths of binaries are recorded (`commands.rs` 537) is not made up
  for by a second setup; lookups then use the search path.
- `Migration`: a failure after the journal says verified is rolled back while the journal still says verified
  (`migration/journal.rs` 320); a death in that rollback leaves a journal that recovery refuses.
- `LeaseHistory`: a wall clock that is set back after a pruning can make an order valid again whose request was
  forgotten; `ForgottenIsSpent` is about the clock that pruned.
- `SetupTokenPrompt`: a Backspace after several blanks, or after an Enter, removes a visible character where a literal line editor would remove
  the blank; nothing of it is visible to the user, so the property only bounds what corrections can lose. A signal
  taken during the drain and followed by an I/O error is reported as that error; nothing is stored either way.

## Not modelled, and the plan

Not modelled by choice: SQL text, pragmas, file permissions, serialization formats, signatures,
presentation; see also what each module above leaves out. Not yet modelled, in the order planned:

1. `CapacityTable`: slots of a dimension (`first_available_slot`, legacy rows without slots, limits that
   change between claims) against an abstract pool, with the pigeonhole argument as a theorem.
2. `PolicyEvaluation`: the intersection of `policy.rs` against a reference definition over bounded inputs.
3. `Attestation`: per-message identity and process evidence on both platforms; `RecoveryPages`: the cursor of
   `store/recovery.rs` over immutable lease identifiers (candidates only leave the set and `into_ready` asks the rows
   themselves, so a skipped one could only delay readiness).
4. `Contracts`: the parsing of requests and readiness, as far as it has state.
5. A composition of `Lease` with `LeaseStore`, deadlines included, implementing `LeaseAuthority`.
