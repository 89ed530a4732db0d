# m-ui in TLA+

Specifications of the core of m-ui, the panel that publishes configurations to
a Mihomo proxy: TLA+ modules translated from the Go code, TLC models of small
instances, and proofs that the TLA+ proof system checks for every instance.
Paths below are relative to the repository.

## The system

m-ui keeps its desired state (endpoints, nodes, users) in SQLite, renders it to
one YAML file, and runs or steers Mihomo with it. Everything that changes the
file, the process or the core binary holds one coordinator.

| Component | State | Operations | What makes it correct |
|---|---|---|---|
| publication transaction (`internal/publisher`) | active YAML, `revisions/<id>.yaml` and `.json` | `Publish`, `Rollback`, `reconcileCommit`, `failAfterReplacement`, `prune` | database, artifacts, file and process agree after any failure; a failed publication is not durable; retained revisions can be restored |
| startup reconciliation (`internal/publisher`, `internal/app`) | degraded mark, R3 cutover | a pass before the runtime, a pass after it, and one in the finalizer of a native Mihomo | a crash is repaired; what cannot be repaired is marked before anything else runs |
| managed store (`internal/store`) | the rows of all the above | one immediate transaction per publication | at most one active revision, replaced with the desired state |
| runtime boundary (`internal/service`, `internal/app/commands.go`) | pending endpoint restart | start, restart, reload, finalize | the marker is cleared by the Mihomo that runs with the new endpoint |
| expiry scheduler (`internal/scheduler/expiry.go`) | none | a batch a minute | expired users leave the configuration |
| runtime operation coordinator (`internal/operation`) | token, file lock, active flag | `Acquire`, `TryAcquire`, release | one holder on the host, no lost token |
| supervised Mihomo process (`internal/mihomo/managed.go`) | desired, active, generations, recovery flags | start, stop, abort, wait, recovery loop | an exit of a desired process always has an owner |
| startup readiness, lifecycle marker (`internal/mihomo`) | lease and ready tokens, marker file | begin, publish, guard, finalizer preflight | Mihomo starts only behind the panel that is ready now; the hook waits for nobody that waits for it |
| core manager (`internal/core`, `internal/scheduler/core.go`) | `current`, `backups`, staging, sentinel, core rows and settings | check, update, rollback, bootstrap, adopt, recover, settings, the scheduler of updates | a failed update leaves the old core or a stop that every process respects; the replaced core is kept until the new one is committed |
| management service (`internal/service/management.go`) | none of its own | node, user and settings operations, each a publication | conflicts are seen, not overwritten; the halves of a key pair stay together |
| endpoint settings (`internal/store/managed.go`, `internal/app/app.go`) | settings in force, pending and applied endpoints, each with a generation | save, roll back, clear a restart requirement, the start of the panel | a process runs with the stored endpoints or a restart is required (which the code breaks in two ways, below) |
| authentication (`internal/auth`, `internal/store/bootstrap.go`, `auth.go`) | admin, sessions, setup capability | setup, login, logout, password change and reset | one setup succeeds; nobody who was refused holds a session |
| login limiter, password hashing, domain, protocols, web, CLI, logging | none, or a cache | validation, rendering, transport | |

They interact through calls under the coordinator (management, scheduler and
startup call the publisher; publisher and boundary drive the process), through
the database (the boundary clears a marker that a publication set), through
files (the process reads the YAML a publication renamed), and through the init
system, which starts Mihomo behind the readiness token and runs `m-ui runtime
finalize-mihomo-start` after it. What is hard:

- a publication writes a file, a process and a database that have no common
  transaction, and any of its steps may fail, COMMIT with an unknown outcome;
- the panel may die between any two steps, and Mihomo may survive it;
- the desired state renders differently as users expire;
- the YAML may be edited by hand;
- startup runs in two passes with the start of Mihomo between them, and must
  complete a protocol cutover on the way;
- the finalizer is another process, and finds what happened since the process
  it belongs to was started;
- the core is a directory that is replaced by renames, with a row, a marker file,
  a mark and a flag of the process that must say the same about it;
- forms and requests of several browsers, of a command and of a scheduler were
  computed from what was true when they were loaded;
- panels, commands and the service's hook wait for each other's files and locks
  and may die with them;
- the supervised Mihomo exits when it likes, and four goroutines meet over it:
  an operation, the one that waits for the child, the recovery loop and the one
  that ends everything with the panel.

`PROJECT.json` lists these as hazards, each at its line, with the properties
that cover it or the reason none does yet. Some more that the models reach are
not in that list: a stop undone by a recovery that waits behind it, archives no
row names, a probe of the lifecycle marker that makes a start fail, the two
statements of `BootstrapState`, an audit record after a committed password, a
start of the panel that ends before it clears its requirement.

## Modules

| Module | Contents |
|---|---|
| `Publication` | publication transaction, startup reconciliation, store rows, runtime boundary, expiry; one job at a time interleaved with crashes, exits, edits and the clock |
| `Configuration` | abstract specification: what a publication promises |
| `MCPublication` | its instances |
| `Publication_proofs` | theorems about it and the refinement proof |
| `Lease` | abstract specification: what the coordinator promises |
| `Coordinator` | `internal/operation`: token channels, file lock, active flag |
| `MCCoordinator`, `Coordinator_proofs` | its instances and the refinement proof |
| `Supervisor` | the supervised Mihomo process, its recovery loop and the operations that drive it |
| `MCSupervisor`, `Supervisor_proofs` | its instances and theorems about it |
| `CoreManager` | the managed core: the directory, its row, the blocks, operations of two processes, settings, the scheduler |
| `Nodes` | nodes, users and the forms that change them; expiry and rollback as one step each |
| `Accounts` | administrator, setup capability, sessions; one action per statement |
| `Readiness` | the lease, the ready lock and the lifecycle marker, with panels, a command and the hook |
| `Endpoints` | endpoint settings, both restart requirements, the start of the panel, restarts of Mihomo |
| `MCCore`, `MCPanel` | instances of `CoreManager`; of the five together |
| `CoreManager_proofs`, `Nodes_proofs`, `Accounts_proofs`, `Readiness_proofs`, `Endpoints_proofs` | theorems about each |

`Publication` and `Supervisor` take the coordinator for granted: `pc = "idle"`,
and `job.kind = "none"`, is "nobody holds it", and a job starts only then.
`Lease` states that assumption and `Coordinator` is proved to implement it.
What is a step of `Publication` (a supervised Mihomo restarts, stops, exits) is
taken apart in `Supervisor`, which knows nothing of files and rows. `Nodes` and
`Endpoints` do the opposite: a publication is one step there, and what matters
is who computed it from what. That it may be one step is what `Configuration`
states and `Publication` is proved to implement. `CoreManager` has the coordinator as `job`, and
`Readiness` has the coordinator as one more lock.

`MCPanel` puts the five parts of the last group into one instance. They share no
variable; each behaviour is one of a single part (`part`), so that their state
spaces add instead of multiplying. Nothing is claimed of their product beyond
that: what one part needs of another is a step of its own module (`OtherHolder`
and `Reconcile` in `CoreManager`, `Operate` in `Readiness`, `Rollback` in
`Nodes` and `RollbackEndpoints` in `Endpoints`).

### Publication

State. `desired` is the managed desired state, abstracted to a node section and
the endpoint Mihomo listens on; a rendered YAML has the same form, and
`Compile` is what rendering does to it that matters here: it drops users that
have expired at the effective time. A section whose expired users are disabled
renders like one without them. `status` and `digest` are the rows of
`config_revisions`, `archive` and `snapshot` the two artifacts of a revision,
`yaml` the active file, `running` what Mihomo read when it last started or
reloaded. `degraded` is the cause in `system_state`, `r3` the pending cutover;
`pending` and `applied` are the endpoint restart marker and the endpoint it
compares with. `phase` is how far the panel's startup is: `down`, `prerun` (the
pass before the runtime), `starting` or `held` (a supervised Mihomo is started,
or held back because that pass said degraded), `serving`, then `steady` or
`readonly` (with or without publications in the background).

A job walks through `pc`, and `job.goal` says which way it writes:

| Goal | Code | Path |
|---|---|---|
| `forward` | `publishLocked` | candidate, archive, snapshot, insert, replace, reload, health, commit, prune |
| `restore` | `failAfterReplacement`, `restorePrevious` | replace or remove, reload, health, record, prune |
| `republish` | `reconcileCommit`: durable, but the old file | candidate, replace, reload, health, prune |
| `repair` | `reconcileStartupLocked`: the file differs | candidate, replace, reload, health, settle, clear |
| `verify` | `reconcileStartupLocked`: cutover, or degraded | candidate, reload, health, clear |

A request (`Publish` and its callers) is one step up to the candidate file: it
reads under the coordinator and inside BEGIN IMMEDIATE and writes nothing. A
request that is refused, or whose state does not validate, leaves no trace and
is a stutter, except one: an active revision that fails its integrity check
marks the system degraded (`RefuseUnverified`). A COMMIT is one step, or an
error after which the transaction is durable or not (`uncertain`). A rename may
fail before or after it happened. `Validate`, `Reload` and `WaitHealthy` are
Mihomo's answers. `prune` removes a file, a file and a row in three steps, for
each row. The crash of the panel loses the open transaction; a supervised
Mihomo dies with it, a native one may survive, with its finalizer.

Abstractions: audit rows, reasons and wording are left out; the safety gate of
the core manager only refuses requests and is left out; in the cutover,
clearing an earlier `r3` mark and beginning the baseline are one step (a crash
between them returns to the same case); a boundary action of the command line
is taken for one of the panel (both hold the coordinator); the panel's own
endpoint, and Mihomo's connect address, which does not change, are left out.
A publication that fails before it writes a row and one that is never asked
for are the same.

### Coordinator

A task is a goroutine of a process. `token` is the channel with one token,
`ahead` the order in which the runtime serves goroutines that wait on it,
`lock` the flock, `at` where a task is. A release takes three steps, in the
order of the code: unlock, clear the flag, send the token. `Die` is the death
and restart of a process at any moment; the kernel drops its lock.

### Supervisor

State. `command` is `commandGeneration`, 0 without a command; `active` is set
and cleared with it in the same sections, so `Active` is `command # 0`.
`running` is the children alive, which the code does not see before `wait` has
reaped them (`Reap`); `foreign` is a Mihomo that an earlier panel left behind.
`desired`, `restarting`, `recoveryPending`, `exitGeneration` and
`recoveryGeneration` are the fields of those names, `loop` and `attempt` where
the recovery loop is, `root` the panel's context.

Every section under the mutex is one action, and anything may happen between
two: `Stop`, its signal and its poll; `StartAttempt` up to the scan of `/proc`,
and its second section with `startLocked`; the health check; `AbortAttempt`,
its signal and its poll. They are the steps of `job`, the operation that holds
the coordinator: a boot, a start, restart or stop (a reload is a restart), a
publication or core update that restarts without an attempt and may restart
again or stop when it fails, and the callback of the recovery loop. The loop's
own sections do not hold the coordinator; nor does `ShutdownStop`.

Abstractions: backoff times, as any delay is possible; the log lines; how
`/proc` is matched to a process. SIGTERM and SIGKILL are one signal, and a
child that has one ends at some time. `recovery = nil` does not occur: the
application sets it before it starts anything.

### CoreManager

State. `current`, `backups`, `staged` and `failed` are the directories of
`core/`, each the build it contains; `row` and `settings` are `core_state` and
`core_settings`. `sentinel` is the marker file, `degraded` the mark in
`system_state`, `failClosed` the flag of each process; `Blocked` is what the
operations and the publisher's safety gate ask. `job` is the operation that
holds the coordinator, `at` its next step and `seen` the row it has read and
will write back whole: `ReadRow` and `Write` are two steps, as in the code.
`save` is a settings request, which takes no coordinator, or the check that a
start schedules. `good`, `replaced` and `unsafe` only observe.

| Actions | Code |
|---|---|
| `CheckCore`, `UpdateCore`, `RollbackCore`, `Bootstrap`, `Adopt` | the guards of `Check`, `Update`, `Rollback`, `Bootstrap`, `AdoptExternal` |
| `MarkUpdate`, `Resolve`, `SaveCheck`, `SaveNoop`, `Stage`, `Validate` | `updateLocked`, `checkLocked` |
| `Backup`, `Switch`, `Prune` | `FileStore.Activate` |
| `Restart`, `Commit`, `Remove`, `Restore`, `Swap`, `Again`, `SaveRestored` | the rest of an activation and `restoreAfterFailure` |
| `MarkFailClosed`, `MarkDegraded`, `RecordFailure`, `ClearMarker` | the end of a failed one |
| `Start`, `Reopen`, `SetMihomoBinaryPath`, `ScheduleStartupCheck`, `Crash` | `Recover` and the start of a process |
| `AskSettings`, `ReadSettingsRow`, `SaveSettings` | `UpdateSettings` |
| `Look`, `UpdateReturns`, `Wake`, `Poll` | the scheduler's loop |

Any step may fail where `Faults` says so. Left out: a second failure inside the
undo of a failed rename (the old core cannot be renamed back), more than one
left-over of a restore, a manifest that does not parse. What the model shows and
a reader may not expect: a start after a crash takes the core it finds for the
current one, verified or not; a bootstrap with the core that is current changes
nothing and lifts no block; the flag of the panel survives a command's bootstrap
until the panel starts again; the start of a panel clears the database's mark
but not the marker file; a crash between the adoption and the settings leaves
the binary path external. Backups exceed two as long as pruning fails.

### Nodes

`nodes` is the desired state, `revisions` the snapshots a rollback may return
to, `forms` what each tab shows and will send: the secret of a node is `Hidden`
in an answer, and `Submit` keeps the stored one for a form that sends none
(`preserveNodeSecrets`). A pair is one value and each of its halves names it: a
new pair is one that belongs together, generated or given, for `nodeFromSpec`
does not compare the halves it is given.
`Valid` is the rule of `DesiredState.Validate` that a handler cannot see coming:
an enabled node has an effective user today. `UpdateUser` and the other user
handlers count a generation of the node and ask for none, as in the code; a
client that omits the generation skips the check, and the interface never does.
Names, ports and the other rules of validation only refuse.

### Accounts

`admin` counts the passwords the administrator has had, so that a session names
the password that was verified for it. `call` is a request and its next
statement, `told` the answer. The context of a request ends with the browser
(`HangUp`), after which any statement may fail, the deletion of a session whose
audit failed too. One session per caller; a COMMIT that returns an error is
taken for not durable; `ReadBootstrapToken` and `RotateBootstrapToken` are used
by tests only. `late` exempts a login that verified the old password while it
was being replaced: its session survives, as in the code.

### Readiness

Locks are held exclusively by one process or shared by several, and end with
their process. A panel takes the lease, looks at the ready lock, names the
lease, resets readiness, recovers under the coordinator and publishes
(`TakeLease` to `PublishReady`); a guard shares the lease, reads it, tries the
ready lock and compares (`ShareLease` to `CompareTokens`); an operation marks
itself, starts the service and waits for it and its hook (`Mark` to
`ServiceAnswers`); the hook probes the marker, answers "handled" or takes guard
and coordinator itself (`ProbeMarker` to `Finalize`). What the finalizer does to
the markers of an endpoint is `Publication`'s. The branch of the hook that finds
the marker taken again behind the guard (`Reprobe`) is in the model although an
operation that could take it has to have the coordinator.

### Endpoints

`active`, `applied` and `waiting` are the three tables, each with the
generation; `drafts` are forms, which keep the generation they were loaded with.
The panel's start reads its settings twice (`LoadSettings`, `ReadEndpoints`)
before it listens and clears its requirement; a restart of Mihomo reads what is
pending, restarts and clears (`Expect`, `RestartMihomo`, `ClearMihomo`).
A reload by a publication that changes no endpoint is left out: Mihomo reads the
address of its controller when it starts.

`MarkersAgree` has three parts. `PendingIsDifference`: the pending row is exactly
what differs from the applied endpoints. `GenerationNamesEndpoints`: a form of
the current generation shows the current endpoints. `RequirementsKept`: of all
steps only two may leave a process with other endpoints than the settings and no
requirement that says so. Both are real, since a pending row is a difference
from the applied endpoints and not from those of a process:

- a save or rollback returns to the applied endpoints, and `ReplaceDesiredState`
  deletes the row (`store/managed.go:1310`), while an earlier restart that did
  not clear its requirement left Mihomo on the other ones, or the panel was
  starting with them;
- the two reads of a start of the panel differ, and it clears the requirement of
  the second (`app.go:107` and `:423`).

`MihomoMarkerHonest` and `PanelMarkerHonest` say that there is no such way; TLC
violates both. `RequirementsKept` also says that Mihomo leaves the applied
endpoints only by a restart that a requirement was waiting for, so that nothing
but an uncleared one opens the first way for Mihomo.

## Runs

Bounds are constants in the cfg. `MaxRevisions` bounds the identifiers: a
request needs a fresh one, so behaviours end there; that is why most runs say
`CHECK_DEADLOCK FALSE` (and because a native panel whose YAML was removed does
wait for ever). Three revisions are the cutover baseline, one revision to
publish over it, and one that fails, replaces or rolls back; four let pruning
start with one retained revision. Sections are `empty`, `ab` (a user that
expires at time 1) and `b` (what expiry leaves). `Faults` names the classes of
steps that may fail, any number of times; `DriftAt` the control points at which
the file may be edited once.

| Run | Instance | Shows |
|---|---|---|
| `publication_native` | native, one crash, every step but MarkDegraded fails | `TypeOK`; `SettledAgreement`; `FailureIsHonest`; `RetainedRevisionsRestorable`; `CutoverHoldsOldConfiguration`; `DegradedClearedVerified`; `ImplementsConfiguration` |
| `publication_managed` | supervised, four revisions, one crash, all but MarkDegraded and pruning fail | `RunningAgreement`; `RetentionBound` |
| `publication_startup` | native, two endpoints, one crash, one edit of the file between jobs or in a publication up to its second look, everything fails | `DurableConsistent`; `StartupFailsClosed`; `VerifiedBeforeOverwrite` |
| `publication_recovery` | fair, four revisions, two crashes, no failing step, time passes; deadlock is checked | `NeverDegraded`; `Recovers` |
| `coordinator` | fair, three tasks of the panel and two of a command, with the lock file; deadlock is checked | `TypeOK`; `TokenConserved`; `NoLostWakeup`; `ActiveWhileHeld`; `ImplementsLease`; `Served` |
| `supervisor` | fair, two attempts, four children, two operations besides boot and recovery; deadlock is checked | `TypeOK`; `OneMihomo`; `HealthOfItsOwn`; `StoppedForGood`; `AbortsItsOwn`; `CallbackKeepsExit`; `OperationsReturn`; `Recovers` |
| `panel` | the five parts of `MCPanel`, fair in `Step`, `Schedule` and `Expire` | `SettledCore`; `PreviousCoreKept`; `UnsafeCoreBlocked`; `DueIsChecked`; `KeysPaired`; `ChangesAllowedAgain`; `SetupOnce`; `SessionsAccounted`; `GuardPinsGeneration`; `ReadyStaysPublished`; `HookDecides`; `MarkersAgree` |

Bounds of `panel` (814 000 states). Core: two builds, one channel, a panel and a
command that bootstraps, failures in every step behind the first rename, crashes
while there is at most one backup, which still lets an activation be cut short
and a second one meet its leftovers. Nodes: one node with one user that may
expire on the one day that passes, one tab, two key pairs, three generations and
two revisions: a form, a new pair and a rollback in every order. Accounts: two
browsers, one hashing slot, so that one setup is turned away, two passwords.
Readiness: two panels, a command and the hook, two starts. Endpoints: two values
of each half, three generations, one form. Deadlock is not checked: the counters
end behaviours.

Three goroutines of one process make a queue of two behind a holder, and the
command is the other process, with a queue of its own; the theorems hold
without a lock file too. Four children let operations find one generation,
abort the next and leave the others to the recovery; two operations meet the
loop and each other; two attempts reach the retry and the limit.

In `publication_managed` pruning does not fail, since a pruning that failed
leaves rows for the next one: `RetentionBound` is about a system whose
maintenance works and which may crash. In `publication_native` and
`publication_managed` MarkDegraded does not fail: a publication that can
neither restore nor mark is beyond what the code can promise; what a startup
does then is `publication_startup`.

In `panel` settings are not saved while an operation runs (`Overlap = FALSE`):
with it `SettledCore` fails, since `UpdateSettings` writes back the row it read
before an activation committed; the next start repairs that. `CoreSettles`
assumes the same; the other theorems about the core do not. The deletion of a session whose audit failed
does not fail while the browser waits; its error is dropped by the code.

Qualifications in the properties. `RunningAgreement` leaves out a pending
endpoint restart and an expiry that is due: saving an endpoint renders the
expiry but does not reload, so Mihomo serves an expired user until the next
batch. `VerifiedBeforeOverwrite` is about edits up to the second look at the
file; an edit between that look and the rename is not seen by the code, and
`DriftAt` never has the rename.

### What the code does otherwise than its documents say

Five runs end in a counterexample.

- `publication_survivor`: `docs/configuration-lifecycle.md:78` promises that a
  repaired YAML is reloaded and health checked. The pass before the runtime
  repairs without a reload, and the pass after it finds a matching file, no
  mark, and returns. A Mihomo that survived the panel's crash (OpenRC keeps it;
  the systemd unit requires the panel) goes on with the configuration of the
  lost transaction.
- `publication_rollback`: `docs/architecture.md:160` promises a health check
  and an updated runtime state for a rollback. While an endpoint restart is
  pending every rollback is published without a reload; one to the endpoint in
  force also deletes the marker, and Mihomo keeps the users from before.
- `publication_finalizer`: `docs/architecture.md:131` says the pending endpoint
  is cleared when Mihomo has restarted. The finalizer reads what is pending
  when it runs: an endpoint saved since its process started is cleared too.
- `supervisor_limit`, with the five attempts of the code: the comment in
  `restartLoop` says that an exit during a successful callback keeps its owner
  and "the next attempt remains scheduled". When the fifth callback was the one
  that succeeded there is no next attempt: `desired` is cleared.
- `core_gate`: the comment at `internal/core/manager.go:27` says that an
  activation must not restart Mihomo while an endpoint change waits for its
  explicit restart. The manager of the command line has no such gate
  (`internal/app/commands.go:543`).

Four more have a property in a module and no run of their own:

- `KeysAlwaysPaired` of `Nodes`: a rollback restores generations, so that of a
  form from before it can be current again with another key pair behind it; the
  form is accepted and pairs its public key with the stored private one.
- `DeadlineOfChannel` of `CoreManager`, with `Overlap = TRUE` and two channels:
  a check of the previous channel that still waits for the upstream writes its
  deadline and its build over the row that `UpdateSettings` has just committed.
- `PanelMarkerHonest` of `Endpoints`: a panel listens on the settings of its
  first read and clears the requirement of the second.
- `MihomoMarkerHonest` of `Endpoints`: a restart starts Mihomo on a pending
  endpoint and fails before it clears the requirement; a return to the applied
  endpoint then deletes the row, and Mihomo goes on with the other one, which
  `docs/architecture.md:131` and `docs/r3-cutover-contract.md:90` exclude.

Two more behaviours of the supervisor contradict no document and no property
claims their absence; the hazards name the steps. The loop reads `desired` in
one section and leaves in another: a restart that clears `desired` for a moment
and whose child exits before the loop has left loses that exit. And a stop is
undone by a recovery callback that waits behind it for the coordinator.

## Fairness

`Recovers` assumes that a job runs on (all its waits have timeouts: 45 seconds
and the health limit in `reconcileStartup`, and the like), that the init system
starts the panel and Mihomo, and, strongly, that the second pass gets the
coordinator: it waits in `Acquire`, and waiters of one process are served in
order. No step fails in that run: with a failing disk nothing recovers.

`Served` assumes that a goroutine past the channel polls and runs on and that
the holder of a lease releases it. Nothing is assumed of those that wait, fail
or are cancelled. Between processes the code promises no order: `Served` stops
where another process has the file.

`Supervisor` assumes that goroutines run on, that a health check ends (it has a
limit), and that a child which was signalled, or whose panel's context is
cancelled, ends. A deadline of the caller of `Stop` is not assumed: the core
manager has none. The recovery callback gets the coordinator since operations
are bounded in the model and served in order in the code (`Served`).

`DueIsChecked` assumes that an operation that holds the coordinator runs on (its
waits have timeouts) and that the goroutine of the scheduler does, whose timer
ends every wait. `ChangesAllowedAgain` assumes the ticker of the expiry
scheduler; its batch is the one publication that a desired state with an
expired node cannot refuse. It also assumes that nothing outside `Nodes` refuses
the batch for ever: a restart of Mihomo that stays pending, the degraded mark or
the safety gate of the core.

## Proofs

Checked by TLAPS for every value of the constants that satisfies the `ASSUME`s
(which TLC evaluates in every run):

| Theorem | Statement |
|---|---|
| `TypeCorrect` | `Publication!Spec => []TypeOK` |
| `ActiveRevisionRecoverable` | `Spec => []DurableConsistent` |
| `FailedIsNotDurable` | `Spec => []FailureIsHonest` |
| `RetainedStayRestorable` | `Spec => []RetainedRevisionsRestorable` |
| `OverwritesWhatItVerified` | `Spec => VerifiedBeforeOverwrite`, if `"replace" \notin DriftAt` |
| `OldConfigurationIsGone` | `Spec => [](drifts = 0 => CutoverHoldsOldConfiguration)` |
| `DegradedIsClearedVerified` | `Spec => DegradedClearedVerified`, if `DriftAt \subseteq Quiet` |
| `SettledSystemAgrees` | `Spec => [](drifts = 0 => SettledAgreement)`, if `"mark" \notin Faults` |
| `PublicationIsAtomic` | `Spec => ImplementsConfiguration`, if `"mark" \notin Faults` and `DriftAt = {}` |
| `StartupIsFailClosed` | `Spec => StartupFailsClosed`, if `DriftAt \subseteq Quiet` and (`Native` or `"idle" \notin DriftAt`) |
| `CrashesNeverDegrade` | `Spec => [](drifts = 0 => NeverDegraded)`, if `Faults = {}` |
| `HistoryIsBounded` | `Spec => []RetentionBound`, if `Pruning` |
| `MihomoRunsWhatIsActive` | `Spec => [](drifts = 0 => RunningAgreement)`, if `Supervised` |
| `CoordinatorTypeCorrect` | `Coordinator!Spec => []TypeOK` |
| `LeaseImplemented` | `Coordinator!Spec => ImplementsLease` |
| `NoWakeupIsLost` | `Spec => []NoLostWakeup` |
| `ActiveThroughLease` | `Spec => []ActiveWhileHeld` |
| `OneToken` | `Spec => []TokenConserved` |
| `SupervisorTypeCorrect` | `Supervisor!Spec => []TypeOK` |
| `AtMostOneMihomo` | `Spec => []OneMihomo` |
| `RestartIsReal` | `Spec => []HealthOfItsOwn` |
| `RecoveryIsOwned` | `Spec => [](RestartingIsOwned /\ StoppedForGood)` |
| `AbortIsExact` | `Spec => AbortsItsOwn` |
| `SuccessKeepsExit` | `Spec => CallbackKeepsExit` |
| `CoreTypeCorrect` | `CoreSpec => []CoreTypeOK`; likewise `NodesTypeCorrect`, `AccountsTypeCorrect`, `ReadinessTypeCorrect` and `EndpointsTypeCorrect` |
| `FailedRestoreBlocks` | `CoreSpec => []UnsafeCoreBlocked` |
| `ReplacedCoreIsKept` | `CoreSpec => []PreviousCoreKept` |
| `CoreSettles` | `CoreSpec => []SettledCore`, if `~Overlap` |
| `KeysStayPaired` | `NodesSpec => []KeysPaired` |
| `SetupHappensOnce` | `AccountsSpec => []SetupOnce` |
| `SessionsAreAccounted` | `AccountsSpec => []SessionsAccounted`, if `"delete" \notin StepsThatFail` |
| `GuardIsSound` | `ReadinessSpec => []GuardPinsGeneration` |
| `ReadyOwnerSurvives` | `ReadinessSpec => []ReadyStaysPublished` |
| `HookNeverWaits` | `ReadinessSpec => []HookDecides` |
| `RestartMarkersAgree` | `EndpointsSpec => MarkersAgree` (an invariant and an action property) |

`DurableConsistent` is not inductive: COMMIT makes the job's revision active,
and what that revision can be restored from was written steps earlier. The
invariant `IInv` adds `JobInv`, in three parts: `GoalInv` (where a job with a
goal can be), `ArchiveInv` (past the archive, a job that goes forward has an
identifier without a row and both artifacts are in place), `OutcomeInv` (before
a row is recorded as failed, the desired state is the one from before and the
job has no row; in `uncertain`, one of both). From it the step from `uncertain` is
safe because the two outcomes differ in whether the job's row is active,
whatever the two states render to. `RetainedStayRestorable` adds that the
number of inactive rows newer than a given one only grows until its row is
removed, so a revision inside the limit was never outside it.

The file properties rest on `FInv`, `IInv` with four more layers. `OwnerInv`:
which kind of job runs in which phase of the panel, and which goals and steps it
can have. `RowsInv`: until its outcome is decided a publication's base is the
active revision and `prev` is that revision's digest; a repair writes the
durable state back. `FileInv`: what the YAML holds at each step of a job that
writes it. `AgreeInv`: at which steps the YAML is the active revision's.

`SettledSystemAgrees` and `StartupIsFailClosed` are about the ends of jobs. The
lemma `EndsWork` goes once through every path a job can return by: the system is
marked, or the YAML agrees, or the job changed nothing, or the mark could not be
written, or somebody edited the YAML. `ClaimInv` and `PanelInv` carry that
through the phases. The first theorem needs `"mark" \notin Faults`: a publication
that can neither restore nor mark leaves an unmarked disagreement. A start does
not serve then, so the second needs no such hypothesis.

`PublicationIsAtomic` shows that `Publication` refines `Configuration`, whose one
action replaces a desired state and a file rendered from it. The mapping takes
the desired state of SQLite, and for the file what a settled panel shows; while
it is not settled, the digest of the active revision. That the two agree when
the panel settles is `SettledSystemAgrees`; that every pair is one of a state
and its rendering is `ActiveRevisionRecoverable`; and only `Commit` changes them
(`RowsStep`). The same hypotheses are needed for the same reasons.

`CrashesNeverDegrade` needs `CalmInv`: without failures and edits a job never
takes the path of a failure, and a job that asks Mihomo for its health finds it
running.

`HistoryIsBounded`: a job adds at most one inactive row before it prunes
(`InactiveMoves`), and where nothing is expired there are at most `HistoryLimit`
(`NothingExpired`: all others are newer than the oldest). A row too many is
excused while a publication is on its way to the pruning, or after an uncertain
COMMIT whose job then failed and marked the system. `Pruning` says that pruning
works and that uncertain commits occur only with a supervised Mihomo and a mark
that can be written. Without the second the finalizer of a native Mihomo clears that
mark without pruning, and TLC finds a row more than the bound with no crash.

`MihomoRunsWhatIsActive`: away from a publication that is about to reload or to
undo (`Swapping`) and from one that will mark (`Marking`), Mihomo runs with the
desired state rendered at some time (`Rendered`); with nothing due, that is the
file. `Supervised` is `~Native`, marks that can be written, and one endpoint.
The first and the last are what the code needs: `publication_survivor` and
`publication_rollback` refute the property without them.

`drifts = 0` says that nobody edits the YAML, which is not the panel's to
prevent. `Quiet` is where an edit may come and the properties hold all the same:
`idle`, and the steps `archive`, `snapshot` and `insert`, after which the
publication looks at the file again. A supervised Mihomo must not have its file
edited between the reconciliation and its start.

The coordinator's invariant joins its two locks: a process has one task past
the channel, and a task that says it locked the file is the one the file is
locked by. With a lock file the second excludes other processes; without one
there is a single process (`LockAssumption`) and the first is enough.

`WInv` adds the queue of a channel: those ahead of a waiter are waiters, with
fewer ahead of them, and there are finitely many. So somebody is first
(`FirstExists`, by well-founded induction on the sets of those ahead), and a
send that finds nobody waiting leaves nobody waiting. `CarriedInv`: a token that
is not in the channel is with a task past it; `CInv` says there is at most one.

The supervisor's invariant has three parts. `ChildInv`: only the current
command can be alive, and a foreign Mihomo is older than every child, so that
the scan before a start is enough. `LoopInv`: the callback is the loop's, and
an attempt is left whenever one is made. `JobInv`: what an operation has found
(no active child before it launches, its own token after) stays so, because
nobody else starts a child; this is where the coordinator is needed. For
`SuccessKeepsExit` it is enough that only the loop moves a callback that
succeeded (`OnlyLoopMoves`).

`CoreInv` has four parts. `TypeInv`. `OrderInv`: which operation runs at which
time of its process, so that a process that fails to restore is one that is
open; an adoption, the one activation of a process that is not open yet, finds
no core and so never restores. `UnsafeInv`: a marker that was written is there,
and a process that alone knows of a failure is alive and has its flag.
`KeptInv`: from the first rename until it is undone the newest backup is what
the activation replaced, and pruning keeps the newest. All of it holds with any
steps failing, settings that overlap, and a crash of either process anywhere.

`SettledInv` says when the core agrees, even inside an operation: while
`replaced` is `"no"`, the directory, the row and the last good core are the same
(`AgreeInv`). `BackInv`: what an activation that found them so goes back to.
`PlacedInv`: which core the directory holds at each step. `ReadInv`: nobody
writes the row between the reading of a statement and its writing; this is where
`~Overlap` is needed, and without it TLC finds the row written back.

`NodesInv` carries the pairing to every snapshot and says of a form that no
rollback overtook that its generation, if it is the node's, has the node's
public key. An id is drawn once, so a form of a deleted node stays without one.

`AccountsInv` follows a setup from the check of the capability to the
transaction that consumes it, and a login from the lookup to its answer: what a
caller has read of the account is current, or `late`.

`ReadinessInv` has `LeaseInv` (what a panel on its way and an observer that
shares the lease exclude), `ReadyInv` (who names the two tokens and who wrote
them) and `CommandInv` (who holds the coordinator and the marker, and whose
hook it is).

`EndpointsInv` adds to `PendingIsDifference` what a form, a start and a restart
have read: a generation names endpoints, whoever read them, and a restart that
no requirement waited for finds the applied controller. `RequirementsKept` is
then proved of every step with the invariant on both sides of it: `PanelTold`
and `MihomoTold` become differences of endpoints (`ToldIsAccounted`), one lemma
for each group of actions shows what it does to them, and a publication needs
that its generation is newer than any a start has read.

Every safety property of the passing runs is a theorem; the instance of each run
satisfies the hypotheses of the theorems about its properties. The types of the
five modules that `panel` composes are proved only, as part of their inductive
invariants. Out of the prover's reach:
liveness (`Recovers`, `Served`, `OperationsReturn`, `DueIsChecked`,
`ChangesAllowedAgain`), since it needs fairness and ENABLED, and anything by
induction over data. No module declares a RECURSIVE operator.

## Plan

Done: `Publication` with `Configuration`, `Coordinator` with `Lease`, `Supervisor`, `CoreManager`,
`Nodes`, `Accounts`, `Readiness`, `Endpoints`, and their theorems above. What
is left, the most useful first:

1. `RunningAgreement` for a native Mihomo while the panel does not crash, and
   `RetentionBound` with the uncertain commits of a native Mihomo counted.
2. An abstract Mihomo ("off, or one process, replaced only by an operation")
   that `Supervisor` refines.
3. The login limiter against a reference definition.

## Not modelled

- Rendering and validation of node data, protocols, shares and subscriptions:
  pure functions of one node with table tests. The one rule that other
  components can break is `Valid` of `Nodes`.
- Encryption of secrets, tokens and password hashing: values that are compared
  for equality here.
- The login limiter delays and never decides; the runtime monitor is a cache of
  the last status that takes part in no decision.
- HTTP decoding, status codes, the web interface, the command line's parsing,
  logging, previews, language and the other plain settings: I/O and formatting.
  What a handler reads, redacts and sends on is in `Nodes`, `Accounts`,
  `Endpoints` and `CoreManager`.
- Downloading, checking and unpacking a core: `Resolve` and `Stage`, which
  answer or fail.
- The second failure inside an undo, a filesystem that loses a rename that was
  synced, and clocks that go backwards.
