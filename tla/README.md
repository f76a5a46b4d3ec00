# The Forgewright runtime, modelled in TLA+

Forgewright ships an MCP server (`mcp/src`) whose runtime records everything a
session does in a *trajectory*: a hash-chained ledger of events on disk, written
by a lifecycle coordinator that admits work, cancels it, cleans up after it and
finally seals the ledger with a receipt and a terminal event. Around it are the
lease files by which server processes know of each other, the checkpoints from
which another process recovers a trajectory, the state file of the pipeline, the
disposable environments in which a product is built, and the sessions in which
its scenarios are run there. This directory holds
TLA+ models of these parts, the TLC configurations that check them on small
instances, and theorems that TLAPS proves for every instance.

Paths below are relative to the repository root.

## The system

| Component | State it keeps | Operations | Talks to |
|---|---|---|---|
| Trajectory ledger `mcp/src/runtime/trajectory-ledger.ts` | one file per event, `HEAD.json`; nothing in memory | `append`, `reconstruct`, `tip` | the file system; other instances through the directory |
| Lifecycle coordinator `mcp/src/runtime/lifecycle-coordinator.ts` | lifecycle state, scopes with abort controllers, active operations, disposers, cancellation promises, one finalization promise, an append queue | `open`, `recover`, `openScope`, `closeScope`, `registerDisposer`, `runOperation`, `cancel`, `finalize` | the ledger (every change is an appended event); handlers of callers |
| Runtime lifecycle and shutdown `mcp/src/runtime/mcp-runtime-lifecycle.ts`, `mcp/src/index.ts` | close promise, shutdown promise, active lease | `open`, `resumeFromCheckpoint`, `checkpoint`, `close`, signal handlers | coordinator, lease store, checkpoint store, server |
| Tool execution gateway `mcp/src/runtime/tool-execution-gateway.ts` | a sequence number | `execute` | coordinator (scope, operation, close), middleware chain |
| Lifecycle lease `mcp/src/runtime/lifecycle-lease.ts` | one lease file and one lock file per lease | `acquire`, `handoff`, `release`, `reap`, `reconcile` | processes (inspection, signals) |
| Checkpoint store `mcp/src/runtime/runtime-checkpoint.ts` | checkpoint records and a head, writer lock, consumption marks | `append`, `resume`, `withPinnedLatest`, `consume` | ledger tips, coordinator snapshots |
| State repository `mcp/src/infrastructure/adapters/FileSystemStateRepository.ts` | a revisioned envelope file, a lock file, an in-process queue | `load`, `save`, `update`, `transact` | pipeline services |
| Pipeline services `mcp/src/core/services/PipelineService.ts`, `mcp/src/core/models/PipelineState.ts` | the pipeline state: phase, status, phases, quality gate, history | `startPipeline`, `advancePhase`, `requestGate`, `approveGate`, `updateState`, `failPipeline` | the repository's transactions |
| Disposable environment `mcp/src/product-factory/disposable-environment.ts` | per environment: state, generation, snapshots, issued challenges, late operations, a serial tail | `provision`, `start`, `execute`, `snapshot`, `restore`, `exportArtifacts`, `teardown`; the parser of its receipts | a trust service and a backend, as awaited callbacks |
| Environment ACI session `mcp/src/product-factory/environment-aci.ts` | per session, shared by its coordinators: sequence, consumed snapshots, quarantine, scheduled recovery, a serial queue | `observe`, `act`, `reset`, `snapshot`, `restore`, `collectEvidence`, `runScenario`; the validator of scenario receipts | an environment adapter, awaited under timeouts |
| Model call gateway, middleware, publishers, the rest of the product factory, sandbox, studio, CLI, scripts, prompts | see `PROJECT.json` | | |

A tool call flows from the gateway, which opens a scope and runs an operation,
through the coordinator, whose every decision is an event, to the ledger, which
admits or refuses the event on the chain it reads. Shutdown flows the same way:
cancel, finalize, release the lease, close the server, under one deadline. A
checkpoint binds a ledger tip and a writer epoch; a later process recovers the
trajectory only at exactly that tip.

### What is hard here, and what makes each part correct

*Ledger.* Instances share a directory without a lock: each reads the chain,
compares the advisory head, decides, and links its file exclusively. Correct
means that nevertheless each event was decided on exactly the chain it extends,
that success is never reported for an event that is not on disk, that what was
accepted can be read back, and that ordinary events never use the room that the
closing, settling and sealing events will need.

*Coordinator.* Single-threaded, but every operation awaits the ledger between
its decision and its effect on memory, callers' handlers run in between, timers
race them, appends fail, and the process may die. Correct means that a durable
cancellation wins over every later result, that no signal is aborted without a
durable request, that disposers run once, in order and after the work, that
memory never forgets what the ledger still owes, that `confirmed` means nothing
is open, and that finalization settles although nothing it waits for has to.

*Lease and server processes.* A reaper reads the owner's token before the lock,
looks with `ps`, waits, and signals a pid that may be somebody else's by then;
`ps` may fail; a shutdown step that was given up on still runs until
`process.exit` cuts it off, inside a lock or not. Correct means that a signal
hits only the process the lease names, that a lease file moves only forward, that
a server that is left with its lease open says so, and that startup and shutdown
come to an end whatever the dead have left behind.

*Checkpoint store.* A record and its head are two files; a lock names its owner,
and a dead owner's lock is taken away in three steps; the ledger goes on while
the store is locked. Correct means that a checkpoint once returned stays the one
its number names, that a budget is never overspent, that a checkpoint which was
returned to nobody is used by nobody, and that a recovery continues exactly the
trajectory its checkpoint was taken of.

*State repository and pipeline.* Three layers of waiting (the queue of a process,
the lock file, its stale removal) around a read-modify-write. Correct means that
no update is lost, that a gate which waits for approval is not passed by a stale
read, that the list of phases agrees with the phase and the status, and that
every call settles.

*Disposable environment.* Every callback runs on after its timeout and may act on
the backend during a later attempt. Correct means that nothing brings a
torn-down runtime back, that a snapshot is restored once and only while nothing
happened since, and that the runtime issues no receipt its own parser refuses.

*Environment ACI session.* The adapter may answer late or never; a call that timed
out goes on at the adapter, the session is quarantined until it has settled and a
recovery has reset the session, and calls that were queued before meet all of this when
their turn comes. A scenario puts its receipt together from whatever its steps
got to, and a validator judges it anew. Correct means that two calls never run at
once, that a quarantined session does nothing but recover and can still do that,
that a snapshot is restored only as the last thing that happened, that a scenario ends
with a receipt the validator takes, that `PASS` leaves nothing running, and that every call
settles.

`PROJECT.json` lists the hazards at their source lines with the properties that
watch them. Known, and watched by none: temporary files left by crashes count against
`maxDirectoryEntries` (`trajectory-ledger.ts:944`); a directory listing may miss an
event that is linked while it is read (`trajectory-ledger.ts:943`);
`cancellation.requested` has no reserved slot (`lifecycle-coordinator.ts:749`); a
coordinator of an earlier writer epoch may still append
(`lifecycle-coordinator.ts:314`); the tool execution gateway and finalization may
close one scope together (`tool-execution-gateway.ts:219`); and the registry of
environment sessions only grows, to 256 (`environment-aci.ts:1136`).

## Modules

| Module | Models |
|---|---|
| `TrajectoryEvents` | event kinds, folds over a chain, `futureControlObligations`, `assertCapacity`, the verdict of `append` and the audit of `reconstruct`; pure operators |
| `TrajectoryLog` | the abstract ledger: one log, each event admitted against the log it extends |
| `TrajectoryLedger` | the directory and its writers, step by step; refines `TrajectoryLog` |
| `LifecycleCoordinator` | one coordinator over an atomic log |
| `LeaseRecord` | what a lease file promises its readers: granted once, one version at a time, closed for good |
| `LifecycleLease` | `LifecycleLeaseStore`: lease and lock files, looks and signals; its files implement `LeaseRecord` |
| `McpServer` | composes the store with the life of the server processes: `run()`, signals, the bounded shutdown, exits |
| `RuntimeCheckpoint` | the checkpoint store with its lock, and the runtimes that write to and recover from it, over what the ledger promises |
| `PipelineService` | the six mutators of the pipeline state and its normalisation; pure operators |
| `StateRepository` | composes them with `withLock` and `transact` of the file repository |
| `DisposableEnvironment` | the attempts on one environment, and the parser of its receipts |
| `ScenarioReceipt` | scenario receipts and `validateEnvironmentScenarioReceipt`; pure operators |
| `EnvironmentSession` | one session of `SerializedEnvironmentAci`, its callers, its timeouts and its recovery; composes `ScenarioReceipt` |
| `MC*` | instances for TLC |
| `TrajectoryEventsProofs`, `TrajectoryLedgerProofs`, `LifecycleCoordinatorProofs`, `McpServerProofs`, `RuntimeCheckpointProofs`, `StateRepositoryProofs`, `DisposableEnvironmentProofs`, `EnvironmentSessionProofs` | lemmas and theorems |

### TrajectoryEvents and TrajectoryLog

A chain of hashes is a sequence: the previous hash of an event is its position,
and a tip `{sequence, hash}` is a length. An event keeps its id, kind, the scope,
operation, disposer or request it is about (`subject`), its causal ids, the
writer epoch of openings and recoveries, the predecessor a receipt binds, the
outcome or quiescence the payload claims, its size, and the running total of
bytes. `Verdict` has the checks of `append` in the code's order; `Decodes` is
what `reconstruct` and `decodeEvent` check of every chain they read.
Obligations are counted as the code counts them, from the last event about each
matter: the code's sets of open scopes, operations, disposers and requests are
exactly the matters whose last event leaves them open.

Left out: encodings and payload shapes (`validateInput`, canonical JSON), path and
symlink checks, and `maxDirectoryEntries`, in `append` and in the audit. Expected tips are tips of some chain
of the ledger, not arbitrary hashes.

### TrajectoryLedger

The steps of a writer are `Scan` (list and read the files), `CompareHead` and
`RepairHead` (`reconcileHead`), `Refuse`, `Link` and `LoseRace` (decide and
`commitEvent`), `PublishHead` (`writeHead`). Writers interleave between any two.
`FailIo` and `Crash` end an append anywhere; a linked event stays, and a head
that was being written is the old or the new one. Listing and reading the event
files is one step: files are only ever added, so what is read is the chain at
the moment of the listing.

### LifecycleCoordinator

JavaScript runs a task to its next `await`; the model's actions are those runs.
An operation such as `runOperation` decides on memory and queues an append
(`Send`); `Link` makes the oldest queued event durable; an action named
`...Returns` is the rest of the task after the answer. Separating `Link` from
the answer keeps the moment at which an event is durable and nobody knows it,
where a crash, or an I/O error reported after the link, does harm. An answer is
success for a linked event, the ledger's refusal for one it would not admit,
and, up to `MaxFaults` times, an I/O error in either case. `performFinalization`
is a program counter and its local variables in `fin`, one action per await.
The scope tree (`Parent`), the scope of each operation and of each disposer are
constants: callers choose ids, and which id is which is immaterial. Handlers
return, throw, or never do either.

Abstractions worth knowing:

- one coordinator per trajectory. Two of different epochs over one ledger are in
  `RuntimeCheckpoint`, reduced to the events they append;
- event ids are positions in the log, and the subject of a cancellation is its
  scope;
- counts of slow and failed operations and disposers are booleans, as the code
  only compares them with zero;
- the start marker's own persistence window (`StartWindowExpires`) is storage
  trouble and is counted as one of the `MaxFaults`;
- `recover` is given a checkpoint of the current tip, as the coordinator
  requires; its append either happens or the process stays down;
- in the runs the ledger has room for all events, so that capacity refusals belong
  to `log_capacity`; the theorems hold for a ledger that fills at any moment;
- sibling scopes are closed in either order, the code in the order of its map;
- an id whose opening failed is not used again while a request to cancel it is
  unanswered (a bound on callers);
- `ReadTip` may fail while an append is queued: this is the race of
  `ledger_head_race` as the coordinator sees it.

Some properties are owed only while `StartsInOpenScopes`: no operation was started
in a scope that is not open on the ledger. The code breaks this by itself, when the
opening of a scope is refused after an operation was accepted in it (the second
violation below) or when a start is queued while its scope is being closed, and cannot
account for that operation any more; from then on these properties say nothing of that
trajectory. `faults = 0` in a
property says that no append met an I/O error: an error reported for an event that is
durable leaves memory and ledger apart until a recovery.

Bounds: `Cancellable`, `MaxCloses`, `MaxRegistrations`, `MaxFaults`,
`MaxRestarts` cap what callers and the environment do at once; `MaxEvents` is the
ledger's own limit.

### LeaseRecord, LifecycleLease and McpServer

A lease is named by the server that acquired it. Tokens, random in the code, are
counted: only whether two are equal is ever asked. A call of the store
(`calls[s]`) goes through the steps `lock`, `read`, `write`, `look`, `term`,
`grace`, `kill`, `final`, `unlock`, one action per await; the lock file is
created exclusively and carries no owner, so `TakeLock` waits for whoever holds
it and `LockTimeout` gives up. `inspect` compares pid, start, group, parent and
command: a process is its own identity, and `Occupant` is who has the pid now,
which may be a process that got it from a dead one. A look may miss a living
process (`ps` fails), and any file operation may fail (`StoreFails`): the lock cannot
be made, a read fails and is taken for a lease that is not there, a write throws before
its rename or after it from the sync of the directory, the lock file stays; `MaxFaults`
bounds both together. A look and the signal sent on it are one step. In the code
they are not: `inspect` has the fields of the pid and then awaits the start of its
parent (108-116), and the signal comes after; a process that dies and is replaced within
that time is signalled although the model's is not, so `SignalsOnlyTheOwner` says what the
checks of the code do and not that they are made in the instant of the signal.

`McpServer` takes a process through reconciliation (token read, then
reaped under the lock), `acquire`, the opening, serving, and a shutdown that
closes the lifecycle, releases the lease and closes the server, each of which may be
given up (`ReleaseTimesOut`); what was given up goes on until the process ends.
`process.exit` (`CloseServer`, `ExitAfterSignal`) and a second SIGTERM end it wherever it
is, with its lock files left behind; after the end of input nothing calls it (121-122), and
the process ends when nothing keeps its event loop (`Drain`), or never. `held` remembers
whose `acquire` returned. A listing of the lease directory that fails ends in the same way
as any other failure before `acquire` (`StartupThrows`). Facts about the code the model
carries:

- a process that ends inside the lock leaves the lock file for ever, so a dead
  server's lease can stay open for good (`docs/architecture.md:388-389` describes
  this);
- the reaper holds the lock while it waits for its victim, so the victim's own
  release never gets in, is given up, and the victim exits by itself or is killed;
- `reap` refuses a lease with calls in flight, but nothing in `index.ts` ever counts
  one (`docs/architecture.md:392`): the count is always zero and the refusal is not
  modelled;
- `activeLease` keeps the token of the acquisition: after a handoff the release is
  refused, which the shutdown reports;
- an `acquire` that throws after its rename (lifecycle-lease.ts 379-386) leaves an open
  lease file while `activeLease` is unset: the fatal shutdown releases nothing and
  reports nothing of the lease (`AcquireThrows`). `NoSilentLeak` therefore speaks of the
  servers whose `acquire` returned;
- `ps` runs without a timeout (99-100), under the lease's lock: a reconciliation that waits
  for it for ever never comes to an end, and its server never serves.

### RuntimeCheckpoint

Several runtimes share a store and a ledger. Checkpoint records, their head,
receipts and their heads are files that a crash separates. The writer lock is
created, then marked with pid and token (`Create`, `Mark`), and a dead owner's lock
is read, checked again and unlinked in three actions. An append to the ledger
is one step that fails when it expects another tip, which `LedgerImplementsLog`
justifies. A tree digest, capabilities, workspace, session and expiry are a
refusal that may always come. What the checks taught: two reclaimers of one dead
owner's lock can remove the next owner's lock (`stolen`;
`runtime-checkpoint.test.ts:196` expects that a live lock is never stolen),
and all that is promised about exclusion holds until then; a crash between a record
and its head leaves the store refusing every call; one between the recovery event
and the next checkpoint leaves the trajectory without a way to recover it; a lock
that was created but not marked is busy for ever. The grants of one process are a set
(`spent`), so two equal grants of one process count once in `BudgetKept`.

### PipelineService and StateRepository

The mutators are operators on the state (`Mutated` picks one). A call of the
repository queues in its process, meets the lock file, creates and marks it or
waits or takes a stale one away (`Inspect`, `Recheck`, `Unlink`), then reads,
mutates and replaces the state file and releases. A file system call is one step
and may fail (`MaxFaults`). What the checks taught:

- two reclaimers can remove a live lock here too (`stolen`); nothing is promised
  after that, and nothing is lost before;
- the containment check comes before the `try` of `withLock`: when it throws, the
  queue of the process is never released (`jammed`), which `CallsSettle` excepts;
- an error after the rename reports the failure of an update that is stored;
- a crash between creating and marking a lock leaves one that fails every call;
- a completed state of an older version that lists no phases gets phases whose last one
  is still running (`normalizeState`), and an update keeps that: the runs have such a file,
  and `PhasesAgree` promises nothing of a file whose state was not in step when it was found
  (`inherited`, `FoundInStep`);
- the parser of the file also takes a list with some of the phases only, and the phase
  states `skipped` and `blocked`, which nothing here ever writes; `PipelineState` leaves such
  files out, and `PhasesAgree` would promise nothing of them either;
- a failed pipeline can be advanced past a gate nobody approved (`GateHolds` lists
  `fail` among the ways a gate ends).

### DisposableEnvironment

One action per await of an attempt; attempts are serial (`serialTail`), the
callbacks that timed out (`running`) are not. What the trust service answers is
accepted or refused; the backend may create or remove the runtime at any moment
while one of its calls runs, late ones included; the reconciler is an honest
witness. `semanticReceipt` and `DispositionOK` translate the parser, which the
code writes independently of the ends of `attempt`; `ReceiptsParse` compares the
two. They disagree in four kinds of ends, which `Refused` names: a snapshot over the
limit is issued with the generation advanced (3255, 3290-3302) and refused (4411-4412); a
command whose arguments are too large is issued as a failure (2865-2867) with a code
that is none of the preflight codes (3988); a value of the backend that `attempt` accepts
is one the parser does not (the part `loose`: a digest of zeros, `assertSha` at 3090 and
3276 against `assertProofDigest` at 4022, or a media type or port that only reads like
one); and whatever throws after the dispatch is caught by `attempt` (2243-2257), which
advances the generation once more than the parser allows (4413-4417): the hash of a
snapshot or of a receipt with media types of any length, or of an export's request
(`Throws`). A snapshot may then be among the created ones although its receipt says that
the operation failed. The receipt's own frame is left out: an environment's identifier of
95 characters or more, whose `attemptId` is longer than the parser takes, and a clock
that steps back or gives no date; so is the age at which the parser refuses any receipt.
Two more facts: a verifier and a revoker of one export that both time out
share one entry of `lateOperations` (2305-2310, 3492-3498), so the first to settle
lets attempts begin beside the other; and once `maxReplayEntries` challenges were
issued no teardown can be proved any more (2350-2352).

### ScenarioReceipt and EnvironmentSession

The coordinators of one session share a `SharedSession`, so one `session` record, one
`queue` (the promise `serialize` chains on) and one `consumed` set stand for all of
them; `cur` is the operation whose turn it is with the adapter call it awaits, and
`inflight` the calls the adapter works on. The actions are the runs between awaits:
`Invoke` is a caller's call up to `serialize`, `StartDirect` and `StartScenario` the
operation up to its first dispatch, `Answer...` and `Timeout...` the two outcomes of
`awaitAdapter`, `quarantineAfterLateSettlement` the settling of a call that was
given up, `StartRecovery` and its two ends the reset that follows. `observe`, `act`, `reset` and
`collectEvidence` are one kind of call: for the session they differ in nothing. A
scenario's program is `NextStep`, `Proceed` and `Finally`; it carries the receipt it
composes in `cur.draft`, the sequences of its operations and the position of the deadline
(`Tick`: before, at or after it). An answer of the adapter is bound to its request or is
not; the schemas and `assert*Binding` functions decide which, and that is a choice here.

`ScenarioReceipt` has the validator's checks one by one: the results match the
actions, evidence is there for each passed step or an unrecorded dispatch is
named, the request is not ahead of the start (706-708), the sequences rise and end where the receipt says, the status follows from the results,
the deadline is kept or its timeout is evident. What the checks taught is listed in
`Excused`, the receipts that a scenario composes and its own validator refuses, so that
`runScenario` rejects instead of returning evidence:

- the deadline passed without a timeout to show for it: the catch of the cleanup (1718)
  drops what was thrown, so a cleanup that times out at the deadline leaves
  `cleanup-failed` only, and 709 refuses the receipt, although
  `environment-aci.test.ts:786` speaks of "a timeout-backed deadline receipt";
- a first reset whose observation belongs elsewhere is kept in the receipt (1575)
  before it is compared with its request;
- an adapter's `UNVERIFIED` result with negative paths of its own;
- all steps passed, and the coordinator's scenario asks for no cleanup;
- a scenario requested ahead of the coordinator's clock: `parseEnvironmentScenario`
  (622-632) only asks that the deadline follows the request, so the scenario is run, its
  operations are dispatched, and its receipt is refused because the request follows the
  start (706-708);
- nested times or the size of the whole out of bounds.

The coordinator's clock does not step back in the model; in the code a step back between
start and completion makes 706-708 refuse a receipt too. A scenario looks at its deadline
when it starts (1560) and once more, the sequence of its reset reserved, when it sets the
timeout (`timeoutFor`, 1218-1223); `StartScenario` has both.

## Runs

| Run | Question | Result |
|---|---|---|
| `log_capacity` | does the reserve hold at the edge, for every order of events? | passes |
| `ledger_race` | do racing, failing, crashing writers behave as one log, and does every append return? | passes |
| `ledger_head_race` | can a mere race be reported as corruption? | violated: it can |
| `coordinator_work` | do cancellation, closing, finalization and a crash treat scopes and an operation correctly; are disposers run in order, once, and never forgotten? | passes, 325,408 states |
| `coordinator_settles` | does finalization settle though handlers hang and one append fails? | passes |
| `coordinator_nested` | does `confirmed` hold when a scope is opened under an opening parent? | violated |
| `coordinator_seal` | does finalization seal the trajectory while storage works? | violated |
| `mcp_server` | do signals hit only their lease's process, do leases move only forward, do startup and shutdown end, with reaps, handoffs, expiry, a failing look or file operation, a crash and reused pids? | passes, 382,412 states |
| `checkpoint` | do writers, spenders and recoverers of one store keep its records, its budget and one writer epoch each, with a crash? | passes, 2.2 million states |
| `state_repository` | is an update lost, a gate passed or a call left waiting, with a crash, a fault and a stale lock? | passes, 549,825 states |
| `disposable_environment` | do late callbacks harm a later attempt, and does the runtime accept its own receipts? | passes, 200,285 states |
| `environment_session` | do late calls, timeouts, recoveries and lies of the adapter break a session or the receipts of its scenarios? | passes, 388,803 states |

**Bounds, and why they are enough.**
`log_capacity` has one scope, one operation, one disposer, one cancellation, two
recoveries and the three closing events, ordinary events of one and two units, and
limits that fill before they are all in: both the slot and the byte limit are
reached in many orders, with every kind as the last one in. The obligations are
a sum over matters, so a second matter of a kind adds no new interaction; the
theorems cover the rest.
`ledger_race` has two writers and two attempts, the smallest in which a race is
lost, retried and lost again until the retries are used up; its five calls open the
ledger, start an operation, compete with two recoveries of one event id and other
content, one of them fenced on a tip, and fence a receipt.
A third writer only adds another winner; the refinement is proved for any number.
`coordinator_work` has the root and a child scope with an operation, both of which
may be cancelled, an explicit close in flight, a deadline, and one crash with a
recovery; or three disposers, two in the root and one in
the child, two registrations at once, and one I/O error, at the opening of the child or
without it. All at once are beyond TLC, so
`WorkOrDisposal` lets a trajectory have the one or the other. `coordinator_settles`
has the root with an operation and a disposer and one I/O error, small enough for
liveness. `coordinator_nested` needs a grandchild scope and no fault;
`coordinator_seal` needs only the root and one cancellation.

`mcp_server` has three servers: the first fails to start, expires, hands over, stops
or is stopped, and the later ones find it, reap it, or find what a reaper left; with two
nobody can meet a reaper's lock from outside. One failed look or file operation, one
handoff, one crash.
`checkpoint` has three processes, the number at which two reclaim the lock of a third;
two calls each, two checkpoints, a budget of two steps, four events of the ledger:
enough for a checkpoint, a recovery, an operation in between and a second recovery.
`state_repository` has four calls in three processes, two of them in one queue, one
fault, one crash, two phases and a history of two entries, so that trimming, the
last phase, a gate and a legacy file all occur.
`disposable_environment` has seven attempts, enough to provision, start, time out,
snapshot, restore and tear down once each with one to spare; six challenges and two
snapshots, so that both limits are reached.

`environment_session` has three callers who call in the order of their names (they are
alike): three direct calls reach a snapshot, a call between and a restore, or a
timeout, its recovery and a later call; a scenario of two steps, so that one passes and
the next fails, meets one other call or stands between a snapshot and its restore. The
theorems cover any number of calls and steps.

All runs but `ledger_race` and `ledger_head_race` set `CHECK_DEADLOCK FALSE`: a sealed trajectory, servers that have exited,
calls that were all made, a ledger that refuses
every remaining call and a coordinator whose callers ask for nothing really stop.

**Fairness.** A writer's own steps are weakly fair: Node's file operations
complete or fail. In the coordinator the ledger's answers (`Serve`), the
registration chain, the finalizer's own steps and the deadline timer are weakly
fair: they are promise continuations and timers of a process that is alive. No
fairness is given to handlers of operations or disposers, to callers, or to
crashes; `HandlerEnds("timed_out")` belongs to the finalizer because
`settleBeforeDeadline` races the handler with a timer. A server's `Program` is
weakly fair: timers fire, file operations return, signals are delivered. `ps` has no
timeout, so nothing says that it answers (`StartAndStopEnd` excepts a server that waits for
it for ever); nor that the runtime opens, nor that a process ends after the end of its
input, where a finalization or a handler that was given up may keep it up. Starts,
expiry, crashes, handoffs and requests to stop are not fair. A repository call is weakly
fair, and `TimeOut` strongly: a call that goes round its waiting loop meets its
deadline (`lockTimeoutMs`) in the end, however often the lock was free in between for
somebody else. In a session timers fire (`Timeout`) and the next operation of the queue
starts (`Start`); the adapter owes no answer. `checkpoint` and `disposable_environment` ask for safety only and
assume nothing.

**What the violations show.**

1. *A race reported as corruption.* `reconcileHead` reads `HEAD.json` after the
   files. If another instance commits and publishes in between, the head is ahead
   of what was read and the append throws `HEAD_CORRUPT`, although
   `trajectory-ledger.test.ts:253` expects racing instances to be linearized with a
   retry.
2. *Quiescence confirmed over an unsettled operation.* `openScope` uses the
   parent's `openedEventId` while it is still empty; the child's opening is then
   refused and the child deleted, and an operation already started in it
   throws `UNKNOWN_SCOPE` twice and is never settled. The receipt says
   `confirmed` (`docs/pipeline-reference.md:168-169` says what that must mean).
   A full ledger leads to the same end without a grandchild: the opening is refused
   for want of bytes, a settlement then frees some that were reserved, and the start
   of the operation, which stands behind it on the queue, is admitted. The runs keep
   the ledger large; the attempt to prove `AccountedFor` for every limit showed it.
3. *A trajectory that is never sealed.* Between `ledger.tip()` and the receipt's
   append a cancellation may be committed; the receipt fails with
   `EXPECTED_TIP_MISMATCH`, the rejected promise is kept, and the coordinator stays
   `FINALIZING` though storage works (`docs/pipeline-reference.md:166-168`).

## Proofs

All theorems hold for every value of the constants that satisfies the named
assumptions: limits are positive (`LimitsAssumption`, `PipelineAssumption`) or natural
(`BoundsAssumption`), a ledger has room for the opening of its trajectory and of its
root and for what these two then owe (`RoomAssumption`: `open()` would have failed
otherwise), the scopes are a tree (`TreeAssumption`: no set of scopes without the
root has all its parents in itself), calls are well-typed (`CallsAssumption`, `WritersAssumption`,
`AskedAssumption`), servers are numbers in the order of their starts, a call has a
home process, and a legacy file is a `PipelineState`. None is about a module with a recursive operator.

*Operators* (`TrajectoryEventsProofs`). Appending one event changes the set of
standing matters by the event's own matter only, so `Obligations` grows by at
most the event's own debt and falls by one when the event discharges one
(finite-set cardinalities); an admitted event keeps the audit `Decodes` true.

*The log* (`TrajectoryLedgerProofs`). The inductive invariant `LogInv` is
`LogTypeOK /\ LogDecodes` and the `Reserve` of a log that has begun: a slot and a
full-sized record for every control event still owed, the sum `assertCapacity` keeps.
`LogDecodes` needs the byte total and the ids of the prefix;
`FinalizationNeverStarves` derives from the reserve and the lemma on
discharging events that capacity never refuses an event that pays an
obligation, whatever the order; `LogGrowsByOne` is the action property.

*The ledger* (`TrajectoryLedgerProofs`). `HeadNamesPrefix` and
`AcknowledgedIsDurable` are not inductive: a writer that has linked must still
find its event at the position after what it read when it reports success, and a
stale writer must have read a prefix. `LedgerInv` adds these: what each writer
has read is a prefix of the log, and a writer in `publish` has its event right
after it, at the tip it was fenced on. `LedgerInvariant` follows.
`LedgerImplementsLog` maps `Link` to `AppendEvent` and every other step to a
stutter; that `Link` requires the log to be exactly as long as what was read,
with the prefix invariant, makes the stale decision a current one. The ledger extends
`TrajectoryLog` and works on its `log`, so what is refined is `LogSpec` itself, and
`DirectoryDecodes` reads the log's invariants back in the directory: it always
decodes, and it has room for every event its trajectory still owes. The
coordinator is modelled over the atomic log, which this theorem justifies for the
order and admission of events; the failures a writer may see are added back by
`Answer` and `ReadTip`.

*The coordinator* (`LifecycleCoordinatorProofs`). A property here relates the ledger,
the maps in memory and the queue between them, and none is inductive: what is true when
an event is queued must still be true when it becomes durable and again when its task
learns of it, with every other task in between. The invariant `IInv` says so in parts.
`PlacedInv` and `DistinctInv`: every entry of the queue finds its task waiting for
exactly this answer, and no two wait for the same one; `LinkedInv`: only the oldest
entry may be durable already. `PhaseInv` and `DownInv`: what the finalizer's position
says of the maps (past the wait for registrations there is none on its way, past the
wait for operations none works unless it was given up on), and that a dead process
keeps nothing. `ScopeInv`, `OperationInv`, `CancelInv`: what memory holds for durable is on
the ledger. `ScopesInv`, `WorkInv`, `OwedInv`: the converse, what the ledger shows open,
active or pending is in memory or waits on the queue. `CompletionInv`: a queued completion
stands *before* any request on the queue to cancel a scope above it, so the order
of the queue becomes the order of the log; it holds because `executeOperation` looks at the
signal when it queues. `DisposalInv`: the disposers that are still ready all stand behind
those that were started, which needs that none is registered during disposal. `LogInv`
carries the ledger's reserve (`AppendKeepsReserve`, `DischargeFits`): a settlement, a
closing or a receipt that is owed is never refused for capacity, so an answer that a
fault-free coordinator gets is the one its task relies on, at any limit of the ledger.
Each part has its own step lemma (`CompletionStep`, `OwedStep`, ...); `InvStep` joins them,
and the theorems follow: `SpecAbortIsDurable`, `SpecNoCompletionAfterCancel`,
`SpecDisposalOrder`, `SpecDisposersRunLast`, `SpecAccountedFor`, `SpecConfirmedIsEarned`, for
every tree of scopes, every set of operations and disposers, and any number of faults and
recoveries. Two facts about the tree are shown without induction over data: that the walk from a
scope to the root is a function at all (`WalkExists`, by the least set closed under
children), and that a set of scopes that holds the root and all children of its members is
everything (`TreeInduction`, by the acyclicity of the tree).

*The server processes* (`McpServerProofs`). None of the properties is inductive.
`StoreInv` says of a call in a critical step that its lease's lock file exists, that no
other call is in such a step for that lease, and that what it read is what the file
says, so that what it writes extends what is there; of a reap about to signal, that the
lease has expired, and of one about to close, that its target is dead unless a look
failed; of a release that succeeded, that the lease is closed; of a server, which lease and
which call its phase implies, and that nothing was granted before its reconciliation ended.
From it follow `SpecLockOwned`, `SpecSignalsOnlyTheOwner`, `SpecReapedIsDead`,
`SpecNoSilentLeak`, and `SpecImplementsRecord`: under the refinement mapping
`record <- leases` a write under the lock is a handover or a closing, also one that
throws after its rename, an acquisition is a grant, and everything else, crashes and
other failures included, is a stutter.

*The checkpoint store* (`RuntimeCheckpointProofs`). `IInv` has two halves. The first holds
of every behaviour. `IdInv`: the ids of checkpoints are made in order, and until an append
has written the one it made nobody else has it. `BindInv`: an id is bound to one tip
wherever the two are met together, in a record, in an append or a recovery under way, and
in a recovered event; so two recoveries from one checkpoint would stand at one place of
the ledger. `EpochInv`: a recovered event is what its recovery read at the tip it expected,
and every coordinator writes in an epoch that the ledger has and no other coordinator.
`SpecRecoveryFenced` follows from this half alone: a stolen lock does not weaken it, because
it is the ledger's expected tip that fences, not the lock. The second half holds until a
lock is stolen. `LockInv`: a call inside owns the lock, and what another call takes for
dead is dead (in the model every process has a pid of its own, so a reading once true stays
true). `StoreInv`: an
append at work finds the files as it read them, one record behind them or at their end; what
was returned is in its file; and what a recovery or a consumption holds is `Sealed`: every file
with its id has its head written. A record without a head can then be used by nobody,
because `ReadToAppend`, `ReadToConsume` and `Pin` verify the store first (`StoreIsSealed`) and
later checkpoints have later ids (`SealedStays`). `After` says once what each action makes of the
process that takes it; the steps of the parts rest on it, on `Frames` (who writes what) and on
`Grows` (nothing gets shorter). `SpecKeepsAcknowledged`, `SpecOnlySealedIsUsed` and
`SpecPinHolds` follow for every number of processes, records, calls and crashes.
`BudgetInv` is the part for `SpecBudgetKept`. The budget is counted in one place and granted in
another: `consume` sums the receipts in the files, and a caller that dies between its receipt
and its return has spent what it was never granted. So the invariant says that what
was granted for a checkpoint costs no more than the receipts on record for it, that every
grant is one of those by checkpoint and request, and that a consumption between its
read and its record (`MayWrite`) or between its record and its return (`HasWritten`) still
has what it counted. Both sides are folds, one over a set of grants and one over a list of
receipts. The library's induction theorems take an operator and cannot be used here,
but its theorem that a well-founded relation has minimal elements takes a set:
`LeastNat` and `NoLeastBad` make of it induction over numbers and over finite sets, with
the set of counterexamples in the place of the predicate. `SumExists`, `SumWithout` and
`SumsAgree` show that the sum over a finite set exists and does not depend on the order of
its terms; `CostIs` and `UsedIs`, that both folds are that sum; `CostOfOneMore` and
`UsedOfOneMore`, all that the step lemma needs.

*The state repository* (`StateRepositoryProofs`). `RepositoryInv` adds to the types
that only the first call of a queue is past it; unless `stolen`, that a call between its lock
file and its release owns the lock, that what it read is the file when it is about to write,
and that the revision and the history of the file are what was stored and told; that a
call about to take a lock away has found a dead owner in it; and, whatever was stolen,
that the phases of the file, and of every state read from it, agree if those of the file
that was found did. Each mutator is shown
to keep them in agreement, once, as a lemma about `Mutated`; trimming a tail after an append
gives a tail. `PhasesAgree`
holds even when a lock was stolen, the other two until then. Its premise holds where there
was no file, and for an older one that lists no phases, has no gate and is not completed
(`FoundFresh`).

*The disposable environment* (`DisposableEnvironmentProofs`). `ReceiptsParse` speaks
of the end of an attempt and depends on its beginning: `AttemptInv` says what the
attempt remembers of its start still tells what the environment is now (before the
dispatch nothing changed, after it the generation is one further); then each end is
matched with the parser's case once, in `RefusalParses`, `FailureParses` and
`SuccessParses`, or shown to be one of `Refused` (`ThrowKeeps`). `TornDownIsGone` needs `LateInv`: a callback that runs has its
sequence in `lateOperations`, unless it is the verifier or the revoker of an export;
so an attempt begins beside no other callback. `RestoreIsFreshAndOnce` needs
`CountInv`: between attempts the generation counts the backend calls ever made, as long
as the environment was not given up (after a throw it is one ahead, but then no restore
is accepted any more), so a snapshot of this generation has seen no call since.

*The environment session* (`EnvironmentSessionProofs`). A session is in one of five
phases: `Open` (nothing late), `Late` (a call that timed out runs, with a recovery attached
to it), `Settled` (the recovery is queued), `Recovering` (it runs) and `Closed`
(quarantined for good: the recovery or a cleanup failed). `IInv` says in which it is, what the flags,
the queue and the adapter's calls are in each, that the sequence is the last one
dispatched where that matters, and that the snapshots which callers hold were taken at
sequences reached. A
scenario may pass from `Open` to each of the others in one step, through `Proceed`, `NextStep` and
`Finally`; `GoesOn` names what they have in common, so that every action is shown once
to lead from phase to phase. `SpecNoOverlap`, `SpecRecoveryPending`,
`SpecOnlyRecoveryInQuarantine` and `SpecRestoreIsFresh` follow, for any calls and steps.

*The receipts of scenarios* (`EnvironmentSessionProofs`). `ScenariosYieldReceipts` speaks of
a receipt that is there; what makes it true is what the scenario has gathered until then.
`ReceiptInv` therefore describes the draft at every await. While the steps go on the
draft is determined (`OnCourse`) by the sequence of its first reset and the number of
steps recorded: every record passed, and each has the next sequence (`Took`); the operation
that is awaited has the next one after them. When they have ended the draft is `Composed`: its verdict
agrees with its records (`Agrees`), and its operations rise and end at the session's sequence
or at a dispatch it owns to have lost (`InOrder`), or the first reset's observation
belongs elsewhere (`Astray`, one of the named exceptions). The two meet in five ways: all steps
passed, the steps were thrown out of, the first reset did not match, an action or an evidence did
not pass. Three lemmas then take a composed draft through the finally block: sealed
without a cleanup or with a deferred one (`UncleanedReceipt`), after a cleanup that failed or
came too late (`FailedReceipt`), and after one that succeeded (`CleanedReceipt`). `SpecScenariosYieldReceipts` holds for any number of
steps, which no run can show; with the phases it gives `SpecPassLeavesNothing`.

*Only model-checked:* the liveness properties `EveryAppendReturns`, `FinalizationSettles`,
`StartAndStopEnd` and both `CallsSettle`, which are beyond the prover. Every invariant and
action property of a passing run is a theorem.

## Plan

1. Done: `TrajectoryEvents`, `TrajectoryLog`, `TrajectoryLedger` and
   `LifecycleCoordinator`, with their theorems.
2. Done: `LeaseRecord`, `LifecycleLease`, `McpServer` (the lease store composed with
   startup and shutdown), with their theorems.
3. Done: `RuntimeCheckpoint` with its theorems; `PipelineService` and `StateRepository` with their
   theorems; `DisposableEnvironment` with its theorems; `ScenarioReceipt` and
   `EnvironmentSession` with its theorems.
4. Done: every invariant and action property that the runs check, as a theorem.
5. Next: the gateway's scope per call
   over the coordinator, with two parties that close it; the webhook publisher's
   bounded queue and its retries; the learning foundry and the release registry of the
   product factory, which keep state between calls.

## Not modelled

Text, prompts, skills, templates and documentation; user interfaces, the CLI and
developer scripts; containers, browsers and external judges of the product factory
and sandbox; pure request decoding and middleware. `PROJECT.json` gives the reason
per component.

The implementation has some 57,000 lines, most of them of these kinds: contract
validators, canonical encodings, report renderers, benchmarks, front ends and
generators, in which no step depends on another's timing and which example-based tests
reach. The modules here cover a small share of the lines and most of the state that
processes, callbacks and crashes contend for. Within the modelled parts, these are left
out: path, symlink and size checks of files; encodings, digests and attestation formats; `load`, `save`
and `update` of the repository (`load` takes no lock, and the other two run the
transaction that is modelled) and the order in which transactions publish their events;
`ProductIntentService`, which uses the same repository for another file.
