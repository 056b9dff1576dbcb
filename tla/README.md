# A formal model of Nopal

TLA+ modules, TLC configurations and TLAPS proofs about Nopal
(`sandsower/nopal`): the trusted launcher that runs an agent under a policy,
mediates every protected tool call through verification gates and human
approval, and keeps the evidence in a journaled run ledger. Paths below are
relative to the repository (`src/` stands before them in `PROJECT.json`).

Contents: the system (1), the modules and how they correspond to the code (2),
the runs, their bounds and their fairness (3), the proofs (4), what the code
does that one might not expect (5), what is not modelled (6).

## 1. The system

| Component | State it keeps | Operations | Correct when |
|---|---|---|---|
| run lifecycle (`nopal-core/run_ledger.rs`) | status of a run | eight command kinds; `transition` | terminal is terminal; only finalize ends a run |
| run-ledger store (`run_ledger_store.rs`) | `transactions/*.json` (truth), projections (`events.jsonl`, `checkpoint.json`, `run.json`, artifacts, report, transcript), lock file | initialize, the recording commands, adapter evidence batches, exact snapshot, legacy adoption, replay, repair | one log whatever dies when; an operation identity commits once; projections never run ahead |
| ledger reports (`run_ledger_report.rs`) | none | resume, dashboard, prune | what they say of runs read one after the other and without a lock is justified |
| enforcement core (`enforcement.rs`) | receipts, approvals, releases, outcomes as artifacts of the run | contract, plan, gate evidence, approval, release, outcome | proof and consent are bound to one exact subject and used once; no document's rule is lost |
| verification transaction (`nopal-cli/verification.rs`) | none of its own; at most three passes | observe, plan, run gates, re-observe, commit, release | a release rests on gates that passed on the workspace it releases |
| workspace observation, evidence adapter (`enforcement_adapter.rs`) | none | fingerprint the worktree, apply evidence | one directive is one transaction |
| gate executor (`gate_executor.rs`) | prepared runtime directory, one supervised process group | prepare, validate, execute, cleanup | a gate runs with the tools its launch bound, ends, and leaves its whole output |
| Pi action guard (`extensions/policy-gate/guard.ts`, `nopal-cli.ts`) | leases, active mutating call, poison and shutdown flags | `tool_call`, `tool_result`, `session_shutdown` | no call without its own current release; mutations alone; every release settled |
| Pi call classifier (`classifier.ts`) | none | classify a tool call | incomplete means refused |
| policy (`policy.rs`) | none | validate, evaluate | the strictest rule wins; a broken document denies |
| gate selection (`gates.rs`, `selection.rs`) | none | validate, select | every changed file keeps its proof |
| gate detection and scaffolding (`gate_scaffold.rs`, `scaffold.rs`) | `.nopal`, `.beislid` | detect, claim, publish, verify | one author, files appear once and whole; what is published is accepted |
| launch, headless verification, CLI (`launch.rs`, `main.rs`) | the run they open | plan, initialize a run, start Pi, close the run | what is launched was judged, and its gates were prepared |
| distribution (`distribution.rs`, `distribution_adapter.rs`) | contract, lock, one package store of all projects and its mutation lock | inspect, update, sync | the store holds whole archives; a session keeps its packages; reports are true |
| installer, importer, workflow, isolation, review policy, bundle checks, confined reads, roots, process artifacts, formats | documents and text | | see section 6 |

How they interact. A launch plans on the control files (and publishes them on a
first run), inspects the packages, prepares the gate runtime, opens a run of the
ledger and starts Pi. The guard lives in the agent's process and keeps its
leases in memory. For each protected call it starts a `nopal` subprocess per
request: `plan`, `advance` (the verification transaction), `record-approval`,
`advance` again, and after the tool ran `record-outcome`; at the end
`cleanup-runtime` and `ledger finalize` or `ledger interrupt`. Each request
observes the project, reads the contract again, asks the core for values, and
commits the evidence as one transaction of the run ledger, under the ledger's
file lock. Reports and the headless verifier use the same ledger. Shared are
therefore the run directory (between processes), the control files and the
worktree (between commands, tools, gates and the user), and the package store
(between projects).

What is hard. Processes race for one run, one repository, one store; each may be
killed between any two file operations; the guard's handlers interleave at
every `await`; a request may commit and its answer be lost; the project changes
between a question and its answer, between a check and its use; a gate's output,
deadline, exit and descendants come in any order; immutable evidence, single-use
approvals and operation identities have to survive all of it. `PROJECT.json`
lists these hazards at their lines.

## 2. Modules

| Module | Models | Proved in |
|---|---|---|
| `Lifecycle` | the pure transition rules of `run_ledger.rs` | |
| `LedgerLog` | abstract: what the ledger promises, one log with atomic commits | |
| `RunLedger` | the store: lock, replay, repair, temporary file, rename, projections | `RunLedgerProofs` |
| `LedgerReports` | several runs; resume, dashboard, prune against writers | `LedgerReportsProofs` |
| `PiGuard` | the guard's three handlers and the core's commits | `PiGuardProofs` |
| `ProvenRelease` | abstract: what a verification promises, release on proof and consent | |
| `Verification` | the passes of `advance`, its gates, and headless verification | `VerificationProofs` |
| `GateExecutor` | runtime, validation, supervision of one gate | `GateExecutorProofs` |
| `Policy`, `GateDocument`, `GateDetection` | the documents: validation, evaluation, selection, detection (operators) | through `ContractProofs` |
| `Contract` | the documents composed, edited, launched with and planned from | `ContractProofs` |
| `FirstRun` | racing first launches that publish the control files | `FirstRunProofs` |
| `Distribution` | the rules of contract, lock and trees (operators) | through `PackagesProofs` |
| `Packages` | update, sync and launches on one package store | `PackagesProofs` |
| `MC...` | small instances for TLC | |

`LedgerReports` extends `Lifecycle`, `Contract` extends `GateDetection`, which
extends `GateDocument`, and instantiates `Policy`; `Packages` extends
`Distribution`. `RunLedger` implements `LedgerLog`, `Verification` implements
`ProvenRelease`.

The ledger's components compose by abstraction: `RunLedger` shows that a
transition is atomic however it is written, and `Verification`, `PiGuard` and
`LedgerReports` take a transition as one step. Likewise `Verification` shows
what one `advance` does step by step, and `PiGuard` takes it as gates that run
(`CoreStart`) and a commit (`CoreAdvance`); `GateExecutor` shows what one gate
does, and `Verification` takes it as a workspace it leaves and a verdict;
`Contract` shows what a plan is, and `Verification` takes it as a function of
the subject; `FirstRun` takes gate detection as a function of the evidence.

### RunLedger

One run directory and a set of processes. `journal` is the sequence of
published transaction files, `disk` the projection files; the content of a file
is the revision that last wrote it, which is all that the properties tell
apart. `temp` says that `transactions/` holds a temporary file, `lock` who
holds the run lock. Each process has a program counter: `lock` (polling
`try_lock`, `Acquire`/`TimeOut`), `load` (`LoadFails`, `StageAnchor`,
`PublishAnchor`, `Load`), `repair` (one file per step), `decide` (`Replay`,
`Refuse`, `Stage`, `ReplySnapshot`), `rename` (`StageFails`, `Publish`),
`project` (one file per step, `Reply`). Between the steps a process may die
(`Crash`) and its lock is free, but the bytes it wrote stay. The model does not
lose writes that were synced, so a crash is the death of a process (or an I/O
error it gives up on), not of the machine.

A command names its kind, its operation identity, its body, and the artifact
effects of an evidence batch (write, create once, remove, clear). A caller that
gave no identity gets a fresh one, so such a command is never a replay.

### LedgerReports

`committed` is what the journals say, `shown` what `run.json` says, `envelopes`
which gate envelopes stand on disk. An envelope is one attempt of a gate, with the
time stamp its caller put in or 0 for none; a gate's name stands for name and scope. A command of one run is `Begin`, `Commit`,
`ProjectEnvelope`, `ProjectRun`, or `Refuse`/`TimeOut`; its process may die
(`Crash`) and the next command repairs. Resume and dashboard read `run.json` run
by run (`Scan`), in the order of their paths (`Rank`), and only then decide (`SelectResume`) or open one entry after the other, the most
recent first (`OpenDashboard`, `OpenEntry`). An entry's gates are looked for one by
one (`ReadGate`), sorted by their envelopes' time stamps and cut to `--limit`
(`ListGates` with `IsCut`); in which order gates are looked for, and which of several
with the same stamp are kept, is left open. Resume with a run id reads that run alone
(`ReadExact`). Prune judges each run's age (`JudgeStale`) and afterwards
finalizes the stale ones one by one (`FinalizeNext`, each with the lock and the
steps of a command). `moved` remembers which runs changed while a report
looked: the properties are about those that did not. The time stamp of a command
is taken before its lock, so stamps need not rise with revisions.

### PiGuard

`held`, `exclusive` and `released` are the map `activeCalls`; `mutating`,
`poisoned` and `shutting` the three flags. Each call has a program counter that
names the request it awaits, and `answer` what came back: the core's commit
(`CorePlan`, `CoreAdvance`, ...) and the handler's continuation are two steps,
and anything may happen in between. `Lost` fails a request before or after its
commit. The project is the policy in force (a verdict for each kind of call)
and a workspace version; a `Subject`, the authorization binding, is the exact
call at both. `CoreStart` to `CoreAdvance` is the verification transaction,
with the gates that run in it: gates not declared safe beside readers may
change the workspace. `ToolChanges` is the tool that Pi runs, `UserEdits` a
user outside the session. `session_shutdown` happens once, as Pi emits it.

### Verification

One process per transaction: `observe` (`refresh_intent`), `plan`, `gate` (the
gate runs), `exited` (`Reobserve`), `attempt` (`RecordAttempt`, `AttemptFails`),
then the next gate, the next pass, or one of the ends (`blocked`, `error`,
`diverged`, `approval_required`, `verified`, `release`). The shared state is the
project (contract and workspace), the runs, and the enforcement artifacts:
`receipts` are pairs of a gate and a subject, `approvals` and `releases` sets of
subjects. A subject, the authorization binding, is the exact call with contract
and workspace; the decision and the selected gates are functions of it, given
as constants, and so are what a gate leaves behind and what it accepts. A subject
that is denied selects nothing, as in `plan_for_intent`.

The callers are the guard (`Begin` with its lease rule, `Respond`, `ToolEnds`,
`NotReleased`) and `nopal verify` (`InitRun`, `Prepare`, `PrepareFails`,
`CloseHeadless`, `CleanupFails`). Around them: `UserEdits`, `CloseSession`,
`Fails` (a command of a transaction), `GateKilled` (the executor's limits) and
`Kill`, after which a running gate is an orphan that ends when it likes
(`OrphanEnds`). Which calls are exclusive is a constant here; `PiGuard` models
how the guard finds out. `Respond` takes `record-approval` and `advance` to agree
on the changed files; where they do not, see `targeted` below.

`earned` is a history variable: which gate passed and which workspace it left.

`ProvenRelease` is three sets and four actions: prove, approve, decline,
release. `Verification` implements it with its artifacts as the refinement
mapping; observations, passes and failures are stutters.

### GateExecutor

`prepare` is `MakeScratch`, `Resolve` (one executable at a time; one below the
repository or a temporary root is refused), `JudgeEntryPoints`, `LinkAlias`,
`WriteManifest`. What a digest pins is kept as what it digests: `bound` is what
the caller holds, `manifest` what is on disk. `validate` reads the manifest,
looks up every tool again and compares (`CheckManifest`, `CheckEntry`, and
`Confirm`, the same once more before cleanup). `Spawn` starts the leader of a
process group with two pipes. The supervision loop is one action per look:
`WatchLimit`, `WatchDeadline`, `PollLeader`, `WatchCollectors`, `KillGroup`,
`WaitLeader`, `Conclude`; each collector is a thread (`Collect`, `EndOfStream`)
that goes on reading past the limit but keeps nothing. The gate's processes write,
fork, leave their group and exit as they like. `Upgrade`, `ChangePath`, `Relink`,
`Rewrite` and `ReplaceScratch` are the disturbances; `touched` remembers what they
changed since the check of the present gate began, for the code does not lock the
tools between its check and the execution.

### Policy, GateDocument, GateDetection, Contract

A document is what parsing its text gives, with `Absent` for a missing field and
`Bad` for one of the wrong shape; `IsPolicyDocument` and `IsGateDocument` say what
that leaves of it, and `IsEvidence` what detection can see: runners, managers and
default tools of the registry, and no more workspaces than the expansion's budget. A package manager that detection
does not know counts as none (`Known`), but contradicts the lock of a root that
declares npm workspaces. `Policy` has the validation (`ParsePolicy`,
`PolicyErrors`), the lattices and `Evaluate`: rules by class and by action, the
strictest matching one, mode and built-in defaults, floors. `GateDocument` has
`ParseGates`, `GateErrors` and `Selected`; a path pattern is the set of files it
matches. `GateDetection` goes from the build files of the root and the declared
workspaces to templates (`ScopeTemplates`, `PlanTemplates`), to a readiness, to
the document that is published (`GatesJson`) and to the drift check of the next
launch (`MatchesChecked`), which wants the generated gates in their order.

`Contract` composes them: documents of the user, the repository and the
workflow, `Requirements` (what a launch prepares executors for), `GatesReady` and
`Launchable` (when it refuses), `PlanFor` (what each call is planned by). Its
actions are the first run's publication, a launch, a call of the session, and an
edit of any document or build file between any two of these.

### FirstRun

`at` maps the two places `.nopal` and `.beislid` to directories, so that a path
and an open handle can differ: the code claims by path (`Claim`), opens by path
(`Open`), and writes through the handle. `entries` holds what is in each
directory; a file is a record of its name, what it was generated from and who
wrote it. A launch is `Look` and a planner: `Preview`, or `JudgeGates`,
`ReadBundle`, `JudgeLock`, then `Preflight`; in between, on a first run, the
publication `RejectExisting`, `Claim`, `Open`, `RejectLegacy`, per file
`CreateTemporary`, `FillTemporary`, `LinkFile`, `DropTemporary`, then
`VerifyPlaces`, `VerifyFiles`, and the second plan. The user may stash the
directories away and bring them back, write, make a directory, leave a legacy
directory or change the build files; a launch may be killed anywhere.

### Distribution, Packages

`Distribution` has the codes that contract and lock checks report
(`BundleCodes`, `LockCodes`, `InspectCodes`), `BuildCodes`/`BuiltLock` and the
identity under which an archive is installed. A digest is what it digests; a tree
maps paths to contents. `Packages` runs the commands: update is `Acquire`,
`ReadBundle`, `Resolve`, `BuildProposal`, `RecheckBundle`, `Rebuild`, `Publish`,
`RereadLock`, `ConfirmBundle`; sync is `JudgeSync`, then per package `SkipExact`
or `Fetch`, `Displace`, `Install` (or `InstallFails`); a launch looks at contract,
lock and trees in three steps and becomes a session that uses what it pinned.
What sync and update go through are the places of the npm requests in the contract
(`Requests`), in their order (`First`, `Rest`); `Fetched` is what `resolve_npm`
accepts for a locked package, `Stored` what is installed under an identity.
The registry may answer with any archive, a wrong one or none. Around them: a
kill anywhere, edits of contract, lock and workspace packages, damage in the
store, a republished package.

## 3. Runs

| Run | Instance | Shows |
|---|---|---|
| `lifecycle` | 2 processes, 6 commands (initialize, two bodies for one identity, interrupt, resume, finalize), 3 + 2 revisions | all safety properties of the store, refinement of `LedgerLog`, and that every command ends |
| `evidence` | 2 processes, gate attempts, one immutable receipt, an approval that is replaced, consumed or cleared, on an adopted older run, 4 + 2 revisions | evidence is written once; projections recover through removals |
| `reports` | 2 runs, 2 processes, 4 commands or reports, 2 gates, one with a time stamp, of 2 attempts each, `--limit` 0 or 1, a clock of one staleness period | resume misses no run that stood still and picks the most recent; an entry of the dashboard lists the gate it calls its latest, or `--limit` is used up by gates with no older stamp |
| `session` | 2 reading calls of different classes, 2 mutating calls with one identity, 2 policies, 1 edit or lost request | fresh evidence, exclusive mutations, one release per call, consent, leases, outcomes, poison |
| `advance` | a reading and a mutating call, a headless verification, 4 gates, 2 contracts, 3 workspaces, 3 passes, 1 edit or fault | refinement of `ProvenRelease`; receipts, releases and verdicts are about the right workspace; three passes suffice for independent gates |
| `gates` | 2 tools (one of the system's), a leader and a descendant, one chunk per stream over a limit of one, 1 gate, 2 disturbances | an outcome is complete, a gate runs with what was bound, every gate ends |
| `documents` | 6 evidences of a two-workspace repository, 3 + 2 policies, 3 workflows, 5 calls, 2 edits | selection keeps proof, preparation covers every call, a launch is proven, every rule is honoured, what detection proposes is accepted |
| `firstrun` | 2 launches of 2 versions, 3 evidences, 4 directories, 2 disturbances | one author; files appear once and whole |
| `packages` | 2 projects, 2 contracts, 3 archives, 2 commands at once, 2 begins, 1 disturbance | the store holds whole archives, a session keeps its packages, sync repairs, update's report is true, commands end |
| `lost_run`, `targeted`, `uncovered` | small | counterexamples, section 5 |

What each property is about stands before it in its module; `PROJECT.json` has
with each a mutant of the code that it catches.

Bounds, and why they are enough.

- `RunLedger`. The store's code never compares two revisions other than "this one
  and the next", so three ordinary revisions reach every case: a first one, a
  repeated identity, and one that must be refused for the reserve. Two processes
  are enough for every race on one lock: a third could only wait too. The
  `lifecycle` run repeats a committed command, which is a retry, and uses its
  identity for another body, which is refused.
- `LedgerReports`. Two runs are the least that can be read in an order and be
  confused; one report and one writer, or two writers, or prune against resume. The
  clock has one tick, which makes a run stale. Two gates and a limit of one are the
  least of which one is cut; the latest gate may be the one without a time stamp,
  and the other be recorded before the scan or after it; `--limit` 0 is what a user
  may give. The proofs remove these bounds.
- `PiGuard`. Three leases may exist at once; a duplicate and a reuse of an identity
  both occur; `MaxVersion` = 1 lets the workspace change once and `MaxTroubles` = 1
  puts one edit or one lost request anywhere. The proofs remove these bounds.
- `Verification`. One edit (of contract and workspace together) or one fault may
  fall between any two steps; three workspaces are enough for a fixer, a generator
  that undoes it, and a tool's effect, and `<<audit, fmt, gen>>` is the shortest
  list of gates for which three passes do not suffice. The gates are chosen so that
  a gate fails, a receipt becomes stale, a pass repeats, a plan is denied, and one
  asks.
- `GateExecutor`. A chunk beyond the limit is one on either stream, so both orders
  of overflow and end occur; a descendant that keeps a stream after its leader is
  gone is the case the supervision is for. The proofs remove these bounds.
- `Contract`. The evidences give a root manifest that covers its workspaces, npm
  workspaces with an excluded member, a package manager of a workspace's own beside
  the lock of its root, one that detection does not know (in a workspace, and in a
  root that declares workspaces), a task runner, and two rival tools. Names with
  braces, which validation refuses in a generated gate, are excluded by
  `EvidenceAssumption`; the code then writes nothing, and so does `Publish`. The
  documents have an explicit gate beside generated ones, scoped selectors that cover
  a change, cover part of it, or do not compile, and a rule of the wrong shape. Two
  edits reach every pair of documents. The properties of the `documents` run are
  proved for all documents.
- `FirstRun`. Two launches claim and lose; four directories let both places be made
  twice. Two disturbances are what stashing and bringing back takes. Proved for any.
- `Packages`. One disturbance anywhere in two commands: an archive that both
  projects pin and one each pins alone; a registry that answers rightly, wrongly
  or not at all. Proved for any.

`CHECK_DEADLOCK FALSE` is set everywhere because the systems really stop: all
calls are over and the run is closed, every launch has ended, the bound of begun
commands is reached, or a dead initializer left a directory that no command finds
and whose name is taken.

Fairness. Liveness is claimed only of what the code drives itself.

- `RunLedger`: weak fairness of each process's own steps. The code polls `try_lock`
  until a deadline and otherwise never waits, so a live process that the operating
  system schedules always has a next step; nothing is assumed of new commands or
  of crashes.
- `Packages`: weak fairness of "some command steps". Nobody begins commands for
  ever, so this little is enough for a waiter to get the lock. It assumes that npm
  calls return (`bounded_output` kills npm itself at its deadline and then joins its
  readers, with the store's lock held).
- `GateExecutor`: weak fairness of the supervision loop, of each collector, and of
  the passing of time. Nothing is assumed of the gate's processes, which may write or
  sleep for ever.
- `PiGuard` states none: a human may never answer, and Pi owes no shutdown.
  `Verification`'s loop is bounded by `MaxPasses`; its gates end by `GateExecutor`.

## 4. What is proved

Every theorem holds for all values of the constants that satisfy the named
assumptions of its module: any number of processes, calls, launches, gates,
documents, revisions, edits and faults.

### RunLedgerProofs

From: a command names only known files; only evidence batches create or remove
artifacts; the file limit is the ordinary limit plus two.

1. `ProcInv`: types, `LockInv` (a process works on the run exactly while it
   holds the lock), `StagedInv` (what is staged was decided on) and
   `DecidesOnWholeJournal`. None is inductive alone: that nobody else
   commits after a replay is the lock's doing, and the lock's holder is known
   only with the program counters.
2. `JournalInv`: acknowledged transitions stay, identities commit once,
   terminal is last, the reserve is kept. It is inductive on top of `ProcInv`,
   because a publication appends exactly the entry that was decided on.
3. `DiskInv`: `RunIsRevision` (a `run.json` of revision r was written by r),
   `TodoInv` (a file that is not to be rewritten any more is current; while
   projecting, the rest is of the revision before) and the two properties of
   lock-free readers. The order of rewriting, artifacts before `run.json`, is
   what makes it inductive.
4. `Refinement`: every step of the store is a step of `LedgerLog` or leaves it
   unchanged; `Publish` is `Commit`, `Reply` and `Replay` are `Acknowledge`.
5. `EvidenceIsImmutable`: needs that a free attempt number exists when a gate is
   recorded, which is a condition of `Admissible`.

### PiGuardProofs

All seven properties of `session`, and the types. The invariant has a part for
each question, and each part is inductive only on top of earlier ones:

- `Typed`; `Leases` and `Closing`, what the map `activeCalls` means before and after
  the shutdown has closed the run; `Own`, while the run is open a call in flight owns
  the lease of its identity;
- `Exclusive`, a lease that must be alone is the only one, from which `Pairs`,
  releases that stand together are compatible, and `Evidence`, no sibling makes a
  call's evidence stale; `Fresh` is that of the call itself, `SamePolicy` and
  `Consented` tie the answer to the question;
- `Asked`: a call that was asked about runs only with the yes to its very subject;
- `Carried`, every release is some call's to settle until its outcome is recorded,
  and `Quiet`, a shutdown that finds no lease finds everything settled: together
  `CompletedIsSettled`.

### VerificationProofs

From: the constants have their types, a denied subject selects no gates, each
headless verification has a run of its own.

1. `Invariance`: `IInv`, which joins the types, `Planned_OK` (a transaction that
   runs gates has one of its own subject's gates before it; one about to release
   or verified has a subject that is not denied and whose gates are all proven)
   and `Headless_OK` (nobody consents to a headless verification, and only its
   end completes its run). A release rests on what the plan saw, and stays right
   because receipts are never withdrawn.
2. `CompletedOnlyOnProof` and `Refinement` follow from it; in the refinement
   `RecordAttempt` is `Prove`, `Respond` is `Approve` or `Decline`, and `Release` is
   `Release`.
3. `ReceiptsAreEarned` and `ReleasesAreFresh` rest on `CalmInvariance`: as long as
   nobody else touches the workspace and nothing fails, no gate outlives its call, a
   call that moves the workspace is the only one under way (`Alone_OK`), and so what
   each call observed, and what its last gate left, is what is there (`Current_OK`).
   They assume `SharedGatesRead`: calls that may share the workspace select only
   gates that leave it alone. Nothing in the code enforces that. With two shared
   calls whose gates write, one gate may end between the other's exit and its second
   observation. `MCVerification` states it as an assumption, so that TLC evaluates it
   on the instance.

4. `IndependentGatesConverge`, from the same calm: `EarnedByGate` (what a gate left
   is something that it leaves) and `Passes_OK`. Gates that do not depend on the
   workspace and commute leave a fixed point: after a pass each gate that ran accepts
   what it left and keeps doing so whatever the others do (`Fixes`), so the second pass
   changes nothing, a receipt it records stays one for the workspace that is there, and
   the third finds every gate proven. It holds for lists of gates of any length and
   repetition, from three passes on.

### GateExecutorProofs

Types, `CompleteOutcome`, `BoundTools`. `Collected`: a stream that a collector saw
end has no writer left and nothing unread, since only a holder can pass a stream on;
unless the limit was exceeded everything read was kept. `Settled`: an outcome comes
only after both streams' ends and a leader that exited. `Checked`: what the check
has passed is as it was bound or was touched since the check began.

### LedgerReportsProofs

From: finitely many runs, each with a place of its own in the order of their paths.

1. `OneHolder`: two processes never write projections of one run. With it
   `Projected`: no envelope on disk that is no attempt in the journal, and `run.json`
   calls no gate its latest whose envelope is not there, which is `DiskFollowsJournal`.
   It is inductive because a command writes the envelope before `run.json`, and
   because a command that dies between the two leaves the journal ahead of both.
2. `DashboardIsWhole`: the gate that a scan has read of has its envelope on disk
   (`Seen`), since envelopes are never taken away. While the entry is open it is still
   to be looked for or was found, by that attempt or a later one (`Sought`); once cut it
   is listed, or the limit is used up by others that are not older (`ShownOrCut`). It
   holds for any limit, any stamps and any gates, recorded before or after the scan.
3. `ResumeJustified`: what the scan has passed and nobody has written since is kept as
   it is on disk, or was not for the scan to keep (`Looked`), and what is selected is the
   most recent of what was kept (`Chosen`). That a finite set of runs has a most recent
   one is the only place where finiteness is used.

### PackagesProofs

From: the placeholders are no documents, contracts are lists of requests of the three
kinds, and bytes with the same integrity are the same bytes (`IntegrityAssumption`).

1. `LockDiscipline`: who holds the mutation lock is exactly who is between its first
   read and its report. Only it moves packages.
2. `StoreIsWhole` from `Placing`: what a sync moves aside is damaged or nothing, and
   what it puts there is the tree of the archive that the identity names. Both need that
   the lock pins the archive by its integrity (`Pins`) and that a package is only moved
   when it is not what the lock pins.
3. `SessionIsKept` from `Kept`, on top of `Placing`: two locks may pin one archive with
   different trees only when one of them was edited by hand to pin a damaged tree; the
   property excepts such a lock, since syncing another project puts the archive back.
4. `UpdateTellsTheTruth` from `Proposed`: the lock that update built is that of the
   contract it read; before it reports, it has read contract and lock once more.
5. `SyncEndsWell` from `Undisturbed` (while nothing happens around a sync, its copies
   of contract and lock are what is on disk) and `Repaired` (the packages it is done with
   are as the lock pins them, and the one it moves now is none of them, because two
   requests for one identity find it exact the second time). At the end the inspection
   sees the store as `Repairable` imagines it.

### ContractProofs

From: the placeholders are no values; the templates that detection can name are in the
registry, their ids in the reserved namespace, the workspaces finitely many; documents
are as their parsing leaves them. No assumption says that a document is valid.

- `SelectionKeepsProof` holds of any document: a generated gate is selected unless
  explicit proof covers every changed file.
- `PreparedCovers`: the gates of a plan are those of the same documents at stages a
  call can have, and a conflict that fails a plan would have refused the launch.
- `RulesAreHonoured`: the values of a lattice are four numbers, so a set of them has a
  strictest one (`StrictestIsGreatest`); a rule of a valid document that states something
  for a call is matched (`StatedIsMatched`), a matched rule is not outvoted
  (`EvaluateBinds`), and no document outvotes another (`ComposedBinds`). The floors give
  the rest. `Provenances` ties the plan to documents that have not changed since.
- `LaunchesAreProven`: explicit gates that stand for the repository have no selectors,
  so they are selected for every change (`UnscopedIsAlwaysSelected`); otherwise the
  generated gates are those of the plan, and a change they are not selected for is
  covered (`GeneratedOrCovered`). What one source selects is not lost in composition
  (`SelectedIsRequired`). A ready plan has a template besides the baseline in every
  workspace (`ReadyIsProof`).
- `PublicationAccepted`: what detection proposes is valid, so that the first run
  writes it: a plan's templates are registered and finitely many
  (`PlanIsRegistered`), so the written lists are theirs without repetition
  (`WrittenAsPlanned`), and none of the codes of validation applies (`WrittenIsValid`).

### FirstRunProofs

`FilesOnce` from `Whole` (a half-written file has only a temporary name) and the hard
link that refuses a name that exists. `WinnerIsAlone` from `Alone`: unless the user
disturbs, `.nopal` is unclaimed and nobody is past its plan, or one launch is the
author, holds the directories the paths lead to (`Holds`), and they contain what it
linked so far and nothing else (`Laid`); directories not made yet are empty
(`Unused`). Hence its verification cannot fail and every other launch is refused.

### Only model-checked

`EveryCommandEnds` (of `RunLedger` and of `Packages`) and `EveryGateEnds`: liveness
under fairness is out of the prover's reach. Every other property that a passing run
checks is a theorem. The three refuted statements of section 5 are, of course, not.
No module with a theorem reaches a RECURSIVE operator.

What the proofs taught about the model: `LedgerReports` and `Packages` were first
written with sequences that are filtered and folded, whose meaning for every length
needs induction; they now work on sets with an order, as the code's loops do one
element at a time. A sync that finds its lock unreadable when it starts must say so at
once, as `sync` does when parsing the lock fails, and not go on with it. A contract may
be missing and not only broken. A session is protected from other projects only up to a
lock that was edited to pin a damaged tree.

## 5. What the code does that one might not expect

Three runs refute what a document of the repository says; `PROJECT.json` quotes it.

- `lost_run`: initialize dies after publishing and before `run.json`: no
  command finds the run again, and its id is taken.
- `targeted`: the approval of a file write is refused, because
  `record-approval` hashes the file the call names and `advance` the files that
  are changed.
- `uncovered`: a workflow with one explicit gate for one directory removes the
  repository's generated gates for every changed file.

Other configurations are not part of the project's runs but can be run, each with
its MC module, for one more counterexample:

- `RunLedger_temp_residue`: a process killed between creating and renaming the
  temporary file leaves an entry in `transactions/`, which every later command
  refuses.
- `RunLedger_full_legacy`: the anchor of an adopted run counts as a journal file, so
  the second reserved revision makes the journal unreadable.
- `PiGuard_unsettled`: a shutdown that begins while a release is committed but its
  answer not yet delivered closes the run, as aborted, without an outcome for it.
- `PiGuard_stuck`: a tool result and the shutdown record an outcome of the same
  release; when the shutdown's comes second it is refused, and the run is never
  closed although nothing was lost.
- `Verification_orphan`: the guard gives a verification ten minutes, the executor
  gives each gate as many; a killed verification leaves its gate running in a process
  group of its own, and it changes the workspace under the next exclusive call.
- `FirstRun_preview`: the second plan of a first launch finds the directories
  stashed away, is a preview and passes; after they are back the session runs on
  files nobody has judged.
- `GateExecutor_orphan_pipe`: a descendant that left the process group keeps a pipe
  open past the deadline, and `execute` waits for it.
- `LedgerReports_pruned`: a run that went on after prune judged it stale is finalized
  all the same.

Read in the code, at the lines given, and outside what the models tell apart:

- The process group is killed by number after its leader was reaped
  (`gate_executor.rs` 473–520); the number could have been reused.
- A launch that fails after preparing the runtime and before opening the run leaves
  the scratch directory (`main.rs` 1932–1986).
- A sync that fails reports that nothing changed although an earlier package of the
  same call was installed (`distribution_adapter.rs` 912).
- Enforcement evaluates policy with an empty environment (`enforcement.rs` 275), so a
  policy's `env` references classify nothing of a protected call; a reference
  without classes adds none (`policy.rs` 975–982).
- `selection.rs` 101–103 says that validation reports bad globs; nothing compiles them
  there, and the selector then matches nothing. In gate sets an id that is no string
  is dropped, and an unknown stage is a warning.
- A document of schema v1 with scoped gates only may be called ready by doctor where
  the launch refuses it.
- The dashboard may leave out the gate that an entry calls its latest checkpoint: the
  gates are sorted by a time stamp that their callers supply or omit, and cut to
  `--limit` (`run_ledger_store.rs` 2749–2761), so with six gates a latest one with an
  older stamp or none is missing, and so is one displaced by others recorded after the
  scan, or any with `--limit 0`. `DashboardShowsItsGates` allows this and nothing else.
- Time stamps are taken before the lock, so recency may go backwards; a resumed run
  keeps `finalized_at`, and one that was pruned and resumed is never pruned again; a
  prune that times out on one lock loses its whole report.
- A full journal refuses a command before it looks for its identity
  (`run_ledger_store.rs` 1382), so the retry of a committed command is refused too;
  adapter evidence has no identity of its caller (2484).

## 6. What is not modelled

- The Pi call classifier, the importer of the older tool, the validation of
  workflow, isolation, review policy and bundle documents, output formats: functions
  from text to text or to codes, without state; the repository tests them by
  example. Where their verdict matters it is a parameter (`faulty` of a workflow, the
  class of a call).
- Confined reads, process artifacts and roots: the operating system's directory
  handles.
- The installer: a shell script of the release archive that puts one version beside
  the others and renames two links.
- npm, git, the registry, the sandbox, Pi and the user are external; they do what
  the actions named for them say.
- `RunLedger`: byte limits, text limits, the parsing of requests and journals, and
  damaged files, which replay refuses. `Verification`: that one observation takes
  several git commands. `PiGuard`: the rendering of prompts and messages. `Packages`:
  archive formats and staging names, which nobody but their owner looks at.
- A crash is the death of a process; synced writes survive it.
