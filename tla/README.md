# Atoryn Forge / CycleWarden: formal models

TLA+ modules, TLC configurations and TLAPS proofs for the parts of the
repository where state, concurrency and failure meet. Paths below are relative
to `src/`.

## 1. Inventory

The repository is a TypeScript monorepo: a web application that governs runs of
remote coding agents (Atoryn Forge), a local evolution engine that keeps
evidence-gated improvement cycles on disk (CycleWarden), and a local control
core that supervises agent processes.

| Part | State | Operations | Hard behaviour | What makes it correct |
|---|---|---|---|---|
| Forge run governance (`apps/web/src/lib/forge`) | PostgreSQL rows: runs, tasks, events, approvals, change sets, reviews, publications, idempotency records | start, instruct, cancel, resolve approval, prepare evidence, resolve review, next iteration, publish | concurrent transactions, reads without a lock, a publication of two transactions around a provider call, client retries | active-run limit, dense event log, ended runs stay ended, published = approved, commands idempotent |
| Forge domain (`packages/forge-domain`) | none | transition table, admission, completion gate | boundary cases of the gate | mandatory requirements never waived |
| Forge repository, reconciler, event sink (`packages/forge-application/src/{persistence,reconciliation,events}`) | the same rows | snapshot and compare-and-set transition, stale-run failure, provider event append | stale snapshots, redelivered events | version identifies state, an event once per correlation |
| Forge in-memory services (`packages/forge-application/src/{runs,reviews,publications,store}`) | maps of one process | start, execute, cancel, review, next iteration, publish | a run object held across `await`s while others change the run | sandboxes released, a run published once and as approved |
| Provider adapters (`packages/provider-*`) | Codex threads and turns, Vercel sandboxes, GitHub branches, pull requests, installations, tokens | start, steer, answer, cancel, stream; create, execute, destroy; draft change request; webhook, reconcile, issue a credential | failed calls whose effect stays, redelivery, changes by others between two calls | a cancelled run has no turn at work, the approved commit is what is opened, one handler per delivery, no grant for what was revoked |
| Forge event feed (`run-event-projection.ts`, the SSE route) | cursor of a client | project events after a sequence | append during a read | no event skipped or repeated |
| Evolution cycle engine (`packages/evolution-core/src/{state-machine,policy,persistence}.ts`) | journal, snapshot and lock file of a cycle | create, save, load, transition, authorize | crash between two file operations, a dead owner's lock, competing writers | accepted transitions survive and are one line |
| Evolution delivery (`packages/evolution-core/src/delivery*.ts`) | control file, operation checkpoint, lock and cancellation, worktree, branch and pull request | execute, verify, publish, cancel, reconcile the lease, recover | kills between files, a child that outlives its owner, a recovery beside a live operation, lost answers of GitHub | one operation at a time, only the checked patch is committed and published |
| Evolution research (`packages/evolution-core/src/{research*,public-*,repository-*,candidate-*}.ts`, `*-cli.ts`) | the cycle, and what a command has gathered | research a repository, candidates, public sources, searches; prepare a handoff | slow and failing sources, a time read before an `await`, four saves in a row | a decision rests on what passed every check, in time; runs are only appended |
| Evolution checks and evidence | files and reports | run checks, register | external tools | fails closed |
| Control core (`apps/control-core/src`) | `state.json`, live agent processes | start, cancel, decide, verify, reconcile at boot | process exit against cancel, approval timeout, restart | a cancel reaches the agent, only checked work ships, no task stuck |
| Web pages, shared packages | none of their own | validation, presentation, adapters | none modelled | – |

The web services and the packages' repository classes share the database rows
and nothing else: they interact through row locks, the `version` column, unique
indexes and idempotency records. The in-memory services are a second implementation
of the same use cases over one process's maps; they call the providers directly. The
evolution commands share the files of a cycle; they interact through the lock files,
the journal's check of the state a save was derived from, and the worktree. The
control core's HTTP handlers, its child processes' callbacks and its timers share one
in-process store with a write queue.

## 2. Modules

| Module | Models |
|---|---|
| `RunStateMachine` | run states, transition table, admission and completion gate of `packages/forge-domain` |
| `ForgeRuns`, `MCForgeRuns` | the runs of one workspace as rows changed by concurrent transactions: the four web services, the repository, the reconciler, the event sink |
| `ForgeExecution`, `MCForgeExecution` | the in-memory services over one store, composed with the three providers below |
| `CodexAgent` | threads, turns, event stream and operators' calls of the Codex provider |
| `VercelSandbox` | the sandbox of a run and its registry record |
| `GithubSource` | the calls that make a draft change request, among publications and developers |
| `GithubInstallation`, `MCGithubInstallation` | webhook claims, the page-by-page reconciliation of an installation, the credential broker |
| `EvolutionStore` | the journal, snapshot and lock file of one evolution cycle under processes that may be killed |
| `CycleStages` | stages, required artifacts and authorization of a cycle |
| `OperationLease` | abstract: the lease of a delivery operation |
| `DeliveryLease`, `MCDeliveryLease` | its files: `operation.lock`, `operation.json`, `cancel.json` under owners, recoveries, cancellations and kills |
| `Delivery`, `MCDelivery` | execute, verify, publish and recover over `OperationLease` and `CycleStages` |
| `ResearchReview` | the bundle and the checks that every research command shares |
| `PublicResearch`, `PublicSearch`, `RepositoryResearch`, `CandidateResearch` | what each kind of research parses, gathers and checks |
| `Research`, `MCResearch` | the research commands over one cycle |
| `ControlCore`, `MCControlCore` | one task of the control core: its record, its HTTP handlers, the agent sessions of the runner in both modes, the restart of the core |
| `ForgeRunsProofs` | type correctness, the inductive invariants and the safety theorems of `ForgeRuns` |
| `ControlCoreProofs` | type correctness and the discipline of the write queue of `ControlCore`, and the safety properties of its exec mode |
| `DeliveryLeaseProofs` | type correctness, exclusion, the refinement and the child's lease of `DeliveryLease` |
| `EvolutionStoreProofs`, `DeliveryProofs`, `GithubInstallationProofs`, `ForgeExecutionProofs`, `ResearchProofs` | type correctness, the inductive invariant and the safety theorems of the module they are named after |

### 2.1 ForgeRuns and the code

*State.* One variable per table, and `proc` for what a handler keeps between two
of its steps, `reply` for the last answer a client got. `run[r].state = "absent"`
is the missing row. `events[r]` is a set of rows, so that a repeated sequence
number would show; `review` and `publication` hold the one row per run that their
unique indexes allow. A workspace is modelled alone: each query carries its id.

*Steps.* A transaction that begins by locking the run row, or the workspace row,
is one action (`StartRun`, `PrepareEvidence`, `ResolveReview`,
`CreateNextIteration`, `ResolveApproval`). `cancelForgeRun` and
`addForgeInstruction` read the run without a lock and update it later:
`ReadForControl`, then `CommitCancel`, `CommitInstruction` or `FinishControl`.
`publishApprovedForgeRun` is `BeginPublication`, then `FailPublication` or
`CompletePublication`, with `Crash` in between. A repository user is
`ReadSnapshot`, then `TransitionRun`. An idempotency claim is part of the
transaction that makes it and is rolled back with it. The intermediate row of
`cancelForgeRun` (`cancelling`, then `cancelled`) is never committed, so the
action writes both versions and both events at once.

*Data.* An instruction is `""`, `"secret"` (its diff is caught by the secret scan)
or `"sensitive"` (it asks for an approval). Evidence is the set the fixture
provider writes. Two fields of the model are not columns: `EventRow.ref` for the
events of commands, and `reply`; they only serve properties.

### 2.2 EvolutionStore and the code

*State.* The three files of a cycle directory (`journal`, `snapshot`, `lock`) and
the owners of temporary snapshots (`temps`); per process, the file operation it
has reached (`proc`) and the cycle it last created, saved or loaded (`known`),
which is the `previous` of its next save. `acked` and `reads` record answers and
only serve properties. A cycle is its history, and stands for its own checksum: two
cycles with one history have one checksum, as in the code, where every transition
names its actor.

*Steps.* `create`, `save` and `load` are their file operations in order, each an
action, because each can be seen by another process and a kill can fall between any
two. `acquireLock` is `OpenLock` (exclusive create), `MarkLock` (token and process
id written), or `StatLock`, `ReadLock` and `Reclaim` (the age of the lock file, then the
record of whatever file is there by then, then its removal by its path), or `Timeout`; the
release is `Release` (read the token) and `Unlink`. `stolen` is history: a process removed
the lock of a live one.
`save` calls `load` under the lock and `load` is also called without it: both run
`ReadJournal`, `Compare` and, when the snapshot does not match, `WriteTemporary`
and `RenameSnapshot`. The `previousChecksum` check of a snapshot is part of its
equality with the record. `AgeLock` is the passing of `staleLockMs`.

*Failure.* `Crash` kills a process between two file operations. With `TornWrites`
it may also leave part of a journal line, or the line without its newline. The
order of `fsync` does not matter to either: what is lost with the machine's power
is excluded by `docs/evolution/PERSISTENCE_SUPPORT.md`.

*Left out.* `initializeProject` and `config.json`, `list`, `replay` (the first half
of a load), the migration of v1 records, an operation that fails with an I/O error.
A process id is not used again, and a live process writes its lock record before
`staleLockMs` has passed.

### 2.3 ControlCore and the code

*State.* `task` is the record in the store (its status, whether recovery evidence
lets it resume, the request of its pending decision); `queue` and `done` are the
store's write queue; `handler` is what each HTTP request, and each session's chain of
callbacks, awaits; `registered` is `AgentRunner.processes` for the task; `session[s]`
is a process record with its client and child; `work` is what `git status` and the
checks would say of the worktree. `handler.seen`, `session.stopped` and `overlapped` serve
properties; `overlapped` says that a session was launched while an earlier one was
registered, had a child alive, a callback under way or a client (`Quiet`). A child is
`alive`, `signalled` (its client was killed: `kill` only sends a SIGTERM), an `orphan` (the
core restarted and the child did not end) or `dead`; all but the last may work on.

*Steps.* The core is one thread, so an action is the code between two `await`s.
Every store call is a mutation at the end of `writeQueue`; `Commit` runs the head,
and the handler that awaited it goes on in a step of its own, which reads the task
as it is by then. How far mutations may run ahead matters: the promise chain
of `#mutate` starts the next mutation before the previous handler continues, but
that mutation then writes a file, so a second one cannot start. `done` therefore
holds at most two answers, and `Settled` makes everything that comes from outside (a
request, a child's exit, a timer, the next mutation) wait until the microtasks have
run. A mutation and the write of its file are one step.

*Callbacks.* They look up the record that is registered for the task when they run,
not the one of the session they belong to, and so do the actions (`registered`
and not `s` in `HandleTimeout`, `HandleClose`, `HandleExit`). An app-server session
runs its callbacks one after another (`inbox`); a rejected transition in one
of them fails the task (`Rejected`; an HTTP client gets the error instead). In exec mode
nothing handles a rejection (`void this.#handleExit(...)`), nor that of the failing itself
in app-server mode: Node ends the core (`Ended`), which does nothing more until it is
started again.

*Modes.* The mode is a variable chosen in `Init`, as the environment variable is read
per start but set for the life of the core.

*Checks.* `runCheck` (79-114) has no timeout, and no cancel reaches a check, since the
process record is removed before (436, 516). `RunChecks` may therefore never come: it is
under no fairness.

*Left out.* Projects, several tasks (they share only the queue), messages and other
events that only append, an agent that cannot be spawned, failed writes of
`state.json`, the project watcher and the AtoRyn bridge. `Restart` leaves every child it
finds as it is (`server.mjs:255-265` kills none): it ends by itself, or is an orphan whose
output nobody reads.

### 2.4 DeliveryLease, OperationLease and the code

*State.* `lock` is the operation named by the record behind the hard link
`operation.lock`, `checkpoint` the record in `operation.json`, `request` the one in
`cancel.json`; `children` are the process groups that are alive. A process runs one
command, and an operation stands for the process id of its owner. `escaped` and
`broken` are history: children that no record names once their owner is gone, and
whether a file was overwritten or removed while the lease was another operation's.

*Steps.* `withDeliveryOperation` is `Prepare` (the inspection and the prepared
record), `Acquire` or `AcquireRefused` (the hard link), `PublishCheckpoint` or
`PublishFails` (the rename), the work, `Conclude`, `Release`. A child process of the
work is `Spawn` and then `RecordChild`, since `execution-backend.ts` records the pid
after the spawn. `reconcileDeliveryOperation --apply` is `InspectStale`, `Recheck`
(after the evidence, which is awaited), `Rewrite`, `Clear`.
`requestDeliveryCancellation --apply` is `RequestCancel`, `Signal`, and the
read and the write of its note in the checkpoint. Each file operation is a step; a
`Kill` may fall between any two.

*Abstraction.* `OperationLease` has an operation take a free lease, work while it
holds it, finish, and the lease be freed; `Break` is the exception, a lease taken from
an operation at work, after which it promises nothing. `DeliveryLease` implements it with
`holder <- lock, working <- Working`. `Delivery` extends it and never breaks the lease.

*Left out.* Heartbeat times, records of other hosts, an unreadable or forged record,
the reuse of a process id.

### 2.5 Delivery and the code

*State.* What a call may be killed between: the stored cycle (and `linked`, whether
its changes name the execution evidence), the control file, the worktree, the branch
and the pull request, the registered evidence. A content is an abstract value; a patch
digest and a commit are the content they are made from, so that "the worktree still has
the recorded patch" is an equality. `job[p]` is the step a call has reached and what it
read (`saw`), which is what it later writes back.

*Steps.* `executeDelivery`, `verifyDelivery` and `publishDelivery` are cut where
they await a command, git, `gh`, the evidence registry or a save; the snapshots, the
`git add` and the commit are separate steps, as are push, confirmation, listing,
creation and view of the pull request. A save compares the stage it was derived from.
`recoverDelivery` takes no lease and runs beside the others. `Around` is the
world: a drifting worktree, a push or a ready mark by others, an approval that ends, an
operator's `advance`, each at most once (`Events`), and `OrphanEnds`, a command of a
killed call that still writes.

*Left out.* Content of manifests, reports and diagnostics; several checks are one with
the worst result. Checks change the worktree but not git's HEAD, which
`delivery.ts:808-809` looks at again; a check that commits is refused there.

### 2.6 Research and the code

*State.* The cycle with the run, the verdict of the review and the decision it holds;
per command the request it was given and what it has gathered; a clock in minutes, the
unit of the budgets.

*Steps.* A command loads the cycle (`Begin`), gathers source by source or query by query,
reviews in one step, and saves the stages it prepared one after the other (`Save`), each
a compare-and-set on the stage before. The parsers and the checks are the predicates of
the five library modules, in the order of the code: a bundle refers to its parts by
position, so that an unknown id is an index out of range. Which manifest a command is
given comes from `Requests`: sound ones, ones the review refuses, and malformed ones.

*Left out.* Text, quotes and the network under a capture, whose outcome is `clean`,
`edited`, `quarantined` or failed.

### 2.7 ForgeExecution, its providers and the code

*Steps.* The services run on one event loop, so an action is the code between two
`await`s of a provider. `execution[r].copy` is the run object that `executeRun` holds:
every save writes it. `cancelRun`, `resolveReview` and `createNextRunIteration`
await nothing and are one action each. The provider's calls are the actions of
the module named after it, conjoined with the step of the service that waits for them,
and their failures are counted (`MaxFaults`). A failed write may have taken effect.

*Providers.* `CodexAgent` keeps the threads of the app server and the injected registry;
operators' `addInstruction`, `resolveApproval` and `cancel` read the record first and act
on what they read. `GithubSource` is the sequence of `createDraftChangeRequest`.
`VercelSandbox` keeps a machine and a record per run, and in `kept` why a machine was not
released: `create` never heard of it (its answer was lost), Vercel refused, or the
registry could not be read and Vercel was not asked. `contested` holds the runs on which an
instruction that starts a turn was under way beside a cancel or another such instruction,
or failed before its turn was recorded. The head a publication asks for is the commit
named by its run: `publishRun` takes it from its caller (`publish-run.ts:28`), who is
assumed to pass the head the reviewer saw.

*Left out.* Authorization, `createTask`, `addInstruction` and `resolveApproval` of the
services (they only append), event texts, the workspace's other tasks.

### 2.8 GithubInstallation and the code

GitHub is the installation, the repositories it grants and the deliveries it sends;
the stores of claims and snapshots are external. `GitHubWebhookHandler.handle` is
`Claim`, the work its action selects, `Complete` or `Release`; a crash leaves the
claim. The reconciler lists page by page while the installation changes, and refuses a
repository it sees twice. The broker checks the stored grant, awaits the signer and
GitHub, and judges the token's expiry from the time it read before. `inTurn`,
`abandoned` and `revoked` (the delivery that last told that GitHub permits a repository no
more) are history.


## 3. Runs

| Run | Asks | Bounds |
|---|---|---|
| `forge_control` | log density, versions, at-most-once, ended stays ended while one run is instructed, cancelled, approved, worked on and reconciled | 1 run, 2 handlers, 2 keys, 4 commands, 1 correlation, 7 events |
| `forge_review` | the active limit and the order of iterations while two tasks compete; what is published is what was approved, decisions are final, an approved run is published or cancelled in the end | 3 runs, 2 tasks, limit 1, 2 keys, 2 handlers that fail or crash, 10 events |
| `forge_terminal` | violated: a sentence of the data model that the code does not keep | 1 run, 2 handlers, 9 events |
| `forge_execution` | sandboxes released, active limit, published as approved and once, no turn at work after a cancel, ended runs rest | 2 runs of which 1 is executed and steered, 2 publications, 2 operators' calls, 2 turns, 2 faults; symmetric calls, publications and keys; 1.0 million states |
| `github` | one handler per delivery, a settled snapshot mirrors GitHub, what was revoked is granted no more | 3 repositories in pages of 1, at most 2 pages, 3 changes, 2 handlers, 1 fault; 2.3 million states |
| `store_kill` | one accepted next transition unless a live lock was removed, no silent loss, loads that do not go back, every operation ends | 2 processes, histories of up to 2 transitions, 2 kills, torn writes; 0.15 million states |
| `store_branch` | violated: a sentence of the store's document that the code does not keep | 2 processes, histories of 1 transition, no kill |
| `delivery_lease` | the files implement the lease, a child keeps the lease, a dead owner's lease is cleared | 2 processes that own, 1 of which also recovers and 1 cancels, 3 operations, 2 children each, 1 kill |
| `delivery_overlap` | violated: a sentence of the lease's document that the code does not keep | 2 processes, 3 operations, no kill |
| `delivery` | verified cycles have evidence, the checked patch is committed and published, executions settle | 2 calls, 2 actors, an in-scope and an out-of-scope content, 1 kill and 1 other outside event of any kind; 0.7 million states |
| `research` | decisions are grounded and in time, runs are only appended | 2 commands, 2 addresses, about 40 requests, 2 minutes, 1 kill, 1 move by hand; 0.9 million states |
| `core_runs` | as long as sessions do not overlap, an agent stays within reach of a cancel, only checked work is ready to ship, an answered cancellation holds, approvals and verifications end | 2 clients that start, 1 that cancels, 1 that decides; 2 sessions, 2 approvals, 1 restart in each mode; app-server only up to the first overlap, with 1 client that starts and 3 launches, requests and restarts in all (`UpToOverlap`) |

*Why these bounds.* `MaxEvents` bounds the event sequence of a run; since every step
that could be repeated without end appends an event, it makes the state space finite.
In `forge_review` ten are enough for a rejected run to be iterated and for a secret
run of another task to compete for the place. Seven events are enough for a run to be created, instructed with an approval, resolved,
cancelled and to receive a provider event, in every order. Two handlers are
enough for every property here: a third would only interleave a second late
commit, and both kinds of late commit (cancel, publication) occur with two.

In `forge_execution` the second run is what an iteration, a second active run and a
foreign commit on the branch need; two publications under two keys are what a doubled
publication needs; two faults are a failing call and a failing clean-up of it. In
`github` three changes are what a second change during the repetition of a failed
delivery needs, and pages of one repository let a page shift under the reconciler and
let the limit of pages be met. For the store, two processes and two kills let a lock be
reclaimed, the lock of a live process be removed, a snapshot be repaired late, a torn line
be appended to and a line without newline be spoilt after it was loaded. For the lease,
three operations are what a stale removal needs (the old, the removed and the admitted
one) and two children what an overwritten child record needs. For `delivery`, two calls
are what a recovery beside an operation needs; the cycle is at the risk at which
changing code needs an approval, so that it can end. For `research`, two commands are
what a conflict needs, and two minutes what passes a budget of one. For the control
core, two starters and two sessions are what overlapping starts, a second run of one task
and a start beside an orphan need, two approvals what a stale decision and a request
beside another need, and one restart may fall anywhere. Its properties say nothing of a
behaviour once sessions have overlapped, so that app-server mode, whose states are many
more, is followed no further than that (the `CONSTRAINT` `UpToOverlap`); exec mode is
explored to the end.

Deadlock is not checked: the commands, launches or outside events of every run are
bounded, and in `store_kill` both processes may be killed, so that the system stops.

*Fairness of the store.* `OperationsEnd` assumes that a process that is not killed
takes its next file operation (weak fairness of its steps) and that its wait for the
lock, which has a deadline on the clock, does not outlast every deadline (strong
fairness of `Timeout`, since another process may take and release the lock between).
Nothing is assumed of `AgeLock`: a lock never aged ends in a timeout.

*Fairness of ControlCore.* Weak fairness of the event loop: the head of the queue
runs, a handler that was answered goes on, the callbacks of a session run, `git` ends, and the timer of an approval fires
(`approvalTimeoutMs` is always set).
Nothing is assumed of agents, of the project's checks and of users: an agent need not end, a
check may hang and nobody need decide. `VerificationEnds` therefore ends where a check
runs: it says that a verification is held up by nothing else, as long as the core lives.

*Fairness of ForgeRuns.* Only for `ApprovedIsPublished`: a handler that has read its
run goes on (weak), a client repeats its publication until it is answered
(`BeginPublication`, strong because cancellations may occupy a handler between), and
a provider asked again and again does not fail every time (`CompletePublication`,
strong). `FailPublication` and `ReadForControl` leave places of the event bound free:
the bound must not cause a failure that the code does not have.

*Fairness of DeliveryLease and Delivery.* Weak fairness only: a process that is alive
takes its next step, a command ends (every one has a timeout), and an operator who
finds the lease stale, or the cycle stuck in an execution, runs the recovery command:
`DELIVERY_OPERATION_LEASES.md` and the recovery's own output tell him to. Nothing is
assumed of cancellations, of starting anything, or of what happens outside.

## 4. What the runs and the models show

* `forge_terminal`: `data-model.md` calls terminal states immutable. A cancel that
  read an active run overwrites `completed`; the second transaction of a
  publication overwrites `cancelled`. `EndedStaysEnded`, which holds and is
  proved, is what remains: an ended run never becomes active again.
* `store_branch`: a waiter takes the age of the lock file (`persistence.ts:283`) and reads
  its record after that (285). When the live owner releases its lock in between, there is
  no record, and the file counts as old although it is gone. The owner takes the lock for
  its next save, the waiter removes that lock by its path (326), and both saves on one
  predecessor are acknowledged; no kill is needed. Two waiters behind a killed owner's lock do
  the same: both judge it, and the second removes the lock the first has taken.
  `OneNextTransitionUnlessStolen`, which holds and is proved for any number of processes,
  says that nothing but the removal of a live process's lock lets histories branch.
* `delivery_overlap`: an operation that has recorded its end and not yet released its
  lock counts as stale. A recovery starts on it, the owner releases the lock, a new
  operation takes it, and the recovery's last step removes the lock of the new
  operation. The next operation is admitted beside it. `ExclusiveUnlessBroken`, which
  holds and is proved, says that nothing but such a removal or overwriting breaks
  exclusion; the cancellation's note (`delivery-cancel.ts:416`) can do it too.

The models show smaller disagreements and properties of the code that no run is spent
on:

* `ForgeRuns`: a pending publication claim is taken up again while its first handler is
  still alive, and both complete, although `specs/001-remote-agent-run/spec.md:116` asks
  that duplicate publish requests are safe and idempotent. The request hash of a cancel
  does not contain the run (`run-control-service.ts:632`), so a key used for one run
  answers for another. A cancel delivered again is refused and not replayed, because the
  state is judged (620) before the idempotency record is looked up (628). An instruction
  can be recorded on a run cancelled since the handler read it (502). The reconciler's
  `expireApprovals` (`postgres-reconciler.ts:61-78`) takes approvals with an `expires_at`,
  and the only statement that inserts one (`run-control-service.ts:543-558`) sets none, so that
  `expired` is no status of `ApprovalStatuses`. That `TransitionRun` takes a legal successor
  of the state it read is an assumption on the caller: the repository compares the version
  and nothing else (`postgres-forge-repository.ts:135-195`).
* `EvolutionStore`: when two saves on one predecessor were accepted (`store_branch`), the
  chain check refuses the journal from then on. A torn last line is passed over but not cut off
  (546): the record of the next save joins it, is acknowledged, and the journal can no
  longer be read. `LossIsNeverSilent` is what remains: what was acknowledged is read, or
  the cycle refuses to load. Two kills in writing can take a record away that was already
  loaded: the first leaves its line without a newline, a load takes it and renames the
  snapshot, the second kill's torn write joins the line, and the snapshot is ahead of a
  journal that still can be read; the next load puts the older state back. No save that
  was acknowledged is concerned; the proof attempt found it, and `SnapshotJournaled` says
  that nothing less than two kills does this (`TornAway`). A `create` killed with its journal open and empty leaves a
  cycle that `load` refuses as empty and `create` refuses as existing.
* `DeliveryLease`: a child whose owner is killed before its pid is recorded is known to no
  record, and the lease passes on while it runs (`escaped`).
* `Delivery`: `git add --all` takes what changed in the worktree after the last snapshot,
  and evidence then vouches for a commit that was not checked; `CommitIsVerifiedPatch`
  says that nothing but a change from outside does this. `cyclewarden-evolve advance`
  reaches `verified` without evidence, on the operator's word.
* `Research`: a manifest without limits is retrieved without any and only reviewed
  against the default ones. The claims of a search are parsed only after every query was
  sent. Since a search reads `now` once (`public-search.ts:961`), its time check and its
  review see one minute however long it took; the retrieval of its pages is what keeps
  `DecisionsInTime` for it. `prepare-handoff` saves a decision without a review.
* `ForgeExecution`: an execution that was at an `await` when its run was cancelled saves its
  copy over the cancellation (`execute-run.ts:130`), so `ActiveLimitHolds` is stated
  without cancelled runs. A run whose publication failed stays `publishing`: the key is
  free, but `publishing` may not be entered again. A start of the agent that fails after its
  turn began leaves a turn that no record names, which no cancel reaches, and so does an
  instruction (`codex-provider.ts:626-634`) whose turn starts and is not recorded. A cancel
  that reads the record of an idle run while an instruction starts a turn finds nothing to
  interrupt, marks the run cancelled (`codex-provider.ts:685-713`), and the turn works on;
  `CancelStopsTurns` says that there is no other way, whether or not the cancel found a
  turn (`contested`). A sandbox is left at Vercel when the answer to its creation is lost,
  and nobody knows of it; when the registry cannot be read (`vercel-sandbox-provider.ts:502`)
  Vercel is not asked at all, and `execute-run.ts:210` ignores that.
* `GithubInstallation`: deliveries carried out at the same time or out of order can leave a
  snapshot that differs from GitHub until the next delivery, and a suspension can be
  overwritten by a reconciliation that listed before it. A crash between claim and
  completion leaves the claim active, and GitHub's repetition is answered as a duplicate.
  The broker measures a token's life from a time read before it awaits the signer and
  GitHub (`github-credential-broker.ts:255`), so that at the hand-over (320) less than the
  shortest lifetime may be left, or nothing; the code keeps no bound there, and no property
  states one.
* `ControlCore`: two starts of one task at once pass `runner.mjs:130`, and their agents share
  one worktree. In exec mode, which is the default (`runner.mjs:48`), the exit of one then
  removes the record of the other and verifies what the other still changes:
  `apps/control-core/README.md:55` ("A task cannot become `READY_TO_SHIP` while its worktree
  is dirty") fails, and a rejection that nobody handles ends the core. The run `core_runs` has both
  starts, and shows that the properties hold until the second is launched (`overlapped`).
  Sessions of one task can overlap one after the other too: an app-server's child is only
  signalled when its record is removed, so that the next session starts beside it, and its late
  close removes the record of that one; a cancel that is answered while the turn end of the first
  session has already queued `VERIFYING` fails the task but does not stop that
  verification, which after another start is accepted in the second session's `VERIFYING`,
  before that session's checks; and an agent that survives a restart works beside the next.
  A check that hangs leaves its task `VERIFYING` until the core is restarted
  (`runner.mjs:79-114`). An exec child that
  exits before its listeners are attached (253) leaves the task `RUNNING` and registered. A
  decision carries no request id (181), so one clicked for a request that a second window
  has answered is given to the next request. A decision that races its timer fails the task
  while the agent keeps running, where a cancel still ends it. A task that was
  `NEEDS_INPUT` when the core stopped can then be neither decided, cancelled nor started. A
  cancel between the registration of an app-server session and the spawn of its child does
  not leave an agent behind: the append of the cancel is queued behind that of the start.

## 5. Proofs

*ForgeRuns.* `TypeCorrect` (`Spec => []TypeOK`) needs two facts beyond types: no run is
ever a `draft` (else a worker could move a draft run into the active states past the
limit), and a handler between two steps serves a command on a run that exists.

The safety theorems rest on
`IInv == TypeOK /\ VersionIdentifiesState /\ ActiveRunLimitHolds /\ EventLogDense`.
`ActiveRunLimitHolds` is not inductive alone: a worker's `TransitionRun` applies a
transition chosen from the state it read, and would revive an ended run if an
equal version did not imply an equal state. The argument is:
every step leaves each existing row *kept* (its version does not fall, a change
of state raises it, an ended run stays ended) or inserts one row under the
admission test (`StepRows`); so the set of active runs shrinks or grows by one
element below the limit (`LimitStep`), held versions stay sound (`VersionStep`),
and no ended run revives (`EndedForEver`). `DenseStep` follows from what `NewRows`
returns (`DenseAppend`). The assumptions are those of `ForgeRuns`: finitely many
runs, a positive limit, typed commands, sentinels outside the sets.

The second half of `ForgeRunsProofs` adds `ReviewFinal` (`DecisionIsFinal`), `PublicationApproved`,
`IterationsFollowRejections` and `RecordedOnce`. `ReviewInv` adds to `IInv` where a run
can be: a run with a decision is under review, in publication or ended, states the
transition table never leads back out of (`ReviewedStates`), so `PrepareEvidence`, which
writes change sets, never meets it again (`ReviewsSettled`); a handler that waits for
the source provider has left a publication row (`PublicationsIntended`); and an event
with a command's key has that key's completed claim behind it (`KeysClaimed`), which is
what a repetition runs into. The proof attempt corrected `RecordedOnce`, which was false
for two runs whose provider events share a correlation, and for `run.created`, which two
operations write whose claims on one key do not exclude each other: it now compares
provider events within a run and `run.created` within an operation.

*DeliveryLease.* `TypeCorrect`, `ExclusiveWork` (`Spec => []ExclusiveUnlessBroken`) and
`FilesImplementLease` (`Spec => ImplementsLease`), for any processes and any bounds; the
one assumption is that the bounds are naturals. `IInv` strengthens the type invariant
with four facts. `Identity`: an operation in progress belongs to one process. `Begun`: the
records in the files, and those that recoveries and cancellations hold, are of operations
that were prepared, and whose process has passed the hard link. While the lease is not
broken, `Owned`: a process past the hard link holds the lock, and once at work the
checkpoint is its own; and `Over`: the operation a recovery clears is at most about to
release. Exclusion follows at once: two processes at work would both
be named by the one lock. The refinement needs the same invariant: that a step which
frees the lock is `Free` and not `Break` is exactly that the lock's operation works no
more, or that `broken` is set in the step.

`ChildrenHoldTheLease` (`ChildKeepsLease`) extends it with four facts of the children
(`ChildInv`): a command belongs to an operation that was prepared; the command of a live
operation is the last it ran; one that outlives its operation is the child of the running
record behind the lock (`Orphaned`); and a recovery past its last inspection does not
work on an operation with a recorded child (`Recovered`), which holds because a child
that was recorded cannot appear once its owner is gone.

*EvolutionStore.* `NothingIsLostSilently` (`LossIsNeverSilent`),
`SnapshotsAreJournaled`, `ReadableJournalsAreLinear`, the action property
`LoadsAreRecent`, and `OneNextTransitionUntilStolen` (`OneNextTransitionUnlessStolen`), for
any processes, kills and length of a history. The first four do not need the lock at all. A line that has its newline is
never touched again (`Firm`, `Grows`), so whatever was written whole is in the journal
or the journal is spoilt for good (`Kept`), and that is what an acknowledgement rests on
(`AckedOK`, `ProcOK`). A record that was read may also be the last line of a process
killed in writing, until another such kill spoils it (`Sound`). Every record continues
its `previous` by one transition, so the lines up to any point at which the chain check
passes are prefixes of one another (`LinesOK`): two saves on one predecessor cannot both
be read.

The last is about the lock. Until a live process's lock is removed by another (`stolen`),
who works under the lock holds it (`Exclusive`), and what
a save has read, and writes then, extends every acknowledged history (`Follows`): the
last record that can be read does, and nobody else acknowledges anything in between. No fact about
the journal has to be kept for that, so that torn writes do no harm, and a killed owner's
lock that is reclaimed was nobody's who still works. Assumed: the
absent value is no operation and no lock record, and a line that is not JSON is no
record.

*Delivery.* `VerifiedIsEvident`, `CommitIsPatch` and `PublicationIsVerified`, for any
calls, actors, contents and names. `DeliveryInv` says what a call knows at each of its
steps, under the lease: a verification that has compared the worktree knows that it still
is the recorded patch unless somebody else changed it (`VerifyOK`), a publication that the
branch holds the commit unless others pushed (`PublishOK`). That these facts outlive
the steps of the others needs `Excluded`: two calls under the lease are one. Recovery
takes no lease, so its step knows only that a verdict it has read is backed by evidence
(`RecoverOK`), and evidence is never withdrawn; what else it read turns into a conflict
when it is saved. Assumed: outside content is neither the base nor a clean tree
(sentinels), and a cycle's autonomy and risk are levels 0 to 4 (`types.ts`).

*GithubInstallation.* `ClaimsHaveOneRequest`, `SettledIsMirrored` and
`RevokedGrantsAreRefused` (`RevokedIsRefused`), for any repositories, page size and number of deliveries. What
matters is the *latest* delivery about the installation: GitHub is in the state it tells
of (`TellsOK`), and while a request works on it nothing about the installation has changed,
for a change would be a later delivery. So the pages that request has listed hold
exactly the granted repositories up to its page (`ListedOK`), and an installation whose
latest delivery was carried out in turn is mirrored (`CompletedOK`). A repository's
position in the listing is the number of granted ones up to it; that pages cover the
listing is the lemma about that operator. For a repository that is permitted no more, who
still lists it works on a delivery before the one that told so, which is not claimed before
that one is complete, and who completes it has stored a snapshot without it (`RevokedOK`). Assumed: sizes and numbers are positive, the
shortest lifetime is at most the longest (the constructors of the reconciler and the broker check it).

*ForgeExecution.* `SandboxesAreReleased`, `RunsStayWithinLimit`, `PublishedOnceAsApproved`,
`CancelledTurnsAreOver` and the action property `SettledRunsAreLeftAlone`. An execution
knows its sandbox: from creation to release a record names it, and what a failed call left
behind has its reason in `kept` (`SandboxOK`). A run is validated
once and enters review after that only, so that its evidence version, its review and the
commit do not change behind a publication (`RunsOK`, `PublicationsOK`), and an execution
that saves its copy either leads an active run or one whose cancellation was answered,
which is why the limit is stated without those. No turn exists before the agent is started (`TurnsOK`). What a cancel leaves is about
every turn of a run and not the one it interrupts (`TrackedOK`): as long as instructions that
start turns are apart from cancels and from each other (`Apart`, or the run is
`contested`), a live turn is the one the record names or the one an instruction has just
started (`Named`); the record names none while an instruction is under way
(`Instructed`); so whatever turn is live is the one a cancel read, and after its
interrupt none is (`Cancelling`). That the stream does not take the name of a live turn away needs that an
end in a feed is the end of its turn (`ReportsOK`). Assumed: a run's sandbox and commit
are named by the run, and `none` is no name.

*Research.* `DecisionsHaveGrounds`, `DecisionsWereInTime` and the action property
`StoredIsKept`, for any commands and requests. `ResearchInv` holds `CycleOK` of the
stored cycle and of every cycle a command has prepared and not yet saved, and `Follows`
between neighbours. A save compares the stored cycle with the one the stage was derived
from, so the stored cycle changes only to one that follows it; that is why two commands,
a kill between two saves and a move by hand cannot mix grounds. What a gathering command
knows (`AskedOK`, `AttemptsOK`: what its parser accepted, and one attempt per source it has
passed) gives the grounds when the bundle is reviewed. `RequestAssumption` is what every parser establishes of any
JSON before a command acts on it: lists are lists, limits are integers, a kind is one of five.

*ControlCore.* `CoreTypes` (`TypeOK`) and `CoreDisciplined`, for any clients, modes and
bounds, overlapping sessions included. `Discipline`: a handler awaits one mutation at a time,
the one of its place in the code, and each that awaits one is found in the queue once; a
session that is not launched has done nothing. `Room`: starts that are on their way count
as sessions, so that ids stay within the bounds (this is what finitely many `Starters`
are assumed for). Assumed: `CoreBounds`, and that clients are no numbers (`ClientsAreNoSessions`).
Of the mode `codex exec`, `ExecSupervisesAgents` (`AgentSupervised`), `ExecShipsVerifiedWork`
(`ReadyIsVerified`) and `ExecCancelSticks` (`CancelSticks`), for any number of starters,
sessions and restarts, under the condition the properties carry: no session was launched
while another was not over. `ExecInv` says where handlers can be in any case
(`ExecPlaces`) and, without an overlap, what holds the last session and the task together:
only that session has a child, a handler or a client (`ExecLast`); the task is RUNNING while
its child lives (`ExecRunning`); what starters do meanwhile is rejected or changes nothing,
so that a verification finds the task as it left it (`ExecVerifies`); nothing is registered
while it verifies, so that no cancel reaches it (`ExecCancelled`); and an orphan of an
earlier core is heard by nobody (`ExecOrphans`). The step that needs the condition is
`Launch`: when nothing else is under way, the task it made RUNNING is still so (`ExecLaunches`).

What is only model-checked is liveness, which is out of the prover's reach (the `~>`
properties and `ApprovedIsPublished` of the runs), and the three safety properties of
`ControlCore` in the app-server mode. Every other property of a passing run is a theorem.

## 6. Not modelled

* Row locks (a transaction is one step): PostgreSQL resolves the wait cycle of
  start and next iteration by aborting one of them.
* `delivery-progress.ts`: the progress journal and its monitor, whose failure turns a
  finished operation into a failed one.
* The event feed, views and listings: read-only.
* `check-runner.ts`, `evidence.ts`, `scorecard.ts`, `repository.ts`: external tools and
  content-addressed files, whose answers are nondeterministic results here.
* The HTTP server, git calls, bridge and watcher of the control core.
* Authorization and workspace membership, payload text, costs, the web pages, the shared
  packages, and the scripts under `scripts/`.
* Faults: a disk that fails, an I/O error in the store, a process id used again, loss of
  the machine's power (excluded by `docs/evolution/PERSISTENCE_SUPPORT.md`).

## 7. Plan

1. The progress journal over `OperationLease`; the bridge as a client of `ControlCore`
   (commands delivered again after a restart); the lock order of start and next iteration.
2. Of `ControlCore`, the app-server half of `AgentSupervised`, `ReadyIsVerified` and
   `CancelSticks` as theorems, while sessions do not overlap; what a second start would have
   to check so that they never do.
