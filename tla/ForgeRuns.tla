------------------------------ MODULE ForgeRuns ------------------------------
(***************************************************************************)
(* The governed runs of one workspace, as PostgreSQL rows changed by        *)
(* concurrent transactions.  Every query of the services is scoped to one   *)
(* workspace, so workspaces are independent and one is modelled.            *)
(*                                                                          *)
(* A transaction whose first statement locks the run (or the workspace) row *)
(* is one action: what it reads is protected until it commits.  A command   *)
(* that reads a row WITHOUT locking it, or that spans two transactions, is  *)
(* two actions with the read value kept in proc, and anything may commit in *)
(* between.  A transaction that throws is rolled back, its idempotency      *)
(* claim included; only the reply to the caller remains.                    *)
(*                                                                          *)
(* Bounds: Runs, Tasks, Commands and Correlations are finite; MaxEvents     *)
(* caps the event sequence of a run, and so every unbounded retry.          *)
(***************************************************************************)
EXTENDS RunStateMachine, Sequences

CONSTANTS
  Runs, Tasks,      \* identities that randomUUID may return
  Keys,             \* idempotency keys the clients use
  Commands,         \* the requests the clients may send, any number of times
  Procs,            \* request handlers and workers running at the same time
  Workers,          \* the subset of Procs that moves runs through the repository
  Correlations,     \* correlation ids of provider events
  ActiveRunLimit,   \* forge_workspaces.active_run_limit
  MaxEvents,        \* bound on the event sequence of a run
  NoRun, NoTask, NoKey, NoCommand

Ops == {"start-run", "add-instruction", "cancel-run", "prepare-fixture-evidence",
        "resolve-evidence-review", "create-next-iteration", "publish-approved-run"}

Args == {"", "secret", "sensitive", "approved", "rejected"}

\* A review decides one way or the other: its route refuses any other request.
CommandType ==
  {c \in [op : Ops, key : Keys, run : Runs \cup {NoRun}, arg : Args, snapshot : Nat] :
     c.op = "resolve-evidence-review" => c.arg \in {"approved", "rejected"}}

ASSUME FiniteIdentities == IsFiniteSet(Runs)
ASSUME LimitPositive == ActiveRunLimit \in Nat \ {0}
ASSUME BoundIsNatural == MaxEvents \in Nat
ASSUME CommandsTyped == Commands \subseteq CommandType
ASSUME WorkersAreProcs == Workers \subseteq Procs
ASSUME Sentinels == /\ NoRun \notin Runs
                    /\ NoTask \notin Tasks
                    /\ NoKey \notin Keys \cup Correlations
                    /\ NoCommand \notin Commands

VARIABLES
  run,          \* forge_runs
  tasks,        \* forge_tasks: status, and whether the instruction holds a secret
  events,       \* forge_run_events, a set of rows per run
  approvals,    \* forge_approval_requests, by run and by the key in request_key
  changeSet,    \* forge_change_sets.snapshot_version, 0 while there is no row
  review,       \* forge_review_decisions
  publication,  \* forge_publications
  idem,         \* forge_idempotency_records, by operation and key
  proc,         \* what each handler holds between two of its steps
  reply         \* the last answer a client got for each command

database == <<run, tasks, events, approvals, changeSet, review, publication, idem>>
vars == <<run, tasks, events, approvals, changeSet, review, publication, idem, proc, reply>>

-----------------------------------------------------------------------------
(* Rows. *)

EventTypes ==
  {"run.created", "run.instruction.added", "approval.requested", "approval.resolved",
   "run.cancel.requested", "run.cancelled", "run.started", "validation.started",
   "validation.completed", "review.ready", "review.resolved", "publication.started",
   "publication.failed", "publication.completed", "run.failed", "run.transitioned",
   "provider.event"}

\* ref is the correlation id of a provider event; for the event of a command it
\* is the command's key, kept here to state at-most-once and not a column.
EventRow == [sequence : Nat \ {0}, type : EventTypes,
             ref : Keys \cup Correlations \cup {NoKey}]

RunRow == [state : RunStates \cup {Absent}, outcome : ReviewOutcomes, version : Nat,
           seq : Nat, task : Tasks \cup {NoTask}, iteration : Nat, heartbeat : BOOLEAN]

AbsentRun == [state |-> Absent, outcome |-> "none", version |-> 0, seq |-> 0,
              task |-> NoTask, iteration |-> 0, heartbeat |-> FALSE]

TaskStatuses == {Absent, "running", "review", "completed", "cancelled"}
ApprovalStatuses == {Absent, "pending", "approved", "rejected"}
Decisions == {"none", "approved", "rejected"}
PublicationStatuses == {Absent, "pending", "failed", "pr_created"}

NoReview == [decision |-> "none", snapshot |-> 0]
NoPublication == [status |-> Absent, snapshot |-> 0]
NoClaim == [status |-> Absent, hash |-> <<NoRun, "", 0>>]

ProcRecord == [pc : {"idle", "controlling", "publishing", "transitioning"},
               cmd : Commands \cup {NoCommand}, run : Runs \cup {NoRun},
               version : Nat, state : RunStates]
Idle == [pc |-> "idle", cmd |-> NoCommand, run |-> NoRun, version |-> 0, state |-> "draft"]

Exists(r) == r \in Runs /\ run[r].state # Absent
ActiveRuns == {r \in Runs : run[r].state \in ActiveRunStates}

\* The rows of the events of one transaction, numbered after n.
NewRows(n, types, ref) ==
  {[sequence |-> n + i, type |-> types[i], ref |-> ref] : i \in DOMAIN types}

\* Mutant: one sequence number for all the events of a transaction.
ChangeOneSequence(r, state, outcome, bump, types, ref) ==
  /\ run[r].seq + Len(types) <= MaxEvents
  /\ run' = [run EXCEPT ![r] =
       [state |-> state, outcome |-> outcome, version |-> @.version + bump,
        seq |-> @.seq + 1, task |-> @.task, iteration |-> @.iteration,
        heartbeat |-> @.heartbeat]]
  /\ events' = [events EXCEPT ![r] = @ \cup NewRows(run[r].seq, types, ref)]

\* UPDATE forge_runs SET state, review_outcome, version = version + bump,
\* event_sequence + n, and the INSERT of the n events under those numbers.
Change(r, state, outcome, bump, types, ref) ==
  /\ run[r].seq + Len(types) <= MaxEvents
  /\ run' = [run EXCEPT ![r] =
       [state |-> state, outcome |-> outcome, version |-> @.version + bump,
        seq |-> @.seq + Len(types), task |-> @.task, iteration |-> @.iteration,
        heartbeat |-> @.heartbeat]]
  /\ events' = [events EXCEPT ![r] = @ \cup NewRows(run[r].seq, types, ref)]

SetTask(r, status) ==
  tasks' = [tasks EXCEPT ![run[r].task] = [status |-> status, secret |-> @.secret]]

-----------------------------------------------------------------------------
(* Idempotency: the claim is an INSERT ... ON CONFLICT DO NOTHING, which     *)
(* waits for a transaction in flight with the same key, so it sees a         *)
(* committed record or none.                                                 *)

\* The request hash.  Cancel and add-instruction hash the reason or the text
\* only; the others hash the run and the expected snapshot as well.
RequestHash(c) ==
  IF c.op \in {"cancel-run", "add-instruction"}
  THEN <<NoRun, c.arg, 0>>
  ELSE <<c.run, c.arg, c.snapshot>>

Claim(c) ==
  LET record == idem[<<c.op, c.key>>] IN
  IF record.status = Absent THEN "fresh"
  ELSE IF record.hash # RequestHash(c) THEN "conflict"
  ELSE IF record.status = "completed" THEN "replay" ELSE "pending"

Record(c, status) ==
  idem' = [idem EXCEPT ![<<c.op, c.key>>] = [status |-> status, hash |-> RequestHash(c)]]

Answer(c, value) == reply' = [reply EXCEPT ![c] = value]

-----------------------------------------------------------------------------
(* The completion gate as the review service evaluates it.                  *)

\* prepareFixtureForgeEvidence records four passing validations and evidence
\* that is satisfied, but for the secret scan of the redacted diff.
Validations == {[requirement |-> q, status |-> "passed"] : q \in Requirements}

HasSecret(r) == tasks[run[r].task].secret

Evidence(r) ==
  {[requirement |-> "task_mandatory", status |-> "satisfied", audited |-> FALSE],
   [requirement |-> "constitution",
    status |-> IF HasSecret(r) THEN "not_satisfied" ELSE "satisfied",
    audited |-> FALSE]}

GateForApproval(r) ==
  changeSet[r] # 0 /\ EligibleForApproval(Validations, Evidence(r)) /\ ~HasSecret(r)

GateForPublication(r) ==
  /\ changeSet[r] # 0
  /\ EligibleForPublication(Validations, Evidence(r), review[r], changeSet[r])
  /\ ~HasSecret(r)

-----------------------------------------------------------------------------
(* Commands of one transaction: what each requires after its claim.         *)

CompletableStates == {"queued", "provisioning", "running", "validating"}

SnapshotExpected(c) == changeSet[c.run] # 0 /\ changeSet[c.run] = c.snapshot

\* Mutant: the existing decision is not looked up.
ReviewableAgain(c) ==
  /\ run[c.run].state = "awaiting_review"
  /\ SnapshotExpected(c)
  /\ c.arg = "approved" => GateForApproval(c.run)

Reviewable(c) ==
  /\ run[c.run].state = "awaiting_review"
  /\ SnapshotExpected(c)
  /\ review[c.run] = NoReview
  /\ c.arg = "approved" => GateForApproval(c.run)

\* Mutant: the active runs are not counted.
IterableUncounted(c) ==
  /\ run[c.run].state = "completed"
  /\ run[c.run].outcome = "rejected"
  /\ \A r \in Runs : ~ /\ run[r].task = run[c.run].task
                       /\ run[r].iteration = run[c.run].iteration + 1

\* Mutant: any ended run has a successor.
IterableAfterAny(c) ==
  /\ run[c.run].state \in TerminalRunStates
  /\ Admitted(Cardinality(ActiveRuns), ActiveRunLimit)
  /\ \A r \in Runs : ~ /\ run[r].task = run[c.run].task
                       /\ run[r].iteration = run[c.run].iteration + 1

\* UNIQUE (task_id, iteration) refuses a second successor.
Iterable(c) ==
  /\ run[c.run].state = "completed"
  /\ run[c.run].outcome = "rejected"
  /\ Admitted(Cardinality(ActiveRuns), ActiveRunLimit)
  /\ \A r \in Runs : ~ /\ run[r].task = run[c.run].task
                       /\ run[r].iteration = run[c.run].iteration + 1

Allowed(c) ==
  CASE c.op = "start-run" -> Admitted(Cardinality(ActiveRuns), ActiveRunLimit)
    [] c.op = "prepare-fixture-evidence" -> run[c.run].state \in CompletableStates
    [] c.op = "resolve-evidence-review" -> Reviewable(c)
    [] c.op = "create-next-iteration" -> Iterable(c)
    [] OTHER -> FALSE

SingleTransactionOps == {"start-run", "prepare-fixture-evidence",
                         "resolve-evidence-review", "create-next-iteration"}

Received(c) == c.op \in SingleTransactionOps /\ (c.op = "start-run" \/ Exists(c.run))

\* INSERT of a run row with its first event.
InsertRun(r, task, iteration, key) ==
  /\ run[r].state = Absent
  /\ MaxEvents >= 1
  /\ run' = [run EXCEPT ![r] = [AbsentRun EXCEPT !.state = "queued", !.seq = 1,
                                                 !.task = task, !.iteration = iteration]]
  /\ events' = [events EXCEPT ![r] = NewRows(0, <<"run.created">>, key)]

StartRun(c) ==
  /\ c.op = "start-run" /\ Claim(c) = "fresh" /\ Allowed(c)
  /\ \E r \in Runs, t \in Tasks :
       /\ tasks[t].status = Absent
       /\ InsertRun(r, t, 1, c.key)
       /\ tasks' = [tasks EXCEPT ![t] = [status |-> "running", secret |-> c.arg = "secret"]]
  /\ Record(c, "completed") /\ Answer(c, "ok")
  /\ UNCHANGED <<approvals, changeSet, review, publication, proc>>

PrepareEvidence(c) ==
  /\ c.op = "prepare-fixture-evidence" /\ Exists(c.run) /\ Claim(c) = "fresh" /\ Allowed(c)
  /\ changeSet' = [changeSet EXCEPT ![c.run] = run[c.run].version + 1]
  /\ Change(c.run, "awaiting_review", run[c.run].outcome, 1,
            <<"run.started", "validation.started", "validation.completed", "review.ready">>,
            NoKey)
  /\ SetTask(c.run, "review")
  /\ Record(c, "completed") /\ Answer(c, "ok")
  /\ UNCHANGED <<approvals, review, publication, proc>>

ResolveReview(c) ==
  /\ c.op = "resolve-evidence-review" /\ Exists(c.run) /\ Claim(c) = "fresh" /\ Allowed(c)
  /\ review' = [review EXCEPT ![c.run] = [decision |-> c.arg, snapshot |-> changeSet[c.run]]]
  /\ IF c.arg = "rejected"
     THEN Change(c.run, "completed", "rejected", 1, <<"review.resolved">>, c.key)
     ELSE Change(c.run, "awaiting_review", "none", 1, <<"review.resolved">>, c.key)
  /\ Record(c, "completed") /\ Answer(c, "ok")
  /\ UNCHANGED <<tasks, approvals, changeSet, publication, proc>>

CreateNextIteration(c) ==
  /\ c.op = "create-next-iteration" /\ Exists(c.run) /\ Claim(c) = "fresh" /\ Allowed(c)
  /\ \E r \in Runs : InsertRun(r, run[c.run].task, run[c.run].iteration + 1, c.key)
  /\ SetTask(c.run, "running")
  /\ Record(c, "completed") /\ Answer(c, "ok")
  /\ UNCHANGED <<approvals, changeSet, review, publication, proc>>

ReplayCommand(c) ==
  /\ Received(c) /\ Claim(c) = "replay"
  /\ Answer(c, "ok")
  /\ UNCHANGED <<database, proc>>

RefuseCommand(c) ==
  /\ Received(c)
  /\ \/ Claim(c) \in {"conflict", "pending"}
     \/ Claim(c) = "fresh" /\ ~Allowed(c)
  /\ Answer(c, "refused")
  /\ UNCHANGED <<database, proc>>

-----------------------------------------------------------------------------
(* cancelForgeRun and addForgeInstruction: the run is read without a lock    *)
(* and its state judged, then the key is claimed and the row updated with no *)
(* condition on its state or version.                                        *)

ControlOps == {"cancel-run", "add-instruction"}

\* MaxEvents leaves a command that is read the place of its two events.
ReadForControl(p, c) ==
  /\ proc[p] = Idle /\ c.op \in ControlOps /\ Exists(c.run)
  /\ run[c.run].seq + 2 <= MaxEvents
  /\ IF run[c.run].state \in CancellableRunStates
     THEN /\ proc' = [proc EXCEPT ![p] = [Idle EXCEPT !.pc = "controlling", !.cmd = c]]
          /\ UNCHANGED reply
     ELSE Answer(c, "refused") /\ UNCHANGED proc
  /\ UNCHANGED database

Controlling(p, op) == proc[p].pc = "controlling" /\ proc[p].cmd.op = op

CommitCancel(p) ==
  LET c == proc[p].cmd IN
  /\ Controlling(p, "cancel-run") /\ Claim(c) = "fresh"
  /\ Change(c.run, "cancelled", run[c.run].outcome, 2,
            <<"run.cancel.requested", "run.cancelled">>, c.key)
  /\ SetTask(c.run, "cancelled")
  /\ Record(c, "completed") /\ Answer(c, "ok")
  /\ proc' = [proc EXCEPT ![p] = Idle]
  /\ UNCHANGED <<approvals, changeSet, review, publication>>

CommitInstruction(p) ==
  LET c == proc[p].cmd IN
  /\ Controlling(p, "add-instruction") /\ Claim(c) = "fresh"
  /\ IF c.arg = "sensitive"
     THEN /\ Change(c.run, run[c.run].state, run[c.run].outcome, 1,
                    <<"run.instruction.added", "approval.requested">>, c.key)
          /\ approvals' = [approvals EXCEPT ![c.run][c.key] =
                             IF @ = Absent THEN "pending" ELSE @]
     ELSE /\ Change(c.run, run[c.run].state, run[c.run].outcome, 1,
                    <<"run.instruction.added">>, c.key)
          /\ UNCHANGED approvals
  /\ Record(c, "completed") /\ Answer(c, "ok")
  /\ proc' = [proc EXCEPT ![p] = Idle]
  /\ UNCHANGED <<tasks, changeSet, review, publication>>

FinishControl(p) ==
  LET c == proc[p].cmd IN
  /\ proc[p].pc = "controlling" /\ Claim(c) # "fresh"
  /\ Answer(c, IF Claim(c) = "replay" THEN "ok" ELSE "refused")
  /\ proc' = [proc EXCEPT ![p] = Idle]
  /\ UNCHANGED database

\* Mutant: the run leaves awaiting_approval under an unchanged version.
ResolveApprovalUnversioned(r, k, decision) ==
  /\ Exists(r) /\ approvals[r][k] = "pending"
  /\ approvals' = [approvals EXCEPT ![r][k] = decision]
  /\ Change(r, IF run[r].state = "awaiting_approval" THEN "running" ELSE run[r].state,
            run[r].outcome, 0, <<"approval.resolved">>, NoKey)
  /\ UNCHANGED <<tasks, changeSet, review, publication, idem, proc, reply>>

\* resolveForgeApproval: the approval row is locked and compared, then the run
\* leaves awaiting_approval whatever the decision.
ResolveApproval(r, k, decision) ==
  /\ Exists(r) /\ approvals[r][k] = "pending"
  /\ approvals' = [approvals EXCEPT ![r][k] = decision]
  /\ Change(r, IF run[r].state = "awaiting_approval" THEN "running" ELSE run[r].state,
            run[r].outcome, 1, <<"approval.resolved">>, NoKey)
  /\ UNCHANGED <<tasks, changeSet, review, publication, idem, proc, reply>>

-----------------------------------------------------------------------------
(* publishApprovedForgeRun: a transaction that records the intent, the call  *)
(* to the source provider, and a transaction that records its outcome.       *)

\* Mutant: the evidence is gated, the decision is not.
PublishableUnreviewed(c) ==
  /\ run[c.run].state \in {"awaiting_review", "publishing", "completed"}
  /\ SnapshotExpected(c)
  /\ GateForApproval(c.run)

Publishable(c) ==
  /\ run[c.run].state \in {"awaiting_review", "publishing", "completed"}
  /\ SnapshotExpected(c)
  /\ GateForPublication(c.run)

\* Mutant: a pending claim is refused, as for the other commands.
BeginPublicationFresh(p, c) ==
  /\ proc[p] = Idle /\ c.op = "publish-approved-run" /\ Exists(c.run)
  /\ Claim(c) = "fresh"
  /\ Publishable(c)
  /\ publication[c.run].status # "pr_created"
  /\ publication' = [publication EXCEPT ![c.run] =
       [status |-> "pending",
        snapshot |-> IF @.status = Absent THEN changeSet[c.run] ELSE @.snapshot]]
  /\ IF run[c.run].state = "awaiting_review"
     THEN Change(c.run, "publishing", run[c.run].outcome, 1, <<"publication.started">>, NoKey)
     ELSE UNCHANGED <<run, events>>
  /\ Record(c, "pending")
  /\ proc' = [proc EXCEPT ![p] = [Idle EXCEPT !.pc = "publishing", !.cmd = c]]
  /\ UNCHANGED <<tasks, approvals, changeSet, review, reply>>

\* A pending claim does not stop a publication: it is taken up again.
BeginPublication(p, c) ==
  /\ proc[p] = Idle /\ c.op = "publish-approved-run" /\ Exists(c.run)
  /\ Claim(c) \in {"fresh", "pending"}
  /\ Publishable(c)
  /\ publication[c.run].status # "pr_created"
  /\ publication' = [publication EXCEPT ![c.run] =
       [status |-> "pending",
        snapshot |-> IF @.status = Absent THEN changeSet[c.run] ELSE @.snapshot]]
  /\ IF run[c.run].state = "awaiting_review"
     THEN Change(c.run, "publishing", run[c.run].outcome, 1, <<"publication.started">>, NoKey)
     ELSE UNCHANGED <<run, events>>
  /\ Record(c, "pending")
  /\ proc' = [proc EXCEPT ![p] = [Idle EXCEPT !.pc = "publishing", !.cmd = c]]
  /\ UNCHANGED <<tasks, approvals, changeSet, review, reply>>

\* The recorded draft pull request is returned under the new key.
ReusePublication(c) ==
  /\ c.op = "publish-approved-run" /\ Exists(c.run)
  /\ Claim(c) \in {"fresh", "pending"}
  /\ Publishable(c)
  /\ publication[c.run].status = "pr_created"
  /\ Record(c, "completed") /\ Answer(c, "ok")
  /\ UNCHANGED <<run, tasks, events, approvals, changeSet, review, publication, proc>>

AnswerPublication(c) ==
  /\ c.op = "publish-approved-run" /\ Exists(c.run)
  /\ \/ Claim(c) = "replay" /\ Answer(c, "ok")
     \/ Claim(c) = "conflict" /\ Answer(c, "refused")
     \/ Claim(c) \in {"fresh", "pending"} /\ ~Publishable(c) /\ Answer(c, "refused")
  /\ UNCHANGED <<database, proc>>

\* The provider failed: the outcome is recorded and the claim stays pending.
\* One place of the event bound is kept for the publication that succeeds.
FailPublication(p) ==
  LET c == proc[p].cmd IN
  /\ proc[p].pc = "publishing"
  /\ run[c.run].seq + 1 < MaxEvents
  /\ publication' = [publication EXCEPT ![c.run].status = "failed"]
  /\ Change(c.run, run[c.run].state, run[c.run].outcome, 1, <<"publication.failed">>, NoKey)
  /\ Answer(c, "refused")
  /\ proc' = [proc EXCEPT ![p] = Idle]
  /\ UNCHANGED <<tasks, approvals, changeSet, review, idem>>

\* The provider answered: the change set and the publication must still be the
\* ones it was given; the state of the run is not looked at again.
CompletePublication(p) ==
  LET c == proc[p].cmd IN
  /\ proc[p].pc = "publishing"
  /\ changeSet[c.run] = c.snapshot
  /\ publication' = [publication EXCEPT ![c.run].status = "pr_created"]
  /\ Change(c.run, "completed", "approved", 1, <<"publication.completed">>, c.key)
  /\ SetTask(c.run, "completed")
  /\ Record(c, "completed") /\ Answer(c, "ok")
  /\ proc' = [proc EXCEPT ![p] = Idle]
  /\ UNCHANGED <<approvals, changeSet, review>>

\* The handler dies: its open transaction, if any, is rolled back.
Crash(p) ==
  /\ proc[p] # Idle
  /\ proc' = [proc EXCEPT ![p] = Idle]
  /\ UNCHANGED <<database, reply>>

-----------------------------------------------------------------------------
(* Workers and maintenance: the repository, the event sink, the reconciler.  *)

\* Mutant: a run that does not exist is read as well.
ReadSnapshotUnchecked(p, r) ==
  /\ p \in Workers /\ proc[p] = Idle
  /\ proc' = [proc EXCEPT ![p] = [Idle EXCEPT !.pc = "transitioning", !.run = r,
                                    !.version = run[r].version, !.state = run[r].state]]
  /\ UNCHANGED <<database, reply>>

\* A worker takes a snapshot of the run ...
ReadSnapshot(p, r) ==
  /\ p \in Workers /\ proc[p] = Idle /\ Exists(r)
  /\ proc' = [proc EXCEPT ![p] = [Idle EXCEPT !.pc = "transitioning", !.run = r,
                                    !.version = run[r].version, !.state = run[r].state]]
  /\ UNCHANGED <<database, reply>>

\* Mutant: the version is not compared.
TransitionRunUnversioned(p) ==
  LET r == proc[p].run IN
  /\ proc[p].pc = "transitioning"
  /\ \E next \in LegalTransitions[proc[p].state] :
       Change(r, next, run[r].outcome, 1, <<"run.transitioned">>, NoKey)
  /\ proc' = [proc EXCEPT ![p] = Idle]
  /\ UNCHANGED <<tasks, approvals, changeSet, review, publication, idem, reply>>

\* ... chooses a transition the domain allows from it, and transitionRunAndAppendEvent
\* applies it only while the row still has the version that was read.
TransitionRun(p) ==
  LET r == proc[p].run IN
  /\ proc[p].pc = "transitioning"
  /\ IF run[r].version = proc[p].version
     THEN \E next \in LegalTransitions[proc[p].state] :
            Change(r, next, run[r].outcome, 1, <<"run.transitioned">>, NoKey)
     ELSE UNCHANGED <<run, events>>
  /\ proc' = [proc EXCEPT ![p] = Idle]
  /\ UNCHANGED <<tasks, approvals, changeSet, review, publication, idem, reply>>

\* The worker that executes a run writes last_heartbeat_at (external).
Heartbeat(r) ==
  /\ Workers # {} /\ run[r].state \in ActiveRunStates /\ ~run[r].heartbeat
  /\ run' = [run EXCEPT ![r].heartbeat = TRUE]
  /\ UNCHANGED <<tasks, events, approvals, changeSet, review, publication, idem, proc, reply>>

\* failStaleRuns: every active run whose heartbeat has expired (S) fails at once.
FailStaleRuns(S) ==
  /\ S # {} /\ \A r \in S : run[r].heartbeat /\ run[r].seq < MaxEvents
  /\ run' = [r \in Runs |->
       IF r \in S THEN [run[r] EXCEPT !.state = "failed", !.version = @ + 1, !.seq = @ + 1]
       ELSE run[r]]
  /\ events' = [r \in Runs |->
       IF r \in S THEN events[r] \cup NewRows(run[r].seq, <<"run.failed">>, NoKey)
       ELSE events[r]]
  /\ UNCHANGED <<tasks, approvals, changeSet, review, publication, idem, proc, reply>>

\* Mutant: the correlation is not looked up.
AppendProviderEventAgain(r, correlation) ==
  /\ Exists(r)
  /\ Change(r, run[r].state, run[r].outcome, 0, <<"provider.event">>, correlation)
  /\ UNCHANGED <<tasks, approvals, changeSet, review, publication, idem, proc, reply>>

\* PostgresLiveProviderEventSink.append, for a correlation not seen before; a
\* replay returns the stored row or is refused, and changes nothing.
AppendProviderEvent(r, correlation) ==
  /\ Exists(r)
  /\ \A e \in events[r] : e.type = "provider.event" => e.ref # correlation
  /\ Change(r, run[r].state, run[r].outcome, 0, <<"provider.event">>, correlation)
  /\ UNCHANGED <<tasks, approvals, changeSet, review, publication, idem, proc, reply>>

-----------------------------------------------------------------------------
Init ==
  /\ run = [r \in Runs |-> AbsentRun]
  /\ tasks = [t \in Tasks |-> [status |-> Absent, secret |-> FALSE]]
  /\ events = [r \in Runs |-> {}]
  /\ approvals = [r \in Runs |-> [k \in Keys |-> Absent]]
  /\ changeSet = [r \in Runs |-> 0]
  /\ review = [r \in Runs |-> NoReview]
  /\ publication = [r \in Runs |-> NoPublication]
  /\ idem = [slot \in Ops \X Keys |-> NoClaim]
  /\ proc = [p \in Procs |-> Idle]
  /\ reply = [c \in Commands |-> "none"]

ClientStep(c) ==
  \/ StartRun(c) \/ PrepareEvidence(c) \/ ResolveReview(c) \/ CreateNextIteration(c)
  \/ ReplayCommand(c) \/ RefuseCommand(c)
  \/ ReusePublication(c) \/ AnswerPublication(c)

ProcStep(p) ==
  \/ \E c \in Commands : ReadForControl(p, c) \/ BeginPublication(p, c)
  \/ CommitCancel(p) \/ CommitInstruction(p) \/ FinishControl(p)
  \/ FailPublication(p) \/ CompletePublication(p)
  \/ \E r \in Runs : ReadSnapshot(p, r)
  \/ TransitionRun(p)
  \/ Crash(p)

Next ==
  \/ \E c \in Commands : ClientStep(c)
  \/ \E p \in Procs : ProcStep(p)
  \/ \E r \in Runs, k \in Keys, d \in {"approved", "rejected"} : ResolveApproval(r, k, d)
  \/ \E r \in Runs : Heartbeat(r)
  \/ \E S \in SUBSET ActiveRuns : FailStaleRuns(S)
  \/ \E r \in Runs, x \in Correlations : AppendProviderEvent(r, x)

Spec == Init /\ [][Next]_vars

\* A handler that has read its run goes on, a client repeats its publication until
\* it is answered, and a provider asked again and again does not fail every time.
PublicationFairness ==
  \A p \in Procs : /\ WF_vars(CommitCancel(p) \/ CommitInstruction(p) \/ FinishControl(p))
                   /\ SF_vars(\E c \in Commands : BeginPublication(p, c))
                   /\ SF_vars(CompletePublication(p))

FairSpec == Spec /\ PublicationFairness
-----------------------------------------------------------------------------
(* Invariants.                                                              *)

\* Every table holds rows of its schema, no service creates a draft run, and a
\* handler between two steps serves a command on a run that exists.
TypeOK ==
  /\ run \in [Runs -> RunRow]
  /\ tasks \in [Tasks -> [status : TaskStatuses, secret : BOOLEAN]]
  /\ events \in [Runs -> SUBSET EventRow]
  /\ approvals \in [Runs -> [Keys -> ApprovalStatuses]]
  /\ changeSet \in [Runs -> Nat]
  /\ review \in [Runs -> [decision : Decisions, snapshot : Nat]]
  /\ publication \in [Runs -> [status : PublicationStatuses, snapshot : Nat]]
  /\ idem \in [Ops \X Keys -> [status : {Absent, "pending", "completed"},
                               hash : (Runs \cup {NoRun}) \X Args \X Nat]]
  /\ proc \in [Procs -> ProcRecord]
  /\ reply \in [Commands -> {"none", "ok", "refused"}]
  /\ \A r \in Runs : run[r].state # "draft"
  /\ \A p \in Procs : proc[p].pc \in {"controlling", "publishing"} =>
       proc[p].cmd \in Commands /\ Exists(proc[p].cmd.run)

\* The workspace never has more active runs than its limit, whatever starts,
\* iterations, late cancellations and late publications commit around each other.
ActiveRunLimitHolds == Cardinality(ActiveRuns) <= ActiveRunLimit

\* The events of a run are numbered 1..event_sequence, each number once: a
\* reader that resumes after sequence n neither skips nor repeats an event, and
\* UNIQUE (run_id, sequence) never aborts a transaction.
EventLogDense ==
  \A r \in Runs :
    /\ {e.sequence : e \in events[r]} = 1..run[r].seq
    /\ \A e, f \in events[r] : e.sequence = f.sequence => e = f

\* A later iteration exists only behind a rejected run of the same task, and no
\* two runs are the same iteration of a task, even after that run was touched
\* again by a command that had read it earlier.
IterationsFollowRejections ==
  \A r \in Runs : run[r].iteration > 1 =>
    /\ \E q \in Runs : /\ run[q].task = run[r].task
                       /\ run[q].iteration + 1 = run[r].iteration
                       /\ run[q].outcome = "rejected"
    /\ \A q \in Runs : run[q].task = run[r].task /\ run[q].iteration = run[r].iteration
                       => q = r

\* Nothing is sent to the source provider, and no draft pull request recorded,
\* but for the approved snapshot of a run whose gate was clear.
PublicationApproved ==
  \A r \in Runs : publication[r].status # Absent =>
    /\ review[r] = [decision |-> "approved", snapshot |-> publication[r].snapshot]
    /\ publication[r].snapshot = changeSet[r]
    /\ ~HasSecret(r)

\* The version a worker read identifies the state it read: versions only grow,
\* and no transaction changes the state of a run and leaves its version.
VersionIdentifiesState ==
  \A p \in Procs : proc[p].pc = "transitioning" =>
    LET current == run[proc[p].run] IN
    /\ Exists(proc[p].run)
    /\ proc[p].version <= current.version
    /\ proc[p].version = current.version => proc[p].state = current.state

\* A command records each of its events once under its key, across all runs, and
\* a provider event is recorded once in its run, however often the command or the
\* event is delivered.  Two commands may share a key when their operations differ:
\* a first iteration is created by start-run, a later one by create-next-iteration.
\* Publications are not in it: a publication taken up again while its first
\* handler is alive completes twice.
RecordedOnce ==
  \A r, q \in Runs : \A e \in events[r], f \in events[q] :
    /\ e.ref = f.ref /\ e.ref # NoKey
    /\ e.type = f.type /\ e.type # "publication.completed"
    /\ e.type = "run.created" => (run[r].iteration = 1 <=> run[q].iteration = 1)
    /\ e.type = "provider.event" => r = q
    => r = q /\ e = f

-----------------------------------------------------------------------------
(* Action properties.                                                       *)

\* A run that has ended never becomes active again, whatever a handler that
\* read it while it was active commits later.
EndedStaysEnded ==
  [][\A r \in Runs : run[r].state \in TerminalRunStates =>
       run'[r].state \in TerminalRunStates]_vars

\* A review decision is final, with the change set it was taken on.
ReviewFinal ==
  [][\A r \in Runs : review[r] # NoReview =>
       review'[r] = review[r] /\ changeSet'[r] = changeSet[r]]_vars

\* A run approved and still under review or in publication is published in the
\* end, unless it is cancelled, across failures of the provider and crashes between
\* the two transactions: the claim that a crash leaves pending is taken up again.
ApprovedIsPublished ==
  \A r \in Runs :
    (review[r].decision = "approved" /\ run[r].state \in {"awaiting_review", "publishing"})
      ~> \/ run[r].state = "completed" /\ run[r].outcome = "approved"
         \/ run[r].state = "cancelled"

-----------------------------------------------------------------------------
(* Claims of the documents that the code does not keep.                     *)

\* "Terminal states are immutable": violated, cancelForgeRun and the second
\* transaction of a publication overwrite whatever state the run has by then.
TerminalImmutable ==
  [][\A r \in Runs : run[r].state \in TerminalRunStates =>
       run'[r].state = run[r].state]_vars
=============================================================================
