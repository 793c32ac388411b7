------------------------------ MODULE Delivery ------------------------------
(***************************************************************************)
(* Governed delivery of one planned cycle: executeDelivery, verifyDelivery *)
(* and publishDelivery under the lease of OperationLease, recoverDelivery, *)
(* which takes no lease, and an operator, a developer and GitHub around    *)
(* them (packages/evolution-core/src/delivery.ts, delivery-publish.ts,     *)
(* delivery-recovery.ts, delivery-api.ts).                                 *)
(*                                                                         *)
(* What they share is kept in four places that are written one after the   *)
(* other, and a call may be killed in between: the cycle in its store,     *)
(* whose save compares the state it was derived from; the control file,    *)
(* which is simply replaced; the worktree of the delivery; and the branch  *)
(* and pull request on GitHub.  The content of a worktree, a patch digest  *)
(* and a commit are one abstract value: a commit is the content it has.    *)
(***************************************************************************)
EXTENDS OperationLease, CycleStages, FiniteSets

CONSTANTS Actors,     \* names that callers give
          Contents,   \* what a worktree can hold, in scope or out of scope
          OutOfScope, \* the contents that change files outside the scope
          Base,       \* the commit the worktree starts from
          Clean,      \* no uncommitted change
          Profiles,   \* autonomy, risk and approvals of the cycle
          Events,     \* what may happen from outside, each at most once
          MaxEvents   \* bound: how many of them happen, a kill not counted

ASSUME EventAssumption == IsFiniteSet(Events) /\ MaxEvents \in Nat
ASSUME ContentAssumption == OutOfScope \subseteq Contents /\ Base \notin Contents /\ Clean \notin Contents
ASSUME ProfileAssumption ==
  Profiles \subseteq [autonomy : 0..4, risk : 0..4, approvals : SUBSET Actions]

VARIABLES cycle,     \* the stored cycle
          linked,    \* whether its changes name the execution evidence
          control,   \* the control file
          tree,      \* head and uncommitted content of the worktree
          remote,    \* what the branch on GitHub holds
          pr,        \* the pull request of the branch: none, draft or ready
          evidence,  \* accepted verifications in the evidence registry
          job,       \* what each call is doing
          orphan,    \* a command that outlived its call still runs
          events     \* the outside events that may still happen

store == <<cycle, linked>>
github == <<remote, pr>>
shared == <<cycle, linked, control, tree, remote, pr, evidence, orphan, events>>
vars == <<leaseVars, shared, job>>

NoControl == [patch |-> Clean, status |-> "none", implementer |-> "none", verdict |-> "none",
              commit |-> Base, verifier |-> "none", publication |-> "none"]
Idle == [at |-> "idle", actor |-> "none", result |-> "none", saw |-> NoControl,
         stage |-> "none", to |-> "none"]

Steps == {"idle", "execute", "worktree", "run", "record", "executed", "verify", "before",
          "checks", "after", "commit", "clean", "judge", "write", "verified", "publish", "push",
          "confirm", "list", "create", "view", "published", "conclude", "plan", "apply"}
ExecutionStatuses == {"implemented", "failed", "inconclusive"}
Verdicts == {"accepted", "rejected", "inconclusive"}
Publications == {"published", "rejected", "inconclusive"}
CommandResults == {"passed", "failed", "timed-out", "unavailable"}
Results == CommandResults \cup Verdicts \cup Publications \cup {"none"}
Someone == Actors \cup {"none"}
Heads == Contents \cup {Base}
Works == Contents \cup {Clean}

Controls == [patch : Works, status : ExecutionStatuses \cup {"none"}, implementer : Someone,
             verdict : Verdicts \cup {"none"}, commit : Heads, verifier : Someone,
             publication : Publications \cup {"none"}]
Jobs == [at : Steps, actor : Someone, result : Results, saw : Controls,
         stage : Stages \cup {"none"}, to : Stages \cup {"none"}]

\* The buckets that a cycle has filled when it is planned.
Planned == {"baseline", "model", "diagnosis", "research", "candidates", "decision", "plan", "rollback"}

TypeOK ==
  /\ LeaseTypeOK
  /\ cycle \in Cycles
  /\ linked \in BOOLEAN
  /\ control \in Controls
  /\ tree \in [head : Heads, work : Works]
  /\ remote \in Heads
  /\ pr \in {"none", "draft", "ready"}
  /\ evidence \subseteq [patch : Works, commit : Heads, implementer : Actors, verifier : Actors]
  /\ job \in [Ops -> Jobs]
  /\ orphan \in BOOLEAN
  /\ events \subseteq Events

Init ==
  /\ LeaseInit
  /\ \E x \in Profiles :
       cycle = [stage |-> "planned", filled |-> Planned, autonomy |-> x.autonomy,
                risk |-> x.risk, approvals |-> x.approvals]
  /\ linked = FALSE
  /\ control = NoControl
  /\ tree = [head |-> Base, work |-> Clean]
  /\ remote = Base
  /\ pr = "none"
  /\ evidence = {}
  /\ job = [p \in Ops |-> Idle]
  /\ orphan = FALSE
  /\ events = Events

----------------------------------------------------------------------------
At(p, step) == job[p].at = step
Do(p, step) == job' = [job EXCEPT ![p].at = step]
DoWith(p, step, result) == job' = [job EXCEPT ![p].at = step, ![p].result = result]
Keep(p, step, saw) == job' = [job EXCEPT ![p].at = step, ![p].saw = saw]
KeepWith(p, step, result, saw) ==
  job' = [job EXCEPT ![p].at = step, ![p].result = result, ![p].saw = saw]

\* EvolutionStore.save: the move is stored only on the state it was derived from.
Current(stage) == cycle.stage = stage

Save(from, to, added) ==
  /\ Current(from)
  /\ cycle' = Moved(cycle, to, added)

\* A call of the delivery API: it takes the lease before it does anything.
Start(p, kind, actor) ==
  /\ At(p, "idle")
  /\ Take(p)
  /\ job' = [job EXCEPT ![p] = [Idle EXCEPT !.at = kind, !.actor = actor]]
  /\ UNCHANGED shared

StartExecute(p, actor) == Start(p, "execute", actor)
StartVerify(p, actor) == Start(p, "verify", actor)
StartPublish(p, actor) == Start(p, "publish", actor)

\* The call returned or threw; its lease is released by Release.
Conclude(p) ==
  /\ At(p, "conclude")
  /\ Finish(p)
  /\ job' = [job EXCEPT ![p] = Idle]
  /\ UNCHANGED shared

\* The lease of a finished call is released, that of a dead one reconciled
\* once no command of it runs.
Release ==
  /\ ~orphan
  /\ \A p \in Ops : holder = p => At(p, "idle")
  /\ Free
  /\ UNCHANGED <<shared, job>>

----------------------------------------------------------------------------
(* executeDelivery *)

LoadPlanned(p) ==
  /\ At(p, "execute")
  /\ Begin(p)
  /\ IF Current("planned") /\ Authorized(cycle, "modify-code")
       THEN Do(p, "worktree") ELSE Do(p, "conclude")
  /\ UNCHANGED shared

\* The worktree is added and the cycle moves on; an approval that expired
\* since, or a git error, ends the call.
MarkExecuting(p) ==
  /\ At(p, "worktree")
  /\ \/ /\ MayTransition(cycle, "executing", {}, FALSE)
        /\ Save("planned", "executing", {})
        /\ tree' = [head |-> Base, work |-> Clean]
        /\ Do(p, "run")
     \/ /\ Do(p, "conclude")
        /\ UNCHANGED <<cycle, tree>>
  /\ UNCHANGED <<leaseVars, linked, control, github, evidence, orphan, events>>

\* The command leaves some content behind, and may even move HEAD.
RunCommand(p) ==
  /\ At(p, "run")
  /\ \E result \in CommandResults, work \in Works, head \in {Base} \cup OutOfScope :
       /\ tree' = [head |-> head, work |-> work]
       /\ DoWith(p, "record", result)
  /\ UNCHANGED <<leaseVars, store, control, github, evidence, orphan, events>>

Violates(t) == t.head # Base \/ t.work \in OutOfScope

ExecutionStatus(result, t) ==
  IF Violates(t) \/ result = "failed" THEN "failed"
  ELSE IF result = "passed" /\ t.work # Clean THEN "implemented"
  ELSE "inconclusive"

\* The result is judged on a snapshot of the worktree and put on record.
RecordExecution(p) ==
  /\ At(p, "record")
  /\ control' = [NoControl EXCEPT !.patch = tree.work,
                                  !.status = ExecutionStatus(job[p].result, tree),
                                  !.implementer = job[p].actor]
  /\ Keep(p, "executed", control')
  /\ UNCHANGED <<leaseVars, store, tree, github, evidence, orphan, events>>

StageOfExecution(status) ==
  CASE status = "implemented" -> "implemented"
    [] status = "failed" -> "rejected"
    [] OTHER -> "inconclusive"

MarkExecuted(p) ==
  /\ At(p, "executed")
  /\ IF Current("executing")
       THEN /\ Save("executing", StageOfExecution(job[p].saw.status), {"changes"})
            /\ linked' = TRUE
       ELSE UNCHANGED store
  /\ Do(p, "conclude")
  /\ UNCHANGED <<leaseVars, control, tree, github, evidence, orphan, events>>

----------------------------------------------------------------------------
(* verifyDelivery *)

Verifiable(actor) ==
  /\ Current("implemented")
  /\ control.status = "implemented"
  /\ linked
  /\ actor # control.implementer

LoadImplemented(p) ==
  /\ At(p, "verify")
  /\ Begin(p)
  /\ IF Verifiable(job[p].actor)
       THEN Keep(p, "before", [control EXCEPT !.verdict = "none", !.commit = Base])
       ELSE Do(p, "conclude")
  /\ UNCHANGED shared

\* The worktree still holds the recorded patch on the base commit.
IntactByName(t, record) == t.head = Base
Intact(t, record) == t.head = Base /\ t.work = record.patch

\* The checks run only on the recorded patch; an error of git rejects it.
SnapshotBefore(p) ==
  /\ At(p, "before")
  /\ \/ Intact(tree, job[p].saw) /\ Do(p, "checks")
     \/ DoWith(p, "judge", "rejected")
  /\ UNCHANGED <<leaseVars, shared>>

\* The checks of the manifest, as one: their worst result counts, and they
\* may change the worktree.
RunChecks(p) ==
  /\ At(p, "checks")
  /\ \E result \in {"passed", "failed", "unavailable"}, work \in Works :
       /\ tree' = [tree EXCEPT !.work = work]
       /\ DoWith(p, "after", result)
  /\ UNCHANGED <<leaseVars, store, control, github, evidence, orphan, events>>

Verdict(result, t, record) ==
  IF ~Intact(t, record) \/ result = "failed" THEN "rejected"
  ELSE IF result = "unavailable" THEN "inconclusive"
  ELSE "accepted"

SnapshotAfter(p) ==
  /\ At(p, "after")
  /\ \E verdict \in {Verdict(job[p].result, tree, job[p].saw), "rejected"} :
       DoWith(p, IF verdict = "accepted" THEN "commit" ELSE "judge", verdict)
  /\ UNCHANGED <<leaseVars, shared>>

\* git add --all and git commit take what the worktree holds now; without a
\* change, or on another git error, the call throws.
CommitTree(p) ==
  /\ At(p, "commit")
  /\ \/ /\ tree.work # Clean
        /\ tree' = [head |-> tree.work, work |-> Clean]
        /\ Keep(p, "clean", [job[p].saw EXCEPT !.commit = tree.work])
     \/ /\ Do(p, "conclude")
        /\ UNCHANGED tree
  /\ UNCHANGED <<leaseVars, store, control, github, evidence, orphan, events>>

\* A worktree that is dirty after the commit turns the verdict.
CheckClean(p) ==
  /\ At(p, "clean")
  /\ IF tree.work = Clean
       THEN Do(p, "judge")
       ELSE KeepWith(p, "judge", "rejected", [job[p].saw EXCEPT !.commit = Base])
  /\ UNCHANGED <<leaseVars, shared>>

\* The verification becomes evidence ...
RegisterVerification(p) ==
  /\ At(p, "judge")
  /\ LET record == [job[p].saw EXCEPT !.verdict = job[p].result, !.verifier = job[p].actor]
     IN /\ evidence' = IF record.verdict = "accepted"
             THEN evidence \cup {[patch |-> record.patch, commit |-> record.commit,
                                  implementer |-> record.implementer, verifier |-> record.verifier]}
             ELSE evidence
        /\ Keep(p, "write", record)
  /\ UNCHANGED <<leaseVars, store, control, tree, github, orphan, events>>

\* ... and the control file that was read at the start is written with it.
RecordVerification(p) ==
  /\ At(p, "write")
  /\ control' = job[p].saw
  /\ Do(p, "verified")
  /\ UNCHANGED <<leaseVars, store, tree, github, evidence, orphan, events>>

StageOfVerdict(verdict) == IF verdict = "accepted" THEN "verified" ELSE verdict

MarkVerified(p) ==
  /\ At(p, "verified")
  /\ \/ Save("implemented", StageOfVerdict(job[p].saw.verdict), {"verification"})
     \/ ~Current("implemented") /\ UNCHANGED cycle
  /\ Do(p, "conclude")
  /\ UNCHANGED <<leaseVars, linked, control, tree, github, evidence, orphan, events>>

----------------------------------------------------------------------------
(* publishDelivery *)

CommitIntact(t, record) == t.head = record.commit /\ t.work = Clean

PublishableByStage ==
  /\ Current("verified")
  /\ Authorized(cycle, "open-draft-pr")
  /\ control.publication # "published"
  /\ CommitIntact(tree, control)

Publishable ==
  /\ Current("verified")
  /\ Authorized(cycle, "open-draft-pr")
  /\ control.verdict = "accepted"
  /\ control.publication # "published"
  /\ CommitIntact(tree, control)

LoadVerified(p) ==
  /\ At(p, "publish")
  /\ Begin(p)
  /\ IF Publishable THEN Keep(p, "push", control) ELSE Do(p, "conclude")
  /\ UNCHANGED shared

\* The answer of git or gh to a step of the publication.
Answer(p, status) == DoWith(p, "published", status)

\* gh or its login is missing, or the push fails; else the branch is pushed
\* as it is now.
Push(p) ==
  /\ At(p, "push")
  /\ \/ remote' = tree.head /\ Do(p, "confirm")
     \/ UNCHANGED remote /\ Answer(p, "inconclusive")
  /\ UNCHANGED <<leaseVars, store, control, tree, pr, evidence, orphan, events>>

ConfirmRemote(p) ==
  /\ At(p, "confirm")
  /\ \/ remote = job[p].saw.commit /\ Do(p, "list")
     \/ remote # job[p].saw.commit /\ Answer(p, "rejected")
     \/ Answer(p, "inconclusive")
  /\ UNCHANGED <<leaseVars, shared>>

\* An open pull request of the branch is reused if it is the draft wanted.
Matches(p) == pr = "draft" /\ remote = job[p].saw.commit

ListPullRequests(p) ==
  /\ At(p, "list")
  /\ \/ pr = "none" /\ Do(p, "create")
     \/ pr # "none" /\ Answer(p, IF Matches(p) THEN "published" ELSE "rejected")
     \/ Answer(p, "inconclusive")
  /\ UNCHANGED <<leaseVars, shared>>

\* GitHub opens one pull request for a branch; its answer may be lost.
CreatePullRequest(p) ==
  /\ At(p, "create")
  /\ \/ pr = "none" /\ pr' = "draft" /\ Do(p, "view")
     \/ pr' \in {pr, "draft"} /\ pr = "none" /\ Answer(p, "inconclusive")
     \/ pr # "none" /\ UNCHANGED pr /\ Answer(p, "inconclusive")
  /\ UNCHANGED <<leaseVars, store, control, tree, remote, evidence, orphan, events>>

ViewPullRequest(p) ==
  /\ At(p, "view")
  /\ \/ Answer(p, IF Matches(p) THEN "published" ELSE "rejected")
     \/ Answer(p, "inconclusive")
  /\ UNCHANGED <<leaseVars, shared>>

RecordPublication(p) ==
  /\ At(p, "published")
  /\ control' = [job[p].saw EXCEPT !.publication = job[p].result]
  /\ Do(p, "conclude")
  /\ UNCHANGED <<leaseVars, store, tree, github, evidence, orphan, events>>

----------------------------------------------------------------------------
(* recoverDelivery with --apply, which needs no lease *)

RecoverableLate == {"implemented"}
RecoverableStages == {"executing", "implemented"}

LoadForRecovery(p) ==
  /\ At(p, "idle")
  /\ cycle.stage \in RecoverableStages
  /\ job' = [job EXCEPT ![p] = [Idle EXCEPT !.at = "plan", !.stage = cycle.stage, !.saw = control]]
  /\ UNCHANGED <<leaseVars, shared>>

\* The recovery takes its own digest of the worktree.
StillRecorded(t, record) == t.head = Base /\ t.work = record.patch

\* makePlan: the stage that the records prove, "none" where the delivery can
\* simply be resumed.
PlanOfExecuting(record, t) ==
  CASE record.status = "implemented" /\ StillRecorded(t, record) -> "implemented"
    [] record.status = "failed" -> "rejected"
    [] OTHER -> "inconclusive"

\* A commit without a verdict taken for an accepted one.
PlanOptimistically(record, t) ==
  CASE record.status = "implemented" /\ t.head # Base /\ t.work = Clean -> "verified"
    [] OTHER -> "none"

PlanOfImplemented(record, t) ==
  CASE record.verdict = "none" /\ record.status # "none" /\ StillRecorded(t, record) -> "none"
    [] record.verdict = "accepted" /\ CommitIntact(t, record) -> "verified"
    [] record.verdict = "rejected" -> "rejected"
    [] OTHER -> "inconclusive"

Plan(stage, record, t) ==
  IF stage = "executing" THEN PlanOfExecuting(record, t) ELSE PlanOfImplemented(record, t)

\* The worktree is inspected and the plan made and put on record.
PlanRecovery(p) ==
  /\ At(p, "plan")
  /\ LET to == Plan(job[p].stage, job[p].saw, tree)
     IN job' = IF to = "none" THEN [job EXCEPT ![p] = Idle]
               ELSE [job EXCEPT ![p].at = "apply", ![p].to = to]
  /\ UNCHANGED <<leaseVars, shared>>

ApplyRecovery(p) ==
  /\ At(p, "apply")
  /\ IF Current(job[p].stage)
       THEN /\ Save(job[p].stage, job[p].to,
                    IF job[p].stage = "executing" THEN {"changes"} ELSE {"verification"})
            /\ linked' = (linked \/ job[p].saw.status # "none")
       ELSE UNCHANGED store
  /\ job' = [job EXCEPT ![p] = Idle]
  /\ UNCHANGED <<leaseVars, control, tree, github, evidence, orphan, events>>

----------------------------------------------------------------------------
(* What happens around the calls, at most once each. *)

Happened == Events \ events

Once(event) ==
  /\ event \in events
  /\ event # "kill" => Cardinality(Happened \ {"kill"}) < MaxEvents
  /\ events' = events \ {event}

\* A call is killed; a command it runs goes on.
Kill(p) ==
  /\ Once("kill")
  /\ ~At(p, "idle")
  /\ orphan' = (orphan \/ job[p].at \in {"run", "checks"})
  /\ working' = working \ {p}
  /\ job' = [job EXCEPT ![p] = Idle]
  /\ UNCHANGED <<holder, broken, store, control, tree, github, evidence>>

\* Such a command ends and leaves its content in the worktree.
OrphanEnds ==
  /\ orphan
  /\ orphan' = FALSE
  /\ \E work \in Works : tree' = [tree EXCEPT !.work = work]
  /\ UNCHANGED <<leaseVars, store, control, github, evidence, events, job>>

\* Somebody changes the worktree or commits in it.
Drift ==
  /\ Once("drift")
  /\ \E head \in Heads, work \in Works : tree' = [head |-> head, work |-> work]
  /\ UNCHANGED <<leaseVars, store, control, github, evidence, orphan, job>>

\* Somebody pushes to the branch, or marks the pull request ready.
ForeignPush ==
  /\ Once("push")
  /\ remote' \in Contents
  /\ UNCHANGED <<leaseVars, store, control, tree, pr, evidence, orphan, job>>

MarkReady ==
  /\ Once("ready")
  /\ pr = "draft"
  /\ pr' = "ready"
  /\ UNCHANGED <<leaseVars, store, control, tree, remote, evidence, orphan, job>>

\* An approval expires or is revoked.
ApprovalEnds ==
  /\ Once("expiry")
  /\ \E action \in cycle.approvals : cycle' = [cycle EXCEPT !.approvals = @ \ {action}]
  /\ UNCHANGED <<leaseVars, linked, control, tree, github, evidence, orphan, job>>

\* The operator moves the cycle with cyclewarden-evolve advance, naming the
\* artifacts it needs and vouching for its verification.
Advance ==
  /\ Once("advance")
  /\ \E to \in Stages :
       /\ MayTransition(cycle, to, RequiredArtifacts(to), TRUE)
       /\ cycle' = Moved(cycle, to, RequiredArtifacts(to))
  /\ UNCHANGED <<leaseVars, linked, control, tree, github, evidence, orphan, job>>

----------------------------------------------------------------------------
Execute(p) ==
  \/ LoadPlanned(p) \/ MarkExecuting(p) \/ RunCommand(p) \/ RecordExecution(p) \/ MarkExecuted(p)

Verify(p) ==
  \/ LoadImplemented(p) \/ SnapshotBefore(p) \/ RunChecks(p) \/ SnapshotAfter(p)
  \/ CommitTree(p) \/ CheckClean(p) \/ RegisterVerification(p) \/ RecordVerification(p)
  \/ MarkVerified(p)

Publish(p) ==
  \/ LoadVerified(p) \/ Push(p) \/ ConfirmRemote(p) \/ ListPullRequests(p)
  \/ CreatePullRequest(p) \/ ViewPullRequest(p) \/ RecordPublication(p)

Recover(p) == LoadForRecovery(p) \/ PlanRecovery(p) \/ ApplyRecovery(p)

Around == OrphanEnds \/ Drift \/ ForeignPush \/ MarkReady \/ ApprovalEnds \/ Advance

Next ==
  \/ \E p \in Ops :
       \/ \E a \in Actors : StartExecute(p, a) \/ StartVerify(p, a) \/ StartPublish(p, a)
       \/ Execute(p) \/ Verify(p) \/ Publish(p) \/ Conclude(p) \/ Recover(p) \/ Kill(p)
  \/ Release
  \/ Around

Spec == Init /\ [][Next]_vars

(* A call that is not killed goes on, a command ends, the operator clears  *)
(* a stale lease and runs recovery again.                                  *)
Fairness ==
  /\ \A p \in Ops : WF_vars(Execute(p) \/ Verify(p) \/ Publish(p) \/ Conclude(p))
  /\ \A p \in Ops : WF_vars(PlanRecovery(p) \/ ApplyRecovery(p))
  /\ WF_vars(Release)
  /\ WF_vars(OrphanEnds)
  /\ WF_vars(\E p \in Ops : LoadForRecovery(p))

FairSpec == Spec /\ Fairness

----------------------------------------------------------------------------
(* Properties. *)

\* Whatever is interrupted, recovered or done at once, a verified cycle has
\* evidence of a verification that accepted a commit, by somebody else than
\* the implementer, unless the operator advanced it by hand.  Recovery never
\* takes an unrecorded commit for one.
VerifiedHasEvidence ==
  cycle.stage = "verified" /\ "advance" \notin Happened =>
    \E e \in evidence : e.verifier # e.implementer /\ e.commit # Base

\* What was committed is what was verified, unless the worktree was changed
\* from outside between the last snapshot and git add.
CommitIsVerifiedPatch ==
  \A e \in evidence : e.commit = e.patch \/ "drift" \in Happened \/ orphan

\* A publication on record names a commit that was accepted, and the branch
\* holds it unless somebody else pushed.
PublishedIsVerified ==
  control.publication = "published" =>
    /\ \E e \in evidence : e.commit = control.commit
    /\ remote = control.commit \/ "push" \in Happened
    /\ pr # "none"

\* An execution that was interrupted is settled by itself or by recovery.
ExecutionSettles ==
  cycle.stage = "executing" ~> cycle.stage # "executing"
=============================================================================
