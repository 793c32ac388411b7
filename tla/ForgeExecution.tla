--------------------------- MODULE ForgeExecution ---------------------------
(***************************************************************************)
(* The in-memory Forge services (packages/forge-application/src): startRun, *)
(* executeRun, cancelRun, resolveReview, createNextRunIteration and         *)
(* publishRun over one store, composed with the providers they drive: the   *)
(* sandbox of VercelSandbox, the agent of CodexAgent and the change request *)
(* of GithubSource.                                                         *)
(*                                                                         *)
(* Everything runs on one event loop: a step is the code between two awaits *)
(* and cannot be interrupted, and anything may happen at an await.  An      *)
(* execution keeps its own copy of the run over all its awaits and saves    *)
(* that copy, whatever the store holds by then.                             *)
(*                                                                         *)
(* One workspace and one task; authorization and the text of events are     *)
(* left out.  A call that is refused, or that repeats a key and gets the    *)
(* recorded result, changes nothing and is not a step.                      *)
(***************************************************************************)
EXTENDS RunStateMachine, VercelSandbox, CodexAgent, GithubSource

CONSTANTS Keys,           \* idempotency keys of publications
          MaxFaults,      \* bound: provider calls that fail and outside events
          ActiveRunLimit

ASSUME LimitAssumption == ActiveRunLimit \in Nat \ {0} /\ MaxFaults \in Nat
ASSUME NamesAssumption ==
  /\ IsFiniteSet(Runs) /\ Operated \subseteq Runs
  /\ Runs \subseteq Sandboxes /\ Runs \subseteq Commits
  /\ "none" \notin Runs /\ "none" \notin Branches

VARIABLES runs,         \* the runs of the store
          version,      \* the evidence version of each run
          checks,       \* what the validation of a run found
          reviews,      \* the decision on a run and the version it was taken on
          publications, \* recorded publications: run, call, and the head that was seen
          execution,    \* what executeRun is doing, and the state of its copy
          publication,  \* the run and the key of each publishRun
          claimed,      \* publication keys in use, and for which run
          acked,        \* history: runs whose cancellation was answered
          faults        \* how many provider calls failed or outside events happened

storeVars == <<runs, version, checks, reviews, publications>>
serviceVars == <<storeVars, execution, publication, claimed, acked>>
vars == <<serviceVars, sandboxVars, agentVars, sourceVars, faults>>

NoRun == "none"
NoReview == [decision |-> "none", snapshot |-> 0]
NotExecuted == [at |-> "idle", copy |-> Absent]
NotPublishing == [run |-> NoRun, key |-> "none"]
AbsentRun == [state |-> Absent, outcome |-> "none", iteration |-> 0]

ExecutionSteps == {"idle", "create", "start", "open", "read", "validate", "destroy", "catch", "ended"}

\* saveValidation and one saveEvidence per criterion, of which there is one.
EvidenceSaves == 2

TypeOK ==
  /\ SandboxTypeOK /\ AgentTypeOK /\ SourceTypeOK
  /\ runs \in [Runs -> [state : RunStates \cup {Absent}, outcome : ReviewOutcomes,
                        iteration : 0..Cardinality(Runs)]]
  /\ version \in [Runs -> {0, EvidenceSaves}]
  /\ checks \in [Runs -> {"none", "passed", "failed"}]
  /\ reviews \in [Runs -> [decision : ReviewOutcomes, snapshot : {0, EvidenceSaves}]]
  /\ publications \subseteq [run : Runs, by : Publishers, head : Commits]
  /\ execution \in [Runs -> [at : ExecutionSteps, copy : RunStates \cup {Absent}]]
  /\ publication \in [Publishers -> [run : Runs \cup {NoRun}, key : Keys \cup {"none"}]]
  /\ claimed \in [Keys -> Runs \cup {NoRun}]
  /\ acked \subseteq Runs
  /\ faults \in 0..MaxFaults

Init ==
  /\ SandboxInit /\ AgentInit /\ SourceInit
  /\ runs = [r \in Runs |-> AbsentRun]
  /\ version = [r \in Runs |-> 0]
  /\ checks = [r \in Runs |-> "none"]
  /\ reviews = [r \in Runs |-> NoReview]
  /\ publications = {}
  /\ execution = [r \in Runs |-> NotExecuted]
  /\ publication = [p \in Publishers |-> NotPublishing]
  /\ claimed = [k \in Keys |-> NoRun]
  /\ acked = {}
  /\ faults = 0

-----------------------------------------------------------------------------
Existing == {r \in Runs : runs[r].state # Absent}
ActiveRuns == {r \in Runs : runs[r].state \in ActiveRunStates}

Save(r, state, outcome) ==
  runs' = [runs EXCEPT ![r].state = state, ![r].outcome = outcome]

Insert(r, iteration) ==
  runs' = [runs EXCEPT ![r] = [state |-> "queued", outcome |-> "none", iteration |-> iteration]]

AdmitsAlways == TRUE
Admits == Admitted(Cardinality(ActiveRuns), ActiveRunLimit)

Idempotent == UNCHANGED <<version, checks, publications, execution, publication, claimed>>
Providers == UNCHANGED <<sandboxVars, agentVars, sourceVars>>

StartRun(r) ==
  /\ runs[r].state = Absent /\ Admits
  /\ Insert(r, Cardinality(Existing) + 1)
  /\ Idempotent /\ Providers /\ UNCHANGED <<reviews, acked>>

CancelRun(r) ==
  /\ runs[r].state \in CancellableRunStates
  /\ Save(r, "cancelled", runs[r].outcome)
  /\ acked' = acked \cup {r}
  /\ Idempotent /\ Providers /\ UNCHANGED reviews

\* The next iteration of a completed rejected run.
CreateNextIteration(r, next) ==
  /\ runs[r].state = "completed" /\ runs[r].outcome = "rejected"
  /\ runs[next].state = Absent /\ Admits
  /\ Insert(next, runs[r].iteration + 1)
  /\ Idempotent /\ Providers /\ UNCHANGED <<reviews, acked>>

-----------------------------------------------------------------------------
(* Review.                                                                  *)

Validations(r) ==
  IF checks[r] = "none" THEN {} ELSE {[requirement |-> "constitution", status |-> checks[r]]}

Evidence(r) ==
  IF checks[r] = "none" THEN {}
  ELSE {[requirement |-> "task_mandatory", audited |-> FALSE,
         status |-> IF checks[r] = "passed" THEN "satisfied" ELSE "not_satisfied"]}

ReviewableLater(r) == runs[r].state \in {"awaiting_review", "failed"}
Reviewable(r) == runs[r].state = "awaiting_review"

\* An approved run stays in review until it is published.
ResolveReview(r, decision) ==
  /\ Reviewable(r) /\ reviews[r] = NoReview
  /\ decision = "approved" => EligibleForApproval(Validations(r), Evidence(r))
  /\ reviews' = [reviews EXCEPT ![r] = [decision |-> decision, snapshot |-> version[r]]]
  /\ IF decision = "approved" THEN UNCHANGED runs ELSE Save(r, "completed", decision)
  /\ Idempotent /\ Providers /\ UNCHANGED acked

-----------------------------------------------------------------------------
(* executeRun.                                                              *)

\* The execution moves its copy and saves it.
MoveTo(r, state, at) ==
  /\ execution' = [execution EXCEPT ![r] = [at |-> at, copy |-> state]]
  /\ Save(r, state, "none")

Goto(r, at) ==
  /\ execution' = [execution EXCEPT ![r].at = at]
  /\ UNCHANGED runs

Executing(r, at) == execution[r].at = at
Gathered == UNCHANGED <<version, checks>>
Others == UNCHANGED <<reviews, publications, publication, claimed, acked, sourceVars>>

Executable(r) == runs[r].state = "queued"

BeginExecution(r) ==
  /\ r \in Operated /\ Executable(r)
  /\ MoveTo(r, "provisioning", "create")
  /\ Gathered /\ Others /\ UNCHANGED <<sandboxVars, agentVars>>

CreateSandbox(r) ==
  /\ Executing(r, "create")
  /\ Create(r)
  /\ MoveTo(r, "running", "start")
  /\ Gathered /\ Others /\ UNCHANGED agentVars

\* No sandbox to destroy: the run fails at once.
CreateSandboxFails(r) ==
  /\ Executing(r, "create")
  /\ PolicyRefuses \/ CreateFails(r)
  /\ MoveTo(r, "failed", "ended")
  /\ Gathered /\ Others /\ UNCHANGED agentVars

StartCodingAgent(r) ==
  /\ Executing(r, "start")
  /\ StartAgent(r) /\ Goto(r, "open")
  /\ Gathered /\ Others /\ UNCHANGED sandboxVars

StartCodingAgentFails(r) ==
  /\ Executing(r, "start")
  /\ StartAgentFails(r) /\ Goto(r, "catch")
  /\ Gathered /\ Others /\ UNCHANGED sandboxVars

OpenAgentStream(r) ==
  /\ Executing(r, "open")
  /\ OpenStream(r) /\ Goto(r, "read")
  /\ Gathered /\ Others /\ UNCHANGED sandboxVars

ReadAgentEvent(r) ==
  /\ Executing(r, "read")
  /\ ReadEvent(r)
  /\ Gathered /\ Others /\ UNCHANGED <<runs, execution, sandboxVars>>

AgentStreamRefuses(r) ==
  /\ Executing(r, "read")
  /\ StreamRefuses(r) /\ Goto(r, "catch")
  /\ Gathered /\ Others /\ UNCHANGED sandboxVars

AgentStreamLost(r) ==
  /\ Executing(r, "read")
  /\ StreamLost(r) /\ Goto(r, "catch")
  /\ Gathered /\ Others /\ UNCHANGED sandboxVars

AgentStreamEnds(r) ==
  /\ Executing(r, "read")
  /\ StreamEnds(r) /\ MoveTo(r, "validating", "validate")
  /\ Gathered /\ Others /\ UNCHANGED sandboxVars

\* The command ends with an exit code: the validation and the evidence are
\* saved and the run is ready for review.
Validate(r) ==
  /\ Executing(r, "validate") /\ Usable(r)
  /\ \E found \in {"passed", "failed"} : checks' = [checks EXCEPT ![r] = found]
  /\ version' = [version EXCEPT ![r] = @ + EvidenceSaves]
  /\ MoveTo(r, "awaiting_review", "destroy")
  /\ Others /\ UNCHANGED <<sandboxVars, agentVars>>

\* The sandbox is stopped or out of time.
ValidateRefused(r) ==
  /\ Executing(r, "validate") /\ ~Usable(r)
  /\ Goto(r, "catch")
  /\ Gathered /\ Others /\ UNCHANGED <<sandboxVars, agentVars>>

\* The command fails, exceeds its limits, or has no usable exit code.
ValidateFails(r) ==
  /\ Executing(r, "validate") /\ Usable(r)
  /\ Goto(r, "catch")
  /\ Gathered /\ Others /\ UNCHANGED <<sandboxVars, agentVars>>

DestroySandbox(r) ==
  /\ Executing(r, "destroy")
  /\ Destroy(r) /\ Goto(r, "ended")
  /\ Gathered /\ Others /\ UNCHANGED agentVars

DestroySandboxFails(r) ==
  /\ Executing(r, "destroy")
  /\ DestroyFails(r) /\ Goto(r, "catch")
  /\ Gathered /\ Others /\ UNCHANGED agentVars

\* The catch block: the sandbox is destroyed if that is possible, and the copy
\* of the execution is saved as failed.
ReleaseNothing(r) == UNCHANGED sandboxVars
Release(r) == Destroy(r)

Catch(r) ==
  /\ Executing(r, "catch")
  /\ Release(r)
  /\ MoveTo(r, "failed", "ended")
  /\ Gathered /\ Others /\ UNCHANGED agentVars

CatchCannotDestroy(r) ==
  /\ Executing(r, "catch")
  /\ DestroyFails(r)
  /\ MoveTo(r, "failed", "ended")
  /\ Gathered /\ Others /\ UNCHANGED agentVars

CatchFindsNothing(r) ==
  /\ Executing(r, "catch")
  /\ DestroyFindsNothing(r)
  /\ MoveTo(r, "failed", "ended")
  /\ Gathered /\ Others /\ UNCHANGED agentVars

ExecutionStep(r) ==
  \/ CreateSandbox(r) \/ StartCodingAgent(r) \/ OpenAgentStream(r) \/ ReadAgentEvent(r)
  \/ AgentStreamRefuses(r) \/ AgentStreamEnds(r) \/ Validate(r) \/ ValidateRefused(r)
  \/ DestroySandbox(r) \/ Catch(r) \/ CatchFindsNothing(r)

ExecutionFault(r) ==
  \/ CreateSandboxFails(r) \/ StartCodingAgentFails(r) \/ AgentStreamLost(r)
  \/ ValidateFails(r) \/ DestroySandboxFails(r) \/ CatchCannotDestroy(r)

-----------------------------------------------------------------------------
(* publishRun.                                                              *)

Publishing(p) == publication[p].run # NoRun
ExecutionRests == UNCHANGED <<version, checks, reviews, execution, acked, sandboxVars, agentVars>>

Publishable(r) ==
  /\ EligibleForPublication(Validations(r), Evidence(r), reviews[r], version[r])
  /\ CanTransition(runs[r].state, "publishing")

\* The run is saved as publishing before the source provider is called.
BeginPublication(p, r, k, b) ==
  /\ ~Publishing(p) /\ claimed[k] = NoRun
  /\ r \in Existing /\ Publishable(r)
  /\ Save(r, "publishing", runs[r].outcome)
  /\ publication' = [publication EXCEPT ![p] = [run |-> r, key |-> k]]
  /\ claimed' = [claimed EXCEPT ![k] = r]
  /\ Ask(p, b, r)
  /\ ExecutionRests /\ UNCHANGED <<archived, branch, pull, publications>>

PublicationStep(p) ==
  /\ Publishing(p) /\ SourceStep(p)
  /\ ExecutionRests /\ UNCHANGED <<runs, publications, publication, claimed>>

\* The change request is recorded and the run completed, from the copy that was
\* publishing.
CompletePublication(p) ==
  LET r == publication[p].run
  IN  /\ request[p].at = "created" /\ Publishing(p)
      /\ Save(r, "completed", "approved")
      /\ publications' = publications \cup {[run |-> r, by |-> p, head |-> request[p].head]}
      /\ publication' = [publication EXCEPT ![p] = NotPublishing]
      /\ ExecutionRests /\ UNCHANGED <<claimed, archived, branch, pull, request>>

\* The error reaches the caller, the key is free again, and the run stays as it is.
FailPublication(p) ==
  /\ request[p].at = "failed" /\ Publishing(p)
  /\ publication' = [publication EXCEPT ![p] = NotPublishing]
  /\ claimed' = [claimed EXCEPT ![publication[p].key] = NoRun]
  /\ ExecutionRests /\ UNCHANGED <<runs, publications, archived, branch, pull, request>>

-----------------------------------------------------------------------------
(* The providers on their own, the operators' calls, and the world outside.  *)

AgentStep ==
  /\ \/ \E r \in Runs, t \in Turns : TurnAsks(r, t) \/ TurnEnds(r, t, "completed")
     \/ \E c \in Callers : CallStep(c)
  /\ UNCHANGED <<serviceVars, sandboxVars, sourceVars>>

AgentFault ==
  /\ \/ \E r \in Runs, t \in Turns : TurnEnds(r, t, "failed")
     \/ \E c \in Callers : CallFails(c)
  /\ UNCHANGED <<serviceVars, sandboxVars, sourceVars>>

OperatorCalls ==
  /\ \E c \in Callers, op \in Operations, r \in Operated : Begin(c, op, r)
  /\ UNCHANGED <<serviceVars, sandboxVars, sourceVars>>

OutsideEvent ==
  \/ /\ \E r \in Runs : Expire(r) \/ Stop(r)
     /\ UNCHANGED <<serviceVars, agentVars, sourceVars>>
  \/ /\ \E b \in Branches : Push(b) \/ OpenOrMark(b)
     /\ UNCHANGED <<serviceVars, agentVars, sandboxVars>>
  \/ /\ Archive
     /\ UNCHANGED <<serviceVars, agentVars, sandboxVars>>

-----------------------------------------------------------------------------
RunServices ==
  \E r \in Runs :
    \/ StartRun(r) \/ CancelRun(r) \/ BeginExecution(r) \/ ExecutionStep(r)
    \/ \E next \in Runs : CreateNextIteration(r, next)
    \/ \E decision \in {"approved", "rejected", "cancelled"} : ResolveReview(r, decision)

PublicationFault(p) ==
  /\ Publishing(p) /\ SourceFails(p)
  /\ ExecutionRests /\ UNCHANGED <<runs, publications, publication, claimed>>

Publications ==
  \E p \in Publishers :
    \/ PublicationStep(p) \/ CompletePublication(p) \/ FailPublication(p)
    \/ \E r \in Runs, k \in Keys, b \in Branches : BeginPublication(p, r, k, b)

Steps ==
  RunServices \/ Publications \/ AgentStep \/ OperatorCalls

Faults ==
  \/ \E r \in Runs : ExecutionFault(r)
  \/ \E p \in Publishers : PublicationFault(p)
  \/ AgentFault \/ OutsideEvent

Next ==
  \/ Steps /\ UNCHANGED faults
  \/ Faults /\ faults < MaxFaults /\ faults' = faults + 1

Spec == Init /\ [][Next]_vars

-----------------------------------------------------------------------------
(* Properties.                                                              *)

\* When an execution has ended, whatever failed in it and whatever became of its
\* run, no sandbox is left at Vercel but one that create never heard of, one that
\* Vercel refused to delete when it was asked last, and one whose deletion was
\* last not asked because the registry could not be read; that one is registered,
\* so that a later destroy finds it.
SandboxReleased ==
  \A r \in Runs : execution[r].at = "ended" /\ Lives(r) =>
    \/ kept[r] = "unheard" /\ record[r] = "none"
    \/ kept[r] = "refused"
    \/ kept[r] = "unread" /\ record[r] # "none"

\* A workspace has no more active runs than the limit of evaluateRunAdmission,
\* cancelled runs apart: an execution that is at an await when its run is
\* cancelled saves its own copy over the cancellation and is active again.
ActiveLimitHolds == Cardinality(ActiveRuns \ acked) <= ActiveRunLimit

\* A run is published at most once, under whatever keys and however the calls
\* overlap; its review approved exactly the evidence it has, its validation
\* passed, and the change request was seen at the commit that was asked for.
PublishedAsApproved ==
  \A x \in publications :
    /\ reviews[x.run] = [decision |-> "approved", snapshot |-> version[x.run]]
    /\ checks[x.run] = "passed"
    /\ x.head = x.run
    /\ \A y \in publications : y.run = x.run => y = x

\* When cancel of the Codex provider has answered, no turn of its run is at work,
\* whether or not cancel found an active turn, and none starts any more: unless an
\* instruction that starts a turn was under way beside a cancel or another such
\* instruction, or failed before its turn was recorded.
CancelStopsTurns ==
  \A c \in Callers :
    At(c, "cancelled", "cancel") =>
      calls[c].run \in contested \/ LiveTurns(calls[c].run) = {}

\* A run that has ended is changed only by a call that was in flight when it
\* ended: its own execution or its publication.
SettledRunsRest ==
  [][\A r \in Runs :
       runs[r].state \in TerminalRunStates /\ runs'[r] # runs[r] =>
         \/ execution[r].at \notin {"idle", "ended"}
         \/ \E p \in Publishers : publication[p].run = r]_vars
=============================================================================
