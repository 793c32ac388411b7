--------------------------- MODULE RunStateMachine ---------------------------
(***************************************************************************)
(* The run state machine and the completion gate of packages/forge-domain: *)
(* the vocabulary that every Forge component shares.  Pure definitions, no  *)
(* state: the transactional services of ForgeRuns are built on them.        *)
(***************************************************************************)
EXTENDS Naturals, FiniteSets

\* A run whose row does not exist yet.
Absent == "absent"

ActiveRunStates ==
  {"queued", "provisioning", "running", "awaiting_approval", "cancelling",
   "validating", "awaiting_review", "publishing"}

CancellableRunStates ==
  {"queued", "provisioning", "running", "awaiting_approval", "validating"}

TerminalRunStates == {"completed", "failed", "cancelled", "expired"}

RunStates == {"draft"} \cup ActiveRunStates \cup TerminalRunStates

ReviewOutcomes == {"none", "approved", "rejected", "cancelled"}

LegalTransitions ==
  [s \in RunStates |->
     CASE s = "draft"             -> {"queued", "cancelled"}
       [] s = "queued"            -> {"provisioning", "cancelling", "failed", "expired"}
       [] s = "provisioning"      -> {"running", "cancelling", "failed", "expired"}
       [] s = "running"           -> {"awaiting_approval", "validating",
                                      "cancelling", "failed", "expired"}
       [] s = "awaiting_approval" -> {"running", "cancelling", "failed", "expired"}
       [] s = "cancelling"        -> {"cancelled", "failed"}
       [] s = "validating"        -> {"awaiting_review", "cancelling", "failed", "expired"}
       [] s = "awaiting_review"   -> {"publishing", "completed", "failed", "expired"}
       [] s = "publishing"        -> {"completed", "failed"}
       [] OTHER                   -> {}]

CanTransition(current, next) == next \in LegalTransitions[current]

\* evaluateRunAdmission: a start is admitted while the count is below the limit.
Admitted(activeRunCount, activeRunLimit) == activeRunCount < activeRunLimit

-----------------------------------------------------------------------------
(* The completion gate, over sets of validation and evidence records.       *)

Requirements == {"constitution", "task_mandatory", "advisory"}
ValidationStatuses == {"pending", "running", "passed", "failed", "skipped"}
EvidenceStatuses == {"satisfied", "not_satisfied", "inconclusive", "waived"}

IsMandatory(requirement) == requirement \in {"constitution", "task_mandatory"}

\* A validation that blocks: mandatory and anything but passed.
ValidationBlocks(v) == IsMandatory(v.requirement) /\ v.status # "passed"

\* Evidence that blocks: mandatory and not satisfied, a waiver included, or an
\* advisory waiver whose audit fields (by, reason, at) are incomplete.
EvidenceBlocks(e) ==
  \/ IsMandatory(e.requirement) /\ e.status # "satisfied"
  \/ ~IsMandatory(e.requirement) /\ e.status = "waived" /\ ~e.audited

EligibleForApproval(validations, evidence) ==
  /\ \A v \in validations : ~ValidationBlocks(v)
  /\ \A e \in evidence : ~EvidenceBlocks(e)

\* review is a decision and the snapshot version it was taken on; "none" is
\* the absence of a decision.
EligibleForPublication(validations, evidence, review, currentSnapshot) ==
  /\ EligibleForApproval(validations, evidence)
  /\ review.decision = "approved"
  /\ review.snapshot = currentSnapshot
=============================================================================
