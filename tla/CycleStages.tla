----------------------------- MODULE CycleStages -----------------------------
(***************************************************************************)
(* The stages of an evolution cycle and the policy that guards them:       *)
(* packages/evolution-core/src/state-machine.ts and policy.ts.  A cycle is *)
(* a record with its stage, the artifact buckets that hold a reference,    *)
(* its autonomy and risk, and the actions that a current approval of this  *)
(* cycle and its exact scope covers.                                       *)
(***************************************************************************)
EXTENDS Naturals

\* The stages in the order of a cycle that goes well.
Path == <<"created", "observed", "modeled", "diagnosed", "researched", "decided", "planned",
          "executing", "implemented", "verified", "measured", "learned", "meta-improved",
          "completed">>

Successors(stage) == {Path[i + 1] : i \in {j \in 1..13 : Path[j] = stage}}

TerminalStages == {"completed", "rejected", "rolled-back", "inconclusive"}
RejectableStages == {Path[i] : i \in {4, 5, 6, 7, 8, 9, 10, 11, 12}}
RollbackStages == {"executing", "implemented", "verified", "measured"}
Stages == {Path[i] : i \in 1..14} \cup TerminalStages

CanTransition(from, to) ==
  \/ to \in Successors(from)
  \/ from = "learned" /\ to = "completed"
  \/ from \in RejectableStages /\ to \in {"rejected", "inconclusive"}
  \/ from \in RollbackStages /\ to = "rolled-back"

Buckets == {"baseline", "model", "diagnosis", "research", "candidates", "decision", "plan",
            "rollback", "changes", "verification", "measurement", "memory", "metaChanges"}

RequiredArtifacts(stage) ==
  CASE stage = "observed" -> {"baseline"}
    [] stage = "modeled" -> {"model"}
    [] stage = "diagnosed" -> {"diagnosis", "candidates"}
    [] stage = "researched" -> {"research"}
    [] stage = "decided" -> {"decision"}
    [] stage = "planned" -> {"plan", "rollback"}
    [] stage = "implemented" -> {"changes"}
    [] stage = "verified" -> {"verification"}
    [] stage = "measured" -> {"measurement"}
    [] stage = "learned" -> {"memory"}
    [] stage = "meta-improved" -> {"metaChanges"}
    [] OTHER -> {}

----------------------------------------------------------------------------
(* authorizeAction: levels A0..A4 and R0..R4 are their numbers. *)

Actions == {"inspect", "research", "plan", "record-memory", "run-checks", "modify-code",
            "open-draft-pr", "merge", "deploy", "production-write", "read-secrets", "spend"}
ProtectedActions == {"merge", "deploy", "production-write", "read-secrets", "spend"}

MinimumAutonomy(action) ==
  CASE action = "inspect" -> 0
    [] action \in {"research", "plan", "record-memory", "run-checks"} -> 1
    [] action \in {"modify-code", "open-draft-pr"} -> 3
    [] OTHER -> 4

NeedsApproval(risk, action) ==
  action \in ProtectedActions \/ (risk >= 3 /\ action \in {"modify-code", "open-draft-pr"})

Authorized(cycle, action) ==
  /\ cycle.autonomy >= MinimumAutonomy(action)
  /\ NeedsApproval(cycle.risk, action) => action \in cycle.approvals

----------------------------------------------------------------------------
Cycles ==
  [stage : Stages, filled : SUBSET Buckets, autonomy : 0..4, risk : 0..4,
   approvals : SUBSET Actions]

\* transitionCycle accepts the move; added are the buckets that gain a reference.
MayTransition(cycle, to, added, verificationPassed) ==
  /\ cycle.stage \notin TerminalStages
  /\ CanTransition(cycle.stage, to)
  /\ to = "executing" => Authorized(cycle, "modify-code")
  /\ to = "verified" => verificationPassed
  /\ RequiredArtifacts(to) \subseteq cycle.filled \cup added

Moved(cycle, to, added) == [cycle EXCEPT !.stage = to, !.filled = @ \cup added]
=============================================================================
