--------------------------- MODULE DeliveryProofs ---------------------------
(***************************************************************************)
(* What the properties of Delivery rest on, for any number of calls, names *)
(* and contents: the calls of the delivery API exclude one another through *)
(* the lease, and what a call has read stays true of the records, or turns *)
(* into a conflict when it is saved.  Recovery takes no lease, so nothing  *)
(* is said of what it has read but what the evidence keeps true.           *)
(***************************************************************************)
EXTENDS Delivery, TLAPS

LeaseSteps == Steps \ {"idle", "plan", "apply"}
VerifySteps == {"before", "checks", "after", "commit", "clean", "judge"}
PublishSteps == {"push", "confirm", "list", "create", "view", "published"}
LateStages == Stages \ {"created", "observed", "modeled", "diagnosed", "researched", "decided",
                        "planned", "executing", "implemented"}

Drifted == "drift" \in Happened
Pushed == "push" \in Happened

\* An accepted verdict on record is backed by evidence of its commit.
Backed(record) ==
  record.verdict = "accepted" => \E e \in evidence : e.commit = record.commit

Excluded ==
  /\ \A p \in Ops : job[p].at \in LeaseSteps => holder = p /\ ~orphan /\ job[p].actor \in Actors
  /\ orphan => holder # NoOp

\* What a verification knows at each of its steps.
Committed(record) == record.commit \in Contents /\ (record.commit = record.patch \/ Drifted)

VerifyOK(p) ==
  LET j == job[p] IN
  /\ j.at \in VerifySteps \cup {"write"} =>
       j.saw.publication = "none" /\ j.saw.implementer \in Actors
  /\ j.at \in VerifySteps => j.saw.verdict = "none" /\ j.actor # j.saw.implementer
  /\ j.at = "commit" =>
       /\ j.result = "accepted"
       /\ (tree.head = Base /\ tree.work = j.saw.patch) \/ Drifted
  /\ j.at = "clean" => j.result = "accepted" /\ Committed(j.saw)
  /\ j.at = "judge" => j.result \in Verdicts /\ (j.result = "accepted" => Committed(j.saw))
  /\ j.at \in {"write", "verified"} => j.saw.verdict \in Verdicts

\* What a publication knows at each of its steps.
OnBranch(record) == remote = record.commit \/ Pushed

PublishOK(p) ==
  LET j == job[p] IN
  /\ j.at \in PublishSteps =>
       /\ j.saw = control
       /\ j.saw.verdict = "accepted"
       /\ j.saw.publication # "published"
       /\ cycle.stage \in LateStages
  /\ j.at \in {"list", "create", "view"} => OnBranch(j.saw)
  /\ j.at = "published" =>
       /\ j.result \in Publications
       /\ j.result = "published" => OnBranch(j.saw) /\ pr # "none"

RecoverOK(p) ==
  LET j == job[p] IN
  /\ j.at \in {"plan", "apply"} => j.stage \in RecoverableStages
  /\ j.at = "apply" =>
       /\ j.to \in {"implemented", "verified", "rejected", "inconclusive"}
       /\ j.to = "verified" => j.saw.verdict = "accepted"

ControlOK ==
  /\ Backed(control)
  /\ control.status = "implemented" => control.implementer \in Actors
  /\ control.publication # "none" => cycle.stage \in LateStages
  /\ control.publication = "published" =>
       control.verdict = "accepted" /\ OnBranch(control) /\ pr # "none"

RecordsOK == ControlOK /\ \A p \in Ops : Backed(job[p].saw)

EvidenceOK ==
  \A e \in evidence : e.verifier # e.implementer /\ Committed(e)

DeliveryInv ==
  /\ TypeOK
  /\ Excluded
  /\ \A p \in Ops : VerifyOK(p) /\ PublishOK(p) /\ RecoverOK(p)
  /\ RecordsOK
  /\ EvidenceOK
  /\ VerifiedHasEvidence

----------------------------------------------------------------------------
(* The stages. *)

LEMMA PathIs ==
  /\ Path[1] = "created" /\ Path[2] = "observed" /\ Path[3] = "modeled" /\ Path[4] = "diagnosed"
  /\ Path[5] = "researched" /\ Path[6] = "decided" /\ Path[7] = "planned" /\ Path[8] = "executing"
  /\ Path[9] = "implemented" /\ Path[10] = "verified" /\ Path[11] = "measured"
  /\ Path[12] = "learned" /\ Path[13] = "meta-improved" /\ Path[14] = "completed"
  BY DEF Path

LEMMA StagesAre ==
  Stages = {"created", "observed", "modeled", "diagnosed", "researched", "decided", "planned",
            "executing", "implemented", "verified", "measured", "learned", "meta-improved",
            "completed", "rejected", "rolled-back", "inconclusive"}
  BY PathIs DEF Stages, TerminalStages

LEMMA LateStagesAre ==
  LateStages = {"verified", "measured", "learned", "meta-improved", "completed", "rejected",
                "rolled-back", "inconclusive"}
  BY StagesAre DEF LateStages

\* Once verified, or settled, a cycle never returns to an earlier stage.
LEMMA LateStays ==
  ASSUME NEW from \in LateStages, NEW to, CanTransition(from, to)
  PROVE  to \in LateStages
<1>1. ASSUME to \in Successors(from)
      PROVE  to \in LateStages
  <2>1. PICK i \in 1..13 : Path[i] = from /\ Path[i + 1] = to
    BY <1>1 DEF Successors
  <2>2. i \in 10..13
    BY <2>1, PathIs, LateStagesAre
  <2> QED
    BY <2>1, <2>2, PathIs, LateStagesAre
<1> QED
  BY <1>1, LateStagesAre DEF CanTransition

----------------------------------------------------------------------------
JobsOK == job \in [Ops -> Jobs]

LEMMA DoStep ==
  ASSUME JobsOK, NEW p \in Ops, NEW step \in Steps, Do(p, step)
  PROVE  /\ job' \in [Ops -> Jobs]
         /\ \A q \in Ops : q # p => job'[q] = job[q]
         /\ job'[p].at = step
         /\ job'[p].actor = job[p].actor /\ job'[p].result = job[p].result
         /\ job'[p].saw = job[p].saw /\ job'[p].stage = job[p].stage /\ job'[p].to = job[p].to
  BY DEF JobsOK, Do, Jobs

LEMMA DoWithStep ==
  ASSUME JobsOK, NEW p \in Ops, NEW step \in Steps, NEW result \in Results, DoWith(p, step, result)
  PROVE  /\ job' \in [Ops -> Jobs]
         /\ \A q \in Ops : q # p => job'[q] = job[q]
         /\ job'[p].at = step /\ job'[p].result = result
         /\ job'[p].actor = job[p].actor
         /\ job'[p].saw = job[p].saw /\ job'[p].stage = job[p].stage /\ job'[p].to = job[p].to
  BY DEF JobsOK, DoWith, Jobs

LEMMA NoControlType == NoControl \in Controls
  BY DEF NoControl, Controls, Works, Someone, Heads

LEMMA IdleType ==
  /\ Idle \in Jobs
  /\ Idle.at = "idle" /\ Idle.actor = "none" /\ Idle.result = "none" /\ Idle.saw = NoControl
  /\ Idle.stage = "none" /\ Idle.to = "none"
  BY NoControlType DEF Idle, Jobs, Steps, Someone, Results

LEMMA StartStep ==
  ASSUME JobsOK, NEW p \in Ops, NEW kind \in Steps, NEW actor \in Actors, Start(p, kind, actor)
  PROVE  /\ job' \in [Ops -> Jobs]
         /\ \A q \in Ops : q # p => job'[q] = job[q]
         /\ job'[p].at = kind /\ job'[p].actor = actor /\ job'[p].result = "none"
         /\ job'[p].saw = NoControl /\ job'[p].stage = "none" /\ job'[p].to = "none"
<1> DEFINE row == [Idle EXCEPT !.at = kind, !.actor = actor]
<1>1. /\ row \in Jobs
      /\ row.at = kind /\ row.actor = actor /\ row.result = "none"
      /\ row.saw = NoControl /\ row.stage = "none" /\ row.to = "none"
  BY NoControlType DEF Idle, Jobs, Someone, Results
<1>2. job' = [job EXCEPT ![p] = row]
  BY DEF Start
<1> HIDE DEF row
<1> QED
  BY <1>1, <1>2 DEF JobsOK

LEMMA KeepStep ==
  ASSUME JobsOK, NEW p \in Ops, NEW step \in Steps, NEW saw \in Controls, Keep(p, step, saw)
  PROVE  /\ job' \in [Ops -> Jobs]
         /\ \A q \in Ops : q # p => job'[q] = job[q]
         /\ job'[p].at = step /\ job'[p].saw = saw
         /\ job'[p].actor = job[p].actor /\ job'[p].result = job[p].result
         /\ job'[p].stage = job[p].stage /\ job'[p].to = job[p].to
  BY DEF JobsOK, Keep, Jobs

LEMMA IdleStep ==
  ASSUME JobsOK, NEW p \in Ops, job' = [job EXCEPT ![p] = Idle]
  PROVE  /\ job' \in [Ops -> Jobs]
         /\ \A q \in Ops : q # p => job'[q] = job[q]
         /\ job'[p] = Idle
  BY IdleType DEF JobsOK

LEMMA KeepWithStep ==
  ASSUME JobsOK, NEW p \in Ops, NEW step \in Steps, NEW result \in Results, NEW saw \in Controls,
         KeepWith(p, step, result, saw)
  PROVE  /\ job' \in [Ops -> Jobs]
         /\ \A q \in Ops : q # p => job'[q] = job[q]
         /\ job'[p].at = step /\ job'[p].result = result /\ job'[p].saw = saw
         /\ job'[p].actor = job[p].actor
         /\ job'[p].stage = job[p].stage /\ job'[p].to = job[p].to
  BY DEF JobsOK, KeepWith, Jobs

LEMMA PlanStep ==
  ASSUME JobsOK, NEW p \in Ops, NEW to \in Stages,
         job' = [job EXCEPT ![p].at = "apply", ![p].to = to]
  PROVE  /\ job' \in [Ops -> Jobs]
         /\ \A q \in Ops : q # p => job'[q] = job[q]
         /\ job'[p].at = "apply" /\ job'[p].to = to
         /\ job'[p].actor = job[p].actor /\ job'[p].result = job[p].result
         /\ job'[p].saw = job[p].saw /\ job'[p].stage = job[p].stage
  BY DEF JobsOK, Jobs, Steps

LEMMA LoadForRecoveryStep ==
  ASSUME JobsOK, control \in Controls, cycle.stage \in Stages, NEW p \in Ops, LoadForRecovery(p)
  PROVE  /\ job' \in [Ops -> Jobs]
         /\ \A q \in Ops : q # p => job'[q] = job[q]
         /\ job'[p].at = "plan" /\ job'[p].actor = "none" /\ job'[p].result = "none"
         /\ job'[p].saw = control /\ job'[p].stage = cycle.stage /\ job'[p].to = "none"
<1> DEFINE row == [Idle EXCEPT !.at = "plan", !.stage = cycle.stage, !.saw = control]
<1>1. /\ row \in Jobs
      /\ row.at = "plan" /\ row.actor = "none" /\ row.result = "none"
      /\ row.saw = control /\ row.stage = cycle.stage /\ row.to = "none"
  BY DEF Idle, Jobs, Someone, Results, Steps
<1>2. job' = [job EXCEPT ![p] = row]
  BY DEF LoadForRecovery
<1> HIDE DEF row
<1> QED
  BY <1>1, <1>2 DEF JobsOK

----------------------------------------------------------------------------
Others(p) ==
  /\ job' \in [Ops -> Jobs]
  /\ \A q \in Ops : q # p => job'[q] = job[q]

RowOK(p) == VerifyOK(p) /\ PublishOK(p) /\ RecoverOK(p) /\ Backed(job[p].saw)

MayWork(p) ==
  job[p].at \in LeaseSteps => holder = p /\ ~orphan /\ job[p].actor \in Actors

\* A step of a call that changes nothing but the row of the call keeps the
\* invariant if the new row is right.
LEMMA Quiet ==
  ASSUME DeliveryInv, NEW p \in Ops, Others(p), UNCHANGED shared,
         holder' = holder, broken' = broken, working' \subseteq Ops,
         MayWork(p)', RowOK(p)'
  PROVE  DeliveryInv'
<1> USE DEF shared
<1>1. TypeOK'
  BY DEF DeliveryInv, TypeOK, LeaseTypeOK, Others
<1>2. Excluded'
  BY DEF DeliveryInv, Excluded, MayWork, Others
<1>3. ASSUME NEW q \in Ops PROVE RowOK(q)'
  <2>1. CASE q = p
    BY <2>1
  <2>2. CASE q # p
    <3>1. job'[q] = job[q]
      BY <2>2 DEF Others
    <3>2. VerifyOK(q)'
      BY <3>1 DEF DeliveryInv, VerifyOK, Committed, Drifted, Happened
    <3>3. PublishOK(q)' /\ RecoverOK(q)'
      BY <3>1 DEF DeliveryInv, PublishOK, RecoverOK, OnBranch, Pushed, Happened
    <3>4. Backed(job[q].saw)'
      BY <3>1 DEF DeliveryInv, RecordsOK, ControlOK, Backed
    <3> QED
      BY <3>2, <3>3, <3>4 DEF RowOK
  <2> QED
    BY <2>1, <2>2
<1>4. RecordsOK'
  BY <1>3 DEF DeliveryInv, RecordsOK, ControlOK, RowOK, Backed, OnBranch, Pushed, Happened
<1>5. EvidenceOK' /\ VerifiedHasEvidence'
  BY DEF DeliveryInv, EvidenceOK, VerifiedHasEvidence, Committed, Drifted, Happened
<1> QED
  BY <1>1, <1>2, <1>3, <1>4, <1>5 DEF DeliveryInv, RowOK

\* While a call holds the lease no other one is at a step that needs it, so
\* what the call changes concerns no other row.
LEMMA Alone ==
  ASSUME DeliveryInv, NEW p \in Ops, job[p].at \in LeaseSteps, Others(p),
         holder' = holder, orphan' = orphan, evidence \subseteq evidence',
         MayWork(p)', RowOK(p)'
  PROVE  Excluded' /\ (\A q \in Ops : RowOK(q))'
<1>1. ASSUME NEW q \in Ops, q # p
      PROVE  job'[q] = job[q] /\ job[q].at \notin LeaseSteps
  BY <1>1 DEF DeliveryInv, Excluded, Others
<1>2. Excluded'
  BY <1>1 DEF DeliveryInv, Excluded, MayWork
<1>3. ASSUME NEW q \in Ops, q # p PROVE RowOK(q)'
  <2>1. job'[q] = job[q] /\ job[q].at \notin LeaseSteps
    BY <1>1, <1>3
  <2>2. job[q].at \notin VerifySteps \cup PublishSteps \cup {"write", "verified"}
    BY <2>1 DEF LeaseSteps, VerifySteps, PublishSteps, Steps
  <2>3. VerifyOK(q)'
    BY <2>1, <2>2 DEF VerifyOK, VerifySteps
  <2>4. PublishOK(q)' /\ RecoverOK(q)'
    BY <2>1, <2>2 DEF DeliveryInv, PublishOK, RecoverOK, PublishSteps
  <2>5. Backed(job[q].saw)'
    BY <2>1 DEF DeliveryInv, RecordsOK, ControlOK, Backed
  <2> QED
    BY <2>3, <2>4, <2>5 DEF RowOK
<1> QED
  BY <1>2, <1>3

----------------------------------------------------------------------------
(* The calls, one lemma for each step. *)

LEMMA Records ==
  ASSUME DeliveryInv
  PROVE  /\ JobsOK /\ control \in Controls
         /\ \A p \in Ops : job[p] \in Jobs /\ job[p].saw \in Controls
         /\ \A p \in Ops : job[p].at \in LeaseSteps => holder = p /\ ~orphan /\ job[p].actor \in Actors
  BY DEF DeliveryInv, TypeOK, JobsOK, Excluded, Jobs

LEMMA LoadPlannedOK ==
  ASSUME DeliveryInv, NEW p \in Ops, LoadPlanned(p)
  PROVE  DeliveryInv'
<1>1. PICK step \in {"worktree", "conclude"} : Do(p, step)
  BY DEF LoadPlanned
<1>2. /\ Others(p)
      /\ job'[p].at = step
      /\ job'[p].actor = job[p].actor /\ job'[p].saw = job[p].saw
  BY <1>1, Records, DoStep DEF Others, Steps
<1>3. job[p].at = "execute" /\ UNCHANGED shared
  BY DEF LoadPlanned, At
<1>4. MayWork(p)'
  BY <1>2, <1>3, Records DEF MayWork, LeaseSteps, Steps, LoadPlanned, Begin, shared
<1>5. VerifyOK(p)' /\ PublishOK(p)' /\ RecoverOK(p)'
  BY <1>2 DEF VerifyOK, PublishOK, RecoverOK, VerifySteps, PublishSteps
<1>6. Backed(job[p].saw)'
  BY <1>2, <1>3 DEF DeliveryInv, RecordsOK, ControlOK, Backed, shared
<1>7. holder' = holder /\ broken' = broken /\ working' \subseteq Ops
  BY DEF LoadPlanned, Begin, DeliveryInv, TypeOK, LeaseTypeOK
<1> QED
  BY <1>2, <1>3, <1>4, <1>5, <1>6, <1>7, Quiet DEF RowOK

LEMMA LoadImplementedOK ==
  ASSUME DeliveryInv, NEW p \in Ops, LoadImplemented(p)
  PROVE  DeliveryInv'
<1> DEFINE record == [control EXCEPT !.verdict = "none", !.commit = Base]
<1>1. job[p].at = "verify" /\ UNCHANGED shared
  BY DEF LoadImplemented, At
<1>2. /\ holder' = holder /\ broken' = broken /\ working' \subseteq Ops
      /\ holder = p /\ ~orphan /\ job[p].actor \in Actors
  BY <1>1, Records DEF LoadImplemented, Begin, DeliveryInv, TypeOK, LeaseTypeOK, LeaseSteps, Steps
<1>3. CASE Do(p, "conclude")
  <2>1. /\ Others(p)
        /\ job'[p].at = "conclude"
        /\ job'[p].actor = job[p].actor /\ job'[p].saw = job[p].saw
    BY <1>3, Records, DoStep DEF Others, Steps
  <2>2. MayWork(p)'
    BY <1>1, <1>2, <2>1 DEF MayWork, shared
  <2>3. VerifyOK(p)' /\ PublishOK(p)' /\ RecoverOK(p)'
    BY <2>1 DEF VerifyOK, PublishOK, RecoverOK, VerifySteps, PublishSteps
  <2>4. Backed(job[p].saw)'
    BY <1>1, <2>1 DEF DeliveryInv, RecordsOK, ControlOK, Backed, shared
  <2> QED
    BY <1>1, <1>2, <2>1, <2>2, <2>3, <2>4, Quiet DEF RowOK
<1>4. CASE Verifiable(job[p].actor) /\ Keep(p, "before", record)
  <2>1. /\ record \in Controls
        /\ record.verdict = "none" /\ record.commit = Base
        /\ record.publication = control.publication /\ record.implementer = control.implementer
    BY Records DEF Controls, Heads
  <2> HIDE DEF record
  <2>2. /\ Others(p)
        /\ job'[p].at = "before"
        /\ job'[p].actor = job[p].actor /\ job'[p].saw = record
    BY <1>4, <2>1, Records, KeepStep DEF Others, Steps
  <2>3. MayWork(p)'
    BY <1>1, <1>2, <2>2 DEF MayWork, shared
  <2>4. control.publication = "none" /\ control.implementer \in Actors
    BY <1>4 DEF Verifiable, Current, DeliveryInv, RecordsOK, ControlOK, LateStages
  <2>5. VerifyOK(p)' /\ PublishOK(p)' /\ RecoverOK(p)'
    BY <1>4, <2>1, <2>2, <2>4 DEF VerifyOK, PublishOK, RecoverOK, VerifySteps, PublishSteps, Verifiable
  <2>6. Backed(job[p].saw)'
    BY <2>1, <2>2 DEF Backed
  <2> QED
    BY <1>1, <1>2, <2>2, <2>3, <2>5, <2>6, Quiet DEF RowOK
<1> QED
  BY <1>3, <1>4 DEF LoadImplemented

LEMMA LoadVerifiedOK ==
  ASSUME DeliveryInv, NEW p \in Ops, LoadVerified(p)
  PROVE  DeliveryInv'
<1>1. job[p].at = "publish" /\ UNCHANGED shared
  BY DEF LoadVerified, At
<1>2. /\ holder' = holder /\ broken' = broken /\ working' \subseteq Ops
      /\ holder = p /\ ~orphan /\ job[p].actor \in Actors
  BY <1>1, Records DEF LoadVerified, Begin, DeliveryInv, TypeOK, LeaseTypeOK, LeaseSteps, Steps
<1>3. PICK step \in {"push", "conclude"}, saw \in {control, job[p].saw} :
        /\ Others(p)
        /\ job'[p].at = step /\ job'[p].actor = job[p].actor /\ job'[p].saw = saw
        /\ step = "push" => Publishable /\ saw = control
  <2>1. CASE Publishable
    BY <2>1, Records, KeepStep DEF LoadVerified, Others, Steps
  <2>2. CASE ~Publishable
    BY <2>2, Records, DoStep DEF LoadVerified, Others, Steps
  <2> QED
    BY <2>1, <2>2
<1>4. MayWork(p)'
  BY <1>1, <1>2, <1>3 DEF MayWork, shared
<1>5. VerifyOK(p)' /\ RecoverOK(p)'
  BY <1>3 DEF VerifyOK, RecoverOK, VerifySteps
<1>6. PublishOK(p)'
  BY <1>1, <1>3, LateStagesAre DEF PublishOK, PublishSteps, Publishable, Current, shared
<1>7. Backed(job[p].saw)'
  BY <1>1, <1>3 DEF DeliveryInv, RecordsOK, ControlOK, Backed, shared
<1> QED
  BY <1>1, <1>2, <1>3, <1>4, <1>5, <1>6, <1>7, Quiet DEF RowOK

LEMMA SnapshotBeforeOK ==
  ASSUME DeliveryInv, NEW p \in Ops, SnapshotBefore(p)
  PROVE  DeliveryInv'
<1>1. job[p].at = "before" /\ UNCHANGED <<shared, leaseVars>>
  BY DEF SnapshotBefore, At
<1>2. Others(p) /\ job'[p].actor = job[p].actor /\ job'[p].saw = job[p].saw
  BY Records, DoStep, DoWithStep DEF SnapshotBefore, Others, Steps, Results, Verdicts
<1>3. job'[p].at = "checks" \/ (job'[p].at = "judge" /\ job'[p].result = "rejected")
  BY Records, DoStep, DoWithStep DEF SnapshotBefore, Steps, Results, Verdicts
<1>4. VerifyOK(p)
  BY DEF DeliveryInv
<1>5. VerifyOK(p)'
  BY <1>1, <1>2, <1>3, <1>4 DEF VerifyOK, VerifySteps, Verdicts
<1>6. PublishOK(p)' /\ RecoverOK(p)'
  BY <1>3 DEF PublishOK, RecoverOK, PublishSteps
<1>7. MayWork(p)'
  BY <1>1, <1>2, Records DEF MayWork, LeaseSteps, Steps, shared, leaseVars
<1>8. Backed(job[p].saw)'
  BY <1>1, <1>2 DEF DeliveryInv, RecordsOK, ControlOK, Backed, shared
<1> QED
  BY <1>1, <1>2, <1>5, <1>6, <1>7, <1>8, Quiet DEF RowOK, leaseVars, DeliveryInv, TypeOK, LeaseTypeOK

LEMMA SnapshotAfterOK ==
  ASSUME DeliveryInv, NEW p \in Ops, SnapshotAfter(p)
  PROVE  DeliveryInv'
<1>1. job[p].at = "after" /\ UNCHANGED <<shared, leaseVars>>
  BY DEF SnapshotAfter, At
<1>2. PICK verdict \in {Verdict(job[p].result, tree, job[p].saw), "rejected"} :
        DoWith(p, IF verdict = "accepted" THEN "commit" ELSE "judge", verdict)
  BY DEF SnapshotAfter
<1>3. verdict \in Verdicts /\ (verdict = "accepted" => Intact(tree, job[p].saw))
  BY <1>2 DEF Verdict, Verdicts
<1>4. /\ Others(p) /\ job'[p].actor = job[p].actor /\ job'[p].saw = job[p].saw
      /\ job'[p].at = IF verdict = "accepted" THEN "commit" ELSE "judge"
      /\ job'[p].result = verdict
  BY <1>2, <1>3, Records, DoWithStep DEF Others, Steps, Results
<1>5. VerifyOK(p)
  BY DEF DeliveryInv
<1>6. VerifyOK(p)'
  BY <1>1, <1>3, <1>4, <1>5 DEF VerifyOK, VerifySteps, Verdicts, Intact, shared
<1>7. PublishOK(p)' /\ RecoverOK(p)'
  BY <1>4 DEF PublishOK, RecoverOK, PublishSteps
<1>8. MayWork(p)'
  BY <1>1, <1>4, Records DEF MayWork, LeaseSteps, Steps, shared, leaseVars
<1>9. Backed(job[p].saw)'
  BY <1>1, <1>4 DEF DeliveryInv, RecordsOK, ControlOK, Backed, shared
<1> QED
  BY <1>1, <1>4, <1>6, <1>7, <1>8, <1>9, Quiet DEF RowOK, leaseVars, DeliveryInv, TypeOK, LeaseTypeOK

LEMMA CheckCleanOK ==
  ASSUME DeliveryInv, NEW p \in Ops, CheckClean(p)
  PROVE  DeliveryInv'
<1> DEFINE undone == [job[p].saw EXCEPT !.commit = Base]
<1>1. job[p].at = "clean" /\ UNCHANGED <<shared, leaseVars>>
  BY DEF CheckClean, At
<1>2. VerifyOK(p)
  BY DEF DeliveryInv
<1>3. /\ undone \in Controls /\ undone.verdict = job[p].saw.verdict
      /\ undone.publication = job[p].saw.publication /\ undone.implementer = job[p].saw.implementer
  BY Records DEF Controls, Heads
<1>4. \/ /\ Do(p, "judge")
      \/ KeepWith(p, "judge", "rejected", undone)
  BY DEF CheckClean
<1> HIDE DEF undone
<1>5. /\ Others(p) /\ job'[p].at = "judge" /\ job'[p].actor = job[p].actor
      /\ \/ job'[p].saw = job[p].saw /\ job'[p].result = job[p].result
         \/ job'[p].saw = undone /\ job'[p].result = "rejected"
  <2>1. CASE Do(p, "judge")
    BY <2>1, Records, DoStep DEF Others, Steps
  <2>2. CASE KeepWith(p, "judge", "rejected", undone)
    <3>1. JobsOK /\ "judge" \in Steps /\ "rejected" \in Results /\ undone \in Controls
      BY <1>3, Records DEF Steps, Results, Verdicts
    <3> QED
      BY <2>2, <3>1, KeepWithStep DEF Others
  <2> QED
    BY <1>4, <2>1, <2>2
<1>6. VerifyOK(p)'
  BY <1>1, <1>2, <1>3, <1>5 DEF VerifyOK, VerifySteps, Verdicts, Committed, Drifted, Happened, shared
<1>7. PublishOK(p)' /\ RecoverOK(p)'
  BY <1>5 DEF PublishOK, RecoverOK, PublishSteps
<1>8. MayWork(p)'
  BY <1>1, <1>5, Records DEF MayWork, LeaseSteps, Steps, shared, leaseVars
<1>9. Backed(job[p].saw)'
  BY <1>1, <1>2, <1>3, <1>5 DEF VerifyOK, VerifySteps, Backed
<1> QED
  BY <1>1, <1>5, <1>6, <1>7, <1>8, <1>9, Quiet DEF RowOK, leaseVars, DeliveryInv, TypeOK, LeaseTypeOK

LEMMA ConfirmRemoteOK ==
  ASSUME DeliveryInv, NEW p \in Ops, ConfirmRemote(p)
  PROVE  DeliveryInv'
<1>1. job[p].at = "confirm" /\ UNCHANGED <<shared, leaseVars>>
  BY DEF ConfirmRemote, At
<1>2. PublishOK(p)
  BY DEF DeliveryInv
<1>3. /\ Others(p) /\ job'[p].actor = job[p].actor /\ job'[p].saw = job[p].saw
      /\ \/ job'[p].at = "published" /\ job'[p].result \in {"rejected", "inconclusive"}
         \/ job'[p].at = "list" /\ remote = job[p].saw.commit
  BY Records, DoStep, DoWithStep DEF ConfirmRemote, Answer, Matches, Others, Steps, Results, Publications, Verdicts
<1>4. PublishOK(p)'
  BY <1>1, <1>2, <1>3 DEF PublishOK, PublishSteps, Publications, OnBranch, Pushed, Happened, shared
<1>5. VerifyOK(p)' /\ RecoverOK(p)'
  BY <1>3 DEF VerifyOK, RecoverOK, VerifySteps
<1>6. MayWork(p)'
  BY <1>1, <1>3, Records DEF MayWork, LeaseSteps, Steps, shared, leaseVars
<1>7. Backed(job[p].saw)'
  BY <1>1, <1>3 DEF DeliveryInv, RecordsOK, ControlOK, Backed, shared
<1> QED
  BY <1>1, <1>3, <1>4, <1>5, <1>6, <1>7, Quiet DEF RowOK, leaseVars, DeliveryInv, TypeOK, LeaseTypeOK

LEMMA ListPullRequestsOK ==
  ASSUME DeliveryInv, NEW p \in Ops, ListPullRequests(p)
  PROVE  DeliveryInv'
<1>1. job[p].at = "list" /\ UNCHANGED <<shared, leaseVars>>
  BY DEF ListPullRequests, At
<1>2. PublishOK(p)
  BY DEF DeliveryInv
<1>3. /\ Others(p) /\ job'[p].actor = job[p].actor /\ job'[p].saw = job[p].saw
      /\ \/ job'[p].at = "published" /\ job'[p].result \in {"rejected", "inconclusive"}
         \/ job'[p].at = "create"
         \/ job'[p].at = "published" /\ job'[p].result = "published" /\ pr = "draft"
  BY Records, DoStep, DoWithStep DEF ListPullRequests, Answer, Matches, Others, Steps, Results, Publications, Verdicts
<1>4. PublishOK(p)'
  BY <1>1, <1>2, <1>3 DEF PublishOK, PublishSteps, Publications, OnBranch, Pushed, Happened, shared
<1>5. VerifyOK(p)' /\ RecoverOK(p)'
  BY <1>3 DEF VerifyOK, RecoverOK, VerifySteps
<1>6. MayWork(p)'
  BY <1>1, <1>3, Records DEF MayWork, LeaseSteps, Steps, shared, leaseVars
<1>7. Backed(job[p].saw)'
  BY <1>1, <1>3 DEF DeliveryInv, RecordsOK, ControlOK, Backed, shared
<1> QED
  BY <1>1, <1>3, <1>4, <1>5, <1>6, <1>7, Quiet DEF RowOK, leaseVars, DeliveryInv, TypeOK, LeaseTypeOK

LEMMA ViewPullRequestOK ==
  ASSUME DeliveryInv, NEW p \in Ops, ViewPullRequest(p)
  PROVE  DeliveryInv'
<1>1. job[p].at = "view" /\ UNCHANGED <<shared, leaseVars>>
  BY DEF ViewPullRequest, At
<1>2. PublishOK(p)
  BY DEF DeliveryInv
<1>3. /\ Others(p) /\ job'[p].actor = job[p].actor /\ job'[p].saw = job[p].saw
      /\ \/ job'[p].at = "published" /\ job'[p].result \in {"rejected", "inconclusive"}
         \/ job'[p].at = "published" /\ job'[p].result = "published" /\ pr = "draft"
  BY Records, DoStep, DoWithStep DEF ViewPullRequest, Answer, Matches, Others, Steps, Results, Publications, Verdicts
<1>4. PublishOK(p)'
  BY <1>1, <1>2, <1>3 DEF PublishOK, PublishSteps, Publications, OnBranch, Pushed, Happened, shared
<1>5. VerifyOK(p)' /\ RecoverOK(p)'
  BY <1>3 DEF VerifyOK, RecoverOK, VerifySteps
<1>6. MayWork(p)'
  BY <1>1, <1>3, Records DEF MayWork, LeaseSteps, Steps, shared, leaseVars
<1>7. Backed(job[p].saw)'
  BY <1>1, <1>3 DEF DeliveryInv, RecordsOK, ControlOK, Backed, shared
<1> QED
  BY <1>1, <1>3, <1>4, <1>5, <1>6, <1>7, Quiet DEF RowOK, leaseVars, DeliveryInv, TypeOK, LeaseTypeOK

LEMMA LoadForRecoveryOK ==
  ASSUME DeliveryInv, NEW p \in Ops, LoadForRecovery(p)
  PROVE  DeliveryInv'
<1>1. UNCHANGED <<shared, leaseVars>> /\ cycle.stage \in RecoverableStages
  BY DEF LoadForRecovery
<1>2. cycle.stage \in Stages
  BY DEF DeliveryInv, TypeOK, Cycles
<1>3. Others(p) /\ job'[p].at = "plan" /\ job'[p].saw = control /\ job'[p].stage = cycle.stage
  BY <1>2, Records, LoadForRecoveryStep DEF Others
<1>4. VerifyOK(p)' /\ PublishOK(p)' /\ RecoverOK(p)'
  BY <1>1, <1>3 DEF VerifyOK, PublishOK, RecoverOK, VerifySteps, PublishSteps
<1>5. MayWork(p)'
  BY <1>3 DEF MayWork, LeaseSteps
<1>6. Backed(job[p].saw)'
  BY <1>1, <1>3 DEF DeliveryInv, RecordsOK, ControlOK, Backed, shared
<1> QED
  BY <1>1, <1>3, <1>4, <1>5, <1>6, Quiet DEF RowOK, leaseVars, DeliveryInv, TypeOK, LeaseTypeOK

\* A plan proves a verified cycle only from an accepted verdict.
LEMMA PlanIsProved ==
  ASSUME NEW stage \in RecoverableStages, NEW record, NEW t, Plan(stage, record, t) # "none"
  PROVE  /\ Plan(stage, record, t) \in {"implemented", "verified", "rejected", "inconclusive"}
         /\ Plan(stage, record, t) = "verified" => record.verdict = "accepted"
  BY DEF Plan, PlanOfExecuting, PlanOfImplemented

LEMMA PlanRecoveryOK ==
  ASSUME DeliveryInv, NEW p \in Ops, PlanRecovery(p)
  PROVE  DeliveryInv'
<1> DEFINE to == Plan(job[p].stage, job[p].saw, tree)
<1>1. job[p].at = "plan" /\ UNCHANGED <<shared, leaseVars>>
  BY DEF PlanRecovery, At
<1>2. job[p].stage \in RecoverableStages
  BY <1>1 DEF DeliveryInv, RecoverOK
<1>3. job' = IF to = "none" THEN [job EXCEPT ![p] = Idle]
             ELSE [job EXCEPT ![p].at = "apply", ![p].to = to]
  BY DEF PlanRecovery
<1>4. to # "none" => /\ to \in {"implemented", "verified", "rejected", "inconclusive"}
                     /\ to = "verified" => job[p].saw.verdict = "accepted"
  BY <1>2, PlanIsProved
<1> HIDE DEF to
<1>5. CASE to = "none"
  <2>1. Others(p) /\ job'[p] = Idle
    BY <1>3, <1>5, Records, IdleStep DEF Others
  <2>2. RowOK(p)' /\ MayWork(p)'
    BY <2>1, IdleType DEF RowOK, MayWork, VerifyOK, PublishOK, RecoverOK, VerifySteps, PublishSteps,
       LeaseSteps, Backed, NoControl
  <2> QED
    BY <1>1, <2>1, <2>2, Quiet DEF leaseVars, DeliveryInv, TypeOK, LeaseTypeOK
<1>6. CASE to # "none"
  <2>1. to \in Stages
    BY <1>4, <1>6, StagesAre
  <2>2. /\ Others(p) /\ job'[p].at = "apply" /\ job'[p].to = to
        /\ job'[p].saw = job[p].saw /\ job'[p].stage = job[p].stage
    BY <1>3, <1>6, <2>1, Records, PlanStep DEF Others
  <2>3. VerifyOK(p)' /\ PublishOK(p)' /\ RecoverOK(p)'
    BY <1>2, <1>4, <1>6, <2>2 DEF VerifyOK, PublishOK, RecoverOK, VerifySteps, PublishSteps
  <2>4. MayWork(p)'
    BY <2>2 DEF MayWork, LeaseSteps
  <2>5. Backed(job[p].saw)'
    BY <1>1, <2>2 DEF DeliveryInv, RecordsOK, ControlOK, Backed, shared
  <2> QED
    BY <1>1, <2>2, <2>3, <2>4, <2>5, Quiet DEF RowOK, leaseVars, DeliveryInv, TypeOK, LeaseTypeOK
<1> QED
  BY <1>5, <1>6

LEMMA ConcludeOK ==
  ASSUME DeliveryInv, NEW p \in Ops, Conclude(p)
  PROVE  DeliveryInv'
<1>1. Others(p) /\ job'[p] = Idle
  BY Records, IdleStep DEF Conclude, Others
<1>2. RowOK(p)' /\ MayWork(p)'
  BY <1>1, IdleType DEF RowOK, MayWork, VerifyOK, PublishOK, RecoverOK, VerifySteps, PublishSteps,
     LeaseSteps, Backed, NoControl
<1>3. holder' = holder /\ broken' = broken /\ working' \subseteq Ops /\ UNCHANGED shared
  BY DEF Conclude, Finish, DeliveryInv, TypeOK, LeaseTypeOK
<1> QED
  BY <1>1, <1>2, <1>3, Quiet

\* A step that leaves the records, the branch and the rows alone, such as a
\* lease that changes hands.
LEMMA Elsewhere ==
  ASSUME DeliveryInv, UNCHANGED <<cycle, linked, control, tree, remote, pr, evidence>>,
         Happened \subseteq Happened', TypeOK', Excluded',
         \A q \in Ops : job'[q] = job[q] \/ RowOK(q)'
  PROVE  DeliveryInv'
<1>1. ASSUME NEW q \in Ops PROVE RowOK(q)'
  <2>1. CASE job'[q] = job[q]
    <3>1. VerifyOK(q)'
      BY <2>1 DEF DeliveryInv, VerifyOK, Committed, Drifted
    <3>2. PublishOK(q)' /\ RecoverOK(q)'
      BY <2>1 DEF DeliveryInv, PublishOK, RecoverOK, OnBranch, Pushed
    <3>3. Backed(job[q].saw)'
      BY <2>1 DEF DeliveryInv, RecordsOK, ControlOK, Backed
    <3> QED
      BY <3>1, <3>2, <3>3 DEF RowOK
  <2> QED
    BY <2>1
<1>2. RecordsOK'
  BY <1>1 DEF DeliveryInv, RecordsOK, ControlOK, RowOK, Backed, OnBranch, Pushed
<1>3. EvidenceOK' /\ VerifiedHasEvidence'
  BY DEF DeliveryInv, EvidenceOK, VerifiedHasEvidence, Committed, Drifted
<1> QED
  BY <1>1, <1>2, <1>3 DEF DeliveryInv, RowOK

LEMMA StartOK ==
  ASSUME DeliveryInv, NEW p \in Ops, NEW kind \in {"execute", "verify", "publish"},
         NEW actor \in Actors, Start(p, kind, actor)
  PROVE  DeliveryInv'
<1>1. holder = NoOp /\ holder' = p /\ UNCHANGED <<working, broken, shared>>
  BY DEF Start, Take
<1>2. /\ Others(p) /\ job'[p].at = kind /\ job'[p].actor = actor /\ job'[p].saw = NoControl
  BY Records, StartStep DEF Others, Steps
<1>3. ASSUME NEW q \in Ops PROVE job[q].at \notin LeaseSteps /\ ~orphan
  BY <1>1, NoOpAssumption DEF DeliveryInv, Excluded
<1>4. Excluded'
  BY <1>1, <1>2, <1>3, NoOpAssumption DEF Excluded, Others, shared
<1>5. TypeOK'
  BY <1>1, <1>2 DEF DeliveryInv, TypeOK, LeaseTypeOK, Others, shared
<1>6. RowOK(p)'
  BY <1>2 DEF RowOK, VerifyOK, PublishOK, RecoverOK, VerifySteps, PublishSteps, Backed, NoControl
<1> QED
  BY <1>1, <1>2, <1>4, <1>5, <1>6, Elsewhere DEF Others, shared, Happened

LEMMA ReleaseOK ==
  ASSUME DeliveryInv, Release
  PROVE  DeliveryInv'
<1>1. ~orphan /\ holder' = NoOp /\ UNCHANGED <<working, broken, shared, job>>
  BY DEF Release, Free
<1>2. ASSUME NEW p \in Ops PROVE job[p].at \notin LeaseSteps
  BY DEF Release, At, DeliveryInv, Excluded, LeaseSteps
<1>3. Excluded'
  BY <1>1, <1>2 DEF Excluded, shared
<1>4. TypeOK'
  BY <1>1 DEF DeliveryInv, TypeOK, LeaseTypeOK, shared
<1> QED
  BY <1>1, <1>3, <1>4, Elsewhere DEF shared, Happened

LEMMA OnceAdds ==
  ASSUME DeliveryInv, NEW event, Once(event)
  PROVE  events' \subseteq Events /\ Happened \subseteq Happened' /\ event \in Happened'
  BY DEF DeliveryInv, TypeOK, Once, Happened

LEMMA KillOK ==
  ASSUME DeliveryInv, NEW p \in Ops, Kill(p)
  PROVE  DeliveryInv'
<1>1. /\ events' \subseteq Events /\ Happened \subseteq Happened'
      /\ orphan' = (orphan \/ job[p].at \in {"run", "checks"}) /\ working' \subseteq Ops
      /\ UNCHANGED <<holder, broken, store, control, tree, github, evidence>>
  BY OnceAdds DEF Kill, DeliveryInv, TypeOK, LeaseTypeOK
<1>2. Others(p) /\ job'[p] = Idle
  BY Records, IdleStep DEF Kill, Others
<1>3. RowOK(p)'
  BY <1>2, IdleType DEF RowOK, VerifyOK, PublishOK, RecoverOK, VerifySteps, PublishSteps,
     Backed, NoControl
<1>4. TypeOK'
  BY <1>1, <1>2 DEF DeliveryInv, TypeOK, LeaseTypeOK, Others, store, github
<1>5. Excluded'
  <2>1. job'[p].at \notin LeaseSteps
    BY <1>2, IdleType DEF LeaseSteps
  <2>2. CASE job[p].at \in {"run", "checks"}
    <3>1. holder = p /\ \A q \in Ops : q # p => job[q].at \notin LeaseSteps
      BY <2>2 DEF DeliveryInv, Excluded, LeaseSteps, Steps
    <3> QED
      BY <1>1, <1>2, <2>1, <3>1, NoOpAssumption DEF Excluded, Others
  <2>3. CASE job[p].at \notin {"run", "checks"}
    <3>1. orphan' = orphan /\ holder' = holder
      BY <1>1, <2>3 DEF DeliveryInv, TypeOK
    <3> QED
      BY <1>2, <2>1, <3>1 DEF DeliveryInv, Excluded, Others
  <2> QED
    BY <2>2, <2>3
<1> QED
  BY <1>1, <1>2, <1>3, <1>4, <1>5, Elsewhere DEF Others, store, github

\* What is left to show of a step of the call that holds the lease.
LEMMA ByHolder ==
  ASSUME DeliveryInv, NEW p \in Ops, job[p].at \in LeaseSteps, Others(p),
         UNCHANGED <<leaseVars, orphan, events>>, evidence \subseteq evidence',
         job'[p].at \in LeaseSteps, job'[p].actor = job[p].actor,
         RowOK(p)', TypeOK', ControlOK', EvidenceOK', VerifiedHasEvidence'
  PROVE  DeliveryInv'
<1>1. holder' = holder /\ orphan' = orphan
  BY DEF leaseVars
<1>2. MayWork(p)'
  BY <1>1, Records DEF MayWork
<1> QED
  BY <1>1, <1>2, Alone DEF DeliveryInv, RowOK, RecordsOK

\* What such a step keeps when it changes the worktree alone.
LEMMA TreeOnly ==
  ASSUME DeliveryInv, NEW p \in Ops, job[p].at \in LeaseSteps, Others(p),
         UNCHANGED <<leaseVars, store, control, github, evidence, orphan, events>>,
         tree' \in [head : Heads, work : Works],
         job'[p].at \in LeaseSteps, job'[p].actor = job[p].actor, RowOK(p)'
  PROVE  DeliveryInv'
<1>1. TypeOK'
  BY DEF DeliveryInv, TypeOK, LeaseTypeOK, leaseVars, store, github, Others
<1>2. ControlOK'
  BY DEF DeliveryInv, RecordsOK, ControlOK, Backed, OnBranch, Pushed, Happened, store, github
<1>3. EvidenceOK' /\ VerifiedHasEvidence'
  BY DEF DeliveryInv, EvidenceOK, VerifiedHasEvidence, Committed, Drifted, Happened, store
<1> QED
  BY <1>1, <1>2, <1>3, ByHolder

LEMMA RunCommandOK ==
  ASSUME DeliveryInv, NEW p \in Ops, RunCommand(p)
  PROVE  DeliveryInv'
<1>1. PICK result \in CommandResults, work \in Works, head \in {Base} \cup OutOfScope :
        tree' = [head |-> head, work |-> work] /\ DoWith(p, "record", result)
  BY DEF RunCommand
<1>2. tree' \in [head : Heads, work : Works]
  BY <1>1, ContentAssumption DEF Heads
<1>3. /\ Others(p) /\ job'[p].at = "record" /\ job'[p].actor = job[p].actor
      /\ job'[p].saw = job[p].saw
  BY <1>1, Records, DoWithStep DEF Others, Steps, Results
<1>4. VerifyOK(p)' /\ PublishOK(p)' /\ RecoverOK(p)'
  BY <1>3 DEF VerifyOK, PublishOK, RecoverOK, VerifySteps, PublishSteps
<1>5. Backed(job[p].saw)'
  BY <1>3 DEF RunCommand, DeliveryInv, RecordsOK, Backed
<1> QED
  BY <1>2, <1>3, <1>4, <1>5, TreeOnly DEF RunCommand, At, RowOK, LeaseSteps, Steps

LEMMA RunChecksOK ==
  ASSUME DeliveryInv, NEW p \in Ops, RunChecks(p)
  PROVE  DeliveryInv'
<1>1. PICK result \in {"passed", "failed", "unavailable"}, work \in Works :
        tree' = [tree EXCEPT !.work = work] /\ DoWith(p, "after", result)
  BY DEF RunChecks
<1>2. tree' \in [head : Heads, work : Works]
  BY <1>1 DEF DeliveryInv, TypeOK
<1>3. /\ Others(p) /\ job'[p].at = "after" /\ job'[p].actor = job[p].actor
      /\ job'[p].saw = job[p].saw
  BY <1>1, Records, DoWithStep DEF Others, Steps, Results, CommandResults
<1>4. VerifyOK(p)'
  BY <1>3 DEF RunChecks, At, DeliveryInv, VerifyOK, VerifySteps
<1>5. PublishOK(p)' /\ RecoverOK(p)'
  BY <1>3 DEF PublishOK, RecoverOK, PublishSteps
<1>6. Backed(job[p].saw)'
  BY <1>3 DEF RunChecks, DeliveryInv, RecordsOK, Backed
<1> QED
  BY <1>2, <1>3, <1>4, <1>5, <1>6, TreeOnly DEF RunChecks, At, RowOK, LeaseSteps, Steps

LEMMA CommitTreeOK ==
  ASSUME DeliveryInv, NEW p \in Ops, CommitTree(p)
  PROVE  DeliveryInv'
<1> DEFINE record == [job[p].saw EXCEPT !.commit = tree.work]
<1>1. /\ job[p].at = "commit"
      /\ UNCHANGED <<leaseVars, store, control, github, evidence, orphan, events>>
  BY DEF CommitTree, At
<1>2. VerifyOK(p)
  BY DEF DeliveryInv
<1>3. tree \in [head : Heads, work : Works]
  BY DEF DeliveryInv, TypeOK
<1>4. CASE Do(p, "conclude") /\ tree' = tree
  <2>1. /\ Others(p) /\ job'[p].at = "conclude" /\ job'[p].actor = job[p].actor
        /\ job'[p].saw = job[p].saw
    BY <1>4, Records, DoStep DEF Others, Steps
  <2>2. VerifyOK(p)' /\ PublishOK(p)' /\ RecoverOK(p)'
    BY <2>1 DEF VerifyOK, PublishOK, RecoverOK, VerifySteps, PublishSteps
  <2>3. Backed(job[p].saw)'
    BY <1>1, <2>1 DEF DeliveryInv, RecordsOK, Backed
  <2> QED
    BY <1>1, <1>3, <1>4, <2>1, <2>2, <2>3, TreeOnly DEF RowOK, LeaseSteps, Steps
<1>5. CASE /\ tree.work # Clean
           /\ tree' = [head |-> tree.work, work |-> Clean]
           /\ Keep(p, "clean", record)
  <2>1. tree.work \in Contents
    BY <1>3, <1>5 DEF Works
  <2>2. /\ record \in Controls /\ record.commit = tree.work
        /\ record.patch = job[p].saw.patch /\ record.verdict = job[p].saw.verdict
        /\ record.publication = job[p].saw.publication
        /\ record.implementer = job[p].saw.implementer
    BY <2>1, Records DEF Controls, Heads
  <2> HIDE DEF record
  <2>3. /\ Others(p) /\ job'[p].at = "clean" /\ job'[p].actor = job[p].actor
        /\ job'[p].saw = record /\ job'[p].result = job[p].result
    BY <1>5, <2>2, Records, KeepStep DEF Others, Steps
  <2>4. record.commit \in Contents /\ (record.commit = record.patch \/ Drifted')
    BY <1>1, <1>2, <2>1, <2>2 DEF VerifyOK, Committed, Drifted, Happened
  <2>5. VerifyOK(p)'
    BY <1>1, <1>2, <2>2, <2>3, <2>4 DEF VerifyOK, VerifySteps, Committed
  <2>6. PublishOK(p)' /\ RecoverOK(p)'
    BY <2>3 DEF PublishOK, RecoverOK, PublishSteps
  <2>7. Backed(job[p].saw)'
    BY <1>1, <1>2, <2>2, <2>3 DEF VerifyOK, VerifySteps, Backed
  <2>8. tree' \in [head : Heads, work : Works]
    BY <1>5, <2>1 DEF Heads, Works
  <2> QED
    BY <1>1, <2>3, <2>5, <2>6, <2>7, <2>8, TreeOnly DEF RowOK, LeaseSteps, Steps
<1> QED
  BY <1>4, <1>5 DEF CommitTree

\* What a step keeps that moves the cycle on.
LEMMA CycleMoves ==
  ASSUME DeliveryInv, NEW to \in Stages, NEW added \in SUBSET Buckets, cycle' = Moved(cycle, to, added)
  PROVE  cycle' \in Cycles /\ cycle'.stage = to
  BY DEF DeliveryInv, TypeOK, Moved, Cycles

LEMMA EarlyIsUnpublished ==
  ASSUME DeliveryInv, cycle.stage \in {"planned", "executing", "implemented"}
  PROVE  /\ control.publication = "none"
         /\ \A p \in Ops : job[p].at \notin PublishSteps
  BY LateStagesAre DEF DeliveryInv, RecordsOK, ControlOK, PublishOK

LEMMA MarkExecutingOK ==
  ASSUME DeliveryInv, NEW p \in Ops, MarkExecuting(p)
  PROVE  DeliveryInv'
<1>1. /\ job[p].at = "worktree"
      /\ UNCHANGED <<leaseVars, linked, control, github, evidence, orphan, events>>
  BY DEF MarkExecuting, At
<1>2. /\ Others(p) /\ job'[p].at \in {"run", "conclude"} /\ job'[p].actor = job[p].actor
      /\ job'[p].saw = job[p].saw
  BY Records, DoStep DEF MarkExecuting, Others, Steps
<1>3. VerifyOK(p)' /\ PublishOK(p)' /\ RecoverOK(p)'
  BY <1>2 DEF VerifyOK, PublishOK, RecoverOK, VerifySteps, PublishSteps
<1>4. Backed(job[p].saw)'
  BY <1>1, <1>2 DEF DeliveryInv, RecordsOK, Backed
<1>5. CASE cycle' = cycle /\ tree' = tree
  BY <1>1, <1>2, <1>3, <1>4, <1>5, TreeOnly DEF RowOK, LeaseSteps, Steps, store,
     DeliveryInv, TypeOK
<1>6. CASE Save("planned", "executing", {}) /\ tree' = [head |-> Base, work |-> Clean]
  <2>1. cycle.stage = "planned" /\ cycle' \in Cycles /\ cycle'.stage = "executing"
    BY <1>6, CycleMoves, StagesAre DEF Save, Current
  <2>2. TypeOK'
    BY <1>1, <1>2, <1>6, <2>1 DEF DeliveryInv, TypeOK, LeaseTypeOK, leaseVars, github, Others, Heads, Works
  <2>3. ControlOK'
    BY <1>1, <2>1, EarlyIsUnpublished DEF DeliveryInv, RecordsOK, ControlOK, Backed
  <2>4. EvidenceOK' /\ VerifiedHasEvidence'
    BY <1>1, <2>1 DEF DeliveryInv, EvidenceOK, VerifiedHasEvidence, Committed, Drifted, Happened
  <2> QED
    BY <1>1, <1>2, <1>3, <1>4, <2>2, <2>3, <2>4, ByHolder DEF RowOK, LeaseSteps, Steps
<1> QED
  BY <1>5, <1>6 DEF MarkExecuting

LEMMA MarkExecutedOK ==
  ASSUME DeliveryInv, NEW p \in Ops, MarkExecuted(p)
  PROVE  DeliveryInv'
<1>1. /\ job[p].at = "executed"
      /\ UNCHANGED <<leaseVars, control, tree, github, evidence, orphan, events>>
  BY DEF MarkExecuted, At
<1>2. /\ Others(p) /\ job'[p].at = "conclude" /\ job'[p].actor = job[p].actor
      /\ job'[p].saw = job[p].saw
  BY Records, DoStep DEF MarkExecuted, Others, Steps
<1>3. VerifyOK(p)' /\ PublishOK(p)' /\ RecoverOK(p)'
  BY <1>2 DEF VerifyOK, PublishOK, RecoverOK, VerifySteps, PublishSteps
<1>4. Backed(job[p].saw)'
  BY <1>1, <1>2 DEF DeliveryInv, RecordsOK, Backed
<1>5. CASE UNCHANGED store
  BY <1>1, <1>2, <1>3, <1>4, <1>5, TreeOnly DEF RowOK, LeaseSteps, Steps, store,
     DeliveryInv, TypeOK
<1>6. CASE Save("executing", StageOfExecution(job[p].saw.status), {"changes"}) /\ linked' = TRUE
  <2>1. StageOfExecution(job[p].saw.status) \in {"implemented", "rejected", "inconclusive"}
    BY DEF StageOfExecution
  <2>2. /\ cycle.stage = "executing" /\ cycle' \in Cycles
        /\ cycle'.stage \in {"implemented", "rejected", "inconclusive"}
    BY <1>6, <2>1, CycleMoves, StagesAre DEF Save, Current, Buckets
  <2>3. TypeOK'
    BY <1>1, <1>2, <1>6, <2>2 DEF DeliveryInv, TypeOK, LeaseTypeOK, leaseVars, github, Others
  <2>4. ControlOK'
    BY <1>1, <2>2, EarlyIsUnpublished DEF DeliveryInv, RecordsOK, ControlOK, Backed
  <2>5. EvidenceOK' /\ VerifiedHasEvidence'
    BY <1>1, <2>2 DEF DeliveryInv, EvidenceOK, VerifiedHasEvidence, Committed, Drifted, Happened
  <2> QED
    BY <1>1, <1>2, <1>3, <1>4, <2>3, <2>4, <2>5, ByHolder DEF RowOK, LeaseSteps, Steps
<1> QED
  BY <1>5, <1>6 DEF MarkExecuted

LEMMA RecordExecutionOK ==
  ASSUME DeliveryInv, NEW p \in Ops, RecordExecution(p)
  PROVE  DeliveryInv'
<1> DEFINE status == ExecutionStatus(job[p].result, tree)
<1>1. /\ job[p].at = "record"
      /\ UNCHANGED <<leaseVars, store, tree, github, evidence, orphan, events>>
      /\ control' = [NoControl EXCEPT !.patch = tree.work, !.status = status,
                                       !.implementer = job[p].actor]
      /\ Keep(p, "executed", control')
  BY DEF RecordExecution, At
<1>2. tree.work \in Works /\ status \in ExecutionStatuses /\ job[p].actor \in Actors
  BY <1>1, Records DEF DeliveryInv, TypeOK, ExecutionStatus, ExecutionStatuses, LeaseSteps, Steps
<1> HIDE DEF status
<1>3. /\ control' \in Controls /\ control'.verdict = "none" /\ control'.publication = "none"
      /\ control'.implementer \in Actors
  BY <1>1, <1>2 DEF NoControl, Controls, Works, Someone, Heads
<1>4. /\ Others(p) /\ job'[p].at = "executed" /\ job'[p].actor = job[p].actor
      /\ job'[p].saw = control'
  BY <1>1, <1>3, Records, KeepStep DEF Others, Steps
<1>5. RowOK(p)'
  BY <1>3, <1>4 DEF RowOK, Backed, VerifyOK, PublishOK, RecoverOK, VerifySteps, PublishSteps
<1>6. TypeOK'
  BY <1>1, <1>3, <1>4 DEF DeliveryInv, TypeOK, LeaseTypeOK, leaseVars, store, github, Others
<1>7. ControlOK'
  BY <1>3 DEF ControlOK, Backed
<1>8. EvidenceOK' /\ VerifiedHasEvidence'
  BY <1>1 DEF DeliveryInv, EvidenceOK, VerifiedHasEvidence, Committed, Drifted, Happened, store
<1> QED
  BY <1>1, <1>4, <1>5, <1>6, <1>7, <1>8, ByHolder DEF LeaseSteps, Steps

LEMMA RegisterVerificationOK ==
  ASSUME DeliveryInv, NEW p \in Ops, RegisterVerification(p)
  PROVE  DeliveryInv'
<1> DEFINE record == [job[p].saw EXCEPT !.verdict = job[p].result, !.verifier = job[p].actor]
           entry == [patch |-> record.patch, commit |-> record.commit,
                     implementer |-> record.implementer, verifier |-> record.verifier]
<1>1. /\ job[p].at = "judge"
      /\ UNCHANGED <<leaseVars, store, control, tree, github, orphan, events>>
      /\ evidence' = IF record.verdict = "accepted" THEN evidence \cup {entry} ELSE evidence
      /\ Keep(p, "write", record)
  BY DEF RegisterVerification, At
<1>2. /\ job[p].result \in Verdicts /\ job[p].actor \in Actors
      /\ job[p].actor # job[p].saw.implementer /\ job[p].saw.implementer \in Actors
      /\ job[p].saw.publication = "none"
      /\ job[p].result = "accepted" => Committed(job[p].saw)
  BY <1>1, Records DEF DeliveryInv, VerifyOK, VerifySteps, LeaseSteps, Steps
<1>3. /\ record \in Controls /\ record.verdict = job[p].result /\ record.verifier = job[p].actor
      /\ record.implementer = job[p].saw.implementer /\ record.publication = "none"
      /\ record.commit = job[p].saw.commit /\ record.patch = job[p].saw.patch
  BY <1>2, Records DEF Controls, Verdicts, Someone
<1>4. /\ entry.verifier = job[p].actor /\ entry.implementer = job[p].saw.implementer
      /\ entry.commit = job[p].saw.commit /\ entry.patch = job[p].saw.patch
      /\ entry \in [patch : Works, commit : Heads, implementer : Actors, verifier : Actors]
  BY <1>2, <1>3 DEF Controls
<1> HIDE DEF record, entry
<1>5. /\ Others(p) /\ job'[p].at = "write" /\ job'[p].actor = job[p].actor
      /\ job'[p].saw = record
  BY <1>1, <1>3, Records, KeepStep DEF Others, Steps
<1>6. VerifyOK(p)' /\ PublishOK(p)' /\ RecoverOK(p)'
  BY <1>2, <1>3, <1>5 DEF VerifyOK, PublishOK, RecoverOK, VerifySteps, PublishSteps
<1>7. Backed(job[p].saw)'
  BY <1>1, <1>3, <1>4, <1>5 DEF Backed
<1>8. TypeOK'
  BY <1>1, <1>4, <1>5 DEF DeliveryInv, TypeOK, LeaseTypeOK, leaseVars, store, github, Others
<1>9. ControlOK'
  BY <1>1 DEF DeliveryInv, RecordsOK, ControlOK, Backed, OnBranch, Pushed, Happened, store, github
<1>10. EvidenceOK'
  BY <1>1, <1>2, <1>3, <1>4 DEF DeliveryInv, EvidenceOK, Committed, Drifted, Happened
<1>11. VerifiedHasEvidence'
  BY <1>1 DEF DeliveryInv, VerifiedHasEvidence, Happened, store
<1> QED
  BY <1>1, <1>5, <1>6, <1>7, <1>8, <1>9, <1>10, <1>11, ByHolder DEF RowOK, LeaseSteps, Steps

LEMMA RecordVerificationOK ==
  ASSUME DeliveryInv, NEW p \in Ops, RecordVerification(p)
  PROVE  DeliveryInv'
<1>1. /\ job[p].at = "write" /\ control' = job[p].saw
      /\ UNCHANGED <<leaseVars, store, tree, github, evidence, orphan, events>>
  BY DEF RecordVerification, At
<1>2. /\ job[p].saw.verdict \in Verdicts /\ job[p].saw.publication = "none"
      /\ job[p].saw.implementer \in Actors
  BY <1>1 DEF DeliveryInv, VerifyOK
<1>3. /\ Others(p) /\ job'[p].at = "verified" /\ job'[p].actor = job[p].actor
      /\ job'[p].saw = job[p].saw
  BY Records, DoStep DEF RecordVerification, Others, Steps
<1>4. VerifyOK(p)' /\ PublishOK(p)' /\ RecoverOK(p)'
  BY <1>2, <1>3 DEF VerifyOK, PublishOK, RecoverOK, VerifySteps, PublishSteps
<1>5. Backed(job[p].saw)'
  BY <1>1, <1>3 DEF DeliveryInv, RecordsOK, Backed
<1>6. TypeOK'
  BY <1>1, <1>3, Records DEF DeliveryInv, TypeOK, LeaseTypeOK, leaseVars, store, github, Others
<1>7. ControlOK'
  BY <1>1, <1>2 DEF DeliveryInv, RecordsOK, ControlOK, Backed
<1>8. EvidenceOK' /\ VerifiedHasEvidence'
  BY <1>1 DEF DeliveryInv, EvidenceOK, VerifiedHasEvidence, Committed, Drifted, Happened, store
<1> QED
  BY <1>1, <1>3, <1>4, <1>5, <1>6, <1>7, <1>8, ByHolder DEF RowOK, LeaseSteps, Steps

LEMMA MarkVerifiedOK ==
  ASSUME DeliveryInv, NEW p \in Ops, MarkVerified(p)
  PROVE  DeliveryInv'
<1>1. /\ job[p].at = "verified" /\ job[p].saw.verdict \in Verdicts
      /\ UNCHANGED <<leaseVars, linked, control, tree, github, evidence, orphan, events>>
  BY DEF MarkVerified, At, DeliveryInv, VerifyOK
<1>2. /\ Others(p) /\ job'[p].at = "conclude" /\ job'[p].actor = job[p].actor
      /\ job'[p].saw = job[p].saw
  BY Records, DoStep DEF MarkVerified, Others, Steps
<1>3. VerifyOK(p)' /\ PublishOK(p)' /\ RecoverOK(p)'
  BY <1>2 DEF VerifyOK, PublishOK, RecoverOK, VerifySteps, PublishSteps
<1>4. Backed(job[p].saw)'
  BY <1>1, <1>2 DEF DeliveryInv, RecordsOK, Backed
<1>5. CASE cycle' = cycle
  BY <1>1, <1>2, <1>3, <1>4, <1>5, TreeOnly DEF RowOK, LeaseSteps, Steps, store,
     DeliveryInv, TypeOK
<1>6. CASE Save("implemented", StageOfVerdict(job[p].saw.verdict), {"verification"})
  <2>1. StageOfVerdict(job[p].saw.verdict) \in {"verified", "rejected", "inconclusive"}
    BY <1>1 DEF StageOfVerdict, Verdicts
  <2>2. /\ cycle.stage = "implemented" /\ cycle' \in Cycles
        /\ cycle'.stage = StageOfVerdict(job[p].saw.verdict)
    BY <1>6, <2>1, CycleMoves, StagesAre DEF Save, Current, Buckets
  <2>3. TypeOK'
    BY <1>1, <1>2, <2>2 DEF DeliveryInv, TypeOK, LeaseTypeOK, leaseVars, github, Others
  <2>4. ControlOK'
    BY <1>1, <2>2, EarlyIsUnpublished DEF DeliveryInv, RecordsOK, ControlOK, Backed
  <2>5. EvidenceOK'
    BY <1>1 DEF DeliveryInv, EvidenceOK, Committed, Drifted, Happened
  <2>6. ASSUME cycle'.stage = "verified"
        PROVE  \E e \in evidence : e.verifier # e.implementer /\ e.commit # Base
    <3>1. job[p].saw.verdict = "accepted"
      BY <1>1, <2>2, <2>6 DEF StageOfVerdict, Verdicts
    <3>2. PICK e \in evidence : e.commit = job[p].saw.commit
      BY <3>1 DEF DeliveryInv, RecordsOK, Backed
    <3> QED
      BY <3>2, ContentAssumption DEF DeliveryInv, EvidenceOK, Committed
  <2>7. VerifiedHasEvidence'
    BY <1>1, <2>6 DEF VerifiedHasEvidence
  <2> QED
    BY <1>1, <1>2, <1>3, <1>4, <2>3, <2>4, <2>5, <2>7, ByHolder DEF RowOK, LeaseSteps, Steps
<1> QED
  BY <1>5, <1>6 DEF MarkVerified

LEMMA PushOK ==
  ASSUME DeliveryInv, NEW p \in Ops, Push(p)
  PROVE  DeliveryInv'
<1>1. /\ job[p].at = "push"
      /\ UNCHANGED <<leaseVars, store, control, tree, pr, evidence, orphan, events>>
  BY DEF Push, At
<1>2. PublishOK(p) /\ tree \in [head : Heads, work : Works] /\ remote \in Heads
  BY DEF DeliveryInv, TypeOK
<1>3. remote' \in Heads
  BY <1>2 DEF Push
<1>4. /\ Others(p) /\ job'[p].actor = job[p].actor /\ job'[p].saw = job[p].saw
      /\ job'[p].at = "confirm" \/ (job'[p].at = "published" /\ job'[p].result = "inconclusive")
  BY Records, DoStep, DoWithStep DEF Push, Answer, Others, Steps, Results, Publications
<1>5. PublishOK(p)'
  BY <1>1, <1>2, <1>4 DEF PublishOK, PublishSteps, Publications, store
<1>6. VerifyOK(p)' /\ RecoverOK(p)'
  BY <1>4 DEF VerifyOK, RecoverOK, VerifySteps
<1>7. Backed(job[p].saw)'
  BY <1>1, <1>4 DEF DeliveryInv, RecordsOK, Backed
<1>8. TypeOK'
  BY <1>1, <1>3, <1>4 DEF DeliveryInv, TypeOK, LeaseTypeOK, leaseVars, store, Others
<1>9. ControlOK'
  <2>1. control.publication # "published"
    BY <1>1, <1>2 DEF PublishOK, PublishSteps
  <2> QED
    BY <1>1, <2>1 DEF DeliveryInv, RecordsOK, ControlOK, Backed, store
<1>10. EvidenceOK' /\ VerifiedHasEvidence'
  BY <1>1 DEF DeliveryInv, EvidenceOK, VerifiedHasEvidence, Committed, Drifted, Happened, store
<1> QED
  BY <1>1, <1>4, <1>5, <1>6, <1>7, <1>8, <1>9, <1>10, ByHolder DEF RowOK, LeaseSteps, Steps

LEMMA CreatePullRequestOK ==
  ASSUME DeliveryInv, NEW p \in Ops, CreatePullRequest(p)
  PROVE  DeliveryInv'
<1>1. /\ job[p].at = "create"
      /\ UNCHANGED <<leaseVars, store, control, tree, remote, evidence, orphan, events>>
  BY DEF CreatePullRequest, At
<1>2. PublishOK(p) /\ pr \in {"none", "draft", "ready"}
  BY DEF DeliveryInv, TypeOK
<1>3. pr' \in {pr, "draft"} /\ (pr # "none" => pr' # "none")
  BY <1>2 DEF CreatePullRequest
<1>4. /\ Others(p) /\ job'[p].actor = job[p].actor /\ job'[p].saw = job[p].saw
      /\ job'[p].at = "view" \/ (job'[p].at = "published" /\ job'[p].result = "inconclusive")
  BY Records, DoStep, DoWithStep DEF CreatePullRequest, Answer, Others, Steps, Results, Publications
<1>5. PublishOK(p)'
  BY <1>1, <1>2, <1>4 DEF PublishOK, PublishSteps, Publications, OnBranch, Pushed, Happened, store
<1>6. VerifyOK(p)' /\ RecoverOK(p)'
  BY <1>4 DEF VerifyOK, RecoverOK, VerifySteps
<1>7. Backed(job[p].saw)'
  BY <1>1, <1>4 DEF DeliveryInv, RecordsOK, Backed
<1>8. TypeOK'
  BY <1>1, <1>2, <1>3, <1>4 DEF DeliveryInv, TypeOK, LeaseTypeOK, leaseVars, store, Others
<1>9. ControlOK'
  BY <1>1, <1>3 DEF DeliveryInv, RecordsOK, ControlOK, Backed, OnBranch, Pushed, Happened, store
<1>10. EvidenceOK' /\ VerifiedHasEvidence'
  BY <1>1 DEF DeliveryInv, EvidenceOK, VerifiedHasEvidence, Committed, Drifted, Happened, store
<1> QED
  BY <1>1, <1>4, <1>5, <1>6, <1>7, <1>8, <1>9, <1>10, ByHolder DEF RowOK, LeaseSteps, Steps

LEMMA RecordPublicationOK ==
  ASSUME DeliveryInv, NEW p \in Ops, RecordPublication(p)
  PROVE  DeliveryInv'
<1>1. /\ job[p].at = "published" /\ control' = [job[p].saw EXCEPT !.publication = job[p].result]
      /\ UNCHANGED <<leaseVars, store, tree, github, evidence, orphan, events>>
  BY DEF RecordPublication, At
<1>2. /\ job[p].saw = control /\ job[p].saw.verdict = "accepted"
      /\ cycle.stage \in LateStages /\ job[p].result \in Publications
      /\ job[p].result = "published" => OnBranch(job[p].saw) /\ pr # "none"
  BY <1>1 DEF DeliveryInv, PublishOK, PublishSteps
<1>3. /\ control' \in Controls /\ control'.publication = job[p].result
      /\ control'.verdict = control.verdict /\ control'.commit = control.commit
      /\ control'.status = control.status /\ control'.implementer = control.implementer
  BY <1>1, <1>2, Records DEF Controls
<1>4. /\ Others(p) /\ job'[p].at = "conclude" /\ job'[p].actor = job[p].actor
      /\ job'[p].saw = job[p].saw
  BY Records, DoStep DEF RecordPublication, Others, Steps
<1>5. VerifyOK(p)' /\ PublishOK(p)' /\ RecoverOK(p)'
  BY <1>4 DEF VerifyOK, PublishOK, RecoverOK, VerifySteps, PublishSteps
<1>6. Backed(job[p].saw)'
  BY <1>1, <1>4 DEF DeliveryInv, RecordsOK, Backed
<1>7. TypeOK'
  BY <1>1, <1>3, <1>4 DEF DeliveryInv, TypeOK, LeaseTypeOK, leaseVars, store, github, Others
<1>8. ControlOK'
  BY <1>1, <1>2, <1>3 DEF DeliveryInv, RecordsOK, ControlOK, Backed, OnBranch, Pushed, Happened,
     store, github
<1>9. EvidenceOK' /\ VerifiedHasEvidence'
  BY <1>1 DEF DeliveryInv, EvidenceOK, VerifiedHasEvidence, Committed, Drifted, Happened, store
<1> QED
  BY <1>1, <1>4, <1>5, <1>6, <1>7, <1>8, <1>9, ByHolder DEF RowOK, LeaseSteps, Steps

----------------------------------------------------------------------------
(* Recovery and what happens around the calls: they find calls at any step. *)

LEMMA ApplyRecoveryOK ==
  ASSUME DeliveryInv, NEW p \in Ops, ApplyRecovery(p)
  PROVE  DeliveryInv'
<1>1. /\ job[p].at = "apply"
      /\ UNCHANGED <<leaseVars, control, tree, github, evidence, orphan, events>>
  BY DEF ApplyRecovery, At
<1>2. Others(p) /\ job'[p] = Idle
  BY Records, IdleStep DEF ApplyRecovery, Others
<1>3. RowOK(p)' /\ MayWork(p)'
  BY <1>2, IdleType DEF RowOK, MayWork, VerifyOK, PublishOK, RecoverOK, VerifySteps, PublishSteps,
     LeaseSteps, Backed, NoControl
<1>4. CASE UNCHANGED store
  <2>1. UNCHANGED shared
    BY <1>1, <1>4 DEF shared, store, github
  <2>2. holder' = holder /\ broken' = broken /\ working' \subseteq Ops
    BY <1>1 DEF leaseVars, DeliveryInv, TypeOK, LeaseTypeOK
  <2> QED
    BY <1>2, <1>3, <2>1, <2>2, Quiet
<1> DEFINE added == IF job[p].stage = "executing" THEN {"changes"} ELSE {"verification"}
<1>5. CASE /\ Save(job[p].stage, job[p].to, added)
           /\ linked' = (linked \/ job[p].saw.status # "none")
  <2>1. /\ job[p].stage \in {"executing", "implemented"}
        /\ job[p].to \in {"implemented", "verified", "rejected", "inconclusive"}
        /\ job[p].to = "verified" => job[p].saw.verdict = "accepted"
    BY <1>1 DEF DeliveryInv, RecoverOK, RecoverableStages
  <2>2. /\ cycle.stage \in {"executing", "implemented"} /\ cycle' \in Cycles
        /\ cycle'.stage = job[p].to
    BY <1>5, <2>1, CycleMoves, StagesAre DEF Save, Current, Buckets
  <2>3. /\ control.publication = "none" /\ \A q \in Ops : job[q].at \notin PublishSteps
    BY <2>2, EarlyIsUnpublished
  <2>4. linked' \in BOOLEAN
    BY <1>5 DEF DeliveryInv, TypeOK
  <2>5. TypeOK'
    BY <1>1, <1>2, <2>2, <2>4 DEF DeliveryInv, TypeOK, LeaseTypeOK, leaseVars, github, Others
  <2>6. Excluded'
    BY <1>1, <1>2, <1>3 DEF DeliveryInv, Excluded, MayWork, Others, leaseVars
  <2>7. ASSUME NEW q \in Ops PROVE RowOK(q)'
    <3>1. CASE q = p
      BY <1>3, <3>1
    <3>2. CASE q # p
      <4>1. job'[q] = job[q]
        BY <1>2, <3>2 DEF Others
      <4>2. VerifyOK(q)'
        BY <1>1, <4>1 DEF DeliveryInv, VerifyOK, Committed, Drifted, Happened
      <4>3. PublishOK(q)' /\ RecoverOK(q)'
        BY <2>3, <4>1 DEF DeliveryInv, PublishOK, RecoverOK, PublishSteps
      <4>4. Backed(job[q].saw)'
        BY <1>1, <4>1 DEF DeliveryInv, RecordsOK, Backed
      <4> QED
        BY <4>2, <4>3, <4>4 DEF RowOK
    <3> QED
      BY <3>1, <3>2
  <2>8. ControlOK'
    BY <1>1, <2>3 DEF DeliveryInv, RecordsOK, ControlOK, Backed
  <2>9. EvidenceOK'
    BY <1>1 DEF DeliveryInv, EvidenceOK, Committed, Drifted, Happened
  <2>10. ASSUME cycle'.stage = "verified"
         PROVE  \E e \in evidence : e.verifier # e.implementer /\ e.commit # Base
    <3>1. PICK e \in evidence : e.commit = job[p].saw.commit
      BY <2>1, <2>2, <2>10 DEF DeliveryInv, RecordsOK, Backed
    <3> QED
      BY <3>1, ContentAssumption DEF DeliveryInv, EvidenceOK, Committed
  <2>11. VerifiedHasEvidence'
    BY <1>1, <2>10 DEF VerifiedHasEvidence
  <2> QED
    BY <2>5, <2>6, <2>7, <2>8, <2>9, <2>11 DEF DeliveryInv, RecordsOK, RowOK
<1>6. IF Current(job[p].stage)
        THEN /\ Save(job[p].stage, job[p].to, added)
             /\ linked' = (linked \/ job[p].saw.status # "none")
        ELSE UNCHANGED store
  BY Zenon DEF ApplyRecovery
<1> HIDE DEF added
<1> QED
  BY <1>4, <1>5, <1>6

LEMMA OrphanEndsOK ==
  ASSUME DeliveryInv, OrphanEnds
  PROVE  DeliveryInv'
<1>1. /\ orphan /\ orphan' = FALSE
      /\ UNCHANGED <<leaseVars, store, control, github, evidence, events, job>>
  BY DEF OrphanEnds
<1>2. tree' \in [head : Heads, work : Works]
  BY DEF OrphanEnds, DeliveryInv, TypeOK
<1>3. ASSUME NEW q \in Ops PROVE job[q].at \notin LeaseSteps
  BY <1>1 DEF DeliveryInv, Excluded
<1>4. Excluded'
  BY <1>1, <1>3 DEF Excluded
<1>5. TypeOK'
  BY <1>1, <1>2 DEF DeliveryInv, TypeOK, LeaseTypeOK, leaseVars, store, github
<1>6. ASSUME NEW q \in Ops PROVE RowOK(q)'
  <2>1. job[q].at \notin VerifySteps \cup PublishSteps \cup {"write", "verified"}
    BY <1>3 DEF LeaseSteps, VerifySteps, PublishSteps, Steps
  <2>2. VerifyOK(q)'
    BY <1>1, <2>1 DEF VerifyOK, VerifySteps
  <2>3. PublishOK(q)' /\ RecoverOK(q)'
    BY <1>1, <2>1 DEF DeliveryInv, PublishOK, RecoverOK, PublishSteps
  <2>4. Backed(job[q].saw)'
    BY <1>1 DEF DeliveryInv, RecordsOK, Backed
  <2> QED
    BY <2>2, <2>3, <2>4 DEF RowOK
<1>7. ControlOK' /\ EvidenceOK' /\ VerifiedHasEvidence'
  BY <1>1 DEF DeliveryInv, RecordsOK, ControlOK, Backed, EvidenceOK, VerifiedHasEvidence, Committed,
     OnBranch, Pushed, Drifted, Happened, store, github
<1> QED
  BY <1>4, <1>5, <1>6, <1>7 DEF DeliveryInv, RecordsOK, RowOK

LEMMA DriftOK ==
  ASSUME DeliveryInv, Drift
  PROVE  DeliveryInv'
<1>1. /\ events' \subseteq Events /\ Happened \subseteq Happened' /\ Drifted'
      /\ UNCHANGED <<leaseVars, store, control, github, evidence, orphan, job>>
  BY OnceAdds DEF Drift, Drifted
<1>2. tree' \in [head : Heads, work : Works]
  BY DEF Drift
<1>3. Excluded'
  BY <1>1 DEF DeliveryInv, Excluded, leaseVars
<1>4. TypeOK'
  BY <1>1, <1>2 DEF DeliveryInv, TypeOK, LeaseTypeOK, leaseVars, store, github
<1>5. ASSUME NEW q \in Ops PROVE RowOK(q)'
  <2>1. VerifyOK(q)'
    BY <1>1 DEF DeliveryInv, VerifyOK, Committed
  <2>2. PublishOK(q)' /\ RecoverOK(q)'
    BY <1>1 DEF DeliveryInv, PublishOK, RecoverOK, OnBranch, Pushed, store, github
  <2>3. Backed(job[q].saw)'
    BY <1>1 DEF DeliveryInv, RecordsOK, Backed
  <2> QED
    BY <2>1, <2>2, <2>3 DEF RowOK
<1>6. ControlOK' /\ EvidenceOK' /\ VerifiedHasEvidence'
  BY <1>1 DEF DeliveryInv, RecordsOK, ControlOK, Backed, EvidenceOK, VerifiedHasEvidence, Committed,
     OnBranch, Pushed, store, github
<1> QED
  BY <1>3, <1>4, <1>5, <1>6 DEF DeliveryInv, RecordsOK, RowOK

LEMMA ForeignPushOK ==
  ASSUME DeliveryInv, ForeignPush
  PROVE  DeliveryInv'
<1>1. /\ events' \subseteq Events /\ Happened \subseteq Happened' /\ Pushed' /\ remote' \in Heads
      /\ UNCHANGED <<leaseVars, store, control, tree, pr, evidence, orphan, job>>
  BY OnceAdds DEF ForeignPush, Pushed, Heads
<1>2. Excluded'
  BY <1>1 DEF DeliveryInv, Excluded, leaseVars
<1>3. TypeOK'
  BY <1>1 DEF DeliveryInv, TypeOK, LeaseTypeOK, leaseVars, store
<1>4. ASSUME NEW q \in Ops PROVE RowOK(q)'
  <2>1. VerifyOK(q)'
    BY <1>1 DEF DeliveryInv, VerifyOK, Committed, Drifted
  <2>2. PublishOK(q)' /\ RecoverOK(q)'
    BY <1>1 DEF DeliveryInv, PublishOK, RecoverOK, OnBranch, store
  <2>3. Backed(job[q].saw)'
    BY <1>1 DEF DeliveryInv, RecordsOK, Backed
  <2> QED
    BY <2>1, <2>2, <2>3 DEF RowOK
<1>5. ControlOK' /\ EvidenceOK' /\ VerifiedHasEvidence'
  BY <1>1 DEF DeliveryInv, RecordsOK, ControlOK, Backed, EvidenceOK, VerifiedHasEvidence, Committed,
     OnBranch, Drifted, store
<1> QED
  BY <1>2, <1>3, <1>4, <1>5 DEF DeliveryInv, RecordsOK, RowOK

LEMMA MarkReadyOK ==
  ASSUME DeliveryInv, MarkReady
  PROVE  DeliveryInv'
<1>1. /\ events' \subseteq Events /\ Happened \subseteq Happened' /\ pr' = "ready"
      /\ UNCHANGED <<leaseVars, store, control, tree, remote, evidence, orphan, job>>
  BY OnceAdds DEF MarkReady
<1>2. Excluded'
  BY <1>1 DEF DeliveryInv, Excluded, leaseVars
<1>3. TypeOK'
  BY <1>1 DEF DeliveryInv, TypeOK, LeaseTypeOK, leaseVars, store
<1>4. ASSUME NEW q \in Ops PROVE RowOK(q)'
  <2>1. VerifyOK(q)'
    BY <1>1 DEF DeliveryInv, VerifyOK, Committed, Drifted
  <2>2. PublishOK(q)' /\ RecoverOK(q)'
    BY <1>1 DEF DeliveryInv, PublishOK, RecoverOK, OnBranch, Pushed, store
  <2>3. Backed(job[q].saw)'
    BY <1>1 DEF DeliveryInv, RecordsOK, Backed
  <2> QED
    BY <2>1, <2>2, <2>3 DEF RowOK
<1>5. ControlOK' /\ EvidenceOK' /\ VerifiedHasEvidence'
  BY <1>1 DEF DeliveryInv, RecordsOK, ControlOK, Backed, EvidenceOK, VerifiedHasEvidence, Committed,
     OnBranch, Pushed, Drifted, store
<1> QED
  BY <1>2, <1>3, <1>4, <1>5 DEF DeliveryInv, RecordsOK, RowOK

\* The cycle is changed under the calls, but never taken back to an earlier
\* stage, nor to a verified one unless by the operator.
LEMMA CycleChangesOK ==
  ASSUME DeliveryInv, cycle' \in Cycles, events' \subseteq Events, Happened \subseteq Happened',
         cycle.stage \in LateStages => cycle'.stage \in LateStages,
         cycle'.stage = cycle.stage \/ "advance" \in Happened',
         UNCHANGED <<leaseVars, linked, control, tree, github, evidence, orphan, job>>
  PROVE  DeliveryInv'
<1>1. Excluded'
  BY DEF DeliveryInv, Excluded, leaseVars
<1>2. TypeOK'
  BY DEF DeliveryInv, TypeOK, LeaseTypeOK, leaseVars, github
<1>3. ASSUME NEW q \in Ops PROVE RowOK(q)'
  <2>1. VerifyOK(q)'
    BY DEF DeliveryInv, VerifyOK, Committed, Drifted
  <2>2. PublishOK(q)' /\ RecoverOK(q)'
    BY DEF DeliveryInv, PublishOK, RecoverOK, OnBranch, Pushed, github
  <2>3. Backed(job[q].saw)'
    BY DEF DeliveryInv, RecordsOK, Backed
  <2> QED
    BY <2>1, <2>2, <2>3 DEF RowOK
<1>4. ControlOK' /\ EvidenceOK'
  BY DEF DeliveryInv, RecordsOK, ControlOK, Backed, EvidenceOK, Committed, OnBranch, Pushed, Drifted,
     github
<1>5. VerifiedHasEvidence'
  BY DEF DeliveryInv, VerifiedHasEvidence
<1> QED
  BY <1>1, <1>2, <1>3, <1>4, <1>5 DEF DeliveryInv, RecordsOK, RowOK

LEMMA ApprovalEndsOK ==
  ASSUME DeliveryInv, ApprovalEnds
  PROVE  DeliveryInv'
<1>1. PICK action \in cycle.approvals : cycle' = [cycle EXCEPT !.approvals = @ \ {action}]
  BY DEF ApprovalEnds
<1>2. cycle' \in Cycles /\ cycle'.stage = cycle.stage
  BY <1>1 DEF DeliveryInv, TypeOK, Cycles
<1>3. /\ events' \subseteq Events /\ Happened \subseteq Happened'
      /\ UNCHANGED <<leaseVars, linked, control, tree, github, evidence, orphan, job>>
  BY OnceAdds DEF ApprovalEnds
<1> QED
  BY <1>2, <1>3, CycleChangesOK

LEMMA AdvanceOK ==
  ASSUME DeliveryInv, Advance
  PROVE  DeliveryInv'
<1>1. PICK to \in Stages : /\ CanTransition(cycle.stage, to)
                           /\ cycle' = Moved(cycle, to, RequiredArtifacts(to))
  BY DEF Advance, MayTransition
<1>2. RequiredArtifacts(to) \in SUBSET Buckets
  BY DEF RequiredArtifacts, Buckets
<1>3. cycle' \in Cycles /\ cycle'.stage = to
  BY <1>1, <1>2, CycleMoves
<1>4. cycle.stage \in LateStages => cycle'.stage \in LateStages
  BY <1>1, <1>3, LateStays
<1>5. /\ events' \subseteq Events /\ Happened \subseteq Happened' /\ "advance" \in Happened'
      /\ UNCHANGED <<leaseVars, linked, control, tree, github, evidence, orphan, job>>
  BY OnceAdds DEF Advance
<1> QED
  BY <1>3, <1>4, <1>5, CycleChangesOK

LEMMA StutterOK ==
  ASSUME DeliveryInv, UNCHANGED vars
  PROVE  DeliveryInv'
<1>1. TypeOK' /\ Excluded'
  BY DEF DeliveryInv, TypeOK, LeaseTypeOK, Excluded, vars, shared, leaseVars
<1> QED
  BY <1>1, Elsewhere DEF vars, shared, leaseVars, Happened

----------------------------------------------------------------------------
LEMMA InitOK == Init => DeliveryInv
<1> SUFFICES ASSUME Init PROVE DeliveryInv
  OBVIOUS
<1>1. job = [p \in Ops |-> Idle] /\ control = NoControl /\ evidence = {} /\ holder = NoOp /\ orphan = FALSE
  BY DEF Init, LeaseInit
<1>2. PICK x \in Profiles :
        cycle = [stage |-> "planned", filled |-> Planned, autonomy |-> x.autonomy,
                 risk |-> x.risk, approvals |-> x.approvals]
  BY DEF Init
<1>3. cycle \in Cycles /\ cycle.stage = "planned"
  BY <1>2, ProfileAssumption, StagesAre DEF Cycles, Planned, Buckets
<1>4. TypeOK
  BY <1>1, <1>3, NoControlType, IdleType DEF Init, LeaseInit, TypeOK, LeaseTypeOK, Heads, Works
<1>5. Excluded
  BY <1>1, IdleType DEF Excluded, LeaseSteps
<1>6. ASSUME NEW p \in Ops PROVE RowOK(p)
  BY <1>1, IdleType DEF RowOK, VerifyOK, PublishOK, RecoverOK, VerifySteps, PublishSteps, Backed, NoControl
<1>7. ControlOK /\ EvidenceOK /\ VerifiedHasEvidence
  BY <1>1, <1>3 DEF ControlOK, EvidenceOK, VerifiedHasEvidence, Backed, NoControl
<1> QED
  BY <1>4, <1>5, <1>6, <1>7 DEF DeliveryInv, RecordsOK, RowOK

LEMMA NextOK == DeliveryInv /\ [Next]_vars => DeliveryInv'
<1> SUFFICES ASSUME DeliveryInv, [Next]_vars PROVE DeliveryInv'
  OBVIOUS
<1>1. ASSUME NEW p \in Ops, NEW a \in Actors, StartExecute(p, a) \/ StartVerify(p, a) \/ StartPublish(p, a)
      PROVE  DeliveryInv'
  BY <1>1, StartOK DEF StartExecute, StartVerify, StartPublish
<1>2. ASSUME NEW p \in Ops, Execute(p) PROVE DeliveryInv'
  BY <1>2, LoadPlannedOK, MarkExecutingOK, RunCommandOK, RecordExecutionOK, MarkExecutedOK DEF Execute
<1>3. ASSUME NEW p \in Ops, Verify(p) PROVE DeliveryInv'
  BY <1>3, LoadImplementedOK, SnapshotBeforeOK, RunChecksOK, SnapshotAfterOK, CommitTreeOK, CheckCleanOK,
     RegisterVerificationOK, RecordVerificationOK, MarkVerifiedOK DEF Verify
<1>4. ASSUME NEW p \in Ops, Publish(p) PROVE DeliveryInv'
  BY <1>4, LoadVerifiedOK, PushOK, ConfirmRemoteOK, ListPullRequestsOK, CreatePullRequestOK,
     ViewPullRequestOK, RecordPublicationOK DEF Publish
<1>5. ASSUME NEW p \in Ops, Conclude(p) \/ Recover(p) \/ Kill(p) PROVE DeliveryInv'
  BY <1>5, ConcludeOK, LoadForRecoveryOK, PlanRecoveryOK, ApplyRecoveryOK, KillOK DEF Recover
<1>6. ASSUME Around PROVE DeliveryInv'
  BY <1>6, OrphanEndsOK, DriftOK, ForeignPushOK, MarkReadyOK, ApprovalEndsOK, AdvanceOK DEF Around
<1> QED
  BY <1>1, <1>2, <1>3, <1>4, <1>5, <1>6, ReleaseOK, StutterOK DEF Next

LEMMA DeliveryInvariant == Spec => []DeliveryInv
  BY InitOK, NextOK, PTL DEF Spec

----------------------------------------------------------------------------
\* The stores, the worktree, the branch and every call keep their types.
THEOREM DeliveryTypes == Spec => []TypeOK
<1>1. DeliveryInv => TypeOK
  BY DEF DeliveryInv
<1> QED
  BY <1>1, DeliveryInvariant, PTL

\* A verified cycle has evidence of an accepted commit, verified by somebody
\* else than the implementer, unless the operator advanced it by hand: no
\* kill between two writes, no recovery and no overlap of calls makes one
\* without it (delivery.ts, verifyDelivery; delivery-recovery.ts, makePlan).
THEOREM VerifiedIsEvident == Spec => []VerifiedHasEvidence
<1>1. DeliveryInv => VerifiedHasEvidence
  BY DEF DeliveryInv
<1> QED
  BY <1>1, DeliveryInvariant, PTL

\* The commit of a verification is the patch it checked, unless somebody else
\* changed the worktree (delivery.ts, the snapshots around the checks and the
\* commit).
THEOREM CommitIsPatch == Spec => []CommitIsVerifiedPatch
<1>1. DeliveryInv => CommitIsVerifiedPatch
  BY DEF DeliveryInv, EvidenceOK, Committed, Drifted, CommitIsVerifiedPatch
<1> QED
  BY <1>1, DeliveryInvariant, PTL

\* What is on record as published was verified, is on the branch unless
\* somebody pushed there, and has a pull request (delivery-publish.ts,
\* publishDelivery).
THEOREM PublicationIsVerified == Spec => []PublishedIsVerified
<1>1. DeliveryInv => PublishedIsVerified
  BY DEF DeliveryInv, RecordsOK, ControlOK, Backed, OnBranch, Pushed, PublishedIsVerified
<1> QED
  BY <1>1, DeliveryInvariant, PTL
=============================================================================
