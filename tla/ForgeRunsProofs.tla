--------------------------- MODULE ForgeRunsProofs ---------------------------
(***************************************************************************)
(* Theorems about ForgeRuns for every set of runs, tasks, keys, commands    *)
(* and handlers, every limit and every bound.                               *)
(***************************************************************************)
EXTENDS ForgeRuns, FiniteSetTheorems, TLAPS

-----------------------------------------------------------------------------
(* Constants and rows.                                                      *)

\* A command of an operation that works on a run names that run.
LEMMA CommandFields ==
  ASSUME NEW c \in Commands
  PROVE  /\ c.op \in Ops /\ c.key \in Keys /\ c.run \in Runs \cup {NoRun}
         /\ c.arg \in Args /\ c.snapshot \in Nat
         /\ c.op = "resolve-evidence-review" => c.arg \in {"approved", "rejected"}
  BY CommandsTyped DEF CommandType

\* The domain's transitions lead neither to a draft nor out of an ended state.
LEMMA TransitionTargets ==
  ASSUME NEW s \in RunStates, NEW next \in LegalTransitions[s]
  PROVE  /\ next \in RunStates /\ next # "draft" /\ next # Absent
         /\ s \notin TerminalRunStates
         /\ s # "draft" => s \in ActiveRunStates
  BY DEF LegalTransitions, RunStates, ActiveRunStates, TerminalRunStates, Absent

\* What UPDATE forge_runs with its events leaves behind: rows of the schema.
LEMMA ChangeType ==
  ASSUME TypeOK, NEW r \in Runs, NEW state \in RunStates, state # "draft",
         NEW outcome \in ReviewOutcomes, NEW bump \in Nat,
         NEW types \in Seq(EventTypes), NEW ref \in Keys \cup Correlations \cup {NoKey},
         Change(r, state, outcome, bump, types, ref)
  PROVE  /\ run' \in [Runs -> RunRow] /\ events' \in [Runs -> SUBSET EventRow]
         /\ \A q \in Runs : run'[q].state # "draft"
         /\ \A q \in Runs : run[q].state # Absent => run'[q].state # Absent
  <1>1. run[r] \in RunRow /\ run[r].seq \in Nat /\ run[r].version \in Nat
    BY DEF TypeOK, RunRow
  <1>2. Len(types) \in Nat /\ run[r].seq + Len(types) \in Nat
    BY <1>1
  <1>3. run' \in [Runs -> RunRow]
    BY <1>1, <1>2 DEF TypeOK, Change, RunRow
  <1>4. \A i \in DOMAIN types :
          [sequence |-> run[r].seq + i, type |-> types[i], ref |-> ref] \in EventRow
    BY <1>1 DEF EventRow
  <1>5. events' \in [Runs -> SUBSET EventRow]
    BY <1>4 DEF TypeOK, Change, NewRows
  <1>6. Absent \notin RunStates
    BY DEF Absent, RunStates, ActiveRunStates, TerminalRunStates
  <1>7. \A q \in Runs : /\ run'[q].state # "draft"
                        /\ run[q].state # Absent => run'[q].state # Absent
    BY <1>6 DEF TypeOK, Change
  <1>8. QED
    BY <1>3, <1>5, <1>7


\* An INSERT of a run leaves rows of the schema too.
LEMMA InsertType ==
  ASSUME TypeOK, NEW r \in Runs, NEW task \in Tasks \cup {NoTask}, NEW iteration \in Nat,
         NEW key \in Keys, InsertRun(r, task, iteration, key)
  PROVE  /\ run' \in [Runs -> RunRow] /\ events' \in [Runs -> SUBSET EventRow]
         /\ \A q \in Runs : run'[q].state # "draft"
         /\ \A q \in Runs : run[q].state # Absent => run'[q].state # Absent
  <1> DEFINE row == [AbsentRun EXCEPT !.state = "queued", !.seq = 1,
                                      !.task = task, !.iteration = iteration]
  <1>1. row \in RunRow /\ row.state = "queued"
    BY DEF AbsentRun, RunRow, RunStates, ActiveRunStates, ReviewOutcomes
  <1>2. run' = [run EXCEPT ![r] = row]
    BY DEF InsertRun
  <1>3. NewRows(0, <<"run.created">>, key) \in SUBSET EventRow
    BY DEF NewRows, EventRow, EventTypes
  <1>4. Absent # "queued"
    BY DEF Absent
  <1> HIDE DEF row
  <1>5. /\ run' \in [Runs -> RunRow]
        /\ \A q \in Runs : run'[q].state # "draft"
        /\ \A q \in Runs : run[q].state # Absent => run'[q].state # Absent
    BY <1>1, <1>2, <1>4 DEF TypeOK
  <1>6. events' \in [Runs -> SUBSET EventRow]
    BY <1>3 DEF TypeOK, InsertRun
  <1>7. QED
    BY <1>5, <1>6

\* The tables that are written by one assignment in several commands.
LEMMA RecordType ==
  ASSUME TypeOK, NEW c \in Commands, NEW status \in {"pending", "completed"},
         Record(c, status)
  PROVE  idem' \in [Ops \X Keys -> [status : {Absent, "pending", "completed"},
                                    hash : (Runs \cup {NoRun}) \X Args \X Nat]]
  <1>1. RequestHash(c) \in (Runs \cup {NoRun}) \X Args \X Nat
    BY CommandFields DEF RequestHash
  <1>2. <<c.op, c.key>> \in Ops \X Keys
    BY CommandFields
  <1>3. QED
    BY <1>1, <1>2 DEF TypeOK, Record

LEMMA AnswerType ==
  ASSUME TypeOK, NEW c \in Commands, NEW value \in {"ok", "refused"}, Answer(c, value)
  PROVE  reply' \in [Commands -> {"none", "ok", "refused"}]
  BY DEF TypeOK, Answer

LEMMA SetTaskType ==
  ASSUME TypeOK, NEW r \in Runs, NEW status \in TaskStatuses, SetTask(r, status)
  PROVE  tasks' \in [Tasks -> [status : TaskStatuses, secret : BOOLEAN]]
  BY DEF TypeOK, SetTask

LEMMA ProcType ==
  ASSUME TypeOK, NEW p \in Procs, NEW record \in ProcRecord,
         proc' = [proc EXCEPT ![p] = record]
  PROVE  proc' \in [Procs -> ProcRecord]
  BY DEF TypeOK

LEMMA ApprovalType ==
  ASSUME TypeOK, NEW r \in Runs, NEW k \in Keys, NEW status \in ApprovalStatuses,
         approvals' = [approvals EXCEPT ![r][k] = status]
  PROVE  approvals' \in [Runs -> [Keys -> ApprovalStatuses]]
  <1> DEFINE resolved == [approvals[r] EXCEPT ![k] = status]
  <1>1. resolved \in [Keys -> ApprovalStatuses]
    BY DEF TypeOK
  <1>2. approvals' = [approvals EXCEPT ![r] = resolved]
    OBVIOUS
  <1> HIDE DEF resolved
  <1>3. QED
    BY <1>1, <1>2 DEF TypeOK

LEMMA PublicationType ==
  ASSUME TypeOK, NEW r \in Runs, NEW status \in PublicationStatuses,
         publication' = [publication EXCEPT ![r].status = status]
  PROVE  publication' \in [Runs -> [status : PublicationStatuses, snapshot : Nat]]
  <1> DEFINE row == [publication[r] EXCEPT !.status = status]
  <1>1. publication \in [Runs -> [status : PublicationStatuses, snapshot : Nat]]
    BY DEF TypeOK
  <1>2. row \in [status : PublicationStatuses, snapshot : Nat]
    BY <1>1
  <1>3. publication' = [publication EXCEPT ![r] = row]
    OBVIOUS
  <1> HIDE DEF row
  <1>4. QED
    BY <1>1, <1>2, <1>3

LEMMA IdleType == Idle \in ProcRecord
  BY DEF Idle, ProcRecord, RunStates

-----------------------------------------------------------------------------
(* Type correctness.                                                        *)

\* A step that loses no run and moves at most one handler, to a record that is
\* typed and serves an existing run, keeps the handlers' part of the invariant.
LEMMA HandlersStep ==
  ASSUME TypeOK,
         \A q \in Runs : run[q].state # Absent => run'[q].state # Absent,
         \/ UNCHANGED proc
         \/ \E p \in Procs, record \in ProcRecord :
              /\ proc' = [proc EXCEPT ![p] = record]
              /\ record.pc \in {"controlling", "publishing"} =>
                   record.cmd \in Commands /\ Exists(record.cmd.run)
  PROVE  /\ proc' \in [Procs -> ProcRecord]
         /\ \A p \in Procs : proc'[p].pc \in {"controlling", "publishing"} =>
              (proc[p].cmd \in Commands /\ Exists(proc[p].cmd.run))'
  <1>1. proc' \in [Procs -> ProcRecord]
    BY DEF TypeOK
  <1>2. ASSUME NEW p \in Procs, proc'[p].pc \in {"controlling", "publishing"}
        PROVE  (proc[p].cmd \in Commands /\ Exists(proc[p].cmd.run))'
    <2>1. proc'[p].cmd \in Commands /\ Exists(proc'[p].cmd.run)
      BY <1>2 DEF TypeOK
    <2>2. QED
      BY <2>1 DEF Exists
  <1>3. QED
    BY <1>1, <1>2

\* Going idle is such a move.
LEMMA HandlersIdle ==
  ASSUME TypeOK,
         \A q \in Runs : run[q].state # Absent => run'[q].state # Absent,
         UNCHANGED proc \/ \E p \in Procs : proc' = [proc EXCEPT ![p] = Idle]
  PROVE  /\ proc' \in [Procs -> ProcRecord]
         /\ \A p \in Procs : proc'[p].pc \in {"controlling", "publishing"} =>
              (proc[p].cmd \in Commands /\ Exists(proc[p].cmd.run))'
  BY HandlersStep, IdleType DEF Idle

\* Every step keeps the type invariant.
LEMMA TypeStep == TypeOK /\ [Next]_vars => TypeOK'
  <1> SUFFICES ASSUME TypeOK, [Next]_vars PROVE TypeOK'
    OBVIOUS
  <1> DEFINE Kept == /\ run' \in [Runs -> RunRow] /\ events' \in [Runs -> SUBSET EventRow]
                     /\ \A q \in Runs : run'[q].state # "draft"
                     /\ \A q \in Runs : run[q].state # Absent => run'[q].state # Absent
             Tasked == tasks' \in [Tasks -> [status : TaskStatuses, secret : BOOLEAN]]
             Handled == /\ proc' \in [Procs -> ProcRecord]
                        /\ \A p \in Procs : proc'[p].pc \in {"controlling", "publishing"} =>
                             (proc[p].cmd \in Commands /\ Exists(proc[p].cmd.run))'
             Recorded == idem' \in [Ops \X Keys ->
                           [status : {Absent, "pending", "completed"},
                            hash : (Runs \cup {NoRun}) \X Args \X Nat]]
             Answered == reply' \in [Commands -> {"none", "ok", "refused"}]
  <1>a. \A r \in Runs : /\ run[r].state \in RunStates \cup {Absent}
                        /\ run[r].outcome \in ReviewOutcomes
                        /\ run[r].version \in Nat /\ run[r].iteration \in Nat
                        /\ run[r].task \in Tasks \cup {NoTask}
    BY DEF TypeOK, RunRow
  <1>b. \A r : Exists(r) => r \in Runs /\ run[r].state \in RunStates /\ run[r].state # "draft"
    BY <1>a DEF Exists, TypeOK
  <1>c. \A p \in Procs : proc[p].pc \in {"controlling", "publishing"} =>
          /\ proc[p].cmd \in Commands /\ Exists(proc[p].cmd.run)
          /\ proc[p].cmd.key \in Keys /\ proc[p].cmd.run \in Runs
    BY CommandFields DEF TypeOK, Exists
  <1>1. CASE UNCHANGED vars
    BY <1>1 DEF vars, TypeOK, Exists
  <1>2. ASSUME NEW c \in Commands, StartRun(c) PROVE TypeOK'
    <2>1. PICK r \in Runs, t \in Tasks :
            /\ InsertRun(r, t, 1, c.key)
            /\ tasks' = [tasks EXCEPT ![t] = [status |-> "running", secret |-> c.arg = "secret"]]
      BY <1>2 DEF StartRun
    <2>2. Kept
      BY <2>1, InsertType, CommandFields
    <2>3. Tasked
      BY <2>1 DEF TypeOK, TaskStatuses
    <2>4. Handled
      BY <1>2, <2>2, HandlersIdle DEF StartRun
    <2>5. Recorded /\ Answered
      BY <1>2, RecordType, AnswerType DEF StartRun
    <2>6. QED
      BY <1>2, <2>2, <2>3, <2>4, <2>5 DEF StartRun, TypeOK
  <1>3. ASSUME NEW c \in Commands, PrepareEvidence(c) PROVE TypeOK'
    <2>1. Kept
      <3>1. <<"run.started", "validation.started", "validation.completed", "review.ready">>
              \in Seq(EventTypes)
        BY DEF EventTypes
      <3>2. "awaiting_review" \in RunStates
        BY DEF RunStates, ActiveRunStates
      <3>3. QED
        BY <1>3, <1>a, <1>b, <3>1, <3>2, ChangeType DEF PrepareEvidence
    <2>2. Tasked
      BY <1>3, <1>b, SetTaskType DEF PrepareEvidence, TaskStatuses
    <2>3. Handled
      BY <1>3, <2>1, HandlersIdle DEF PrepareEvidence
    <2>4. Recorded /\ Answered
      BY <1>3, RecordType, AnswerType DEF PrepareEvidence
    <2>5. changeSet' \in [Runs -> Nat]
      <3>1. run[c.run].version + 1 \in Nat
        BY <1>3, <1>a, <1>b DEF PrepareEvidence
      <3>2. changeSet' = [changeSet EXCEPT ![c.run] = run[c.run].version + 1]
        BY <1>3 DEF PrepareEvidence
      <3>3. QED
        BY <3>1, <3>2 DEF TypeOK
    <2>6. QED
      BY <1>3, <2>1, <2>2, <2>3, <2>4, <2>5 DEF PrepareEvidence, TypeOK
  <1>4. ASSUME NEW c \in Commands, ResolveReview(c) PROVE TypeOK'
    <2>1. Kept
      <3>1. <<"review.resolved">> \in Seq(EventTypes)
        BY DEF EventTypes
      <3>2. "awaiting_review" \in RunStates /\ "completed" \in RunStates
            /\ "none" \in ReviewOutcomes /\ "rejected" \in ReviewOutcomes
        BY DEF RunStates, ActiveRunStates, TerminalRunStates, ReviewOutcomes
      <3>3. QED
        BY <1>4, <1>b, <3>1, <3>2, CommandFields, ChangeType DEF ResolveReview
    <2>2. Handled
      BY <1>4, <2>1, HandlersIdle DEF ResolveReview
    <2>3. Recorded /\ Answered
      BY <1>4, RecordType, AnswerType DEF ResolveReview
    <2>4. review' \in [Runs -> [decision : Decisions, snapshot : Nat]]
      <3>1. PICK d \in {"approved", "rejected"} :
              review' = [review EXCEPT ![c.run] = [decision |-> d, snapshot |-> changeSet[c.run]]]
        BY <1>4, CommandFields DEF ResolveReview
      <3>2. changeSet[c.run] \in Nat
        BY <1>4, <1>b DEF ResolveReview, TypeOK
      <3>3. QED
        BY <3>1, <3>2 DEF TypeOK, Decisions
    <2>5. QED
      BY <1>4, <2>1, <2>2, <2>3, <2>4 DEF ResolveReview, TypeOK
  <1>5. ASSUME NEW c \in Commands, CreateNextIteration(c) PROVE TypeOK'
    <2>1. PICK r \in Runs : InsertRun(r, run[c.run].task, run[c.run].iteration + 1, c.key)
      BY <1>5 DEF CreateNextIteration
    <2>2. Kept
      <3>1. run[c.run].task \in Tasks \cup {NoTask} /\ run[c.run].iteration + 1 \in Nat
        BY <1>5, <1>a, <1>b DEF CreateNextIteration
      <3>2. QED
        BY <2>1, <3>1, CommandFields, InsertType
    <2>3. Tasked
      BY <1>5, <1>b, SetTaskType DEF CreateNextIteration, TaskStatuses
    <2>4. Handled
      BY <1>5, <2>2, HandlersIdle DEF CreateNextIteration
    <2>5. Recorded /\ Answered
      BY <1>5, RecordType, AnswerType DEF CreateNextIteration
    <2>6. QED
      BY <1>5, <2>2, <2>3, <2>4, <2>5 DEF CreateNextIteration, TypeOK
  <1>6. ASSUME NEW c \in Commands, ReplayCommand(c) \/ RefuseCommand(c) \/ AnswerPublication(c)
        PROVE  TypeOK'
    <2>1. Answered
      BY <1>6, AnswerType DEF ReplayCommand, RefuseCommand, AnswerPublication
    <2>2. QED
      BY <1>6, <2>1 DEF ReplayCommand, RefuseCommand, AnswerPublication, database, TypeOK, Exists
  <1>7. ASSUME NEW c \in Commands, ReusePublication(c) PROVE TypeOK'
    <2>1. Recorded /\ Answered
      BY <1>7, RecordType, AnswerType DEF ReusePublication
    <2>2. QED
      BY <1>7, <2>1 DEF ReusePublication, TypeOK, Exists
  <1>8. ASSUME NEW p \in Procs, NEW c \in Commands, ReadForControl(p, c) PROVE TypeOK'
    <2>1. Answered
      BY <1>8, AnswerType DEF ReadForControl, TypeOK
    <2>2. Handled
      <3>1. [Idle EXCEPT !.pc = "controlling", !.cmd = c] \in ProcRecord
        BY DEF Idle, ProcRecord, RunStates
      <3>2. /\ Idle.pc = "idle"
            /\ [Idle EXCEPT !.pc = "controlling", !.cmd = c].cmd = c
        BY DEF Idle
      <3>3. QED
        BY <1>8, <3>1, <3>2, HandlersStep DEF ReadForControl, database
    <2>3. QED
      BY <1>8, <2>1, <2>2 DEF ReadForControl, database, TypeOK
  <1>9. ASSUME NEW p \in Procs, CommitCancel(p) PROVE TypeOK'
    <2> DEFINE c == proc[p].cmd
    <2>1. c \in Commands /\ c.run \in Runs
      BY <1>9, <1>c DEF CommitCancel, Controlling
    <2>2. Kept
      <3>1. <<"run.cancel.requested", "run.cancelled">> \in Seq(EventTypes)
        BY DEF EventTypes
      <3>2. "cancelled" \in RunStates
        BY DEF RunStates, TerminalRunStates
      <3>3. QED
        BY <1>9, <1>a, <2>1, <3>1, <3>2, CommandFields, ChangeType DEF CommitCancel
    <2>3. Tasked
      BY <1>9, <2>1, SetTaskType DEF CommitCancel, TaskStatuses
    <2>4. Handled
      BY <1>9, <2>2, HandlersIdle DEF CommitCancel
    <2>5. Recorded /\ Answered
      BY <1>9, <2>1, RecordType, AnswerType DEF CommitCancel
    <2>6. QED
      BY <1>9, <2>2, <2>3, <2>4, <2>5 DEF CommitCancel, TypeOK
  <1>10. ASSUME NEW p \in Procs, CommitInstruction(p) PROVE TypeOK'
    <2> DEFINE c == proc[p].cmd
    <2>1. c \in Commands /\ c.run \in Runs /\ c.key \in Keys /\ Exists(c.run)
      BY <1>10, <1>c DEF CommitInstruction, Controlling
    <2>2. Kept
      <3>1. /\ <<"run.instruction.added", "approval.requested">> \in Seq(EventTypes)
            /\ <<"run.instruction.added">> \in Seq(EventTypes)
        BY DEF EventTypes
      <3>2. QED
        BY <1>10, <1>a, <1>b, <2>1, <3>1, ChangeType DEF CommitInstruction
    <2>3. approvals' \in [Runs -> [Keys -> ApprovalStatuses]]
      <3>1. UNCHANGED approvals
            \/ \E status \in ApprovalStatuses :
                 approvals' = [approvals EXCEPT ![c.run][c.key] = status]
        <4>1. CASE approvals[c.run][c.key] = Absent
          BY <1>10, <4>1 DEF CommitInstruction, ApprovalStatuses
        <4>2. CASE approvals[c.run][c.key] # Absent
          <5>1. approvals[c.run][c.key] \in ApprovalStatuses
            BY <2>1 DEF TypeOK
          <5>2. QED
            BY <1>10, <4>2, <5>1 DEF CommitInstruction
        <4>3. QED
          BY <4>1, <4>2
      <3>2. QED
        BY <2>1, <3>1, ApprovalType DEF TypeOK
    <2>4. Handled
      BY <1>10, <2>2, HandlersIdle DEF CommitInstruction
    <2>5. Recorded /\ Answered
      BY <1>10, <2>1, RecordType, AnswerType DEF CommitInstruction
    <2>6. QED
      BY <1>10, <2>2, <2>3, <2>4, <2>5 DEF CommitInstruction, TypeOK
  <1>11. ASSUME NEW p \in Procs, FinishControl(p) PROVE TypeOK'
    <2>1. Answered
      BY <1>11, <1>c, AnswerType DEF FinishControl
    <2>2. Handled
      BY <1>11, HandlersIdle DEF FinishControl, database
    <2>3. QED
      BY <1>11, <2>1, <2>2 DEF FinishControl, database, TypeOK
  <1>12. ASSUME NEW r \in Runs, NEW k \in Keys, NEW d \in {"approved", "rejected"},
                ResolveApproval(r, k, d)
         PROVE  TypeOK'
    <2>1. Kept
      <3>1. <<"approval.resolved">> \in Seq(EventTypes)
        BY DEF EventTypes
      <3>2. "running" \in RunStates
        BY DEF RunStates, ActiveRunStates
      <3>3. QED
        BY <1>12, <1>a, <1>b, <3>1, <3>2, ChangeType DEF ResolveApproval
    <2>2. approvals' \in [Runs -> [Keys -> ApprovalStatuses]]
      BY <1>12, ApprovalType DEF ResolveApproval, ApprovalStatuses
    <2>3. Handled
      BY <1>12, <2>1, HandlersIdle DEF ResolveApproval
    <2>4. QED
      BY <1>12, <2>1, <2>2, <2>3 DEF ResolveApproval, TypeOK
  <1>13. ASSUME NEW p \in Procs, NEW c \in Commands, BeginPublication(p, c) PROVE TypeOK'
    <2>1. c.run \in Runs
      BY <1>13, <1>b DEF BeginPublication
    <2>2. Kept
      <3>1. <<"publication.started">> \in Seq(EventTypes)
        BY DEF EventTypes
      <3>2. "publishing" \in RunStates
        BY DEF RunStates, ActiveRunStates
      <3>3. CASE UNCHANGED <<run, events>>
        BY <3>3 DEF TypeOK
      <3>4. CASE Change(c.run, "publishing", run[c.run].outcome, 1,
                        <<"publication.started">>, NoKey)
        BY <1>a, <2>1, <3>1, <3>2, <3>4, ChangeType
      <3>5. QED
        BY <1>13, <3>3, <3>4 DEF BeginPublication
    <2>3. publication' \in [Runs -> [status : PublicationStatuses, snapshot : Nat]]
      <3>1. publication[c.run].snapshot \in Nat /\ changeSet[c.run] \in Nat
        BY <2>1 DEF TypeOK
      <3>2. PICK n \in Nat :
              publication' = [publication EXCEPT ![c.run] = [status |-> "pending", snapshot |-> n]]
        BY <1>13, <3>1 DEF BeginPublication
      <3>3. QED
        BY <3>2 DEF TypeOK, PublicationStatuses
    <2>4. Recorded
      BY <1>13, RecordType DEF BeginPublication
    <2>5. Handled
      <3>1. [Idle EXCEPT !.pc = "publishing", !.cmd = c] \in ProcRecord
        BY DEF Idle, ProcRecord, RunStates
      <3>2. [Idle EXCEPT !.pc = "publishing", !.cmd = c].cmd = c
        BY DEF Idle
      <3>3. QED
        BY <1>13, <2>2, <3>1, <3>2, HandlersStep DEF BeginPublication
    <2>6. QED
      BY <1>13, <2>2, <2>3, <2>4, <2>5 DEF BeginPublication, TypeOK
  <1>14. ASSUME NEW p \in Procs, FailPublication(p) PROVE TypeOK'
    <2> DEFINE c == proc[p].cmd
    <2>1. c \in Commands /\ c.run \in Runs /\ Exists(c.run)
      BY <1>14, <1>c DEF FailPublication
    <2>2. Kept
      <3>1. <<"publication.failed">> \in Seq(EventTypes)
        BY DEF EventTypes
      <3>2. QED
        BY <1>14, <1>a, <1>b, <2>1, <3>1, ChangeType DEF FailPublication
    <2>3. publication' \in [Runs -> [status : PublicationStatuses, snapshot : Nat]]
      BY <1>14, <2>1, PublicationType DEF FailPublication, PublicationStatuses
    <2>4. Handled
      BY <1>14, <2>2, HandlersIdle DEF FailPublication
    <2>5. Answered
      BY <1>14, <2>1, AnswerType DEF FailPublication
    <2>6. QED
      BY <1>14, <2>2, <2>3, <2>4, <2>5 DEF FailPublication, TypeOK
  <1>15. ASSUME NEW p \in Procs, CompletePublication(p) PROVE TypeOK'
    <2> DEFINE c == proc[p].cmd
    <2>1. c \in Commands /\ c.run \in Runs /\ c.key \in Keys
      BY <1>15, <1>c DEF CompletePublication
    <2>2. Kept
      <3>1. <<"publication.completed">> \in Seq(EventTypes)
        BY DEF EventTypes
      <3>2. "completed" \in RunStates /\ "approved" \in ReviewOutcomes
        BY DEF RunStates, TerminalRunStates, ReviewOutcomes
      <3>3. QED
        BY <1>15, <2>1, <3>1, <3>2, ChangeType DEF CompletePublication
    <2>3. publication' \in [Runs -> [status : PublicationStatuses, snapshot : Nat]]
      BY <1>15, <2>1, PublicationType DEF CompletePublication, PublicationStatuses
    <2>4. Tasked
      BY <1>15, <2>1, SetTaskType DEF CompletePublication, TaskStatuses
    <2>5. Handled
      BY <1>15, <2>2, HandlersIdle DEF CompletePublication
    <2>6. Recorded /\ Answered
      BY <1>15, <2>1, RecordType, AnswerType DEF CompletePublication
    <2>7. QED
      BY <1>15, <2>2, <2>3, <2>4, <2>5, <2>6 DEF CompletePublication, TypeOK
  <1>16. ASSUME NEW p \in Procs, Crash(p) PROVE TypeOK'
    <2>1. Handled
      BY <1>16, HandlersIdle DEF Crash, database
    <2>2. QED
      BY <1>16, <2>1 DEF Crash, database, TypeOK
  <1>17. ASSUME NEW p \in Procs, NEW r \in Runs, ReadSnapshot(p, r) PROVE TypeOK'
    <2> DEFINE read == [Idle EXCEPT !.pc = "transitioning", !.run = r,
                                    !.version = run[r].version, !.state = run[r].state]
    <2>1. read \in ProcRecord /\ read.pc = "transitioning"
      BY <1>17, <1>a, <1>b DEF ReadSnapshot, Idle, ProcRecord
    <2>2. proc' = [proc EXCEPT ![p] = read] /\ UNCHANGED run
      BY <1>17 DEF ReadSnapshot, database
    <2> HIDE DEF read
    <2>3. Handled
      BY <2>1, <2>2, HandlersStep
    <2>4. QED
      BY <1>17, <2>3 DEF ReadSnapshot, database, TypeOK
  <1>18. ASSUME NEW p \in Procs, TransitionRun(p) PROVE TypeOK'
    <2> DEFINE r == proc[p].run
    <2>1. Kept
      <3>1. <<"run.transitioned">> \in Seq(EventTypes)
        BY DEF EventTypes
      <3>2. r \in Runs \cup {NoRun} /\ proc[p].state \in RunStates
        BY DEF TypeOK, ProcRecord
      <3>3. CASE UNCHANGED <<run, events>>
        BY <3>3 DEF TypeOK
      <3>4. ASSUME NEW next \in LegalTransitions[proc[p].state], r \in Runs,
                   Change(r, next, run[r].outcome, 1, <<"run.transitioned">>, NoKey)
            PROVE  Kept
        BY <1>a, <3>1, <3>2, <3>4, TransitionTargets, ChangeType
      <3>5. ASSUME NEW next, r \notin Runs,
                   Change(r, next, run[r].outcome, 1, <<"run.transitioned">>, NoKey)
            PROVE  UNCHANGED <<run, events>>
        BY <3>5 DEF Change, TypeOK
      <3>6. QED
        BY <1>18, <3>3, <3>4, <3>5 DEF TransitionRun
    <2>2. Handled
      BY <1>18, <2>1, HandlersIdle DEF TransitionRun
    <2>3. QED
      BY <1>18, <2>1, <2>2 DEF TransitionRun, TypeOK
  <1>19. ASSUME NEW r \in Runs, Heartbeat(r) PROVE TypeOK'
    <2>1. Kept
      <3> DEFINE row == [run[r] EXCEPT !.heartbeat = TRUE]
      <3>1. row \in RunRow /\ row.state = run[r].state
        <4>1. run[r] \in RunRow
          BY DEF TypeOK
        <4>2. QED
          BY <4>1 DEF RunRow
      <3>2. run' = [run EXCEPT ![r] = row] /\ UNCHANGED events
        BY <1>19 DEF Heartbeat
      <3> HIDE DEF row
      <3>3. QED
        BY <3>1, <3>2 DEF TypeOK
    <2>2. Handled
      BY <1>19, <2>1, HandlersIdle DEF Heartbeat
    <2>3. QED
      BY <1>19, <2>1, <2>2 DEF Heartbeat, TypeOK
  <1>20. ASSUME NEW S \in SUBSET ActiveRuns, FailStaleRuns(S) PROVE TypeOK'
    <2>1. Kept
      <3> DEFINE failed(q) == [run[q] EXCEPT !.state = "failed", !.version = @ + 1, !.seq = @ + 1]
      <3>1. ASSUME NEW q \in Runs
            PROVE  failed(q) \in RunRow /\ failed(q).state = "failed"
        <4>1. run[q] \in RunRow /\ run[q].version + 1 \in Nat /\ run[q].seq + 1 \in Nat
          BY DEF TypeOK, RunRow
        <4>2. QED
          BY <4>1 DEF RunRow, RunStates, TerminalRunStates
      <3>2. run' = [q \in Runs |-> IF q \in S THEN failed(q) ELSE run[q]]
        BY <1>20 DEF FailStaleRuns
      <3>3. "failed" # "draft" /\ "failed" # Absent
        BY DEF Absent
      <3>4. ASSUME NEW q \in Runs
            PROVE  NewRows(run[q].seq, <<"run.failed">>, NoKey) \in SUBSET EventRow
        <4>1. run[q].seq + 1 \in Nat \ {0}
          BY DEF TypeOK, RunRow
        <4>2. QED
          BY <4>1 DEF NewRows, EventRow, EventTypes
      <3>5. events' \in [Runs -> SUBSET EventRow]
        BY <1>20, <3>4 DEF FailStaleRuns, TypeOK
      <3> HIDE DEF failed
      <3>6. QED
        BY <3>1, <3>2, <3>3, <3>5 DEF TypeOK
    <2>2. Handled
      BY <1>20, <2>1, HandlersIdle DEF FailStaleRuns
    <2>3. QED
      BY <1>20, <2>1, <2>2 DEF FailStaleRuns, TypeOK
  <1>21. ASSUME NEW r \in Runs, NEW x \in Correlations, AppendProviderEvent(r, x)
         PROVE  TypeOK'
    <2>1. Kept
      <3>1. <<"provider.event">> \in Seq(EventTypes)
        BY DEF EventTypes
      <3>2. QED
        BY <1>21, <1>a, <1>b, <3>1, ChangeType DEF AppendProviderEvent
    <2>2. Handled
      BY <1>21, <2>1, HandlersIdle DEF AppendProviderEvent
    <2>3. QED
      BY <1>21, <2>1, <2>2 DEF AppendProviderEvent, TypeOK
  <1>22. QED
    BY <1>1, <1>2, <1>3, <1>4, <1>5, <1>6, <1>7, <1>8, <1>9, <1>10, <1>11, <1>12, <1>13,
       <1>14, <1>15, <1>16, <1>17, <1>18, <1>19, <1>20, <1>21
    DEF Next, ClientStep, ProcStep

\* The initial tables are typed.
LEMMA TypeInit == Init => TypeOK
  <1> SUFFICES ASSUME Init PROVE TypeOK
    OBVIOUS
  <1>1. AbsentRun \in RunRow /\ AbsentRun.state # "draft"
    BY DEF AbsentRun, RunRow, ReviewOutcomes, Absent
  <1>2. NoReview \in [decision : Decisions, snapshot : Nat]
        /\ NoPublication \in [status : PublicationStatuses, snapshot : Nat]
    BY DEF NoReview, Decisions, NoPublication, PublicationStatuses
  <1>3. NoClaim \in [status : {Absent, "pending", "completed"},
                     hash : (Runs \cup {NoRun}) \X Args \X Nat]
    BY DEF NoClaim, Args
  <1>4. /\ run \in [Runs -> RunRow] /\ \A r \in Runs : run[r].state # "draft"
        /\ events \in [Runs -> SUBSET EventRow]
        /\ tasks \in [Tasks -> [status : TaskStatuses, secret : BOOLEAN]]
        /\ approvals \in [Runs -> [Keys -> ApprovalStatuses]]
    BY <1>1 DEF Init, TaskStatuses, ApprovalStatuses
  <1>5. proc \in [Procs -> ProcRecord] /\ \A p \in Procs : proc[p].pc = "idle"
    BY IdleType DEF Init, Idle
  <1>6. QED
    BY <1>2, <1>3, <1>4, <1>5 DEF Init, TypeOK

\* Type correctness: every table always holds rows of its schema, no run is a
\* draft, and a handler between two transactions serves a run that exists.
THEOREM TypeCorrect == Spec => []TypeOK
  <1>1. QED
    BY TypeInit, TypeStep, PTL DEF Spec

-----------------------------------------------------------------------------
(* The safety theorems: the active-run limit, the dense event log, what a   *)
(* version stands for, and that an ended run stays ended.                   *)
(*                                                                          *)
(* The limit is not inductive by itself: a worker applies a transition it   *)
(* chose from a state it read earlier, and only VersionIdentifiesState says *)
(* that the transition is not applied to a run that has ended since.        *)

\* The invariant that is preserved by every step.
IInv == TypeOK /\ VersionIdentifiesState /\ ActiveRunLimitHolds /\ EventLogDense

\* What an UPDATE may do to the row of a run: the version never falls, and a
\* change of state raises it, never revives an ended run, and never makes an
\* inactive run active.
KeptRow(r) ==
  /\ run[r].version <= run'[r].version
  /\ \/ run'[r].state = run[r].state
     \/ /\ run[r].version < run'[r].version
        /\ run[r].state # Absent /\ run'[r].state # Absent
        /\ run[r].state \in TerminalRunStates => run'[r].state \in TerminalRunStates
        /\ run'[r].state \in ActiveRunStates => run[r].state \in ActiveRunStates

\* What an INSERT does to all of them.
Inserted(r) ==
  /\ run[r].state = Absent /\ run'[r].state = "queued"
  /\ run[r].version \in Nat
  /\ \A q \in Runs \ {r} : run'[q] = run[q]
  /\ Admitted(Cardinality(ActiveRuns), ActiveRunLimit)
  /\ UNCHANGED proc

\* The state that a command writes, against the one it found.
Judged(old, new, bump) ==
  \/ new = old
  \/ /\ bump \in Nat \ {0}
     /\ old \in TerminalRunStates => new \in TerminalRunStates
     /\ new \in ActiveRunStates => old \in ActiveRunStates

LEMMA VersionsAreNatural ==
  ASSUME TypeOK, NEW r \in Runs
  PROVE  /\ run[r].version \in Nat /\ run[r].seq \in Nat
         /\ run[r].state \in RunStates \cup {Absent} /\ run[r].state # "draft"
  BY DEF TypeOK, RunRow

LEMMA AbsentIsNoState == Absent \notin RunStates
  BY DEF Absent, RunStates, ActiveRunStates, TerminalRunStates

LEMMA ChangeRow ==
  ASSUME TypeOK, NEW r, Exists(r), NEW state \in RunStates, NEW outcome, NEW bump \in Nat,
         NEW types, NEW ref, Change(r, state, outcome, bump, types, ref),
         Judged(run[r].state, state, bump)
  PROVE  \A q \in Runs : KeptRow(q)
  <1>1. r \in Runs /\ run[r].state # Absent /\ run[r].version \in Nat
    BY VersionsAreNatural DEF Exists
  <1>2. /\ run'[r].state = state /\ run'[r].version = run[r].version + bump
        /\ \A q \in Runs \ {r} : run'[q] = run[q]
    BY <1>1 DEF Change, TypeOK
  <1>3. KeptRow(r)
    BY <1>1, <1>2, AbsentIsNoState DEF KeptRow, Judged
  <1>4. QED
    BY <1>2, <1>3, VersionsAreNatural DEF KeptRow

LEMMA InsertRow ==
  ASSUME TypeOK, NEW r \in Runs, NEW task, NEW iteration, NEW key,
         InsertRun(r, task, iteration, key),
         Admitted(Cardinality(ActiveRuns), ActiveRunLimit), UNCHANGED proc
  PROVE  Inserted(r)
  BY VersionsAreNatural DEF InsertRun, Inserted, TypeOK, AbsentRun

\* Every step of a command that is one transaction keeps the rows or inserts one.
LEMMA CommandRows ==
  ASSUME TypeOK, NEW c \in Commands, ClientStep(c)
  PROVE  (\A r \in Runs : KeptRow(r)) \/ (\E r \in Runs : Inserted(r))
  <1> USE DEF Judged, RunStates, ActiveRunStates, TerminalRunStates
  <1>1. CASE StartRun(c)
    BY <1>1, InsertRow DEF StartRun, Allowed
  <1>2. CASE CreateNextIteration(c)
    BY <1>2, InsertRow DEF CreateNextIteration, Allowed, Iterable
  <1>3. CASE PrepareEvidence(c)
    <2>1. run[c.run].state \in ActiveRunStates
      BY <1>3 DEF PrepareEvidence, Allowed, CompletableStates
    <2>2. QED
      BY <1>3, <2>1, ChangeRow DEF PrepareEvidence
  <1>4. CASE ResolveReview(c)
    <2>1. run[c.run].state = "awaiting_review"
      BY <1>4 DEF ResolveReview, Allowed, Reviewable
    <2>2. QED
      BY <1>4, <2>1, ChangeRow DEF ResolveReview
  <1>5. CASE ReplayCommand(c) \/ RefuseCommand(c) \/ ReusePublication(c) \/ AnswerPublication(c)
    <2>1. UNCHANGED run
      BY <1>5 DEF ReplayCommand, RefuseCommand, ReusePublication, AnswerPublication, database
    <2>2. QED
      BY <2>1, VersionsAreNatural DEF KeptRow
  <1>6. QED
    BY <1>1, <1>2, <1>3, <1>4, <1>5 DEF ClientStep

\* A handler or a worker keeps the rows, whatever it read before.
LEMMA HandlerRows ==
  ASSUME TypeOK, VersionIdentifiesState, NEW p \in Procs, ProcStep(p)
  PROVE  \A r \in Runs : KeptRow(r)
  <1>1. CASE UNCHANGED run
    BY <1>1, VersionsAreNatural DEF KeptRow
  <1>2. CASE CommitCancel(p)
    <2>1. Exists(proc[p].cmd.run)
      BY <1>2 DEF CommitCancel, Controlling, TypeOK
    <2>2. Judged(run[proc[p].cmd.run].state, "cancelled", 2) /\ "cancelled" \in RunStates
      BY DEF Judged, RunStates, ActiveRunStates, TerminalRunStates
    <2>3. QED
      BY <1>2, <2>1, <2>2, ChangeRow DEF CommitCancel
  <1>3. CASE CommitInstruction(p) \/ FailPublication(p)
    <2>1. Exists(proc[p].cmd.run)
      BY <1>3 DEF CommitInstruction, FailPublication, Controlling, TypeOK
    <2>2. run[proc[p].cmd.run].state \in RunStates
      BY <2>1, VersionsAreNatural DEF Exists
    <2>3. QED
      BY <1>3, <2>1, <2>2, ChangeRow DEF CommitInstruction, FailPublication, Judged
  <1>4. ASSUME NEW c \in Commands, BeginPublication(p, c) PROVE \A r \in Runs : KeptRow(r)
    <2>1. CASE run[c.run].state = "awaiting_review"
      <3>1. Judged("awaiting_review", "publishing", 1) /\ "publishing" \in RunStates
        BY DEF Judged, RunStates, ActiveRunStates, TerminalRunStates
      <3>2. QED
        BY <1>4, <2>1, <3>1, ChangeRow DEF BeginPublication
    <2>2. CASE run[c.run].state # "awaiting_review"
      BY <1>1, <1>4, <2>2 DEF BeginPublication
    <2>3. QED
      BY <2>1, <2>2
  <1>5. CASE CompletePublication(p)
    <2>1. Exists(proc[p].cmd.run)
      BY <1>5 DEF CompletePublication, TypeOK
    <2>2. Judged(run[proc[p].cmd.run].state, "completed", 1) /\ "completed" \in RunStates
      BY DEF Judged, RunStates, ActiveRunStates, TerminalRunStates
    <2>3. QED
      BY <1>5, <2>1, <2>2, ChangeRow DEF CompletePublication
  <1>6. CASE TransitionRun(p)
    <2> DEFINE r == proc[p].run
    <2>1. CASE run[r].version = proc[p].version
      <3>1. PICK next \in LegalTransitions[proc[p].state] :
              Change(r, next, run[r].outcome, 1, <<"run.transitioned">>, NoKey)
        BY <1>6, <2>1 DEF TransitionRun
      <3>2. Exists(r) /\ run[r].state = proc[p].state
        BY <1>6, <2>1 DEF TransitionRun, VersionIdentifiesState
      <3>3. run[r].state \in RunStates /\ run[r].state # "draft"
        BY <3>2, VersionsAreNatural DEF Exists
      <3>4. Judged(run[r].state, next, 1) /\ next \in RunStates
        BY <3>2, <3>3, TransitionTargets DEF Judged
      <3>5. QED
        BY <3>1, <3>2, <3>4, ChangeRow
    <2>2. CASE run[r].version # proc[p].version
      BY <1>1, <1>6, <2>2 DEF TransitionRun
    <2>3. QED
      BY <2>1, <2>2
  <1>7. QED
    BY <1>1, <1>2, <1>3, <1>4, <1>5, <1>6
    DEF ProcStep, ReadForControl, FinishControl, ReadSnapshot, Crash, database

\* So does every step outside the commands and the handlers.
LEMMA MaintenanceRows ==
  ASSUME TypeOK,
         \/ \E r \in Runs, k \in Keys, d \in {"approved", "rejected"} : ResolveApproval(r, k, d)
         \/ \E r \in Runs : Heartbeat(r)
         \/ \E S \in SUBSET ActiveRuns : FailStaleRuns(S)
         \/ \E r \in Runs, x \in Correlations : AppendProviderEvent(r, x)
  PROVE  \A r \in Runs : KeptRow(r)
  <1>1. ASSUME NEW r \in Runs, NEW k \in Keys, NEW d, ResolveApproval(r, k, d)
        PROVE  \A q \in Runs : KeptRow(q)
    <2>1. Exists(r) /\ run[r].state \in RunStates /\ "running" \in RunStates
      BY <1>1, VersionsAreNatural DEF ResolveApproval, Exists, RunStates, ActiveRunStates
    <2>2. Judged("awaiting_approval", "running", 1)
      BY DEF Judged, ActiveRunStates, TerminalRunStates
    <2>3. QED
      BY <1>1, <2>1, <2>2, ChangeRow DEF ResolveApproval, Judged
  <1>2. ASSUME NEW r \in Runs, Heartbeat(r) PROVE \A q \in Runs : KeptRow(q)
    <2>1. \A q \in Runs : run'[q].state = run[q].state /\ run'[q].version = run[q].version
      BY <1>2 DEF Heartbeat, TypeOK
    <2>2. QED
      BY <2>1, VersionsAreNatural DEF KeptRow
  <1>3. ASSUME NEW S \in SUBSET ActiveRuns, FailStaleRuns(S) PROVE \A q \in Runs : KeptRow(q)
    <2>1. ASSUME NEW q \in Runs, q \in S PROVE KeptRow(q)
      <3>1. run'[q] = [run[q] EXCEPT !.state = "failed", !.version = @ + 1, !.seq = @ + 1]
        BY <1>3, <2>1 DEF FailStaleRuns
      <3>2. run[q] \in RunRow
        BY DEF TypeOK
      <3>3. run'[q].state = "failed" /\ run'[q].version = run[q].version + 1
        BY <3>1, <3>2 DEF RunRow
      <3>4. run[q].state \in ActiveRunStates /\ run[q].state # Absent
        BY <2>1 DEF ActiveRuns, ActiveRunStates, Absent
      <3>5. QED
        BY <3>3, <3>4, VersionsAreNatural DEF KeptRow, TerminalRunStates, Absent
    <2>2. ASSUME NEW q \in Runs, q \notin S PROVE KeptRow(q)
      <3>1. run'[q] = run[q]
        BY <1>3, <2>2 DEF FailStaleRuns
      <3>2. QED
        BY <3>1, VersionsAreNatural DEF KeptRow
    <2>3. QED
      BY <2>1, <2>2
  <1>4. ASSUME NEW r \in Runs, NEW x \in Correlations, AppendProviderEvent(r, x)
        PROVE  \A q \in Runs : KeptRow(q)
    <2>1. Exists(r) /\ run[r].state \in RunStates
      BY <1>4, VersionsAreNatural DEF AppendProviderEvent, Exists
    <2>2. QED
      BY <1>4, <2>1, ChangeRow DEF AppendProviderEvent, Judged
  <1>5. QED
    BY <1>1, <1>2, <1>3, <1>4

\* Every step keeps the rows or inserts one.
LEMMA StepRows ==
  ASSUME TypeOK, VersionIdentifiesState, [Next]_vars
  PROVE  (\A r \in Runs : KeptRow(r)) \/ (\E r \in Runs : Inserted(r))
  <1>1. CASE UNCHANGED vars
    BY <1>1, VersionsAreNatural DEF vars, KeptRow
  <1>2. CASE Next
    BY <1>2, CommandRows, HandlerRows, MaintenanceRows DEF Next
  <1>3. QED
    BY <1>1, <1>2

-----------------------------------------------------------------------------
(* Versions.                                                                *)

\* Only ReadSnapshot makes a handler hold a version, and it is the current one.
LEMMA HeldVersion ==
  ASSUME TypeOK, [Next]_vars, NEW p \in Procs, proc'[p].pc = "transitioning"
  PROVE  \/ proc'[p] = proc[p]
         \/ /\ UNCHANGED run /\ Exists(proc'[p].run)
            /\ proc'[p].version = run[proc'[p].run].version
            /\ proc'[p].state = run[proc'[p].run].state
  <1>1. CASE UNCHANGED proc
    BY <1>1
  <1>2. ASSUME NEW q \in Procs, proc' = [proc EXCEPT ![q] = Idle] PROVE proc'[p] = proc[p]
    BY <1>2 DEF TypeOK, Idle
  <1>3. ASSUME NEW q \in Procs, NEW c, NEW pc \in {"controlling", "publishing"},
               proc' = [proc EXCEPT ![q] = [Idle EXCEPT !.pc = pc, !.cmd = c]]
        PROVE  proc'[p] = proc[p]
    BY <1>3 DEF TypeOK, Idle
  <1>4. ASSUME NEW q \in Procs, NEW r \in Runs, ReadSnapshot(q, r), proc'[p] # proc[p]
        PROVE  /\ UNCHANGED run /\ Exists(proc'[p].run)
               /\ proc'[p].version = run[proc'[p].run].version
               /\ proc'[p].state = run[proc'[p].run].state
    <2> DEFINE read == [Idle EXCEPT !.pc = "transitioning", !.run = r,
                                    !.version = run[r].version, !.state = run[r].state]
    <2>1. read.run = r /\ read.version = run[r].version /\ read.state = run[r].state
      BY DEF Idle
    <2>2. proc' = [proc EXCEPT ![q] = read] /\ UNCHANGED run /\ Exists(r)
      BY <1>4 DEF ReadSnapshot, database
    <2> HIDE DEF read
    <2>3. proc'[p] = read
      BY <1>4, <2>2 DEF TypeOK
    <2>4. QED
      BY <2>1, <2>2, <2>3
  <1>5. ASSUME NEW c \in Commands, ClientStep(c) PROVE UNCHANGED proc
    BY <1>5 DEF ClientStep, StartRun, PrepareEvidence, ResolveReview, CreateNextIteration,
                ReplayCommand, RefuseCommand, ReusePublication, AnswerPublication
  <1>6. ASSUME NEW q \in Procs, ProcStep(q)
        PROVE  \/ UNCHANGED proc
               \/ proc' = [proc EXCEPT ![q] = Idle]
               \/ \E c \in Commands :
                    proc' = [proc EXCEPT ![q] = [Idle EXCEPT !.pc = "controlling", !.cmd = c]]
               \/ \E c \in Commands :
                    proc' = [proc EXCEPT ![q] = [Idle EXCEPT !.pc = "publishing", !.cmd = c]]
               \/ \E r \in Runs : ReadSnapshot(q, r)
    <2>1. CASE \/ CommitCancel(q) \/ CommitInstruction(q) \/ FinishControl(q)
               \/ FailPublication(q) \/ CompletePublication(q) \/ TransitionRun(q) \/ Crash(q)
      BY <2>1 DEF CommitCancel, CommitInstruction, FinishControl, FailPublication,
                  CompletePublication, TransitionRun, Crash
    <2>2. ASSUME NEW c \in Commands, ReadForControl(q, c)
          PROVE  \/ UNCHANGED proc
                 \/ proc' = [proc EXCEPT ![q] = [Idle EXCEPT !.pc = "controlling", !.cmd = c]]
      BY <2>2 DEF ReadForControl
    <2>3. ASSUME NEW c \in Commands, BeginPublication(q, c)
          PROVE  proc' = [proc EXCEPT ![q] = [Idle EXCEPT !.pc = "publishing", !.cmd = c]]
      BY <2>3 DEF BeginPublication
    <2>4. QED
      BY <1>6, <2>1, <2>2, <2>3 DEF ProcStep
  <1>7. QED
    BY <1>1, <1>2, <1>3, <1>4, <1>5, <1>6
    DEF Next, vars, ResolveApproval, Heartbeat, FailStaleRuns, AppendProviderEvent

\* A held version keeps identifying the state it was read with.
LEMMA VersionStep ==
  ASSUME TypeOK, TypeOK', VersionIdentifiesState, [Next]_vars
  PROVE  VersionIdentifiesState'
  <1> SUFFICES ASSUME NEW p \in Procs, proc'[p].pc = "transitioning"
               PROVE  LET r == proc'[p].run IN
                        /\ r \in Runs /\ run'[r].state # Absent
                        /\ proc'[p].version <= run'[r].version
                        /\ proc'[p].version = run'[r].version => proc'[p].state = run'[r].state
    BY DEF VersionIdentifiesState, Exists
  <1> DEFINE r == proc'[p].run
  <1>1. CASE proc'[p] # proc[p]
    BY <1>1, HeldVersion, VersionsAreNatural DEF Exists
  <1>2. CASE proc'[p] = proc[p]
    <2>1. /\ r \in Runs /\ run[r].state # Absent
          /\ proc[p].version <= run[r].version
          /\ proc[p].version = run[r].version => proc[p].state = run[r].state
      BY <1>2 DEF VersionIdentifiesState, Exists
    <2>2. run'[r] = run[r] \/ KeptRow(r)
      BY <2>1, StepRows DEF Inserted
    <2>3. proc[p].version \in Nat /\ run[r].version \in Nat /\ run'[r].version \in Nat
      BY <2>1 DEF TypeOK, ProcRecord, RunRow
    <2>4. QED
      BY <1>2, <2>1, <2>2, <2>3 DEF KeptRow
  <1>3. QED
    BY <1>1, <1>2

-----------------------------------------------------------------------------
(* The limit.                                                               *)

\* Rows that are kept activate no run; a row that is inserted was admitted.
LEMMA LimitStep ==
  ASSUME TypeOK, VersionIdentifiesState, ActiveRunLimitHolds, [Next]_vars
  PROVE  ActiveRunLimitHolds'
  <1>1. IsFiniteSet(ActiveRuns) /\ Cardinality(ActiveRuns) \in Nat /\ ActiveRunLimit \in Nat
    <2>1. ActiveRuns \in SUBSET Runs
      BY DEF ActiveRuns
    <2>2. QED
      BY <2>1, FiniteIdentities, LimitPositive, FS_Subset, FS_CardinalityType
  <1>2. CASE \A r \in Runs : KeptRow(r)
    <2>1. ActiveRuns' \in SUBSET ActiveRuns
      BY <1>2 DEF KeptRow, ActiveRuns
    <2>2. Cardinality(ActiveRuns') <= Cardinality(ActiveRuns) /\ IsFiniteSet(ActiveRuns')
      BY <1>1, <2>1, FS_Subset
    <2>3. Cardinality(ActiveRuns') \in Nat
      BY <2>2, FS_CardinalityType
    <2>4. QED
      BY <1>1, <2>2, <2>3 DEF ActiveRunLimitHolds
  <1>3. ASSUME NEW r \in Runs, Inserted(r) PROVE ActiveRunLimitHolds'
    <2>1. ActiveRuns' = ActiveRuns \cup {r} /\ r \notin ActiveRuns
      BY <1>3 DEF Inserted, ActiveRuns, ActiveRunStates, Absent
    <2>2. Cardinality(ActiveRuns') = Cardinality(ActiveRuns) + 1
      BY <1>1, <2>1, FS_AddElement
    <2>3. QED
      BY <1>1, <1>3, <2>2 DEF Inserted, Admitted, ActiveRunLimitHolds
  <1>4. QED
    BY <1>2, <1>3, StepRows

-----------------------------------------------------------------------------
(* The event log.                                                           *)

\* The log of a run whose rows are numbered 1..n.
Dense(rows, n) ==
  /\ {e.sequence : e \in rows} = 1..n
  /\ \A e, f \in rows : e.sequence = f.sequence => e = f

\* Rows numbered from n + 1 on extend a dense log.
LEMMA DenseAppend ==
  ASSUME NEW rows, NEW n \in Nat, Dense(rows, n), NEW types \in Seq(EventTypes), NEW ref
  PROVE  Dense(rows \cup NewRows(n, types, ref), n + Len(types))
  <1> DEFINE new == NewRows(n, types, ref)
             m == Len(types)
             row(i) == [sequence |-> n + i, type |-> types[i], ref |-> ref]
  <1>a. m \in Nat /\ new = {row(i) : i \in 1..m} /\ \A i \in 1..m : row(i).sequence = n + i
    BY DEF NewRows
  <1> HIDE DEF new, m, row
  <1>1. \A e \in rows : e.sequence \in 1..n
    BY DEF Dense
  <1>2. \A e \in new : \E i \in 1..m : e = row(i) /\ e.sequence = n + i
    BY <1>a
  <1>3. \A k \in 1..(n + m) : \E e \in rows \cup new : e.sequence = k
    <2> TAKE k \in 1..(n + m)
    <2>1. CASE k <= n
      <3>1. k \in {e.sequence : e \in rows}
        <4>1. k \in 1..n
          BY <1>a, <2>1
        <4>2. {e.sequence : e \in rows} = 1..n
          BY DEF Dense
        <4>3. QED
          BY <4>1, <4>2
      <3>2. QED
        BY <3>1
    <2>2. CASE k > n
      <3>1. k - n \in 1..m
        BY <1>a, <2>2
      <3>2. row(k - n) \in new /\ row(k - n).sequence = k
        BY <1>a, <3>1
      <3>3. QED
        BY <3>1, <3>2
    <2>3. QED
      BY <2>1, <2>2
  <1>4. \A e \in rows \cup new : e.sequence \in 1..(n + m)
    BY <1>a, <1>1, <1>2
  <1>5. \A e, f \in rows \cup new : e.sequence = f.sequence => e = f
    <2> TAKE e, f \in rows \cup new
    <2>1. CASE e \in rows /\ f \in rows
      BY <2>1 DEF Dense
    <2>2. CASE e \in new /\ f \in new
      BY <1>2, <2>2
    <2>3. CASE (e \in rows /\ f \in new) \/ (e \in new /\ f \in rows)
      BY <1>1, <1>2, <2>3
    <2>4. QED
      BY <2>1, <2>2, <2>3
  <1>6. Dense(rows \cup new, n + m)
    BY <1>3, <1>4, <1>5 DEF Dense
  <1>7. QED
    BY <1>6 DEF new, m

\* What a step may do to the log of a run: nothing, append under the next
\* numbers, or open it with one event.
Logged(r) ==
  \/ run'[r].seq = run[r].seq /\ events'[r] = events[r]
  \/ \E types \in Seq(EventTypes) : \E ref :
       /\ run'[r].seq = run[r].seq + Len(types)
       /\ events'[r] = events[r] \cup NewRows(run[r].seq, types, ref)
  \/ \E types \in Seq(EventTypes) : \E ref :
       run'[r].seq = Len(types) /\ events'[r] = NewRows(0, types, ref)

LEMMA ChangeLogs ==
  ASSUME TypeOK, NEW r \in Runs, NEW state, NEW outcome, NEW bump, NEW types \in Seq(EventTypes),
         NEW ref, Change(r, state, outcome, bump, types, ref)
  PROVE  \A q \in Runs : Logged(q)
  <1>1. /\ run'[r].seq = run[r].seq + Len(types)
        /\ events'[r] = events[r] \cup NewRows(run[r].seq, types, ref)
    BY DEF Change, TypeOK
  <1>2. Logged(r)
    BY <1>1 DEF Logged
  <1>3. \A q \in Runs \ {r} : run'[q] = run[q] /\ events'[q] = events[q]
    BY DEF Change, TypeOK
  <1>4. QED
    BY <1>2, <1>3 DEF Logged

LEMMA InsertLogs ==
  ASSUME TypeOK, NEW r \in Runs, NEW task, NEW iteration, NEW key,
         InsertRun(r, task, iteration, key)
  PROVE  \A q \in Runs : Logged(q)
  <1>1. run'[r].seq = 1 /\ events'[r] = NewRows(0, <<"run.created">>, key)
    BY DEF InsertRun, TypeOK, AbsentRun
  <1>2. <<"run.created">> \in Seq(EventTypes) /\ Len(<<"run.created">>) = 1
    BY DEF EventTypes
  <1>3. Logged(r)
    BY <1>1, <1>2 DEF Logged
  <1>4. \A q \in Runs \ {r} : run'[q] = run[q] /\ events'[q] = events[q]
    BY DEF InsertRun, TypeOK
  <1>5. QED
    BY <1>3, <1>4 DEF Logged

\* Every step logs that way.
LEMMA StepLogs ==
  ASSUME TypeOK, [Next]_vars
  PROVE  \A r \in Runs : Logged(r)
  <1>a. \A r : Exists(r) => r \in Runs
    BY DEF Exists
  <1>b. \A p \in Procs : proc[p].pc \in {"controlling", "publishing"} => proc[p].cmd.run \in Runs
    BY <1>a DEF TypeOK
  <1>c. /\ <<"run.started", "validation.started", "validation.completed", "review.ready">>
             \in Seq(EventTypes)
        /\ <<"review.resolved">> \in Seq(EventTypes)
    BY DEF EventTypes
  <1>d. /\ <<"run.cancel.requested", "run.cancelled">> \in Seq(EventTypes)
        /\ <<"run.instruction.added", "approval.requested">> \in Seq(EventTypes)
        /\ <<"run.instruction.added">> \in Seq(EventTypes)
        /\ <<"approval.resolved">> \in Seq(EventTypes)
    BY DEF EventTypes
  <1>e. /\ <<"publication.started">> \in Seq(EventTypes)
        /\ <<"publication.failed">> \in Seq(EventTypes)
        /\ <<"publication.completed">> \in Seq(EventTypes)
        /\ <<"run.transitioned">> \in Seq(EventTypes)
        /\ <<"provider.event">> \in Seq(EventTypes)
    BY DEF EventTypes
  <1>1. CASE UNCHANGED <<run, events>>
    BY <1>1 DEF Logged
  <1>2. ASSUME NEW c \in Commands, ClientStep(c) PROVE \A r \in Runs : Logged(r)
    <2>1. CASE StartRun(c)
      BY <2>1, InsertLogs DEF StartRun
    <2>2. CASE PrepareEvidence(c)
      BY <2>2, <1>a, <1>c, ChangeLogs DEF PrepareEvidence
    <2>3. CASE ResolveReview(c)
      BY <2>3, <1>a, <1>c, ChangeLogs DEF ResolveReview
    <2>4. CASE CreateNextIteration(c)
      BY <2>4, InsertLogs DEF CreateNextIteration
    <2>5. QED
      BY <1>1, <1>2, <2>1, <2>2, <2>3, <2>4
      DEF ClientStep, ReplayCommand, RefuseCommand, ReusePublication, AnswerPublication, database
  <1>3. ASSUME NEW p \in Procs, ProcStep(p) PROVE \A r \in Runs : Logged(r)
    <2>1. CASE CommitCancel(p)
      BY <2>1, <1>b, <1>d, ChangeLogs DEF CommitCancel, Controlling
    <2>2. CASE CommitInstruction(p)
      BY <2>2, <1>b, <1>d, ChangeLogs DEF CommitInstruction, Controlling
    <2>3. ASSUME NEW c \in Commands, BeginPublication(p, c) PROVE \A r \in Runs : Logged(r)
      BY <1>1, <2>3, <1>a, <1>e, ChangeLogs DEF BeginPublication
    <2>4. CASE FailPublication(p)
      BY <2>4, <1>b, <1>e, ChangeLogs DEF FailPublication
    <2>5. CASE CompletePublication(p)
      BY <2>5, <1>b, <1>e, ChangeLogs DEF CompletePublication
    <2>6. CASE TransitionRun(p)
      <3>1. CASE proc[p].run \in Runs
        BY <1>1, <2>6, <3>1, <1>e, ChangeLogs DEF TransitionRun
      <3>2. CASE proc[p].run \notin Runs
        <4>1. ASSUME NEW next,
                     Change(proc[p].run, next, run[proc[p].run].outcome, 1,
                            <<"run.transitioned">>, NoKey)
              PROVE  UNCHANGED <<run, events>>
          BY <3>2, <4>1 DEF Change, TypeOK
        <4>2. QED
          BY <1>1, <2>6, <4>1 DEF TransitionRun
      <3>3. QED
        BY <3>1, <3>2
    <2>7. QED
      BY <1>1, <1>3, <2>1, <2>2, <2>3, <2>4, <2>5, <2>6
      DEF ProcStep, ReadForControl, FinishControl, ReadSnapshot, Crash, database
  <1>4. ASSUME NEW r \in Runs, NEW k, NEW d, ResolveApproval(r, k, d)
        PROVE  \A q \in Runs : Logged(q)
    BY <1>4, <1>d, ChangeLogs DEF ResolveApproval
  <1>5. ASSUME NEW r \in Runs, Heartbeat(r) PROVE \A q \in Runs : Logged(q)
    BY <1>5 DEF Heartbeat, TypeOK, Logged
  <1>6. ASSUME NEW S \in SUBSET ActiveRuns, FailStaleRuns(S) PROVE \A q \in Runs : Logged(q)
    <2> TAKE q \in Runs
    <2>1. CASE q \notin S
      BY <1>6, <2>1 DEF FailStaleRuns, Logged
    <2>2. CASE q \in S
      <3>1. /\ run'[q] = [run[q] EXCEPT !.state = "failed", !.version = @ + 1, !.seq = @ + 1]
            /\ events'[q] = events[q] \cup NewRows(run[q].seq, <<"run.failed">>, NoKey)
        BY <1>6, <2>2 DEF FailStaleRuns
      <3>2. run'[q].seq = run[q].seq + 1
        <4>1. run[q] \in RunRow
          BY DEF TypeOK
        <4>2. QED
          BY <3>1, <4>1 DEF RunRow
      <3>3. <<"run.failed">> \in Seq(EventTypes) /\ Len(<<"run.failed">>) = 1
        BY DEF EventTypes
      <3>4. QED
        BY <3>1, <3>2, <3>3 DEF Logged
    <2>3. QED
      BY <2>1, <2>2
  <1>7. ASSUME NEW r \in Runs, NEW x, AppendProviderEvent(r, x) PROVE \A q \in Runs : Logged(q)
    BY <1>7, <1>e, ChangeLogs DEF AppendProviderEvent
  <1>8. QED
    BY <1>1, <1>2, <1>3, <1>4, <1>5, <1>6, <1>7 DEF Next, vars

\* A log that is changed that way stays dense.
LEMMA DenseStep ==
  ASSUME TypeOK, EventLogDense, [Next]_vars
  PROVE  EventLogDense'
  <1> SUFFICES ASSUME NEW r \in Runs PROVE Dense(events'[r], run'[r].seq)
    BY DEF EventLogDense, Dense
  <1>1. Dense(events[r], run[r].seq) /\ run[r].seq \in Nat
    BY VersionsAreNatural DEF EventLogDense, Dense
  <1>2. Dense({}, 0)
    BY DEF Dense
  <1>3. CASE run'[r].seq = run[r].seq /\ events'[r] = events[r]
    BY <1>1, <1>3
  <1>4. ASSUME NEW types \in Seq(EventTypes), NEW ref,
               run'[r].seq = run[r].seq + Len(types),
               events'[r] = events[r] \cup NewRows(run[r].seq, types, ref)
        PROVE  Dense(events'[r], run'[r].seq)
    BY <1>1, <1>4, DenseAppend
  <1>5. ASSUME NEW types \in Seq(EventTypes), NEW ref,
               run'[r].seq = Len(types), events'[r] = NewRows(0, types, ref)
        PROVE  Dense(events'[r], run'[r].seq)
    <2>1. Dense({} \cup NewRows(0, types, ref), 0 + Len(types))
      BY <1>2, DenseAppend
    <2>2. {} \cup NewRows(0, types, ref) = NewRows(0, types, ref) /\ 0 + Len(types) = Len(types)
      OBVIOUS
    <2>3. QED
      BY <1>5, <2>1, <2>2
  <1>6. QED
    BY <1>3, <1>4, <1>5, StepLogs DEF Logged

-----------------------------------------------------------------------------
(* The theorems.                                                            *)

LEMMA IInvInit == Init => IInv
  <1> SUFFICES ASSUME Init PROVE IInv
    OBVIOUS
  <1>1. TypeOK
    BY TypeInit
  <1>2. VersionIdentifiesState
    BY DEF Init, VersionIdentifiesState, Idle
  <1>3. ActiveRunLimitHolds
    <2>1. ActiveRuns = {}
      BY DEF Init, ActiveRuns, AbsentRun, ActiveRunStates, Absent
    <2>2. QED
      BY <2>1, LimitPositive, FS_EmptySet DEF ActiveRunLimitHolds
  <1>4. EventLogDense
    BY DEF Init, EventLogDense, AbsentRun
  <1>5. QED
    BY <1>1, <1>2, <1>3, <1>4 DEF IInv

LEMMA IInvStep == IInv /\ [Next]_vars => IInv'
  BY TypeStep, VersionStep, LimitStep, DenseStep DEF IInv

LEMMA Invariance == Spec => []IInv
  BY IInvInit, IInvStep, PTL DEF Spec

\* The workspace never has more active runs than its limit, whatever starts,
\* iterations, transitions, late cancellations and publications interleave.
THEOREM LimitNeverExceeded == Spec => []ActiveRunLimitHolds
  <1>1. IInv => ActiveRunLimitHolds
    BY DEF IInv
  <1>2. QED
    BY <1>1, Invariance, PTL

\* The events of a run are numbered 1..event_sequence, each number once.
THEOREM DenseLog == Spec => []EventLogDense
  <1>1. IInv => EventLogDense
    BY DEF IInv
  <1>2. QED
    BY <1>1, Invariance, PTL

\* A worker whose version is still the version of the row read its state.
THEOREM VersionIsState == Spec => []VersionIdentifiesState
  <1>1. IInv => VersionIdentifiesState
    BY DEF IInv
  <1>2. QED
    BY <1>1, Invariance, PTL

\* A run that has ended never becomes active again.
THEOREM EndedForEver == Spec => EndedStaysEnded
  <1>1. IInv /\ [Next]_vars =>
          [\A r \in Runs : run[r].state \in TerminalRunStates =>
             run'[r].state \in TerminalRunStates]_vars
    <2> SUFFICES ASSUME IInv, [Next]_vars, NEW r \in Runs, run[r].state \in TerminalRunStates
                 PROVE  run'[r].state \in TerminalRunStates
      OBVIOUS
    <2>1. KeptRow(r) \/ run'[r] = run[r]
      BY StepRows DEF IInv, Inserted, TerminalRunStates, Absent
    <2>2. QED
      BY <2>1 DEF KeptRow
  <1>2. QED
    BY <1>1, Invariance, PTL DEF Spec, EndedStaysEnded

-----------------------------------------------------------------------------
(* What a review decides: a decision is final, nothing else is published than  *)
(* what was approved, a run is repeated only after a rejection, and a command  *)
(* is recorded once.  All of it rests on where a run can be once it has been   *)
(* reviewed: under review, in publication or ended, and never back where its   *)
(* evidence is prepared.                                                       *)

ReviewedStates == {"awaiting_review", "publishing"} \cup TerminalRunStates

\* A run has a task that was started with it.
RunsStarted ==
  \A r \in Runs : Exists(r) =>
    /\ run[r].task \in Tasks /\ tasks[run[r].task].status # Absent
    /\ run[r].iteration \in Nat \ {0}

\* A decision stands for the change set of a run that stays reviewed, and a
\* rejected outcome for a rejecting decision.
ReviewsSettled ==
  \A r \in Runs :
    /\ review[r] # NoReview => /\ run[r].state \in ReviewedStates
                               /\ review[r].snapshot = changeSet[r]
    /\ run[r].outcome = "rejected" => review[r].decision = "rejected"

\* A handler that waits for the source provider has recorded its intent.
PublicationsIntended ==
  \A p \in Procs : proc[p].pc = "publishing" => publication[proc[p].cmd.run].status # Absent

\* The operation whose key the event of a command carries.
CommandOf(type, iteration) ==
  CASE type = "run.created" -> IF iteration = 1 THEN "start-run" ELSE "create-next-iteration"
    [] type = "review.resolved" -> "resolve-evidence-review"
    [] type \in {"run.cancel.requested", "run.cancelled"} -> "cancel-run"
    [] type \in {"run.instruction.added", "approval.requested"} -> "add-instruction"
    [] OTHER -> "none"

\* An event that a command recorded under its key has that key's claim behind it.
KeysClaimed ==
  \A r \in Runs : \A e \in events[r] :
    e.ref # NoKey /\ e.type \notin {"provider.event", "publication.completed"} =>
      /\ CommandOf(e.type, run[r].iteration) \in Ops \ {"publish-approved-run"}
      /\ e.ref \in Keys
      /\ idem[<<CommandOf(e.type, run[r].iteration), e.ref>>].status = "completed"

ReviewInv ==
  /\ IInv
  /\ RunsStarted /\ ReviewsSettled /\ PublicationsIntended /\ PublicationApproved
  /\ IterationsFollowRejections
  /\ KeysClaimed /\ RecordedOnce

-----------------------------------------------------------------------------
(* What a step does to a run, to its task and to the tables of its review.  *)

\* What an UPDATE leaves alone: the run's task and iteration, and that it is reviewed.
SameRun(r) ==
  /\ run'[r].task = run[r].task /\ run'[r].iteration = run[r].iteration
  /\ run'[r].state = Absent <=> run[r].state = Absent
  /\ run[r].state \in ReviewedStates => run'[r].state \in ReviewedStates

\* What an INSERT makes.
NewRun(r) ==
  /\ r \in Runs /\ run[r].state = Absent
  /\ run'[r].state = "queued" /\ run'[r].outcome = "none"
  /\ \A q \in Runs \ {r} : run'[q] = run[q]

LEMMA ChangeFields ==
  ASSUME TypeOK, NEW r \in Runs, NEW state, NEW outcome, NEW bump, NEW types, NEW ref,
         Change(r, state, outcome, bump, types, ref)
  PROVE  /\ run'[r].state = state /\ run'[r].outcome = outcome
         /\ run'[r].task = run[r].task /\ run'[r].iteration = run[r].iteration
         /\ events'[r] = events[r] \cup NewRows(run[r].seq, types, ref)
         /\ \A q \in Runs \ {r} : run'[q] = run[q] /\ events'[q] = events[q]
  BY DEF Change, TypeOK

LEMMA InsertFields ==
  ASSUME TypeOK, NEW r \in Runs, NEW task, NEW iteration, NEW key,
         InsertRun(r, task, iteration, key)
  PROVE  /\ NewRun(r)
         /\ run'[r].task = task /\ run'[r].iteration = iteration
         /\ events'[r] = NewRows(0, <<"run.created">>, key)
         /\ \A q \in Runs \ {r} : events'[q] = events[q]
  BY DEF InsertRun, NewRun, TypeOK, AbsentRun

LEMMA ChangeSame ==
  ASSUME TypeOK, NEW r, Exists(r), NEW state \in RunStates, NEW outcome, NEW bump,
         NEW types, NEW ref, Change(r, state, outcome, bump, types, ref),
         run[r].state \in ReviewedStates => state \in ReviewedStates
  PROVE  \A q \in Runs : SameRun(q)
  BY ChangeFields, AbsentIsNoState DEF SameRun, Exists

\* The domain's transitions keep a reviewed run reviewed.
LEMMA ReviewedTargets ==
  ASSUME NEW s \in ReviewedStates, NEW next \in LegalTransitions[s]
  PROVE  next \in ReviewedStates
  BY DEF ReviewedStates, LegalTransitions, RunStates, ActiveRunStates, TerminalRunStates

\* Every step leaves the runs the same but for the two commands that insert one.
LEMMA RunsStep ==
  ASSUME TypeOK, VersionIdentifiesState, [Next]_vars
  PROVE  \/ \A r \in Runs : SameRun(r)
         \/ \E c \in Commands : StartRun(c) \/ CreateNextIteration(c)
  <1>1. ASSUME UNCHANGED run PROVE \A r \in Runs : SameRun(r)
    BY <1>1 DEF SameRun
  <1>a. /\ "awaiting_review" \in ReviewedStates /\ "publishing" \in ReviewedStates
        /\ {"cancelled", "completed", "failed"} \subseteq ReviewedStates
        /\ ReviewedStates \subseteq RunStates /\ "running" \in RunStates
        /\ "awaiting_approval" \notin ReviewedStates
        /\ Absent \notin ReviewedStates
    BY DEF ReviewedStates, RunStates, ActiveRunStates, TerminalRunStates, Absent
  <1>b. \A r : Exists(r) => r \in Runs /\ run[r].state \in RunStates
    BY VersionsAreNatural DEF Exists
  <1>2. ASSUME NEW c \in Commands, ClientStep(c), ~StartRun(c), ~CreateNextIteration(c)
        PROVE  \A r \in Runs : SameRun(r)
    <2>1. CASE PrepareEvidence(c)
      BY <2>1, <1>a, ChangeSame DEF PrepareEvidence
    <2>2. CASE ResolveReview(c)
      BY <2>2, <1>a, ChangeSame DEF ResolveReview
    <2>3. QED
      BY <1>1, <1>2, <2>1, <2>2
      DEF ClientStep, ReplayCommand, RefuseCommand, ReusePublication, AnswerPublication, database
  <1>3. ASSUME NEW p \in Procs, ProcStep(p) PROVE \A r \in Runs : SameRun(r)
    <2>a. proc[p].pc \in {"controlling", "publishing"} => Exists(proc[p].cmd.run)
      BY DEF TypeOK
    <2>1. CASE CommitCancel(p)
      BY <2>1, <2>a, <1>a, ChangeSame DEF CommitCancel, Controlling
    <2>2. CASE CommitInstruction(p)
      BY <2>2, <2>a, <1>b, ChangeSame DEF CommitInstruction, Controlling
    <2>3. CASE FailPublication(p)
      BY <2>3, <2>a, <1>b, ChangeSame DEF FailPublication
    <2>4. CASE CompletePublication(p)
      BY <2>4, <2>a, <1>a, ChangeSame DEF CompletePublication
    <2>5. ASSUME NEW c \in Commands, BeginPublication(p, c) PROVE \A r \in Runs : SameRun(r)
      BY <1>1, <2>5, <1>a, ChangeSame DEF BeginPublication
    <2>6. CASE TransitionRun(p)
      <3>1. CASE run[proc[p].run].version = proc[p].version
        <4>1. PICK next \in LegalTransitions[proc[p].state] :
                Change(proc[p].run, next, run[proc[p].run].outcome, 1,
                       <<"run.transitioned">>, NoKey)
          BY <2>6, <3>1 DEF TransitionRun
        <4>2. Exists(proc[p].run) /\ run[proc[p].run].state = proc[p].state
          BY <2>6, <3>1 DEF TransitionRun, VersionIdentifiesState
        <4>3. next \in RunStates
          BY <1>b, <4>2, TransitionTargets
        <4>4. run[proc[p].run].state \in ReviewedStates => next \in ReviewedStates
          BY <4>2, ReviewedTargets
        <4>5. QED
          BY <4>1, <4>2, <4>3, <4>4, ChangeSame
      <3>2. CASE run[proc[p].run].version # proc[p].version
        BY <1>1, <2>6, <3>2 DEF TransitionRun
      <3>3. QED
        BY <3>1, <3>2
    <2>7. QED
      BY <1>1, <1>3, <2>1, <2>2, <2>3, <2>4, <2>5, <2>6
      DEF ProcStep, ReadForControl, FinishControl, ReadSnapshot, Crash, database
  <1>4. ASSUME NEW r \in Runs, NEW k, NEW d, ResolveApproval(r, k, d)
        PROVE  \A q \in Runs : SameRun(q)
    BY <1>4, <1>a, <1>b, ChangeSame DEF ResolveApproval
  <1>5. ASSUME NEW r \in Runs, Heartbeat(r) PROVE \A q \in Runs : SameRun(q)
    BY <1>5 DEF Heartbeat, TypeOK, SameRun
  <1>6. ASSUME NEW S \in SUBSET ActiveRuns, FailStaleRuns(S) PROVE \A q \in Runs : SameRun(q)
    <2> TAKE q \in Runs
    <2>1. CASE q \notin S
      BY <1>6, <2>1 DEF FailStaleRuns, SameRun
    <2>2. CASE q \in S
      <3>1. run'[q] = [run[q] EXCEPT !.state = "failed", !.version = @ + 1, !.seq = @ + 1]
        BY <1>6, <2>2 DEF FailStaleRuns
      <3>2. run'[q].state = "failed" /\ run'[q].task = run[q].task
            /\ run'[q].iteration = run[q].iteration
        <4>1. run[q] \in RunRow
          BY DEF TypeOK
        <4>2. QED
          BY <3>1, <4>1 DEF RunRow
      <3>3. run[q].state # Absent
        BY <2>2 DEF ActiveRuns, ActiveRunStates, Absent
      <3>4. QED
        BY <3>2, <3>3, <1>a DEF SameRun
    <2>3. QED
      BY <2>1, <2>2
  <1>7. ASSUME NEW r \in Runs, NEW x, AppendProviderEvent(r, x) PROVE \A q \in Runs : SameRun(q)
    BY <1>7, <1>b, ChangeSame DEF AppendProviderEvent
  <1>8. QED
    BY <1>1, <1>2, <1>3, <1>4, <1>5, <1>6, <1>7 DEF Next, vars

\* Every step keeps the tasks that have started, their instruction included.
LEMMA TasksStep ==
  ASSUME TypeOK, [Next]_vars, NEW t \in Tasks, tasks[t].status # Absent
  PROVE  tasks'[t].status # Absent /\ tasks'[t].secret = tasks[t].secret
  <1>1. CASE UNCHANGED tasks
    BY <1>1
  <1>2. ASSUME NEW r, NEW status \in {"running", "review", "completed", "cancelled"},
               SetTask(r, status)
        PROVE  tasks'[t].status # Absent /\ tasks'[t].secret = tasks[t].secret
    BY <1>2 DEF SetTask, TypeOK, Absent
  <1>3. ASSUME NEW c \in Commands, StartRun(c)
        PROVE  tasks'[t] = tasks[t]
    BY <1>3 DEF StartRun, TypeOK
  <1>4. ASSUME NEW c \in Commands, ClientStep(c)
        PROVE  tasks'[t].status # Absent /\ tasks'[t].secret = tasks[t].secret
    BY <1>1, <1>2, <1>3, <1>4
    DEF ClientStep, PrepareEvidence, ResolveReview, CreateNextIteration, ReplayCommand,
        RefuseCommand, ReusePublication, AnswerPublication, database
  <1>5. ASSUME NEW p \in Procs, ProcStep(p)
        PROVE  tasks'[t].status # Absent /\ tasks'[t].secret = tasks[t].secret
    BY <1>1, <1>2, <1>5
    DEF ProcStep, ReadForControl, CommitCancel, CommitInstruction, FinishControl,
        BeginPublication, FailPublication, CompletePublication, ReadSnapshot, TransitionRun,
        Crash, database
  <1>6. QED
    BY <1>1, <1>4, <1>5
    DEF Next, vars, ResolveApproval, Heartbeat, FailStaleRuns, AppendProviderEvent

\* Only the preparation of evidence and a decision write the tables of a review.
LEMMA ReviewTables ==
  ASSUME [Next]_vars
  PROVE  \/ UNCHANGED <<review, changeSet>>
         \/ \E c \in Commands : PrepareEvidence(c) \/ ResolveReview(c)
  <1>1. ASSUME NEW c \in Commands, ClientStep(c), ~PrepareEvidence(c), ~ResolveReview(c)
        PROVE  UNCHANGED <<review, changeSet>>
    BY <1>1 DEF ClientStep, StartRun, CreateNextIteration, ReplayCommand, RefuseCommand,
                ReusePublication, AnswerPublication, database
  <1>2. ASSUME NEW p \in Procs, ProcStep(p) PROVE UNCHANGED <<review, changeSet>>
    BY <1>2
    DEF ProcStep, ReadForControl, CommitCancel, CommitInstruction, FinishControl,
        BeginPublication, FailPublication, CompletePublication, ReadSnapshot, TransitionRun,
        Crash, database
  <1>3. QED
    BY <1>1, <1>2 DEF Next, vars, ResolveApproval, Heartbeat, FailStaleRuns, AppendProviderEvent

\* Only the two transactions of a publication write the table of publications.
LEMMA PublicationTable ==
  ASSUME [Next]_vars
  PROVE  \/ UNCHANGED publication
         \/ \E p \in Procs : \/ \E c \in Commands : BeginPublication(p, c)
                            \/ FailPublication(p) \/ CompletePublication(p)
  <1>1. ASSUME NEW c \in Commands, ClientStep(c) PROVE UNCHANGED publication
    BY <1>1 DEF ClientStep, StartRun, PrepareEvidence, ResolveReview, CreateNextIteration,
                ReplayCommand, RefuseCommand, ReusePublication, AnswerPublication, database
  <1>2. ASSUME NEW p \in Procs, ProcStep(p), ~FailPublication(p), ~CompletePublication(p),
               ~\E c \in Commands : BeginPublication(p, c)
        PROVE  UNCHANGED publication
    BY <1>2
    DEF ProcStep, ReadForControl, CommitCancel, CommitInstruction, FinishControl,
        ReadSnapshot, TransitionRun, Crash, database
  <1>3. QED
    BY <1>1, <1>2 DEF Next, vars, ResolveApproval, Heartbeat, FailStaleRuns, AppendProviderEvent

\* The outcome of a run is written by its decision and by its publication only.
LEMMA OutcomeStep ==
  ASSUME TypeOK, VersionIdentifiesState, [Next]_vars, NEW r \in Runs,
         run'[r].outcome # run[r].outcome
  PROVE  \/ NewRun(r)
         \/ \E c \in Commands : ResolveReview(c) /\ c.run = r
         \/ \E p \in Procs : CompletePublication(p) /\ proc[p].cmd.run = r
  <1>1. CASE UNCHANGED run
    BY <1>1
  <1>2. ASSUME NEW q, Exists(q), NEW state, NEW bump, NEW types, NEW ref,
               Change(q, state, run[q].outcome, bump, types, ref)
        PROVE  FALSE
    BY <1>2, ChangeFields DEF Exists
  <1>3. ASSUME NEW c \in Commands, ClientStep(c)
        PROVE  NewRun(r) \/ (ResolveReview(c) /\ c.run = r)
    <2>1. CASE StartRun(c) \/ CreateNextIteration(c)
      <3>1. PICK q \in Runs : NewRun(q)
        BY <2>1, InsertFields DEF StartRun, CreateNextIteration
      <3>2. QED
        BY <3>1 DEF NewRun
    <2>2. CASE PrepareEvidence(c)
      BY <2>2, <1>2 DEF PrepareEvidence
    <2>3. CASE ResolveReview(c)
      <3>1. ASSUME c.run # r PROVE FALSE
        BY <2>3, <3>1, ChangeFields DEF ResolveReview, Exists
      <3>2. QED
        BY <2>3, <3>1
    <2>4. QED
      BY <1>1, <1>3, <2>1, <2>2, <2>3
      DEF ClientStep, ReplayCommand, RefuseCommand, ReusePublication, AnswerPublication, database
  <1>4. ASSUME NEW p \in Procs, ProcStep(p)
        PROVE  CompletePublication(p) /\ proc[p].cmd.run = r
    <2>a. proc[p].pc \in {"controlling", "publishing"} => Exists(proc[p].cmd.run)
      BY DEF TypeOK
    <2>1. CASE CommitCancel(p)
      BY <2>1, <2>a, <1>2 DEF CommitCancel, Controlling
    <2>2. CASE CommitInstruction(p)
      BY <2>2, <2>a, <1>2 DEF CommitInstruction, Controlling
    <2>3. CASE FailPublication(p)
      BY <2>3, <2>a, <1>2 DEF FailPublication
    <2>4. CASE CompletePublication(p)
      <3>1. ASSUME proc[p].cmd.run # r PROVE FALSE
        BY <2>4, <2>a, <3>1, ChangeFields DEF CompletePublication, Exists
      <3>2. QED
        BY <2>4, <3>1
    <2>5. ASSUME NEW c \in Commands, BeginPublication(p, c) PROVE FALSE
      BY <1>1, <2>5, <1>2 DEF BeginPublication
    <2>6. CASE TransitionRun(p)
      <3>1. run[proc[p].run].version = proc[p].version
        BY <1>1, <2>6 DEF TransitionRun
      <3>2. Exists(proc[p].run)
        BY <2>6, <3>1 DEF TransitionRun, VersionIdentifiesState
      <3>3. QED
        BY <2>6, <3>1, <3>2, <1>2 DEF TransitionRun
    <2>7. QED
      BY <1>1, <1>4, <2>1, <2>2, <2>3, <2>4, <2>5, <2>6
      DEF ProcStep, ReadForControl, FinishControl, ReadSnapshot, Crash, database
  <1>5. ASSUME NEW q \in Runs, NEW k, NEW d, ResolveApproval(q, k, d) PROVE FALSE
    BY <1>5, <1>2 DEF ResolveApproval
  <1>6. ASSUME NEW q \in Runs, Heartbeat(q) PROVE FALSE
    BY <1>6 DEF Heartbeat, TypeOK
  <1>7. ASSUME NEW S \in SUBSET ActiveRuns, FailStaleRuns(S) PROVE FALSE
    <2>1. run[r] \in RunRow
      BY DEF TypeOK
    <2>2. \/ run'[r] = run[r]
          \/ run'[r] = [run[r] EXCEPT !.state = "failed", !.version = @ + 1, !.seq = @ + 1]
      BY <1>7 DEF FailStaleRuns
    <2>3. QED
      BY <2>1, <2>2 DEF RunRow
  <1>8. ASSUME NEW q \in Runs, NEW x, AppendProviderEvent(q, x) PROVE FALSE
    BY <1>8, <1>2 DEF AppendProviderEvent
  <1>9. QED
    BY <1>1, <1>3, <1>4, <1>5, <1>6, <1>7, <1>8 DEF Next, vars

\* A handler turns to a publication by beginning it.
LEMMA PublishingBegins ==
  ASSUME TypeOK, [Next]_vars, NEW p \in Procs, proc'[p] # proc[p], proc'[p].pc = "publishing"
  PROVE  \E c \in Commands : BeginPublication(p, c)
  <1>1. ASSUME NEW q \in Procs, proc' = [proc EXCEPT ![q] = Idle] PROVE FALSE
    BY <1>1 DEF TypeOK, Idle
  <1>2. ASSUME NEW c \in Commands, ClientStep(c) PROVE FALSE
    BY <1>2 DEF ClientStep, StartRun, PrepareEvidence, ResolveReview, CreateNextIteration,
                ReplayCommand, RefuseCommand, ReusePublication, AnswerPublication
  <1>3. ASSUME NEW q \in Procs, NEW c \in Commands, ReadForControl(q, c) PROVE FALSE
    <2> DEFINE read == [Idle EXCEPT !.pc = "controlling", !.cmd = c]
    <2>1. read.pc = "controlling"
      BY DEF Idle
    <2>2. proc' = [proc EXCEPT ![q] = read] \/ UNCHANGED proc
      BY <1>3 DEF ReadForControl
    <2> HIDE DEF read
    <2>3. QED
      BY <2>1, <2>2 DEF TypeOK
  <1>4. ASSUME NEW q \in Procs, NEW r \in Runs, ReadSnapshot(q, r) PROVE FALSE
    <2> DEFINE read == [Idle EXCEPT !.pc = "transitioning", !.run = r,
                                    !.version = run[r].version, !.state = run[r].state]
    <2>1. read.pc = "transitioning"
      BY DEF Idle
    <2>2. proc' = [proc EXCEPT ![q] = read]
      BY <1>4 DEF ReadSnapshot
    <2> HIDE DEF read
    <2>3. QED
      BY <2>1, <2>2 DEF TypeOK
  <1>5. ASSUME NEW q \in Procs, NEW c \in Commands, BeginPublication(q, c) PROVE q = p
    BY <1>5 DEF BeginPublication, TypeOK
  <1>6. ASSUME NEW q \in Procs, ProcStep(q) PROVE \E c \in Commands : BeginPublication(p, c)
    BY <1>1, <1>3, <1>4, <1>5, <1>6
    DEF ProcStep, CommitCancel, CommitInstruction, FinishControl, FailPublication,
        CompletePublication, TransitionRun, Crash
  <1>7. QED
    BY <1>2, <1>6
    DEF Next, vars, ResolveApproval, Heartbeat, FailStaleRuns, AppendProviderEvent

-----------------------------------------------------------------------------
(* Tasks, reviews and publications.                                         *)

LEMMA StartedStep ==
  ASSUME TypeOK, VersionIdentifiesState, RunsStarted, [Next]_vars
  PROVE  RunsStarted'
  <1> SUFFICES ASSUME NEW r \in Runs, run'[r].state # Absent
               PROVE  /\ run'[r].task \in Tasks /\ tasks'[run'[r].task].status # Absent
                      /\ run'[r].iteration \in Nat \ {0}
    BY DEF RunsStarted, Exists
  <1>1. CASE SameRun(r) \/ run'[r] = run[r]
    <2>1. /\ run[r].state # Absent
          /\ run'[r].task = run[r].task /\ run'[r].iteration = run[r].iteration
      BY <1>1 DEF SameRun
    <2>2. /\ run[r].task \in Tasks /\ tasks[run[r].task].status # Absent
          /\ run[r].iteration \in Nat \ {0}
      BY <2>1 DEF RunsStarted, Exists
    <2>3. QED
      BY <2>1, <2>2, TasksStep
  <1>2. ASSUME NEW c \in Commands, StartRun(c), run'[r] # run[r]
        PROVE  /\ run'[r].task \in Tasks /\ tasks'[run'[r].task].status # Absent
               /\ run'[r].iteration \in Nat \ {0}
    <2>1. PICK q \in Runs, t \in Tasks :
            /\ InsertRun(q, t, 1, c.key)
            /\ tasks' = [tasks EXCEPT ![t] = [status |-> "running", secret |-> c.arg = "secret"]]
      BY <1>2 DEF StartRun
    <2>2. q = r /\ run'[r].task = t /\ run'[r].iteration = 1
      BY <1>2, <2>1, InsertFields DEF NewRun
    <2>3. tasks'[t].status # Absent
      BY <2>1 DEF TypeOK, Absent
    <2>4. QED
      BY <2>2, <2>3
  <1>3. ASSUME NEW c \in Commands, CreateNextIteration(c), run'[r] # run[r]
        PROVE  /\ run'[r].task \in Tasks /\ tasks'[run'[r].task].status # Absent
               /\ run'[r].iteration \in Nat \ {0}
    <2>1. PICK q \in Runs : InsertRun(q, run[c.run].task, run[c.run].iteration + 1, c.key)
      BY <1>3 DEF CreateNextIteration
    <2>2. /\ q = r /\ run'[r].task = run[c.run].task
          /\ run'[r].iteration = run[c.run].iteration + 1
      BY <1>3, <2>1, InsertFields DEF NewRun
    <2>3. /\ run[c.run].task \in Tasks /\ tasks[run[c.run].task].status # Absent
          /\ run[c.run].iteration \in Nat \ {0}
      BY <1>3 DEF CreateNextIteration, RunsStarted, Exists
    <2>4. QED
      BY <2>2, <2>3, TasksStep
  <1>4. QED
    BY <1>1, <1>2, <1>3, RunsStep

\* A decision and its change set stay what they are.
LEMMA ReviewKept ==
  ASSUME TypeOK, ReviewsSettled, [Next]_vars, NEW r \in Runs, review[r] # NoReview
  PROVE  review'[r] = review[r] /\ changeSet'[r] = changeSet[r]
  <1>1. ASSUME NEW c \in Commands, PrepareEvidence(c) PROVE c.run # r /\ UNCHANGED review
    <2>1. run[c.run].state \notin ReviewedStates
      BY <1>1 DEF PrepareEvidence, Allowed, CompletableStates, ReviewedStates, TerminalRunStates
    <2>2. QED
      BY <1>1, <2>1 DEF PrepareEvidence, ReviewsSettled
  <1>2. ASSUME NEW c \in Commands, ResolveReview(c) PROVE c.run # r /\ UNCHANGED changeSet
    BY <1>2 DEF ResolveReview, Allowed, Reviewable
  <1>3. QED
    BY <1>1, <1>2, ReviewTables DEF PrepareEvidence, ResolveReview, TypeOK

\* A publication keeps its row, and the handler that waits for it has one.
LEMMA IntendedStep ==
  ASSUME TypeOK, PublicationsIntended, [Next]_vars
  PROVE  /\ PublicationsIntended'
         /\ \A r \in Runs : publication[r].status # Absent => publication'[r].status # Absent
  <1>1. ASSUME NEW r \in Runs, publication[r].status # Absent
        PROVE  publication'[r].status # Absent
    <2>1. ASSUME NEW p \in Procs, NEW c \in Commands, BeginPublication(p, c)
          PROVE  publication'[r].status # Absent
      BY <1>1, <2>1 DEF BeginPublication, TypeOK, Absent
    <2>2. ASSUME NEW q, NEW status \in {"failed", "pr_created"},
                 publication' = [publication EXCEPT ![q].status = status]
          PROVE  publication'[r].status # Absent
      <3> DEFINE row == [publication[q] EXCEPT !.status = status]
      <3>1. q \in Runs => row.status = status
        BY DEF TypeOK
      <3>2. publication' = [publication EXCEPT ![q] = row]
        BY <2>2
      <3> HIDE DEF row
      <3>3. QED
        BY <1>1, <3>1, <3>2 DEF TypeOK, Absent
    <2>3. QED
      BY <1>1, <2>1, <2>2, PublicationTable DEF FailPublication, CompletePublication
  <1>2. ASSUME NEW p \in Procs, proc'[p].pc = "publishing"
        PROVE  publication'[proc'[p].cmd.run].status # Absent
    <2>1. CASE proc'[p] = proc[p]
      <3>1. proc[p].cmd.run \in Runs /\ publication[proc[p].cmd.run].status # Absent
        BY <1>2, <2>1 DEF PublicationsIntended, TypeOK, Exists
      <3>2. QED
        BY <1>1, <2>1, <3>1
    <2>2. CASE proc'[p] # proc[p]
      <3>1. PICK c \in Commands : BeginPublication(p, c)
        BY <1>2, <2>2, PublishingBegins
      <3>2. proc'[p].cmd = c /\ c.run \in Runs
        BY <3>1 DEF BeginPublication, TypeOK, Exists, Idle
      <3>3. QED
        BY <3>1, <3>2 DEF BeginPublication, TypeOK, Absent
    <2>3. QED
      BY <2>1, <2>2
  <1>3. QED
    BY <1>1, <1>2 DEF PublicationsIntended

\* A run that exists is the same after every step.
LEMMA ExistingRun ==
  ASSUME TypeOK, VersionIdentifiesState, [Next]_vars, NEW r \in Runs, run[r].state # Absent
  PROVE  SameRun(r)
  <1>1. ASSUME NEW c \in Commands, StartRun(c) \/ CreateNextIteration(c)
        PROVE  run'[r] = run[r]
    BY <1>1, InsertFields DEF StartRun, CreateNextIteration, NewRun
  <1>2. QED
    BY <1>1, RunsStep DEF SameRun

LEMMA ReviewedNotAbsent == Absent \notin ReviewedStates
  BY DEF Absent, ReviewedStates, TerminalRunStates

LEMMA SettledStep ==
  ASSUME TypeOK, VersionIdentifiesState, ReviewsSettled, [Next]_vars
  PROVE  ReviewsSettled'
  <1>1. ASSUME NEW r \in Runs, review'[r] # NoReview
        PROVE  run'[r].state \in ReviewedStates /\ review'[r].snapshot = changeSet'[r]
    <2>1. CASE review[r] # NoReview
      <3>1. run[r].state \in ReviewedStates /\ review[r].snapshot = changeSet[r]
        BY <2>1 DEF ReviewsSettled
      <3>2. SameRun(r)
        BY <3>1, ReviewedNotAbsent, ExistingRun
      <3>3. QED
        BY <2>1, <3>1, <3>2, ReviewKept DEF SameRun
    <2>2. CASE review[r] = NoReview
      <3>1. PICK c \in Commands : ResolveReview(c) /\ c.run = r
        <4>1. ASSUME NEW c \in Commands, ResolveReview(c) PROVE c.run = r
          BY <1>1, <2>2, <4>1 DEF ResolveReview, TypeOK
        <4>2. QED
          BY <1>1, <2>2, <4>1, ReviewTables DEF PrepareEvidence
      <3>2. review'[r].snapshot = changeSet[r] /\ UNCHANGED changeSet
        BY <3>1 DEF ResolveReview, TypeOK
      <3>3. run'[r].state \in {"completed", "awaiting_review"}
        BY <3>1, ChangeFields DEF ResolveReview
      <3>4. QED
        BY <3>2, <3>3 DEF ReviewedStates, TerminalRunStates
    <2>3. QED
      BY <2>1, <2>2
  <1>2. ASSUME NEW r \in Runs, run'[r].outcome = "rejected"
        PROVE  review'[r].decision = "rejected"
    <2>1. CASE run[r].outcome = "rejected"
      <3>1. review[r].decision = "rejected" /\ review[r] # NoReview
        BY <2>1 DEF ReviewsSettled, NoReview
      <3>2. QED
        BY <3>1, ReviewKept
    <2>2. ASSUME NEW c \in Commands, ResolveReview(c), c.run = r
          PROVE  review'[r].decision = "rejected"
      <3>1. c.arg = "rejected"
        BY <1>2, <2>2, ChangeFields DEF ResolveReview
      <3>2. QED
        BY <2>2, <3>1 DEF ResolveReview, TypeOK
    <2>3. ASSUME NEW p \in Procs, CompletePublication(p), proc[p].cmd.run = r
          PROVE  FALSE
      BY <1>2, <2>3, ChangeFields DEF CompletePublication
    <2>4. QED
      BY <1>2, <2>1, <2>2, <2>3, OutcomeStep DEF NewRun
  <1>3. QED
    BY <1>1, <1>2 DEF ReviewsSettled

\* What is published keeps the snapshot, the decision and the gate it had.
LEMMA ApprovedStep ==
  ASSUME TypeOK, VersionIdentifiesState, RunsStarted, ReviewsSettled, PublicationsIntended,
         PublicationApproved, [Next]_vars
  PROVE  PublicationApproved'
  <1> SUFFICES ASSUME NEW r \in Runs, publication'[r].status # Absent
               PROVE  /\ review'[r] = [decision |-> "approved",
                                       snapshot |-> publication'[r].snapshot]
                      /\ publication'[r].snapshot = changeSet'[r]
                      /\ ~tasks'[run'[r].task].secret
    BY DEF PublicationApproved, HasSecret
  <1>1. ASSUME review[r] # NoReview, ~HasSecret(r) PROVE ~tasks'[run'[r].task].secret
    <2>1. run[r].state # Absent
      BY <1>1, ReviewedNotAbsent DEF ReviewsSettled
    <2>2. run[r].task \in Tasks /\ tasks[run[r].task].status # Absent
      BY <2>1 DEF RunsStarted, Exists
    <2>3. QED
      BY <1>1, <2>1, <2>2, ExistingRun, TasksStep DEF SameRun, HasSecret
  <1>2. CASE publication[r].status # Absent
    <2>1. /\ review[r] = [decision |-> "approved", snapshot |-> publication[r].snapshot]
          /\ publication[r].snapshot = changeSet[r] /\ ~HasSecret(r)
      BY <1>2 DEF PublicationApproved
    <2>2. review[r] # NoReview
      BY <2>1 DEF NoReview
    <2>3. publication'[r].snapshot = publication[r].snapshot
      <3>1. ASSUME NEW p \in Procs, NEW c \in Commands, BeginPublication(p, c)
            PROVE  publication'[r].snapshot = publication[r].snapshot
        BY <1>2, <3>1 DEF BeginPublication, TypeOK
      <3>2. ASSUME NEW q, NEW status, publication' = [publication EXCEPT ![q].status = status]
            PROVE  publication'[r].snapshot = publication[r].snapshot
        <4> DEFINE row == [publication[q] EXCEPT !.status = status]
        <4>1. q \in Runs => row.snapshot = publication[q].snapshot
          BY DEF TypeOK
        <4>2. publication' = [publication EXCEPT ![q] = row]
          BY <3>2
        <4> HIDE DEF row
        <4>3. QED
          BY <4>1, <4>2 DEF TypeOK
      <3>3. QED
        BY <3>1, <3>2, PublicationTable DEF FailPublication, CompletePublication
    <2>4. QED
      BY <1>1, <2>1, <2>2, <2>3, ReviewKept
  <1>3. CASE publication[r].status = Absent
    <2>1. ASSUME NEW p \in Procs, FailPublication(p) \/ CompletePublication(p) PROVE FALSE
      <3> DEFINE q == proc[p].cmd.run
      <3>1. q # r
        BY <1>3, <2>1 DEF PublicationsIntended, FailPublication, CompletePublication
      <3>2. PICK status : publication' = [publication EXCEPT ![q].status = status]
        BY <2>1 DEF FailPublication, CompletePublication
      <3> DEFINE row == [publication[q] EXCEPT !.status = status]
      <3>3. publication' = [publication EXCEPT ![q] = row]
        BY <3>2
      <3> HIDE DEF row, q
      <3>4. QED
        BY <1>3, <3>1, <3>3 DEF TypeOK
    <2>2. PICK p \in Procs, c \in Commands : BeginPublication(p, c) /\ c.run = r
      BY <1>3, <2>1, PublicationTable DEF BeginPublication, TypeOK
    <2>3. /\ changeSet[r] = c.snapshot /\ GateForPublication(r)
          /\ UNCHANGED <<review, changeSet>>
          /\ publication'[r].snapshot = changeSet[r]
      BY <1>3, <2>2 DEF BeginPublication, Publishable, SnapshotExpected, TypeOK
    <2>4. /\ review[r].decision = "approved" /\ review[r].snapshot = changeSet[r]
          /\ ~HasSecret(r)
      BY <2>3 DEF GateForPublication, EligibleForPublication
    <2>5. review[r] = [decision |-> "approved", snapshot |-> changeSet[r]]
      <3>1. review[r] \in [decision : Decisions, snapshot : Nat]
        BY DEF TypeOK
      <3>2. QED
        BY <2>4, <3>1
    <2>6. review[r] # NoReview
      BY <2>4 DEF NoReview
    <2>7. QED
      BY <1>1, <2>3, <2>4, <2>5, <2>6
  <1>4. QED
    BY <1>2, <1>3

-----------------------------------------------------------------------------
(* Iterations.                                                              *)

\* A rejected outcome is never overwritten.
LEMMA RejectedKept ==
  ASSUME TypeOK, VersionIdentifiesState, ReviewsSettled, PublicationsIntended,
         PublicationApproved, [Next]_vars, NEW r \in Runs, run[r].outcome = "rejected"
  PROVE  run[r].state # Absent /\ run'[r].outcome = "rejected"
  <1>1. review[r].decision = "rejected" /\ review[r] # NoReview /\ run[r].state # Absent
    BY ReviewedNotAbsent DEF ReviewsSettled, NoReview
  <1>2. ASSUME NEW c \in Commands, ResolveReview(c) PROVE c.run # r
    BY <1>1, <1>2 DEF ResolveReview, Allowed, Reviewable
  <1>3. ASSUME NEW p \in Procs, CompletePublication(p) PROVE proc[p].cmd.run # r
    <2>1. ASSUME NEW q \in Runs, publication[q].status # Absent PROVE review[q].decision = "approved"
      <3>1. review[q] = [decision |-> "approved", snapshot |-> publication[q].snapshot]
        BY <2>1 DEF PublicationApproved
      <3>2. QED
        BY <3>1
    <2>2. /\ proc[p].cmd.run \in Runs
          /\ publication[proc[p].cmd.run].status # Absent
      BY <1>3 DEF CompletePublication, PublicationsIntended, TypeOK, Exists
    <2>3. QED
      BY <1>1, <2>1, <2>2
  <1>4. QED
    BY <1>1, <1>2, <1>3, OutcomeStep DEF NewRun

LEMMA IterationsStep ==
  ASSUME TypeOK, VersionIdentifiesState, ReviewsSettled, PublicationsIntended,
         PublicationApproved, IterationsFollowRejections, [Next]_vars
  PROVE  IterationsFollowRejections'
  <1> DEFINE Follows(r, q) == /\ run[q].task = run[r].task
                              /\ run[q].iteration + 1 = run[r].iteration
                              /\ run[q].outcome = "rejected"
             Twins(r, q) == run[q].task = run[r].task /\ run[q].iteration = run[r].iteration
             Followed(r, q) == /\ run'[q].task = run'[r].task
                               /\ run'[q].iteration + 1 = run'[r].iteration
                               /\ run'[q].outcome = "rejected"
             Twinned(r, q) == run'[q].task = run'[r].task /\ run'[q].iteration = run'[r].iteration
  <1> SUFFICES ASSUME NEW r \in Runs, run'[r].iteration > 1
               PROVE  /\ \E q \in Runs : Followed(r, q)
                      /\ \A q \in Runs : Twinned(r, q) => q = r
    BY DEF IterationsFollowRejections
  <1>a. run[r].iteration > 1 => /\ \E q \in Runs : Follows(r, q)
                                /\ \A q \in Runs : Twins(r, q) => q = r
    BY DEF IterationsFollowRejections
  <1>1. CASE \A q \in Runs : SameRun(q)
    <2>1. PICK q \in Runs : Follows(r, q)
      BY <1>1, <1>a DEF SameRun
    <2>2. Followed(r, q)
      BY <1>1, <2>1, RejectedKept DEF SameRun
    <2>3. QED
      BY <1>1, <1>a, <2>2 DEF SameRun
  <1>2. ASSUME NEW c \in Commands, StartRun(c)
        PROVE  /\ \E q \in Runs : Followed(r, q)
               /\ \A q \in Runs : Twinned(r, q) => q = r
    <2>1. PICK new \in Runs, t \in Tasks : InsertRun(new, t, 1, c.key)
      BY <1>2 DEF StartRun
    <2>2. /\ NewRun(new) /\ run'[new].iteration = 1
          /\ \A q \in Runs \ {new} : run'[q] = run[q]
      BY <2>1, InsertFields DEF NewRun
    <2>3. r # new /\ run'[r] = run[r]
      BY <2>2
    <2>4. PICK q \in Runs : Follows(r, q)
      BY <1>a, <2>3
    <2>5. q # new
      BY <2>2, <2>4, RejectedKept DEF NewRun
    <2>6. QED
      BY <1>a, <2>2, <2>3, <2>4, <2>5
  <1>3. ASSUME NEW c \in Commands, CreateNextIteration(c)
        PROVE  /\ \E q \in Runs : Followed(r, q)
               /\ \A q \in Runs : Twinned(r, q) => q = r
    <2>1. PICK new \in Runs :
            InsertRun(new, run[c.run].task, run[c.run].iteration + 1, c.key)
      BY <1>3 DEF CreateNextIteration
    <2>2. /\ NewRun(new)
          /\ run'[new].task = run[c.run].task
          /\ run'[new].iteration = run[c.run].iteration + 1
          /\ \A q \in Runs \ {new} : run'[q] = run[q]
      BY <2>1, InsertFields DEF NewRun
    <2>3. /\ c.run \in Runs /\ c.run # new /\ run[c.run].outcome = "rejected"
          /\ \A q \in Runs : ~ /\ run[q].task = run[c.run].task
                               /\ run[q].iteration = run[c.run].iteration + 1
      BY <1>3, <2>2 DEF CreateNextIteration, Allowed, Iterable, Exists, NewRun
    <2>4. CASE r = new
      <3>1. Followed(r, c.run)
        BY <2>2, <2>3, <2>4
      <3>2. QED
        BY <2>2, <2>3, <2>4, <3>1
    <2>5. CASE r # new
      <3>1. PICK q \in Runs : Follows(r, q)
        BY <1>a, <2>2, <2>5
      <3>2. q # new
        BY <2>2, <3>1, RejectedKept DEF NewRun
      <3>3. QED
        BY <1>a, <2>2, <2>3, <2>5, <3>1, <3>2
    <2>6. QED
      BY <2>4, <2>5
  <1>4. QED
    BY <1>1, <1>2, <1>3, RunsStep

-----------------------------------------------------------------------------
(* The events of commands and their claims.                                 *)

\* An event that was there before, in a run that is the same iteration.
OldEvent(r, e) == e \in events[r] /\ run'[r].iteration = run[r].iteration

\* A step that records nothing under a key, but for a publication.
Quiet ==
  \A r \in Runs : \A e \in events'[r] :
    OldEvent(r, e) \/ e.ref = NoKey \/ e.type = "publication.completed"

\* A step that appends a provider event of a new correlation to one run.
Provided(r, x) ==
  /\ \A e \in events[r] : e.type = "provider.event" => e.ref # x
  /\ \E row : /\ row.type = "provider.event" /\ row.ref = x
             /\ \A q \in Runs : \A e \in events'[q] : OldEvent(q, e) \/ (q = r /\ e = row)

\* A step that claims the key of a command and records under it, in one run,
\* events of different types.
Commanded(c) ==
  /\ Claim(c) = "fresh" /\ Record(c, "completed") /\ c.op # "publish-approved-run"
  /\ \E r \in Runs : \E rows :
       /\ \A e \in rows : e.ref = c.key /\ CommandOf(e.type, run'[r].iteration) = c.op
       /\ \A e, f \in rows : e.type = f.type => e = f
       /\ \A q \in Runs : \A e \in events'[q] : OldEvent(q, e) \/ (q = r /\ e \in rows)

LEMMA OneRow ==
  ASSUME NEW n, NEW a, NEW ref
  PROVE  NewRows(n, <<a>>, ref) = {[sequence |-> n + 1, type |-> a, ref |-> ref]}
  BY DEF NewRows

LEMMA TwoRows ==
  ASSUME NEW n, NEW a, NEW b, NEW ref
  PROVE  NewRows(n, <<a, b>>, ref) = {[sequence |-> n + 1, type |-> a, ref |-> ref],
                                      [sequence |-> n + 2, type |-> b, ref |-> ref]}
  BY DEF NewRows

\* The events of these commands carry their key whatever the iteration.
LEMMA CommandTypes ==
  /\ \A i \in Nat : CommandOf("review.resolved", i) = "resolve-evidence-review"
  /\ \A i \in Nat : /\ CommandOf("run.cancel.requested", i) = "cancel-run"
                    /\ CommandOf("run.cancelled", i) = "cancel-run"
  /\ \A i \in Nat : /\ CommandOf("run.instruction.added", i) = "add-instruction"
                    /\ CommandOf("approval.requested", i) = "add-instruction"
  BY DEF CommandOf

\* An UPDATE that records under no key, and one that does.
LEMMA ChangeQuiet ==
  ASSUME TypeOK, NEW r \in Runs, NEW state, NEW outcome, NEW bump, NEW types,
         Change(r, state, outcome, bump, types, NoKey)
  PROVE  Quiet
  <1>1. \A e \in NewRows(run[r].seq, types, NoKey) : e.ref = NoKey
    BY DEF NewRows
  <1>2. QED
    BY <1>1, ChangeFields DEF Quiet, OldEvent

LEMMA ChangeCommanded ==
  ASSUME TypeOK, NEW c, c.run \in Runs, NEW state, NEW outcome, NEW bump, NEW types,
         Change(c.run, state, outcome, bump, types, c.key),
         Claim(c) = "fresh", Record(c, "completed"), c.op # "publish-approved-run",
         \A e \in NewRows(run[c.run].seq, types, c.key) :
           e.ref = c.key /\ \A i \in Nat : CommandOf(e.type, i) = c.op,
         \A e, f \in NewRows(run[c.run].seq, types, c.key) : e.type = f.type => e = f
  PROVE  Commanded(c)
  <1> DEFINE rows == NewRows(run[c.run].seq, types, c.key)
  <1>1. run'[c.run].iteration \in Nat /\ run'[c.run].iteration = run[c.run].iteration
    <2>1. run[c.run].iteration \in Nat
      BY DEF TypeOK, RunRow
    <2>2. QED
      BY <2>1, ChangeFields
  <1>2. \A q \in Runs : \A e \in events'[q] : OldEvent(q, e) \/ (q = c.run /\ e \in rows)
    BY ChangeFields DEF OldEvent
  <1>3. \A e \in rows : e.ref = c.key /\ CommandOf(e.type, run'[c.run].iteration) = c.op
    BY <1>1
  <1> HIDE DEF rows
  <1>4. \A e, f \in rows : e.type = f.type => e = f
    BY DEF rows
  <1>5. QED
    BY <1>2, <1>3, <1>4 DEF Commanded

\* Every step records in one of these three ways.
LEMMA StepEvents ==
  ASSUME TypeOK, VersionIdentifiesState, RunsStarted, [Next]_vars
  PROVE  \/ Quiet
         \/ \E r \in Runs, x \in Correlations : Provided(r, x)
         \/ \E c \in Commands : Commanded(c)
  <1>a. \A c \in Commands : Exists(c.run) => c.run \in Runs
    BY DEF Exists
  <1>b. \A p \in Procs : proc[p].pc \in {"controlling", "publishing"} =>
          proc[p].cmd \in Commands /\ proc[p].cmd.run \in Runs
    BY DEF TypeOK, Exists
  <1>1. ASSUME UNCHANGED <<run, events>> PROVE Quiet
    BY <1>1 DEF Quiet, OldEvent
  <1>2. ASSUME NEW c \in Commands, StartRun(c) \/ CreateNextIteration(c) PROVE Commanded(c)
    <2>a. PICK r \in Runs, iteration \in Nat :
            /\ \E task : InsertRun(r, task, iteration, c.key)
            /\ CommandOf("run.created", iteration) = c.op
      <3>1. CASE StartRun(c)
        <4>1. CommandOf("run.created", 1) = c.op
          BY <3>1 DEF StartRun, CommandOf
        <4>2. QED
          BY <3>1, <4>1 DEF StartRun
      <3>2. CASE CreateNextIteration(c)
        <4>1. run[c.run].iteration \in Nat \ {0}
          BY <1>a, <3>2 DEF CreateNextIteration, RunsStarted
        <4>2. run[c.run].iteration + 1 \in Nat /\ run[c.run].iteration + 1 # 1
          BY <4>1
        <4>3. CommandOf("run.created", run[c.run].iteration + 1) = c.op
          BY <3>2, <4>2 DEF CreateNextIteration, CommandOf
        <4>4. QED
          BY <3>2, <4>2, <4>3 DEF CreateNextIteration
      <3>3. QED
        BY <1>2, <3>1, <3>2
    <2>1. PICK task : InsertRun(r, task, iteration, c.key)
      BY <2>a
    <2> DEFINE rows == NewRows(0, <<"run.created">>, c.key)
    <2>2. \A e \in rows : e.ref = c.key /\ e.type = "run.created"
      BY DEF NewRows
    <2>3. \A e, f \in rows : e = f
      BY OneRow
    <2>4. run'[r].iteration = iteration /\ events'[r] = rows
          /\ \A q \in Runs \ {r} : run'[q] = run[q] /\ events'[q] = events[q]
      BY <2>1, InsertFields DEF NewRun
    <2> HIDE DEF rows
    <2>5. \A q \in Runs : \A e \in events'[q] : OldEvent(q, e) \/ (q = r /\ e \in rows)
      BY <2>4 DEF OldEvent
    <2>6. /\ Claim(c) = "fresh" /\ Record(c, "completed") /\ c.op # "publish-approved-run"
      BY <1>2 DEF StartRun, CreateNextIteration
    <2>7. QED
      BY <2>a, <2>2, <2>3, <2>4, <2>5, <2>6 DEF Commanded
  <1>3. ASSUME NEW c \in Commands, PrepareEvidence(c) PROVE Quiet
    BY <1>3, <1>a, ChangeQuiet DEF PrepareEvidence
  <1>4. ASSUME NEW c \in Commands, ResolveReview(c) PROVE Commanded(c)
    <2>1. \A n : \A e \in NewRows(n, <<"review.resolved">>, c.key) :
            e.ref = c.key /\ \A i \in Nat : CommandOf(e.type, i) = "resolve-evidence-review"
      BY OneRow, CommandTypes
    <2>2. \A n : \A e, f \in NewRows(n, <<"review.resolved">>, c.key) : e = f
      BY OneRow
    <2>3. QED
      BY <1>4, <1>a, <2>1, <2>2, ChangeCommanded DEF ResolveReview
  <1>5. ASSUME NEW p \in Procs, CommitCancel(p) PROVE Commanded(proc[p].cmd)
    <2> DEFINE c == proc[p].cmd
               types == <<"run.cancel.requested", "run.cancelled">>
    <2>1. \A n : \A e \in NewRows(n, types, c.key) :
            e.ref = c.key /\ \A i \in Nat : CommandOf(e.type, i) = "cancel-run"
      BY TwoRows, CommandTypes
    <2>2. \A n : \A e, f \in NewRows(n, types, c.key) : e.type = f.type => e = f
      BY TwoRows
    <2>3. /\ c.run \in Runs /\ c.op = "cancel-run"
          /\ Claim(c) = "fresh" /\ Record(c, "completed")
          /\ Change(c.run, "cancelled", run[c.run].outcome, 2, types, c.key)
      BY <1>5, <1>b DEF CommitCancel, Controlling
    <2> HIDE DEF c, types
    <2>4. Commanded(c)
      BY <2>1, <2>2, <2>3, ChangeCommanded
    <2>5. QED
      BY <2>4 DEF c
  <1>6. ASSUME NEW p \in Procs, CommitInstruction(p) PROVE Commanded(proc[p].cmd)
    <2> DEFINE c == proc[p].cmd
               Told(types) == Change(c.run, run[c.run].state, run[c.run].outcome, 1, types, c.key)
               asking == <<"run.instruction.added", "approval.requested">>
               adding == <<"run.instruction.added">>
    <2>1. \A n : \A e \in NewRows(n, asking, c.key) \cup NewRows(n, adding, c.key) :
            e.ref = c.key /\ \A i \in Nat : CommandOf(e.type, i) = "add-instruction"
      <3> TAKE n
      <3>1. NewRows(n, adding, c.key) = {[sequence |-> n + 1, type |-> "run.instruction.added", ref |-> c.key]}
        BY OneRow
      <3>2. NewRows(n, asking, c.key) = {[sequence |-> n + 1, type |-> "run.instruction.added", ref |-> c.key],
                                         [sequence |-> n + 2, type |-> "approval.requested", ref |-> c.key]}
        BY TwoRows
      <3> HIDE DEF c, asking, adding
      <3>3. TAKE e \in NewRows(n, asking, c.key) \cup NewRows(n, adding, c.key)
      <3>4. e.ref = c.key /\ e.type \in {"run.instruction.added", "approval.requested"}
        BY <3>1, <3>2
      <3>5. QED
        BY <3>4, CommandTypes
    <2>2. \A n : /\ \A e, f \in NewRows(n, asking, c.key) : e.type = f.type => e = f
                 /\ \A e, f \in NewRows(n, adding, c.key) : e = f
      BY OneRow, TwoRows
    <2>3. /\ c.run \in Runs /\ c.op = "add-instruction"
          /\ Claim(c) = "fresh" /\ Record(c, "completed")
          /\ Told(asking) \/ Told(adding)
      BY <1>6, <1>b DEF CommitInstruction, Controlling
    <2> HIDE DEF c, asking, adding
    <2>4. Commanded(c)
      BY <2>1, <2>2, <2>3, ChangeCommanded
    <2>5. QED
      BY <2>4 DEF c
  <1>7. ASSUME NEW p \in Procs, NEW c \in Commands, BeginPublication(p, c) PROVE Quiet
    BY <1>1, <1>7, <1>a, ChangeQuiet DEF BeginPublication
  <1>8. ASSUME NEW p \in Procs, FailPublication(p) PROVE Quiet
    BY <1>8, <1>b, ChangeQuiet DEF FailPublication
  <1>9. ASSUME NEW p \in Procs, CompletePublication(p) PROVE Quiet
    <2> DEFINE c == proc[p].cmd
    <2>1. \A n : \A e \in NewRows(n, <<"publication.completed">>, c.key) :
            e.type = "publication.completed"
      BY OneRow
    <2>2. c.run \in Runs
      BY <1>9, <1>b DEF CompletePublication
    <2>3. QED
      BY <1>9, <2>1, <2>2, ChangeFields DEF CompletePublication, Quiet, OldEvent
  <1>10. ASSUME NEW p \in Procs, TransitionRun(p) PROVE Quiet
    BY <1>1, <1>10, ChangeQuiet DEF TransitionRun, VersionIdentifiesState, Exists
  <1>11. ASSUME NEW r \in Runs, NEW k, NEW d, ResolveApproval(r, k, d) PROVE Quiet
    BY <1>11, ChangeQuiet DEF ResolveApproval
  <1>12. ASSUME NEW r \in Runs, Heartbeat(r) PROVE Quiet
    BY <1>12 DEF Heartbeat, TypeOK, Quiet, OldEvent
  <1>13. ASSUME NEW S \in SUBSET ActiveRuns, FailStaleRuns(S) PROVE Quiet
    <2>1. \A q \in Runs : run'[q].iteration = run[q].iteration
      <3> TAKE q \in Runs
      <3>1. run[q] \in RunRow
        BY DEF TypeOK
      <3>2. \/ run'[q] = run[q]
            \/ run'[q] = [run[q] EXCEPT !.state = "failed", !.version = @ + 1, !.seq = @ + 1]
        BY <1>13 DEF FailStaleRuns
      <3>3. QED
        BY <3>1, <3>2 DEF RunRow
    <2>2. \A q \in Runs : \A e \in events'[q] : e \in events[q] \/ e.ref = NoKey
      <3>1. \A n : \A e \in NewRows(n, <<"run.failed">>, NoKey) : e.ref = NoKey
        BY DEF NewRows
      <3>2. QED
        BY <1>13, <3>1 DEF FailStaleRuns
    <2>3. QED
      BY <2>1, <2>2 DEF Quiet, OldEvent
  <1>14. ASSUME NEW r \in Runs, NEW x \in Correlations, AppendProviderEvent(r, x)
         PROVE  Provided(r, x)
    <2> DEFINE row == [sequence |-> run[r].seq + 1, type |-> "provider.event", ref |-> x]
    <2>1. NewRows(run[r].seq, <<"provider.event">>, x) = {row}
      BY OneRow
    <2>2. row.type = "provider.event" /\ row.ref = x
      OBVIOUS
    <2> HIDE DEF row
    <2>3. \A q \in Runs : \A e \in events'[q] : OldEvent(q, e) \/ (q = r /\ e = row)
      BY <1>14, <2>1, ChangeFields DEF AppendProviderEvent, OldEvent
    <2>4. QED
      BY <1>14, <2>2, <2>3 DEF AppendProviderEvent, Provided
  <1>15. ASSUME NEW c \in Commands, ClientStep(c) PROVE Quiet \/ Commanded(c)
    BY <1>1, <1>2, <1>3, <1>4, <1>15
    DEF ClientStep, ReplayCommand, RefuseCommand, ReusePublication, AnswerPublication, database
  <1>16. ASSUME NEW p \in Procs, ProcStep(p) PROVE Quiet \/ \E c \in Commands : Commanded(c)
    <2>1. CASE CommitCancel(p) \/ CommitInstruction(p)
      BY <1>5, <1>6, <1>b, <2>1 DEF CommitCancel, CommitInstruction, Controlling
    <2>2. QED
      BY <1>1, <1>7, <1>8, <1>9, <1>10, <1>16, <2>1
      DEF ProcStep, ReadForControl, FinishControl, ReadSnapshot, Crash, database
  <1>17. QED
    BY <1>1, <1>11, <1>12, <1>13, <1>14, <1>15, <1>16 DEF Next, vars

\* A completed claim stays completed, but for those of publications.
LEMMA ClaimsStep ==
  ASSUME TypeOK, [Next]_vars, NEW op \in Ops \ {"publish-approved-run"}, NEW k \in Keys,
         idem[<<op, k>>].status = "completed"
  PROVE  idem'[<<op, k>>].status = "completed"
  <1>1. CASE UNCHANGED idem
    BY <1>1
  <1>2. ASSUME NEW c, Record(c, "completed") PROVE idem'[<<op, k>>].status = "completed"
    BY <1>2 DEF Record, TypeOK
  <1>3. ASSUME NEW c, c.op = "publish-approved-run", Record(c, "pending")
        PROVE  idem'[<<op, k>>].status = "completed"
    <2>1. <<c.op, c.key>> # <<op, k>>
      BY <1>3
    <2>2. QED
      BY <1>3, <2>1 DEF Record, TypeOK
  <1>4. ASSUME NEW c \in Commands, ClientStep(c) PROVE idem'[<<op, k>>].status = "completed"
    BY <1>1, <1>2, <1>4
    DEF ClientStep, StartRun, PrepareEvidence, ResolveReview, CreateNextIteration,
        ReplayCommand, RefuseCommand, ReusePublication, AnswerPublication, database
  <1>5. ASSUME NEW p \in Procs, ProcStep(p) PROVE idem'[<<op, k>>].status = "completed"
    BY <1>1, <1>2, <1>3, <1>5
    DEF ProcStep, ReadForControl, CommitCancel, CommitInstruction, FinishControl,
        BeginPublication, FailPublication, CompletePublication, ReadSnapshot, TransitionRun,
        Crash, database
  <1>6. QED
    BY <1>1, <1>4, <1>5
    DEF Next, vars, ResolveApproval, Heartbeat, FailStaleRuns, AppendProviderEvent

\* The events of commands that were there keep their claims.
LEMMA OldClaimed ==
  ASSUME TypeOK, KeysClaimed, [Next]_vars, NEW r \in Runs, NEW e, OldEvent(r, e),
         e.ref # NoKey, e.type \notin {"provider.event", "publication.completed"}
  PROVE  /\ CommandOf(e.type, run'[r].iteration) \in Ops \ {"publish-approved-run"}
         /\ e.ref \in Keys
         /\ idem'[<<CommandOf(e.type, run'[r].iteration), e.ref>>].status = "completed"
  BY ClaimsStep DEF KeysClaimed, OldEvent

LEMMA ClaimedStep ==
  ASSUME TypeOK, VersionIdentifiesState, RunsStarted, KeysClaimed, [Next]_vars
  PROVE  KeysClaimed'
  <1> SUFFICES ASSUME NEW r \in Runs, NEW e \in events'[r],
                      e.ref # NoKey, e.type \notin {"provider.event", "publication.completed"}
               PROVE  /\ CommandOf(e.type, run'[r].iteration) \in Ops \ {"publish-approved-run"}
                      /\ e.ref \in Keys
                      /\ idem'[<<CommandOf(e.type, run'[r].iteration), e.ref>>].status = "completed"
    BY DEF KeysClaimed
  <1>1. CASE OldEvent(r, e)
    BY <1>1, OldClaimed
  <1>2. ASSUME NEW c \in Commands, Commanded(c), ~OldEvent(r, e)
        PROVE  /\ CommandOf(e.type, run'[r].iteration) = c.op /\ e.ref = c.key
               /\ c.op \in Ops \ {"publish-approved-run"} /\ c.key \in Keys
               /\ idem'[<<c.op, c.key>>].status = "completed"
    <2>1. c.op \in Ops \ {"publish-approved-run"} /\ c.key \in Keys
      BY <1>2, CommandFields DEF Commanded
    <2>2. CommandOf(e.type, run'[r].iteration) = c.op /\ e.ref = c.key
      BY <1>2 DEF Commanded
    <2>3. idem'[<<c.op, c.key>>].status = "completed"
      BY <1>2, <2>1 DEF Commanded, Record, TypeOK
    <2>4. QED
      BY <2>1, <2>2, <2>3
  <1>3. QED
    BY <1>1, <1>2, StepEvents DEF Quiet, Provided

LEMMA RecordedStep ==
  ASSUME TypeOK, VersionIdentifiesState, RunsStarted, KeysClaimed, RecordedOnce, [Next]_vars
  PROVE  RecordedOnce'
  <1> DEFINE Same(r, e, q, f) ==
               /\ e.ref = f.ref /\ e.ref # NoKey
               /\ e.type = f.type /\ e.type # "publication.completed"
               /\ e.type = "run.created" => (run'[r].iteration = 1 <=> run'[q].iteration = 1)
               /\ e.type = "provider.event" => r = q
  <1> SUFFICES ASSUME NEW r \in Runs, NEW q \in Runs, NEW e \in events'[r], NEW f \in events'[q],
                      Same(r, e, q, f)
               PROVE  r = q /\ e = f
    BY DEF RecordedOnce
  <1>1. CASE OldEvent(r, e) /\ OldEvent(q, f)
    BY <1>1 DEF OldEvent, RecordedOnce
  <1>2. CASE Quiet
    BY <1>1, <1>2 DEF Quiet
  <1>3. ASSUME NEW s \in Runs, NEW x, Provided(s, x) PROVE r = q /\ e = f
    BY <1>1, <1>3 DEF Provided, OldEvent
  <1>4. ASSUME NEW c \in Commands, Commanded(c) PROVE r = q /\ e = f
    <2>1. idem[<<c.op, c.key>>].status # "completed" /\ c.op \in Ops
      BY <1>4, CommandFields DEF Commanded, Claim, Absent
    <2>2. CommandOf("provider.event", 0) = "none" /\ "none" \notin Ops
      BY DEF CommandOf, Ops
    <2>3. ASSUME NEW s \in Runs, NEW g \in events[s], run'[s].iteration = run[s].iteration,
                 g.ref = c.key, g.type # "publication.completed"
          PROVE  CommandOf(g.type, run'[s].iteration) # c.op
      <3>1. CASE g.type = "provider.event"
        BY <2>1, <2>2, <3>1 DEF CommandOf
      <3>2. CASE g.type # "provider.event"
        <4>1. c.key # NoKey
          BY Sentinels, CommandFields
        <4>2. idem[<<CommandOf(g.type, run[s].iteration), c.key>>].status = "completed"
          BY <2>3, <3>2, <4>1 DEF KeysClaimed
        <4>3. QED
          BY <2>1, <2>3, <4>2
      <3>3. QED
        BY <3>1, <3>2
    <2>4. CommandOf(e.type, run'[r].iteration) = CommandOf(f.type, run'[q].iteration)
      BY DEF CommandOf
    <2>5a. PICK s \in Runs : \E rows :
            /\ \A g \in rows : g.ref = c.key /\ CommandOf(g.type, run'[s].iteration) = c.op
            /\ \A g, h \in rows : g.type = h.type => g = h
            /\ \A t \in Runs : \A g \in events'[t] : OldEvent(t, g) \/ (t = s /\ g \in rows)
      BY <1>4 DEF Commanded
    <2>5. PICK rows :
            /\ \A g \in rows : g.ref = c.key /\ CommandOf(g.type, run'[s].iteration) = c.op
            /\ \A g, h \in rows : g.type = h.type => g = h
            /\ \A t \in Runs : \A g \in events'[t] : OldEvent(t, g) \/ (t = s /\ g \in rows)
      BY <2>5a
    <2>6. CASE OldEvent(r, e) /\ ~OldEvent(q, f)
      BY <2>3, <2>4, <2>5, <2>6 DEF OldEvent
    <2>7. CASE OldEvent(q, f) /\ ~OldEvent(r, e)
      BY <2>3, <2>4, <2>5, <2>7 DEF OldEvent
    <2>8. CASE ~OldEvent(q, f) /\ ~OldEvent(r, e)
      BY <2>5, <2>8
    <2>9. QED
      BY <1>1, <2>6, <2>7, <2>8
  <1>5. QED
    BY <1>2, <1>3, <1>4, StepEvents

-----------------------------------------------------------------------------
(* The theorems.                                                            *)

LEMMA ReviewInvInit == Init => ReviewInv
  <1> SUFFICES ASSUME Init PROVE ReviewInv
    OBVIOUS
  <1>1. IInv
    BY IInvInit
  <1>2. \A r \in Runs : /\ run[r].state = Absent /\ run[r].outcome = "none"
                       /\ run[r].iteration = 0 /\ events[r] = {}
                       /\ review[r] = NoReview /\ publication[r].status = Absent
    BY DEF Init, AbsentRun, NoPublication
  <1>3. \A p \in Procs : proc[p].pc = "idle"
    BY DEF Init, Idle
  <1>4. RunsStarted /\ ReviewsSettled
    BY <1>2 DEF RunsStarted, Exists, ReviewsSettled
  <1>5. PublicationsIntended /\ PublicationApproved
    BY <1>2, <1>3 DEF PublicationsIntended, PublicationApproved
  <1>6. IterationsFollowRejections
    BY <1>2 DEF IterationsFollowRejections
  <1>7. KeysClaimed /\ RecordedOnce
    BY <1>2 DEF KeysClaimed, RecordedOnce
  <1>8. QED
    BY <1>1, <1>4, <1>5, <1>6, <1>7 DEF ReviewInv

LEMMA ReviewInvStep == ReviewInv /\ [Next]_vars => ReviewInv'
  BY IInvStep, StartedStep, SettledStep, IntendedStep, ApprovedStep, IterationsStep,
     ClaimedStep, RecordedStep
  DEF ReviewInv, IInv

LEMMA ReviewInvariance == Spec => []ReviewInv
  BY ReviewInvInit, ReviewInvStep, PTL DEF Spec

\* A review decision is final, with the change set it was taken on, whatever
\* workers, late commands and publications do to the run afterwards.
THEOREM DecisionIsFinal == Spec => ReviewFinal
  <1>1. ReviewInv /\ [Next]_vars =>
          [\A r \in Runs : review[r] # NoReview =>
             review'[r] = review[r] /\ changeSet'[r] = changeSet[r]]_vars
    BY ReviewKept DEF ReviewInv, IInv
  <1>2. QED
    BY <1>1, ReviewInvariance, PTL DEF Spec, ReviewFinal

\* Nothing is sent to the source provider but the approved snapshot of a run
\* whose gate was clear.
THEOREM OnlyApprovedIsPublished == Spec => []PublicationApproved
  <1>1. ReviewInv => PublicationApproved
    BY DEF ReviewInv
  <1>2. QED
    BY <1>1, ReviewInvariance, PTL

\* A later iteration stands behind a rejected run of its task, and is the only
\* one of its number.
THEOREM IterationsAreEarned == Spec => []IterationsFollowRejections
  <1>1. ReviewInv => IterationsFollowRejections
    BY DEF ReviewInv
  <1>2. QED
    BY <1>1, ReviewInvariance, PTL

\* A command records each of its events once under its key, and a provider event
\* is recorded once in its run, however often they are delivered.
THEOREM EventsRecordedOnce == Spec => []RecordedOnce
  <1>1. ReviewInv => RecordedOnce
    BY DEF ReviewInv
  <1>2. QED
    BY <1>1, ReviewInvariance, PTL
=============================================================================
